------------------------- MODULE RepositoriesProofs -------------------------
(***************************************************************************)
(* Every reference of every store holds, every identity is unique, a call  *)
(* leaves the other account's rows alone, every change moves the sync      *)
(* version and is dated, and the Postgres backend implements the contract  *)
(* of RepositoryContract: for every store that calls can reach and for any *)
(* number of calls.                                                        *)
(*                                                                         *)
(* The operations of both backends are built from a few kinds of change of *)
(* the tables.  The first part proves of each kind that it keeps a store   *)
(* well formed; the second that each operation is made of these kinds; the *)
(* third puts the calls of the specification together.  The rest goes the  *)
(* same way for the triggers: what a statement, an operation and a call do *)
(* to the versions and to the updated_at of what they change.              *)
(* The last part reads the views of the contract off the changes of the    *)
(* tables, call by call.                                                   *)
(* RepositoryStores defines the notions these lemmas are stated in.        *)
(***************************************************************************)
EXTENDS RepositoryStores, TLAPS, WellFoundedInduction, FiniteSetTheorems

---------------------------------------------------------------------------
(* Kinds of change of one table *)

LEMMA StoreDomain == DOMAIN EmptyStore = Tables \cup {"fired"} /\ "fired" \notin Tables
BY DEF EmptyStore, Tables, OwnedTables, ChildTables

LEMMA SQInsertRow ==
    ASSUME NEW s, IsStore(s), NEW tab \in Tables, NEW row
    PROVE  Inserts(s, SQ!InsertRow(s, tab, row), tab, {row})
BY StoreDomain DEF IsStore, Inserts, SQ!InsertRow, SQ!SyncBump, Alters

LEMMA SQUpdateRow ==
    ASSUME NEW s, IsStore(s), NEW tab \in Tables, NEW old, NEW new
    PROVE  Swaps(s, SQ!UpdateRow(s, tab, old, new), tab, old, new)
BY StoreDomain DEF IsStore, Swaps, SQ!UpdateRow, SQ!SyncBump, Alters

LEMMA SQDeleteRows ==
    ASSUME NEW s, IsStore(s), NEW tab \in Tables, NEW rows
    PROVE  Removes(s, SQ!DeleteRows(s, tab, rows), tab, rows)
BY StoreDomain DEF IsStore, Removes, SQ!DeleteRows, SQ!SyncBump, Alters

\* An UPDATE is one swap of rows or two.
LEMMA SwapsUpdate ==
    ASSUME NEW s, NEW tab \in Tables, NEW old, NEW new, NEW m, NEW t, Swaps(s, t, tab, old, new)
    PROVE  /\ Updates(s, t, tab, old, new)
           /\ \A q : Swaps(t, q, tab, new, [new EXCEPT !.upd = m]) => Updates(s, q, tab, old, new)
<1>1. ASSUME NEW q, NEW x, x = [new EXCEPT !.upd = m], Swaps(t, q, tab, new, x)
      PROVE  Updates(s, q, tab, old, new)
  <2>1. Stamped(new, x)
    BY <1>1 DEF Stamped
  <2>2. q[tab] = (s[tab] \ {old, new}) \cup {x}
    BY <1>1 DEF Swaps
  <2> QED  BY <2>1, <2>2, <1>1 DEF Updates, Swaps, Alters
<1> QED  BY <1>1 DEF Stamped, Updates, Swaps

LEMMA SQUpdateTouched ==
    ASSUME NEW s, IsStore(s), NEW tab \in Tables, NEW old, NEW new, NEW m
    PROVE  Updates(s, SQ!UpdateTouched(s, tab, old, new, m), tab, old, new)
<1> DEFINE x == [new EXCEPT !.upd = SQ!FormatUTCMillis(m)]
           first == SQ!UpdateRow(s, tab, old, new)
           second == SQ!UpdateRow(first, tab, new, x)
<1>1. Swaps(s, first, tab, old, new)
  BY SQUpdateRow
<1>2. Swaps(first, second, tab, new, x)
  <2>1. IsStore(first)
    BY <1>1 DEF Swaps, Alters
  <2> HIDE DEF first, x
  <2> QED  BY <2>1, SQUpdateRow
<1>3. SQ!UpdateTouched(s, tab, old, new, m) = IF new.upd = old.upd THEN second ELSE first
  BY DEF SQ!UpdateTouched
<1> HIDE DEF first, second
<1> QED  BY <1>1, <1>2, <1>3, SwapsUpdate

LEMMA WellFoundedNat ==
    ASSUME NEW T, T \subseteq Nat, T # {}
    PROVE  \E m \in T : \A k \in T : m <= k
<1> DEFINE R == OpToRel(<, Nat)
<1>1. IsWellFoundedOn(R, Nat)
  BY NatLessThanWellFounded
<1>2. \A y, x \in Nat : y < x => <<y, x>> \in R
  BY DEF OpToRel
<1> HIDE DEF R
<1>3. PICK x \in T : \A y \in T : ~ (<<y, x>> \in R)
  BY <1>1, WFMin
<1>4. ASSUME NEW k \in T
      PROVE  x <= k
  <2>1. x \in Nat /\ k \in Nat
    BY <1>3
  <2>2. ~ (k < x)
    BY <1>2, <1>3, <2>1, Zenon
  <2> QED  BY <2>1, <2>2
<1> QED  BY <1>4
---------------------------------------------------------------------------
(* Each kind of change keeps a store well formed and the others untouched. *)

LEMMA GoodTrans ==
    ASSUME NEW s, NEW t, NEW q, NEW u, Good(s, t, u), Good(t, q, u)
    PROVE  Good(s, q, u)
BY DEF Good, Untouched

LEMMA GoodTemplates ==
    ASSUME NEW s, NEW t, NEW u, Wf(s), Alters(s, t, {"templates"}),
           \A x \in t.templates : DOMAIN x = TemplateCols
    PROVE  Good(s, t, u)
<1>1. \A k \in {"records", "sessions", "projects", "devices", "paths", "figures", "dataFiles", "items"} :
         t[k] = s[k]
  BY DEF Alters, Tables, OwnedTables, ChildTables
<1>2. RowsTyped(t)
  BY <1>1 DEF Wf, RowsTyped
<1>3. Unique(t)
  BY <1>1 DEF Wf, Unique, RecordsUnique, SessionsUnique
<1>4. Refs(t)
  BY <1>1 DEF Wf, Refs, ChildRefs, ItemRefs, RecordRefsHold, PathRefs, SessionRefsHold, Apart,
              ProjectExists, DeviceExists
<1>5. Untouched(s, t, u)
  BY <1>1 DEF Untouched, OwnedTables, ChildTables, UserRows, ChildrenOf, ItemsSeenBy
<1> QED  BY <1>2, <1>3, <1>4, <1>5 DEF Good, Wf, Alters

LEMMA GoodRecords ==
    ASSUME NEW s, NEW t, NEW u, Wf(s), Alters(s, t, {"records"}),
           \A r \in t.records : DOMAIN r = RecordCols,
           RecordsUnique(t), RecordRefsHold(t), Apart(t),
           ChildRefs(t, s.figures), ChildRefs(t, s.dataFiles),
           \A v : v # u => UserRows(t, "records", v) = UserRows(s, "records", v)
    PROVE  Good(s, t, u)
<1>1. \A k \in {"sessions", "projects", "devices", "paths", "figures", "dataFiles", "items", "templates"} :
         t[k] = s[k]
  BY DEF Alters, Tables, OwnedTables, ChildTables
<1>2. RowsTyped(t)
  BY <1>1 DEF Wf, RowsTyped
<1>3. Unique(t)
  BY <1>1 DEF Wf, Unique, SessionsUnique
<1>4. Refs(t)
  BY <1>1 DEF Wf, Refs, ChildRefs, ItemRefs, PathRefs, SessionRefsHold, ProjectExists, DeviceExists
<1>5. Untouched(s, t, u)
  BY <1>1 DEF Untouched, OwnedTables, UserRows, ChildTables, ChildrenOf, ItemsSeenBy
<1> QED  BY <1>2, <1>3, <1>4, <1>5 DEF Good, Wf, Alters

LEMMA GoodSessions ==
    ASSUME NEW s, NEW t, NEW u, Wf(s), Alters(s, t, {"sessions"}),
           \A c \in t.sessions : DOMAIN c = SessionCols /\ (c.cwd = None \/ c.cwd \in Seq(Nat)),
           SessionsUnique(t), SessionRefsHold(t), Apart(t), ItemRefs(t),
           \A v : v # u => UserRows(t, "sessions", v) = UserRows(s, "sessions", v)
    PROVE  Good(s, t, u)
<1>1. \A k \in {"records", "projects", "devices", "paths", "figures", "dataFiles", "items", "templates"} :
         t[k] = s[k]
  BY DEF Alters, Tables, OwnedTables, ChildTables
<1>2. RowsTyped(t)
  BY <1>1 DEF Wf, RowsTyped
<1>3. Unique(t)
  BY <1>1 DEF Wf, Unique, RecordsUnique
<1>4. Refs(t)
  BY <1>1 DEF Wf, Refs, ChildRefs, RecordRefsHold, PathRefs, ProjectExists, DeviceExists
<1>5. Untouched(s, t, u)
  BY <1>1 DEF Untouched, OwnedTables, UserRows, ChildTables, ChildrenOf, ItemsSeenBy
<1> QED  BY <1>2, <1>3, <1>4, <1>5 DEF Good, Wf, Alters

LEMMA GoodChildren ==
    ASSUME NEW s, NEW t, NEW u, NEW tab \in ChildTables, Wf(s), Alters(s, t, {tab}),
           \A f \in t[tab] : DOMAIN f = ChildCols,
           NamesUnique(t[tab]), ChildRefs(s, t[tab]),
           \A v : v # u => ChildrenOf(t, tab, v) = ChildrenOf(s, tab, v)
    PROVE  Good(s, t, u)
<1>1. \A k \in {"records", "sessions", "projects", "devices", "paths", "items", "templates"} : t[k] = s[k]
  BY DEF Alters, Tables, OwnedTables, ChildTables
<1>2. \A k \in ChildTables : k # tab => t[k] = s[k]
  BY DEF Alters, Tables, ChildTables
<1>3. RowsTyped(t)
  BY <1>2, <1>1 DEF ChildTables, Wf, RowsTyped
<1>4. Unique(t)
  BY <1>2, <1>1 DEF ChildTables, Wf, Unique, RecordsUnique, SessionsUnique
<1>5. Refs(t)
  <2>1. ItemRefs(t) /\ RecordRefsHold(t) /\ PathRefs(t) /\ SessionRefsHold(t) /\ Apart(t)
    BY <1>1 DEF Wf, Refs, ItemRefs, RecordRefsHold, PathRefs, SessionRefsHold, Apart,
                ProjectExists, DeviceExists
  <2> QED  BY <1>2, <1>1, <2>1 DEF ChildTables, Refs, Wf, ChildRefs
<1>6. Untouched(s, t, u)
  BY <1>1, <1>2 DEF Untouched, OwnedTables, UserRows, ChildrenOf, ItemsSeenBy
<1> QED  BY <1>3, <1>4, <1>5, <1>6 DEF Good, Wf, Alters

LEMMA GoodItems ==
    ASSUME NEW s, NEW t, NEW u, Wf(s), Alters(s, t, {"items"}),
           OrdinalsUnique(t.items), ItemRefs(t),
           \A v : v # u => ItemsSeenBy(t, v) = ItemsSeenBy(s, v)
    PROVE  Good(s, t, u)
<1>1. \A k \in {"records", "sessions", "projects", "devices", "paths", "figures", "dataFiles", "templates"} :
         t[k] = s[k]
  BY DEF Alters, Tables, OwnedTables, ChildTables
<1>2. RowsTyped(t)
  BY <1>1 DEF Wf, RowsTyped
<1>3. Unique(t)
  BY <1>1 DEF Wf, Unique, RecordsUnique, SessionsUnique
<1>4. Refs(t)
  BY <1>1 DEF Wf, Refs, ChildRefs, RecordRefsHold, PathRefs, SessionRefsHold, Apart,
              ProjectExists, DeviceExists
<1>5. Untouched(s, t, u)
  BY <1>1 DEF Untouched, OwnedTables, ChildTables, UserRows, ChildrenOf
<1> QED  BY <1>2, <1>3, <1>4, <1>5 DEF Good, Wf, Alters

\* Projects and devices are never deleted: their keys stay.
LEMMA GoodEntries ==
    ASSUME NEW s, NEW t, NEW u, NEW tab \in {"projects", "devices"}, Wf(s), Alters(s, t, {tab}),
           \A e \in t[tab] : DOMAIN e = EntryCols,
           \A e \in s[tab] : \E q \in t[tab] : q.user = e.user /\ q.id = e.id,
           \A v : v # u => UserRows(t, tab, v) = UserRows(s, tab, v)
    PROVE  Good(s, t, u)
<1>1. \A k \in {"records", "sessions", "paths", "figures", "dataFiles", "items", "templates"} : t[k] = s[k]
  BY DEF Alters, Tables, OwnedTables, ChildTables
<1>2. \A k \in {"projects", "devices"} : k # tab => t[k] = s[k]
  BY DEF Alters, Tables, OwnedTables
<1>3. RowsTyped(t)
  BY <1>2, <1>1 DEF Wf, RowsTyped
<1>4. Unique(t)
  BY <1>1 DEF Wf, Unique, RecordsUnique, SessionsUnique
<1>5. Refs(t)
  <2>1. \A k \in {"projects", "devices"} :
           \A e \in s[k] : \E q \in t[k] : q.user = e.user /\ q.id = e.id
    BY <1>2
  <2>2. \A row : ProjectExists(s, row) => ProjectExists(t, row)
    BY <2>1 DEF ProjectExists
  <2>3. \A row : DeviceExists(s, row) => DeviceExists(t, row)
    BY <2>1 DEF DeviceExists
  <2>4. RecordRefsHold(t) /\ PathRefs(t) /\ SessionRefsHold(t)
    BY <1>1, <2>2, <2>3 DEF Wf, Refs, RecordRefsHold, PathRefs, SessionRefsHold
  <2> QED  BY <1>1, <2>4 DEF Wf, Refs, ChildRefs, ItemRefs, Apart
<1>6. Untouched(s, t, u)
  BY <1>1, <1>2 DEF Untouched, OwnedTables, UserRows, ChildTables, ChildrenOf, ItemsSeenBy
<1> QED  BY <1>3, <1>4, <1>5, <1>6 DEF Good, Wf, Alters

LEMMA GoodPaths ==
    ASSUME NEW s, NEW t, NEW u, NEW x, Wf(s), Inserts(s, t, "paths", {x}),
           DOMAIN x = PathCols, x.user = u, x.path \in Seq(Nat), x.proj \in Nat,
           ProjectExists(s, x), DeviceExists(s, x)
    PROVE  Good(s, t, u)
<1>1. \A k \in {"records", "sessions", "projects", "devices", "figures", "dataFiles", "items", "templates"} :
         t[k] = s[k]
  BY DEF Inserts, Alters, Tables, OwnedTables, ChildTables
<1>2. RowsTyped(t)
  BY <1>1 DEF Wf, RowsTyped, Inserts
<1>3. Unique(t)
  BY <1>1 DEF Wf, Unique, RecordsUnique, SessionsUnique
<1>4. Refs(t)
  BY <1>1 DEF Wf, Refs, ChildRefs, ItemRefs, RecordRefsHold, PathRefs, SessionRefsHold, Apart,
              ProjectExists, DeviceExists, Inserts
<1>5. Untouched(s, t, u)
  BY <1>1 DEF Untouched, OwnedTables, ChildTables, UserRows, ChildrenOf, ItemsSeenBy, Inserts
<1> QED  BY <1>2, <1>3, <1>4, <1>5 DEF Good, Wf, Alters, Inserts

---------------------------------------------------------------------------
(* Rows inserted, updated and deleted *)

LEMMA RecordInserted ==
    ASSUME NEW s, NEW t, NEW u, NEW x, Wf(s), Inserts(s, t, "records", {x}),
           DOMAIN x = RecordCols, x.user = u, \A r \in s.records : r.id # x.id,
           \A c \in s.sessions : c.user = u => c.id # x.id,
           ProjectExists(s, x), DeviceExists(s, x)
    PROVE  Good(s, t, u)
<1>1. Alters(s, t, {"records"}) /\ t.records = s.records \cup {x}
  BY DEF Inserts
<1>2. \A k \in {"sessions", "projects", "devices", "templates"} : t[k] = s[k]
  BY <1>1 DEF Alters, Tables, OwnedTables
<1>3. \A r \in t.records : DOMAIN r = RecordCols
  BY <1>1 DEF Wf, RowsTyped
<1>4. RecordsUnique(t)
  BY <1>1 DEF Wf, Unique, RecordsUnique
<1>5. RecordRefsHold(t)
  BY <1>1, <1>2 DEF Wf, Refs, RecordRefsHold, ProjectExists, DeviceExists
<1>6. Apart(t)
  BY <1>1, <1>2 DEF Wf, Refs, Apart
<1>7. ChildRefs(t, s.figures) /\ ChildRefs(t, s.dataFiles)
  BY <1>1 DEF Wf, Refs, ChildRefs
<1> QED  BY <1>1, <1>3, <1>4, <1>5, <1>6, <1>7, GoodRecords DEF UserRows

\* A stamped row has the key and the references of the row it stamps.
LEMMA StampedKeeps ==
    ASSUME NEW new, NEW x, Stamped(new, x), NEW f \in DOMAIN new, f # "upd"
    PROVE  DOMAIN x = DOMAIN new /\ x[f] = new[f]
BY DEF Stamped

LEMMA RecordUpdated ==
    ASSUME NEW s, NEW t, NEW u, NEW new, Wf(s), NEW old \in s.records,
           Updates(s, t, "records", old, new), old.user = u,
           DOMAIN new = RecordCols, new.id = old.id, new.user = old.user,
           ProjectExists(s, new), DeviceExists(s, new)
    PROVE  Good(s, t, u)
<1>1. PICK x, gone : /\ Stamped(new, x) /\ old \in gone /\ gone \subseteq {old, new}
                     /\ t.records = (s.records \ gone) \cup {x}
  BY DEF Updates
<1>2. \A k \in {"sessions", "projects", "devices", "templates"} : t[k] = s[k]
  BY DEF Updates, Alters, Tables, OwnedTables
<1>3. DOMAIN x = RecordCols /\ x.id = old.id /\ x.user = u /\ x.proj = new.proj /\ x.dev = new.dev
  BY <1>1, StampedKeeps DEF RecordCols
<1>4. \A r \in gone : r.id = old.id /\ r.user = u
  BY <1>1
<1>5. \A r \in t.records : DOMAIN r = RecordCols
  BY <1>1, <1>3 DEF Wf, RowsTyped
<1>6. RecordsUnique(t)
  BY <1>1, <1>3 DEF Wf, Unique, RecordsUnique
<1>7. RecordRefsHold(t)
  BY <1>3, <1>1, <1>2 DEF ProjectExists, DeviceExists, Wf, Refs, RecordRefsHold
<1>8. Apart(t)
  BY <1>1, <1>2, <1>3 DEF Wf, Refs, Apart
<1>9. ChildRefs(t, s.figures) /\ ChildRefs(t, s.dataFiles)
  BY <1>1, <1>3, <1>4 DEF Wf, Refs, ChildRefs
<1>10. \A v : v # u => UserRows(t, "records", v) = UserRows(s, "records", v)
  BY <1>1, <1>3, <1>4 DEF UserRows
<1> QED  BY <1>5, <1>6, <1>7, <1>8, <1>9, <1>10, GoodRecords DEF Updates

\* Rows of a child table whose records are u's.
LEMMA ChildrenRemoved ==
    ASSUME NEW s, NEW t, NEW u, NEW tab \in ChildTables, NEW rows, Wf(s),
           Removes(s, t, tab, rows),
           \A f \in rows : \E r \in s.records : r.id = f.rec /\ r.user = u
    PROVE  Good(s, t, u)
<1>1. Alters(s, t, {tab}) /\ t[tab] = s[tab] \ rows
  BY DEF Removes
<1>2. t.records = s.records
  BY <1>1 DEF Alters, Tables, OwnedTables, ChildTables
<1>3. NamesUnique(t[tab]) /\ ChildRefs(s, t[tab])
  BY <1>1 DEF NamesUnique, ChildRefs, ChildTables, Wf, Unique, Refs
<1>4. ASSUME NEW v, v # u
      PROVE  ChildrenOf(t, tab, v) = ChildrenOf(s, tab, v)
  BY <1>4, <1>1, <1>2 DEF Wf, Unique, RecordsUnique, ChildrenOf
<1> QED  BY <1>1, <1>3, <1>4, GoodChildren DEF ChildTables, Wf, RowsTyped

LEMMA ChildrenInserted ==
    ASSUME NEW s, NEW t, NEW u, NEW tab \in ChildTables, NEW rows, NEW r \in s.records, Wf(s),
           Inserts(s, t, tab, rows), r.user = u,
           \A f \in rows : DOMAIN f = ChildCols /\ f.rec = r.id,
           NamesUnique(rows),
           \A f \in rows, g \in s[tab] : g.rec = r.id => g.name # f.name
    PROVE  Good(s, t, u)
<1>1. Alters(s, t, {tab}) /\ t[tab] = s[tab] \cup rows
  BY DEF Inserts
<1>2. t.records = s.records
  BY <1>1 DEF Alters, Tables, OwnedTables, ChildTables
<1>3. NamesUnique(t[tab]) /\ ChildRefs(s, t[tab])
  BY <1>1 DEF NamesUnique, ChildRefs, ChildTables, Wf, Unique, Refs
<1>4. ASSUME NEW v, v # u
      PROVE  ChildrenOf(t, tab, v) = ChildrenOf(s, tab, v)
  BY <1>4, <1>1, <1>2 DEF Wf, Unique, RecordsUnique, ChildrenOf
<1> QED  BY <1>1, <1>3, <1>4, GoodChildren DEF ChildTables, Wf, RowsTyped

LEMMA ChildSwapped ==
    ASSUME NEW s, NEW t, NEW u, NEW tab \in ChildTables, NEW old \in s[tab], NEW new, Wf(s),
           Swaps(s, t, tab, old, new), DOMAIN new = ChildCols, new.rec = old.rec,
           \A g \in s[tab] \ {old} : ~ (g.rec = new.rec /\ g.name = new.name),
           \E r \in s.records : r.id = old.rec /\ r.user = u
    PROVE  Good(s, t, u)
<1>1. Alters(s, t, {tab}) /\ t[tab] = (s[tab] \ {old}) \cup {new}
  BY DEF Swaps
<1>2. t.records = s.records
  BY <1>1 DEF Alters, Tables, OwnedTables, ChildTables
<1>3. NamesUnique(t[tab]) /\ ChildRefs(s, t[tab])
  BY <1>1 DEF NamesUnique, ChildRefs, ChildTables, Wf, Unique, Refs
<1>4. ASSUME NEW v, v # u
      PROVE  ChildrenOf(t, tab, v) = ChildrenOf(s, tab, v)
  BY <1>4, <1>1, <1>2 DEF Wf, Unique, RecordsUnique, ChildrenOf
<1> QED  BY <1>1, <1>3, <1>4, GoodChildren DEF ChildTables, Wf, RowsTyped

\* ON DELETE CASCADE: first the children, then the records that have none.
LEMMA RecordsDeleted ==
    ASSUME NEW s, NEW t, NEW u, NEW rows, Wf(s),
           \A r \in rows : r \in s.records /\ r.user = u,
           Alters(s, t, {"records", "figures", "dataFiles"}),
           t.records = s.records \ rows,
           t.figures = {f \in s.figures : f.rec \notin {r.id : r \in rows}},
           t.dataFiles = {f \in s.dataFiles : f.rec \notin {r.id : r \in rows}}
    PROVE  Good(s, t, u)
<1> DEFINE gone(tab) == {f \in s[tab] : f.rec \in {r.id : r \in rows}}
           m1 == [s EXCEPT !["figures"] = s["figures"] \ gone("figures")]
           m2 == [m1 EXCEPT !["dataFiles"] = m1["dataFiles"] \ gone("dataFiles")]
<1>1. \A tab \in ChildTables : \A f \in gone(tab) : \E r \in s.records : r.id = f.rec /\ r.user = u
  OBVIOUS
<1>2. Removes(s, m1, "figures", gone("figures"))
  BY StoreDomain DEF Wf, IsStore, Removes, Alters, Tables, ChildTables
<1>3. Good(s, m1, u)
  <2> HIDE DEF m1, gone
  <2> QED  BY <1>1, <1>2, ChildrenRemoved DEF ChildTables
<1>4. m1.records = s.records
  BY StoreDomain DEF Wf, IsStore
<1>5. Removes(m1, m2, "dataFiles", gone("dataFiles"))
  <2> HIDE DEF m1, gone
  <2> QED  BY <1>3, StoreDomain DEF Good, Wf, IsStore, Removes, Alters, Tables, ChildTables
<1>6. Good(m1, m2, u)
  <2> HIDE DEF m1, m2, gone
  <2> QED  BY <1>1, <1>3, <1>4, <1>5, ChildrenRemoved DEF ChildTables, Good
<1>7. Good(s, m2, u)
  <2> HIDE DEF m1, m2
  <2> QED  BY <1>3, <1>6, GoodTrans
<1>8. /\ m2.figures = t.figures /\ m2.dataFiles = t.dataFiles /\ m2.records = s.records
      /\ \A k \in Tables \ {"records"} : t[k] = m2[k]
  <2>1. m1.figures = s.figures \ gone("figures") /\ \A k \in Tables \ {"figures"} : m1[k] = s[k]
    BY <1>2 DEF Removes, Alters
  <2>2. m2.dataFiles = m1.dataFiles \ gone("dataFiles") /\ \A k \in Tables \ {"dataFiles"} : m2[k] = m1[k]
    BY <1>5 DEF Removes, Alters
  <2>3. t.figures = s.figures \ gone("figures") /\ t.dataFiles = s.dataFiles \ gone("dataFiles")
    OBVIOUS
  <2> HIDE DEF m1, m2, gone
  <2> QED  BY <2>1, <2>2, <2>3 DEF Alters, Tables, ChildTables, OwnedTables
<1> HIDE DEF m1, m2, gone
<1>9. Good(m2, t, u)
  <2>1. Wf(m2)
    BY <1>7 DEF Good
  <2>2. Alters(m2, t, {"records"})
    BY <1>8 DEF Alters
  <2>3. \A k \in {"sessions", "projects", "devices", "templates"} : t[k] = m2[k]
    BY <1>8 DEF Tables, OwnedTables
  <2>4. t.records = m2.records \ rows
    BY <1>8
  <2>5. \A r \in t.records : DOMAIN r = RecordCols
    BY <2>1, <2>4 DEF Wf, RowsTyped
  <2>6. RecordsUnique(t)
    BY <2>1, <2>4 DEF Wf, Unique, RecordsUnique
  <2>7. RecordRefsHold(t)
    BY <2>1, <2>3, <2>4 DEF Wf, Refs, RecordRefsHold, ProjectExists, DeviceExists
  <2>8. Apart(t)
    BY <2>1, <2>3, <2>4 DEF Wf, Refs, Apart
  <2>9. ASSUME NEW f, f \in m2.figures \/ f \in m2.dataFiles
        PROVE  \E r \in t.records : r.id = f.rec
    <3>1. PICK r \in m2.records : r.id = f.rec
      BY <2>1, <2>9 DEF Wf, Refs, ChildRefs
    <3>2. r \notin rows
      BY <3>1, <1>8, <2>9
    <3> QED  BY <2>4, <3>1, <3>2
  <2>10. ChildRefs(t, m2.figures) /\ ChildRefs(t, m2.dataFiles)
    BY <2>9 DEF ChildRefs
  <2>11. \A v : v # u => UserRows(t, "records", v) = UserRows(m2, "records", v)
    BY <2>4 DEF UserRows
  <2> QED  BY <2>1, <2>2, <2>5, <2>6, <2>7, <2>8, <2>10, <2>11, GoodRecords
<1> QED  BY <1>7, <1>9, GoodTrans

LEMMA SessionInserted ==
    ASSUME NEW s, NEW t, NEW u, NEW x, Wf(s), Inserts(s, t, "sessions", {x}),
           DOMAIN x = SessionCols, x.user = u, x.cwd = None \/ x.cwd \in Seq(Nat),
           \A c \in s.sessions : c.id # x.id,
           \A c \in s.sessions : c.user = u => c.src # x.src,
           \A r \in s.records : r.user = u => r.id # x.id,
           x.proj # None => ProjectExists(s, x), DeviceExists(s, x)
    PROVE  Good(s, t, u)
<1>1. Alters(s, t, {"sessions"}) /\ t.sessions = s.sessions \cup {x}
  BY DEF Inserts
<1>2. \A k \in {"records", "projects", "devices", "items", "templates"} : t[k] = s[k]
  BY <1>1 DEF Alters, Tables, OwnedTables
<1>3. \A c \in t.sessions : DOMAIN c = SessionCols /\ (c.cwd = None \/ c.cwd \in Seq(Nat))
  BY <1>1 DEF Wf, RowsTyped
<1>4. SessionsUnique(t)
  BY <1>1 DEF Wf, Unique, SessionsUnique
<1>5. SessionRefsHold(t)
  BY <1>1, <1>2 DEF Wf, Refs, SessionRefsHold, ProjectExists, DeviceExists
<1>6. Apart(t)
  BY <1>1, <1>2 DEF Wf, Refs, Apart
<1>7. ItemRefs(t)
  BY <1>1, <1>2 DEF Wf, Refs, ItemRefs
<1> QED  BY <1>1, <1>3, <1>4, <1>5, <1>6, <1>7, GoodSessions DEF UserRows

LEMMA SessionUpdated ==
    ASSUME NEW s, NEW t, NEW u, NEW new, Wf(s), NEW old \in s.sessions,
           Updates(s, t, "sessions", old, new), old.user = u,
           DOMAIN new = SessionCols, new.id = old.id, new.user = old.user, new.src = old.src,
           new.cwd = None \/ new.cwd \in Seq(Nat),
           new.proj # None => ProjectExists(s, new), DeviceExists(s, new)
    PROVE  Good(s, t, u)
<1>1. PICK x, gone : /\ Stamped(new, x) /\ old \in gone /\ gone \subseteq {old, new}
                     /\ t.sessions = (s.sessions \ gone) \cup {x}
  BY DEF Updates
<1>2. \A k \in {"records", "projects", "devices", "items", "templates"} : t[k] = s[k]
  BY DEF Updates, Alters, Tables, OwnedTables
<1>3. /\ DOMAIN x = SessionCols /\ x.id = old.id /\ x.user = u /\ x.src = old.src
      /\ x.proj = new.proj /\ x.dev = new.dev /\ x.cwd = new.cwd
  BY <1>1, StampedKeeps DEF SessionCols
<1>4. \A c \in gone : c.id = old.id /\ c.user = u
  BY <1>1
<1>5. \A c \in t.sessions : DOMAIN c = SessionCols /\ (c.cwd = None \/ c.cwd \in Seq(Nat))
  BY <1>3, <1>1 DEF Wf, RowsTyped
<1>6. SessionsUnique(t)
  BY <1>1, <1>3 DEF Wf, Unique, SessionsUnique
<1>7. SessionRefsHold(t)
  BY <1>3, <1>1, <1>2 DEF ProjectExists, DeviceExists, Wf, Refs, SessionRefsHold
<1>8. Apart(t)
  BY <1>1, <1>2, <1>3 DEF Wf, Refs, Apart
<1>9. ItemRefs(t)
  BY <1>1, <1>3, <1>4, <1>2 DEF Wf, Refs, ItemRefs
<1>10. \A v : v # u => UserRows(t, "sessions", v) = UserRows(s, "sessions", v)
  BY <1>1, <1>3, <1>4 DEF UserRows
<1> QED  BY <1>5, <1>6, <1>7, <1>8, <1>9, <1>10, GoodSessions DEF Updates

\* Several sessions get a project each.
LEMMA SessionsFilled ==
    ASSUME NEW s, NEW t, NEW u, NEW open, NEW filled, Wf(s), Alters(s, t, {"sessions"}),
           t.sessions = (s.sessions \ open) \cup {filled[c] : c \in open},
           \A c \in open : /\ c \in s.sessions /\ c.user = u
                           /\ DOMAIN filled[c] = SessionCols
                           /\ filled[c].id = c.id /\ filled[c].user = c.user
                           /\ filled[c].src = c.src /\ filled[c].cwd = c.cwd
                           /\ ProjectExists(s, filled[c]) /\ DeviceExists(s, filled[c])
    PROVE  Good(s, t, u)
<1>1. \A k \in {"records", "projects", "devices", "items", "templates"} : t[k] = s[k]
  BY DEF Alters, Tables, OwnedTables
<1>2. \A c \in t.sessions : c \in s.sessions \ open \/ \E d \in open : c = filled[d]
  OBVIOUS
<1>3. \A c \in t.sessions : DOMAIN c = SessionCols /\ (c.cwd = None \/ c.cwd \in Seq(Nat))
  BY <1>2 DEF Wf, RowsTyped
<1>4. SessionsUnique(t)
  BY <1>2 DEF Wf, Unique, SessionsUnique
<1>5. SessionRefsHold(t)
  BY <1>2, <1>1 DEF Wf, Refs, SessionRefsHold, ProjectExists, DeviceExists
<1>6. Apart(t)
  BY <1>1, <1>2 DEF Wf, Refs, Apart
<1>7. ItemRefs(t)
  BY <1>1 DEF Wf, Refs, ItemRefs
<1> QED  BY <1>3, <1>4, <1>5, <1>6, <1>7, GoodSessions DEF UserRows

LEMMA ItemsRemoved ==
    ASSUME NEW s, NEW t, NEW u, NEW rows, Wf(s), Removes(s, t, "items", rows),
           \A i \in rows : \E c \in s.sessions : c.id = i.sess /\ c.user = u
    PROVE  Good(s, t, u)
<1>1. Alters(s, t, {"items"}) /\ t.items = s.items \ rows
  BY DEF Removes
<1>2. t.sessions = s.sessions
  BY <1>1 DEF Alters, Tables, OwnedTables
<1>3. OrdinalsUnique(t.items) /\ ItemRefs(t)
  BY <1>1, <1>2 DEF Wf, Unique, Refs, OrdinalsUnique, ItemRefs
<1>4. ASSUME NEW v, v # u
      PROVE  ItemsSeenBy(t, v) = ItemsSeenBy(s, v)
  BY <1>4, <1>1, <1>2 DEF Wf, Unique, SessionsUnique, ItemsSeenBy
<1> QED  BY <1>1, <1>3, <1>4, GoodItems

LEMMA ItemsInserted ==
    ASSUME NEW s, NEW t, NEW u, NEW rows, NEW c \in s.sessions, Wf(s),
           Inserts(s, t, "items", rows), c.user = u,
           \A i \in rows : i.sess = c.id, OrdinalsUnique(rows),
           \A i \in rows, j \in s.items : j.sess = c.id => i.ord # j.ord
    PROVE  Good(s, t, u)
<1>1. Alters(s, t, {"items"}) /\ t.items = s.items \cup rows
  BY DEF Inserts
<1>2. t.sessions = s.sessions
  BY <1>1 DEF Alters, Tables, OwnedTables
<1>3. ItemRefs(t)
  BY <1>1, <1>2 DEF Wf, Refs, ItemRefs
<1>4. ASSUME NEW v, v # u
      PROVE  ItemsSeenBy(t, v) = ItemsSeenBy(s, v)
  BY <1>4, <1>1, <1>2 DEF Wf, Unique, SessionsUnique, ItemsSeenBy
<1> QED  BY <1>1, <1>3, <1>4, GoodItems DEF Wf, Unique, OrdinalsUnique

LEMMA SessionsDeleted ==
    ASSUME NEW s, NEW t, NEW u, NEW rows, Wf(s),
           \A c \in rows : c \in s.sessions /\ c.user = u,
           Alters(s, t, {"sessions", "items"}),
           t.sessions = s.sessions \ rows,
           t.items = {i \in s.items : i.sess \notin {c.id : c \in rows}}
    PROVE  Good(s, t, u)
<1> DEFINE gone == {i \in s.items : i.sess \in {c.id : c \in rows}}
           m == [s EXCEPT !["items"] = s["items"] \ gone]
<1>1. Removes(s, m, "items", gone)
  BY StoreDomain DEF Wf, IsStore, Removes, Alters, Tables
<1>2. \A i \in gone : \E c \in s.sessions : c.id = i.sess /\ c.user = u
  OBVIOUS
<1>3. t.items = s.items \ gone
  OBVIOUS
<1> HIDE DEF m, gone
<1>4. Good(s, m, u)
  BY <1>1, <1>2, ItemsRemoved
<1>5. m.items = s.items \ gone /\ \A k \in Tables \ {"items"} : m[k] = s[k]
  BY <1>1 DEF Removes, Alters
<1>6. m.sessions = s.sessions /\ m.items = t.items
  BY <1>3, <1>5 DEF Tables, OwnedTables
<1>7. Alters(m, t, {"sessions"})
  BY <1>5, <1>6 DEF Alters
<1>8. Good(m, t, u)
  <2>1. Wf(m)
    BY <1>4 DEF Good
  <2>2. \A k \in {"records", "projects", "devices", "items", "templates"} : t[k] = m[k]
    BY <1>7 DEF Alters, Tables, OwnedTables
  <2>3. t.sessions = m.sessions \ rows
    BY <1>6
  <2>4. \A c \in t.sessions : DOMAIN c = SessionCols /\ (c.cwd = None \/ c.cwd \in Seq(Nat))
    BY <2>1, <2>3 DEF Wf, RowsTyped
  <2>5. SessionsUnique(t)
    BY <2>1, <2>3 DEF Wf, Unique, SessionsUnique
  <2>6. SessionRefsHold(t)
    BY <2>1, <2>2, <2>3 DEF Wf, Refs, SessionRefsHold, ProjectExists, DeviceExists
  <2>7. Apart(t)
    BY <2>1, <2>2, <2>3 DEF Wf, Refs, Apart
  <2>8. ASSUME NEW i \in t.items
        PROVE  \E c \in t.sessions : c.id = i.sess
    <3>1. PICK c \in m.sessions : c.id = i.sess
      BY <1>6, <2>1 DEF Wf, Refs, ItemRefs
    <3> QED  BY <2>3, <3>1
  <2>9. ItemRefs(t)
    BY <2>8 DEF ItemRefs
  <2>10. \A v : v # u => UserRows(t, "sessions", v) = UserRows(m, "sessions", v)
    BY <2>3 DEF UserRows
  <2> QED  BY <1>7, <2>1, <2>4, <2>5, <2>6, <2>7, <2>9, <2>10, GoodSessions
<1> QED  BY <1>4, <1>8, GoodTrans

LEMMA EntryInserted ==
    ASSUME NEW s, NEW t, NEW u, NEW tab \in {"projects", "devices"}, NEW x, Wf(s),
           Inserts(s, t, tab, {x}), DOMAIN x = EntryCols, x.user = u
    PROVE  Good(s, t, u)
BY GoodEntries DEF Inserts, Wf, RowsTyped, UserRows

LEMMA EntryUpdated ==
    ASSUME NEW s, NEW t, NEW u, NEW tab \in {"projects", "devices"}, NEW new, Wf(s),
           NEW old \in s[tab], Updates(s, t, tab, old, new), old.user = u,
           DOMAIN new = EntryCols, new.id = old.id, new.user = old.user
    PROVE  Good(s, t, u)
<1>1. PICK x, gone : /\ Stamped(new, x) /\ old \in gone /\ gone \subseteq {old, new}
                     /\ t[tab] = (s[tab] \ gone) \cup {x}
  BY DEF Updates
<1>2. DOMAIN x = EntryCols /\ x.id = old.id /\ x.user = u
  BY <1>1, StampedKeeps DEF EntryCols
<1>3. \A e \in gone : e.id = old.id /\ e.user = u
  BY <1>1
<1>4. \A v : v # u => UserRows(t, tab, v) = UserRows(s, tab, v)
  BY <1>1, <1>2, <1>3 DEF UserRows
<1>5. \A e \in t[tab] : DOMAIN e = EntryCols
  BY <1>1, <1>2 DEF Wf, RowsTyped
<1>6. Alters(s, t, {tab})
  BY DEF Updates
<1> QED  BY <1>4, <1>1, <1>2, <1>3, <1>5, <1>6, GoodEntries

---------------------------------------------------------------------------
(* SQLite: every operation is made of these kinds. *)

LEMMA GoodSame ==
    ASSUME NEW s, NEW u, Wf(s)
    PROVE  Good(s, s, u)
BY DEF Good, Untouched

LEMMA OwnedStays ==
    ASSUME NEW s, NEW t, NEW u, OwnedBy(s, u), Untouched(s, t, u)
    PROVE  OwnedBy(t, u)
BY DEF OwnedBy, UserRows, Untouched

LEMMA SQRefs ==
    ASSUME NEW s, OwnedBy(s, Me), NEW a, SQ!RecordRefs(s, a), NEW x,
           x.user = Me, x.proj = a.proj, x.dev = a.dev
    PROVE  ProjectExists(s, x) /\ DeviceExists(s, x)
BY DEF OwnedBy, OwnedTables, SQ!RecordRefs, ProjectExists, DeviceExists

LEMMA SQRecordRow ==
    ASSUME NEW a, NEW m
    PROVE  LET x == SQ!recordRow(a, m)
           IN  /\ DOMAIN x = RecordCols /\ x.id = a.id /\ x.user = Me
               /\ x.proj = a.proj /\ x.dev = a.dev
BY DEF SQ!recordRow, RecordCols

LEMMA SQInsertRecord ==
    ASSUME NEW s, Wf(s), OwnedBy(s, Me), NEW a, NEW m, SQ!RecordRefs(s, a),
           ~ SQ!recordIDExists(s, a.id), ~ SQ!chatSessionIDExists(s, a.id)
    PROVE  Good(s, SQ!InsertRow(s, "records", SQ!recordRow(a, m)), Me)
<1> DEFINE x == SQ!recordRow(a, m)
           t == SQ!InsertRow(s, "records", x)
<1>1. DOMAIN x = RecordCols /\ x.id = a.id /\ x.user = Me /\ x.proj = a.proj /\ x.dev = a.dev
  BY SQRecordRow
<1> HIDE DEF x
<1>2. Inserts(s, t, "records", {x})
  BY SQInsertRow DEF Wf, Tables, OwnedTables
<1>3. ProjectExists(s, x) /\ DeviceExists(s, x)
  BY <1>1, SQRefs
<1>4. \A r \in s.records : r.id # x.id
  BY <1>1 DEF SQ!recordIDExists
<1>5. \A c \in s.sessions : c.user = Me => c.id # x.id
  BY <1>1 DEF SQ!chatSessionIDExists
<1> HIDE DEF t
<1>6. Good(s, t, Me)
  BY <1>1, <1>2, <1>3, <1>4, <1>5, RecordInserted
<1> QED  BY <1>6 DEF t, x

LEMMA SQCreateRecord ==
    ASSUME NEW s, Wf(s), OwnedBy(s, Me), NEW m, NEW a
    PROVE  Good(s, SQ!CreateRecord(s, m, a).store, Me)
BY GoodSame, SQInsertRecord DEF SQ!CreateRecord, SQ!Ok, SQ!Err

\* An UPDATE of a record that keeps its key.
LEMMA SQUpdatesRecord ==
    ASSUME NEW s, Wf(s), OwnedBy(s, Me), NEW m, NEW old \in s.records, NEW new,
           DOMAIN new = RecordCols, new.id = old.id, new.user = old.user,
           ProjectExists(s, new), DeviceExists(s, new)
    PROVE  Good(s, SQ!UpdateTouched(s, "records", old, new, m), Me)
<1> DEFINE t == SQ!UpdateTouched(s, "records", old, new, m)
<1>1. Updates(s, t, "records", old, new)
  BY SQUpdateTouched DEF Wf, Tables, OwnedTables
<1>2. old.user = Me
  BY DEF OwnedBy, OwnedTables
<1> HIDE DEF t
<1>3. Good(s, t, Me)
  BY <1>1, <1>2, RecordUpdated
<1> QED  BY <1>3 DEF t

LEMMA SQRecordById ==
    ASSUME NEW s, Wf(s), OwnedBy(s, Me), NEW id, SQ!recordIDExists(s, id)
    PROVE  LET old == SQ!RecordById(s, id)
           IN  /\ old \in s.records /\ old.id = id /\ old.user = Me /\ DOMAIN old = RecordCols
               /\ ProjectExists(s, old) /\ DeviceExists(s, old)
<1> DEFINE old == SQ!RecordById(s, id)
<1>1. old \in s.records /\ old.id = id
  BY DEF SQ!recordIDExists, SQ!RecordById
<1> HIDE DEF old
<1>2. ProjectExists(s, old) /\ DeviceExists(s, old)
  BY <1>1 DEF Wf, Refs, RecordRefsHold
<1>3. /\ old \in s.records /\ old.id = id /\ old.user = Me /\ DOMAIN old = RecordCols
      /\ ProjectExists(s, old) /\ DeviceExists(s, old)
  BY <1>1, <1>2 DEF OwnedBy, OwnedTables, Wf, RowsTyped
<1> QED  BY <1>3 DEF old

LEMMA SQUpdateRecord ==
    ASSUME NEW s, Wf(s), OwnedBy(s, Me), NEW m, NEW a
    PROVE  Good(s, SQ!UpdateRecord(s, m, a).store, Me)
<1> DEFINE old == SQ!RecordById(s, a.id)
           upd == SQ!Coalesce(SQ!FormatUTCMillis(a.upd), old.upd)
           del == IF a.setDel THEN SQ!FormatUTCMillis(a.del) ELSE old.del
           new == [old EXCEPT !.proj = a.proj, !.dev = a.dev, !.body = a.body,
                      !.upd = upd, !.del = del]
           q == SQ!UpdateTouched(s, "records", old, new, m)
<1>1. \/ SQ!UpdateRecord(s, m, a).store = s
      \/ /\ SQ!recordIDExists(s, a.id) /\ SQ!RecordRefs(s, a)
         /\ SQ!UpdateRecord(s, m, a).store = q
  BY DEF SQ!UpdateRecord, SQ!Ok, SQ!Err
<1>2. ASSUME SQ!recordIDExists(s, a.id), SQ!RecordRefs(s, a)
      PROVE  Good(s, q, Me)
  <2>1. old \in s.records /\ old.user = Me /\ DOMAIN old = RecordCols
    BY <1>2, SQRecordById
  <2> HIDE DEF old, upd, del
  <2>2. /\ DOMAIN new = RecordCols /\ new.id = old.id /\ new.user = old.user
        /\ new.proj = a.proj /\ new.dev = a.dev
    BY <2>1 DEF RecordCols
  <2> HIDE DEF new
  <2> QED  BY <2>1, <2>2, <1>2, SQRefs, SQUpdatesRecord
<1> HIDE DEF q
<1> QED  BY <1>1, <1>2, GoodSame

\* An UPDATE of a record's tombstone.
LEMMA SQSetsDeleted ==
    ASSUME NEW s, Wf(s), OwnedBy(s, Me), NEW id, SQ!recordIDExists(s, id), NEW m, NEW del
    PROVE  LET old == SQ!RecordById(s, id)
           IN  Good(s, SQ!UpdateTouched(s, "records", old, [old EXCEPT !.del = del], m), Me)
<1> DEFINE old == SQ!RecordById(s, id)
           new == [old EXCEPT !.del = del]
           q == SQ!UpdateTouched(s, "records", old, new, m)
<1>1. /\ old \in s.records /\ old.user = Me /\ DOMAIN old = RecordCols
      /\ ProjectExists(s, old) /\ DeviceExists(s, old)
  BY SQRecordById
<1> HIDE DEF old
<1>2. /\ DOMAIN new = RecordCols /\ new.id = old.id /\ new.user = old.user
      /\ new.proj = old.proj /\ new.dev = old.dev
  BY <1>1 DEF RecordCols
<1> HIDE DEF new
<1>3. Good(s, q, Me)
  BY <1>1, <1>2, SQUpdatesRecord DEF ProjectExists, DeviceExists
<1> QED  BY <1>3 DEF old, new

LEMMA SQSoftDeleteRecord ==
    ASSUME NEW s, Wf(s), OwnedBy(s, Me), NEW m, NEW id
    PROVE  Good(s, SQ!SoftDeleteRecord(s, m, id).store, Me)
<1> DEFINE old == SQ!RecordById(s, id)
           del == SQ!Coalesce(old.del, SQ!FormatUTCMillis(m))
           q == SQ!UpdateTouched(s, "records", old, [old EXCEPT !.del = del], m)
<1>1. \/ SQ!SoftDeleteRecord(s, m, id).store = s
      \/ SQ!recordIDExists(s, id) /\ SQ!SoftDeleteRecord(s, m, id).store = q
  BY DEF SQ!SoftDeleteRecord, SQ!Ok, SQ!Err
<1>2. SQ!recordIDExists(s, id) => Good(s, q, Me)
  <2> HIDE DEF del
  <2> QED  BY SQSetsDeleted
<1> HIDE DEF q
<1> QED  BY <1>1, <1>2, GoodSame

LEMMA SQRestoreRecord ==
    ASSUME NEW s, Wf(s), OwnedBy(s, Me), NEW m, NEW id
    PROVE  Good(s, SQ!RestoreRecord(s, m, id).store, Me)
<1> DEFINE old == SQ!RecordById(s, id)
           q == SQ!UpdateTouched(s, "records", old, [old EXCEPT !.del = None], m)
<1>1. \/ SQ!RestoreRecord(s, m, id).store = s
      \/ SQ!recordIDExists(s, id) /\ SQ!RestoreRecord(s, m, id).store = q
  BY DEF SQ!RestoreRecord, SQ!Ok, SQ!Err
<1>2. SQ!recordIDExists(s, id) => Good(s, q, Me)
  BY SQSetsDeleted
<1> HIDE DEF q
<1> QED  BY <1>1, <1>2, GoodSame

LEMMA SQDeleteRecordRows ==
    ASSUME NEW s, Wf(s), OwnedBy(s, Me), NEW rows, rows \subseteq s.records
    PROVE  Good(s, SQ!DeleteRecordRows(s, rows), Me)
<1> DEFINE ids == {r.id : r \in rows}
           s1 == SQ!DeleteRows(s, "records", rows)
           s2 == SQ!DeleteRows(s1, "figures", {f \in s.figures : f.rec \in ids})
           s3 == SQ!DeleteRows(s2, "dataFiles", {d \in s.dataFiles : d.rec \in ids})
<1>1. Removes(s, s1, "records", rows)
  BY SQDeleteRows DEF Wf, Tables, OwnedTables
<1> HIDE DEF s1
<1>2. Removes(s1, s2, "figures", {f \in s.figures : f.rec \in ids})
  <2>1. IsStore(s1)
    BY <1>1 DEF Removes, Alters
  <2> HIDE DEF ids
  <2> QED  BY <2>1, SQDeleteRows DEF Tables, ChildTables
<1> HIDE DEF s2
<1>3. Removes(s2, s3, "dataFiles", {d \in s.dataFiles : d.rec \in ids})
  <2>1. IsStore(s2)
    BY <1>2 DEF Removes, Alters
  <2> HIDE DEF ids
  <2> QED  BY <2>1, SQDeleteRows DEF Tables, ChildTables
<1> HIDE DEF s3
<1>4. /\ \A k \in Tables \ {"records"} : s1[k] = s[k]
      /\ \A k \in Tables \ {"figures"} : s2[k] = s1[k]
      /\ \A k \in Tables \ {"dataFiles"} : s3[k] = s2[k]
  BY <1>1, <1>2, <1>3 DEF Removes, Alters
<1>5. /\ s1.records = s.records \ rows
      /\ s2.figures = s1.figures \ {f \in s.figures : f.rec \in ids}
      /\ s3.dataFiles = s2.dataFiles \ {d \in s.dataFiles : d.rec \in ids}
  BY <1>1, <1>2, <1>3 DEF Removes
<1>6. Alters(s, s3, {"records", "figures", "dataFiles"})
  BY <1>3, <1>4 DEF Removes, Alters
<1>7. s3.records = s.records \ rows
  BY <1>4, <1>5 DEF Tables, OwnedTables, ChildTables
<1>8. s3.figures = {f \in s.figures : f.rec \notin ids}
  <2>1. s3.figures = s.figures \ {f \in s.figures : f.rec \in ids}
    BY <1>4, <1>5 DEF Tables, OwnedTables, ChildTables
  <2> HIDE DEF ids
  <2> QED  BY <2>1
<1>9. s3.dataFiles = {d \in s.dataFiles : d.rec \notin ids}
  <2>1. s3.dataFiles = s.dataFiles \ {d \in s.dataFiles : d.rec \in ids}
    BY <1>4, <1>5 DEF Tables, OwnedTables, ChildTables
  <2> HIDE DEF ids
  <2> QED  BY <2>1
<1>10. Good(s, s3, Me)
  BY <1>6, <1>7, <1>8, <1>9, RecordsDeleted DEF OwnedBy, OwnedTables
<1> QED  BY <1>10 DEF SQ!DeleteRecordRows, s1, s2, s3

LEMMA SQDeleteRecord ==
    ASSUME NEW s, Wf(s), OwnedBy(s, Me), NEW id
    PROVE  Good(s, SQ!DeleteRecord(s, id).store, Me)
<1> DEFINE rows == {SQ!RecordById(s, id)}
<1>1. \/ SQ!DeleteRecord(s, id).store = s
      \/ SQ!recordIDExists(s, id) /\ SQ!DeleteRecord(s, id).store = SQ!DeleteRecordRows(s, rows)
  BY DEF SQ!DeleteRecord, SQ!Ok, SQ!Err
<1>2. SQ!recordIDExists(s, id) => rows \subseteq s.records
  BY SQRecordById
<1> HIDE DEF rows
<1> QED  BY <1>1, <1>2, SQDeleteRecordRows, GoodSame

LEMMA SQPurgeDeletedRecords ==
    ASSUME NEW s, Wf(s), OwnedBy(s, Me)
    PROVE  Good(s, SQ!PurgeDeletedRecords(s).store, Me)
<1> DEFINE rows == {r \in s.records : r.del # None}
<1>1. SQ!PurgeDeletedRecords(s).store = SQ!DeleteRecordRows(s, rows)
  BY DEF SQ!PurgeDeletedRecords, SQ!Ok
<1>2. rows \subseteq s.records
  OBVIOUS
<1> HIDE DEF rows
<1> QED  BY <1>1, <1>2, SQDeleteRecordRows

LEMMA ChildRowsUnique ==
    ASSUME NEW id, NEW children, DistinctNames(children)
    PROVE  /\ NamesUnique(ChildRows(id, children))
           /\ \A f \in ChildRows(id, children) : DOMAIN f = ChildCols /\ f.rec = id
<1>1. \A f \in ChildRows(id, children) : \E i \in DOMAIN children :
         f = [rec |-> id, name |-> children[i].name, meta |-> children[i].meta]
  BY DEF ChildRows
<1>2. NamesUnique(ChildRows(id, children))
  <2> SUFFICES ASSUME NEW f \in ChildRows(id, children), NEW g \in ChildRows(id, children),
                      f.name = g.name
               PROVE  f = g
    BY DEF NamesUnique
  <2>1. PICK i \in DOMAIN children :
          f = [rec |-> id, name |-> children[i].name, meta |-> children[i].meta]
    BY <1>1
  <2>2. PICK j \in DOMAIN children :
          g = [rec |-> id, name |-> children[j].name, meta |-> children[j].meta]
    BY <1>1
  <2>3. i = j
    BY <2>1, <2>2 DEF DistinctNames
  <2> QED  BY <2>1, <2>2, <2>3
<1> QED  BY <1>1, <1>2 DEF ChildCols

\* The children of a record deleted and inserted anew, in one table.
LEMMA ChildTableReplaced ==
    ASSUME NEW s, NEW m, NEW t, NEW u, NEW tab \in ChildTables, NEW r \in s.records, NEW children,
           Wf(s), r.user = u, Removes(s, m, tab, {f \in s[tab] : f.rec = r.id}),
           Inserts(m, t, tab, ChildRows(r.id, children)), DistinctNames(children)
    PROVE  Good(s, t, u)
<1> DEFINE old == {f \in s[tab] : f.rec = r.id}
<1>1. \A f \in old : \E q \in s.records : q.id = f.rec /\ q.user = u
  OBVIOUS
<1>2. Good(s, m, u)
  <2>1. Removes(s, m, tab, old)
    OBVIOUS
  <2> HIDE DEF old
  <2> QED  BY <1>1, <2>1, ChildrenRemoved
<1>3. m.records = s.records
  BY DEF Removes, Alters, Tables, OwnedTables, ChildTables
<1>4. \A g \in m[tab] : g.rec # r.id
  BY DEF Removes
<1>5. Good(m, t, u)
  <2>1. /\ NamesUnique(ChildRows(r.id, children))
        /\ \A f \in ChildRows(r.id, children) : DOMAIN f = ChildCols /\ f.rec = r.id
    BY ChildRowsUnique
  <2>2. r \in m.records /\ Wf(m)
    BY <1>2, <1>3 DEF Good
  <2> QED  BY <2>1, <1>4, <2>2, ChildrenInserted
<1> QED  BY <1>2, <1>5, GoodTrans

\* In both tables, in the order of the code: delete, delete, insert, insert.
LEMMA ChildrenReplaced ==
    ASSUME NEW s, NEW t1, NEW t2, NEW t3, NEW t4, NEW u, NEW r \in s.records, NEW fs, NEW ds,
           Wf(s), r.user = u,
           Removes(s, t1, "figures", {f \in s.figures : f.rec = r.id}),
           Removes(t1, t2, "dataFiles", {f \in s.dataFiles : f.rec = r.id}),
           Inserts(t2, t3, "figures", ChildRows(r.id, fs)), DistinctNames(fs),
           Inserts(t3, t4, "dataFiles", ChildRows(r.id, ds)), DistinctNames(ds)
    PROVE  Good(s, t4, u)
<1> DEFINE m == [t1 EXCEPT !["figures"] = t1["figures"] \cup ChildRows(r.id, fs)]
           n == [m EXCEPT !["dataFiles"] = m["dataFiles"] \ {f \in s.dataFiles : f.rec = r.id}]
<1>1. Inserts(t1, m, "figures", ChildRows(r.id, fs))
  BY StoreDomain DEF IsStore, Removes, Inserts, Alters, Tables, ChildTables
<1> HIDE DEF m
<1>2. Good(s, m, u)
  BY <1>1, ChildTableReplaced DEF ChildTables
<1>3. Removes(m, n, "dataFiles", {f \in s.dataFiles : f.rec = r.id})
  BY <1>1, StoreDomain DEF Inserts, Alters, IsStore, Removes, Tables, ChildTables
<1> HIDE DEF n
<1>4. m.records = s.records /\ m.dataFiles = s.dataFiles
  BY <1>1 DEF Inserts, Removes, Alters, Tables, ChildTables, OwnedTables
<1>5. /\ \A k \in Tables \ {"figures"} : t1[k] = s[k] /\ m[k] = t1[k] /\ t3[k] = t2[k]
      /\ \A k \in Tables \ {"dataFiles"} : t2[k] = t1[k] /\ n[k] = m[k] /\ t4[k] = t3[k]
  BY <1>1, <1>3 DEF Inserts, Removes, Alters
<1>6. t4.figures = n.figures /\ t4.dataFiles = n.dataFiles \cup ChildRows(r.id, ds)
  BY <1>5, <1>1, <1>3 DEF Tables, ChildTables, Inserts, Removes
<1>7. Inserts(n, t4, "dataFiles", ChildRows(r.id, ds))
  BY <1>6, <1>5 DEF Inserts, Alters
<1>8. Good(m, t4, u)
  BY <1>2, <1>4, <1>7, <1>3, ChildTableReplaced DEF Good, ChildTables
<1> QED  BY <1>2, <1>8, GoodTrans

LEMMA SQInsertChildren ==
    ASSUME NEW s, IsStore(s), NEW tab \in ChildTables, NEW id, NEW children
    PROVE  Inserts(s, SQ!insertChildrenTx(s, tab, id, children), tab, ChildRows(id, children))
BY StoreDomain DEF IsStore, Inserts, SQ!insertChildrenTx, SQ!SyncBump, Alters, ChildRows, Tables

LEMMA SQReplaceRecordRow ==
    ASSUME NEW s, Wf(s), OwnedBy(s, Me), NEW m, NEW a, SQ!RecordRefs(s, a),
           SQ!recordIDExists(s, a.id) \/ ~ SQ!chatSessionIDExists(s, a.id)
    PROVE  LET t == SQ!replaceRecordRowTx(s, m, a)
           IN  /\ Good(s, t, Me) /\ Alters(s, t, {"records"})
               /\ \E r \in t.records : r.id = a.id /\ r.user = Me
<1> DEFINE row == SQ!recordRow(a, m)
           old == SQ!RecordById(s, a.id)
           del == IF a.setDel THEN row.del ELSE old.del
           new == [old EXCEPT !.proj = a.proj, !.dev = a.dev, !.body = a.body,
                      !.upd = row.upd, !.del = del]
           t == SQ!replaceRecordRowTx(s, m, a)
           ins == SQ!InsertRow(s, "records", row)
           upd == SQ!UpdateTouched(s, "records", old, new, m)
<1>1. t = IF ~ SQ!recordIDExists(s, a.id) THEN ins ELSE upd
  BY DEF SQ!replaceRecordRowTx
<1>2. ASSUME ~ SQ!recordIDExists(s, a.id)
      PROVE  Good(s, ins, Me) /\ Alters(s, ins, {"records"}) /\ \E r \in ins.records : r.id = a.id /\ r.user = Me
  <2>1. Good(s, ins, Me)
    BY <1>2, SQInsertRecord
  <2>2. Inserts(s, ins, "records", {row})
    <3> HIDE DEF row
    <3> QED  BY SQInsertRow DEF Wf, Tables, OwnedTables
  <2>3. row.id = a.id /\ row.user = Me
    BY SQRecordRow
  <2> HIDE DEF row, ins
  <2> QED  BY <2>1, <2>2, <2>3 DEF Inserts
<1>3. ASSUME SQ!recordIDExists(s, a.id)
      PROVE  Good(s, upd, Me) /\ Alters(s, upd, {"records"}) /\ \E r \in upd.records : r.id = a.id /\ r.user = Me
  <2>1. old \in s.records /\ old.id = a.id /\ old.user = Me /\ DOMAIN old = RecordCols
    BY <1>3, SQRecordById
  <2> HIDE DEF old, row, del
  <2>2. /\ DOMAIN new = RecordCols /\ new.id = old.id /\ new.user = old.user
        /\ new.proj = a.proj /\ new.dev = a.dev
    BY <2>1 DEF RecordCols
  <2> HIDE DEF new
  <2>3. Good(s, upd, Me)
    BY <2>1, <2>2, SQRefs, SQUpdatesRecord
  <2>4. Updates(s, upd, "records", old, new)
    BY SQUpdateTouched DEF Wf, Tables, OwnedTables
  <2> HIDE DEF upd
  <2>5. PICK x, gone : Stamped(new, x) /\ upd.records = (s.records \ gone) \cup {x}
    BY <2>4 DEF Updates
  <2> QED  BY <2>3, <2>4, <2>5, <2>1, <2>2, StampedKeeps DEF Updates, RecordCols
<1> HIDE DEF ins, upd, t
<1> QED  BY <1>1, <1>2, <1>3 DEF t

LEMMA SQReplaceRecordChildren ==
    ASSUME NEW s, Wf(s), OwnedBy(s, Me), NEW m, NEW a
    PROVE  Good(s, SQ!ReplaceRecordChildren(s, m, a).store, Me)
<1> DEFINE s1 == SQ!replaceRecordRowTx(s, m, a)
           s2 == SQ!DeleteRows(s1, "figures", {f \in s.figures : f.rec = a.id})
           s3 == SQ!DeleteRows(s2, "dataFiles", {d \in s.dataFiles : d.rec = a.id})
           s4 == SQ!insertChildrenTx(s3, "figures", a.id, a.figures)
           s5 == SQ!insertChildrenTx(s4, "dataFiles", a.id, a.dataFiles)
<1>1. \/ SQ!ReplaceRecordChildren(s, m, a).store = s
      \/ /\ SQ!recordIDExists(s, a.id) \/ ~ SQ!chatSessionIDExists(s, a.id)
         /\ SQ!RecordRefs(s, a)
         /\ ~ SQ!Repeats([i \in DOMAIN a.figures |-> a.figures[i].name])
         /\ ~ SQ!Repeats([i \in DOMAIN a.dataFiles |-> a.dataFiles[i].name])
         /\ SQ!ReplaceRecordChildren(s, m, a).store = s5
  BY DEF SQ!ReplaceRecordChildren, SQ!Ok, SQ!Err, SQ!Column
<1>2. ASSUME SQ!recordIDExists(s, a.id) \/ ~ SQ!chatSessionIDExists(s, a.id),
             SQ!RecordRefs(s, a),
             ~ SQ!Repeats([i \in DOMAIN a.figures |-> a.figures[i].name]),
             ~ SQ!Repeats([i \in DOMAIN a.dataFiles |-> a.dataFiles[i].name])
      PROVE  Good(s, s5, Me)
  <2>1. Good(s, s1, Me) /\ Alters(s, s1, {"records"}) /\ \E r \in s1.records : r.id = a.id /\ r.user = Me
    BY <1>2, SQReplaceRecordRow
  <2>2. DistinctNames(a.figures) /\ DistinctNames(a.dataFiles)
    BY <1>2 DEF DistinctNames, SQ!Repeats
  <2> HIDE DEF s1
  <2>3. s1.figures = s.figures /\ s1.dataFiles = s.dataFiles
    BY <2>1 DEF Alters, Tables, ChildTables
  <2>4. PICK r \in s1.records : r.id = a.id /\ r.user = Me
    BY <2>1
  <2>5. Removes(s1, s2, "figures", {f \in s1.figures : f.rec = r.id})
    BY <2>1, SQDeleteRows, <2>3, <2>4 DEF Alters, Tables, ChildTables
  <2> HIDE DEF s2
  <2>6. Removes(s2, s3, "dataFiles", {f \in s1.dataFiles : f.rec = r.id})
    BY <2>5, SQDeleteRows, <2>3, <2>4 DEF Removes, Alters, Tables, ChildTables
  <2> HIDE DEF s3
  <2>7. Inserts(s3, s4, "figures", ChildRows(r.id, a.figures))
    BY <2>6, SQInsertChildren, <2>4 DEF Removes, Alters, ChildTables
  <2> HIDE DEF s4
  <2>8. Inserts(s4, s5, "dataFiles", ChildRows(r.id, a.dataFiles))
    BY <2>7, SQInsertChildren, <2>4 DEF Inserts, Alters, ChildTables
  <2> HIDE DEF s5
  <2>9. Good(s1, s5, Me)
    <3>1. Wf(s1)
      BY <2>1 DEF Good
    <3> QED  BY <2>2, <2>4, <2>5, <2>6, <2>7, <2>8, <3>1, ChildrenReplaced
  <2> QED  BY <2>1, <2>9, GoodTrans
<1> HIDE DEF s5
<1> QED  BY <1>1, <1>2, GoodSame

LEMMA SQcreateChild ==
    ASSUME NEW s, Wf(s), OwnedBy(s, Me), NEW tab \in ChildTables, NEW a
    PROVE  Good(s, SQ!createChild(s, tab, a).store, Me)
<1> DEFINE x == [rec |-> a.rec, name |-> a.name, meta |-> a.meta]
           t == SQ!InsertRow(s, tab, x)
<1>1. \/ SQ!createChild(s, tab, a).store = s
      \/ /\ SQ!recordIDExists(s, a.rec) /\ SQ!ChildAt(s, tab, a.rec, a.name) = {}
         /\ SQ!createChild(s, tab, a).store = t
  BY DEF SQ!createChild, SQ!Ok, SQ!Err
<1>2. ASSUME SQ!recordIDExists(s, a.rec), SQ!ChildAt(s, tab, a.rec, a.name) = {}
      PROVE  Good(s, t, Me)
  <2>1. PICK r \in s.records : r.id = a.rec /\ r.user = Me
    BY <1>2 DEF SQ!recordIDExists, OwnedBy, OwnedTables
  <2>2. DOMAIN x = ChildCols /\ x.rec = r.id /\ x.name = a.name
    BY <2>1 DEF ChildCols
  <2> HIDE DEF x
  <2>3. Inserts(s, t, tab, {x})
    BY SQInsertRow DEF Wf, Tables
  <2>4. \A f \in {x}, g \in s[tab] : g.rec = r.id => g.name # f.name
    BY <1>2, <2>1, <2>2 DEF SQ!ChildAt
  <2>5. NamesUnique({x})
    BY DEF NamesUnique
  <2> HIDE DEF t
  <2> QED  BY <2>1, <2>2, <2>3, <2>4, <2>5, ChildrenInserted
<1> HIDE DEF t
<1> QED  BY <1>1, <1>2, GoodSame

LEMMA SQupdateChild ==
    ASSUME NEW s, Wf(s), OwnedBy(s, Me), NEW tab \in ChildTables, NEW a
    PROVE  Good(s, SQ!updateChild(s, tab, a).store, Me)
<1> DEFINE found == SQ!ChildAt(s, tab, a.rec, a.name)
           old == CHOOSE c \in found : TRUE
           nam == SQ!Coalesce(a.newName, old.name)
           met == SQ!Coalesce(a.newMeta, old.meta)
           new == [old EXCEPT !.name = nam, !.meta = met]
           t == SQ!UpdateRow(s, tab, old, new)
<1>1. \/ SQ!updateChild(s, tab, a).store = s
      \/ /\ found # {} /\ ~ \E c \in s[tab] \ {old} : c.rec = new.rec /\ c.name = new.name
         /\ SQ!updateChild(s, tab, a).store = t
  BY DEF SQ!updateChild, SQ!Ok, SQ!Err
<1>2. ASSUME found # {}, ~ \E c \in s[tab] \ {old} : c.rec = new.rec /\ c.name = new.name
      PROVE  Good(s, t, Me)
  <2>1. old \in found
    BY <1>2
  <2>2. old \in s[tab]
    BY <2>1 DEF SQ!ChildAt
  <2> HIDE DEF old, nam, met
  <2>3. DOMAIN new = ChildCols /\ new.rec = old.rec
    BY <2>2 DEF ChildCols, Wf, RowsTyped, ChildTables
  <2> HIDE DEF new, found
  <2>4. \E r \in s.records : r.id = old.rec /\ r.user = Me
    BY <2>2 DEF Wf, Refs, ChildRefs, ChildTables, OwnedBy, OwnedTables
  <2>5. Swaps(s, t, tab, old, new)
    BY SQUpdateRow DEF Wf, Tables
  <2> HIDE DEF t
  <2> QED  BY <2>2, <2>3, <2>4, <2>5, <1>2, ChildSwapped
<1> HIDE DEF t
<1> QED  BY <1>1, <1>2, GoodSame

LEMMA SQdeleteChild ==
    ASSUME NEW s, Wf(s), OwnedBy(s, Me), NEW tab \in ChildTables, NEW a
    PROVE  Good(s, SQ!deleteChild(s, tab, a).store, Me)
<1> DEFINE found == SQ!ChildAt(s, tab, a.rec, a.name)
           t == SQ!DeleteRows(s, tab, found)
<1>1. SQ!deleteChild(s, tab, a).store = s \/ SQ!deleteChild(s, tab, a).store = t
  BY DEF SQ!deleteChild, SQ!Ok, SQ!Err
<1>2. \A f \in found : \E r \in s.records : r.id = f.rec /\ r.user = Me
  BY DEF SQ!ChildAt, Wf, Refs, ChildRefs, ChildTables, OwnedBy, OwnedTables
<1> HIDE DEF found
<1>3. Removes(s, t, tab, found)
  BY SQDeleteRows DEF Wf, Tables
<1> HIDE DEF t
<1> QED  BY <1>1, <1>2, <1>3, ChildrenRemoved, GoodSame

LEMMA SQChildren ==
    ASSUME NEW s, Wf(s), OwnedBy(s, Me), NEW a
    PROVE  /\ Good(s, SQ!CreateRecordFigure(s, a).store, Me)
           /\ Good(s, SQ!UpdateRecordFigure(s, a).store, Me)
           /\ Good(s, SQ!DeleteRecordFigure(s, a).store, Me)
           /\ Good(s, SQ!CreateRecordDataFile(s, a).store, Me)
           /\ Good(s, SQ!UpdateRecordDataFile(s, a).store, Me)
           /\ Good(s, SQ!DeleteRecordDataFile(s, a).store, Me)
BY SQcreateChild, SQupdateChild, SQdeleteChild DEF ChildTables, SQ!CreateRecordFigure,
   SQ!UpdateRecordFigure, SQ!DeleteRecordFigure, SQ!CreateRecordDataFile, SQ!UpdateRecordDataFile,
   SQ!DeleteRecordDataFile

LEMMA SQTemplates ==
    ASSUME NEW s, Wf(s), NEW m, NEW a, NEW name
    PROVE  /\ Good(s, SQ!CreateTemplate(s, m, a).store, Me)
           /\ Good(s, SQ!UpdateTemplate(s, m, a).store, Me)
           /\ Good(s, SQ!DeleteTemplate(s, name).store, Me)
<1>1. IsStore(s) /\ "templates" \in Tables
  BY DEF Wf, Tables
<1>2. \A row : DOMAIN row = TemplateCols => Good(s, SQ!InsertRow(s, "templates", row), Me)
  <2> TAKE row
  <2> HAVE DOMAIN row = TemplateCols
  <2>1. Inserts(s, SQ!InsertRow(s, "templates", row), "templates", {row})
    BY <1>1, SQInsertRow
  <2> QED  BY <2>1, <1>1, GoodTemplates DEF Inserts, Wf, RowsTyped
<1>3. \A old, new : DOMAIN new = TemplateCols =>
         Good(s, SQ!UpdateTouched(s, "templates", old, new, m), Me)
  <2> TAKE old, new
  <2> HAVE DOMAIN new = TemplateCols
  <2>1. Updates(s, SQ!UpdateTouched(s, "templates", old, new, m), "templates", old, new)
    BY <1>1, SQUpdateTouched
  <2> DEFINE t == SQ!UpdateTouched(s, "templates", old, new, m)
  <2>2. Alters(s, t, {"templates"})
    BY <2>1 DEF Updates
  <2>3. PICK x, gone : Stamped(new, x) /\ t.templates = (s.templates \ gone) \cup {x}
    BY <2>1 DEF Updates
  <2> HIDE DEF t
  <2>4. \A y \in t.templates : DOMAIN y = TemplateCols
    BY <2>3, StampedKeeps DEF Wf, RowsTyped, TemplateCols
  <2>5. Good(s, t, Me)
    BY <2>2, <2>4, GoodTemplates
  <2> QED  BY <2>5 DEF t
<1>4. \A rows : Good(s, SQ!DeleteRows(s, "templates", rows), Me)
  <2> TAKE rows
  <2>1. Removes(s, SQ!DeleteRows(s, "templates", rows), "templates", rows)
    BY <1>1, SQDeleteRows
  <2> QED  BY <2>1, <1>1, GoodTemplates DEF Removes, Wf, RowsTyped
<1>5. Good(s, SQ!UpdateTemplate(s, m, a).store, Me)
  <2>1. \/ SQ!UpdateTemplate(s, m, a).store = s
        \/ \E old, new : /\ DOMAIN new = TemplateCols
                         /\ SQ!UpdateTemplate(s, m, a).store = SQ!UpdateTouched(s, "templates", old, new, m)
    <3> DEFINE found == {x \in s.templates : x.name = a.name}
               old == CHOOSE x \in found : TRUE
               upd == SQ!Coalesce(SQ!FormatUTCMillis(a.upd), old.upd)
               new == [old EXCEPT !.html = a.html, !.upd = upd]
    <3>1. \/ SQ!UpdateTemplate(s, m, a).store = s
          \/ found # {} /\ SQ!UpdateTemplate(s, m, a).store = SQ!UpdateTouched(s, "templates", old, new, m)
      BY DEF SQ!UpdateTemplate, SQ!Ok, SQ!Err
    <3>2. found # {} => DOMAIN new = TemplateCols
      BY DEF Wf, RowsTyped, TemplateCols
    <3> HIDE DEF found, new
    <3> QED  BY <3>1, <3>2
  <2> QED  BY <1>3, <2>1, GoodSame
<1>6. Good(s, SQ!DeleteTemplate(s, name).store, Me)
  BY <1>4, GoodSame DEF SQ!DeleteTemplate, SQ!Ok, SQ!Err
<1> QED  BY <1>2, GoodSame, <1>5, <1>6 DEF SQ!CreateTemplate, SQ!Ok, SQ!Err, TemplateCols

LEMMA SQcreateEntry ==
    ASSUME NEW s, Wf(s), NEW tab \in {"projects", "devices"}, NEW m, NEW a
    PROVE  LET q == SQ!createEntry(s, tab, m, a)
           IN  Good(s, q.store, Me) /\ [q EXCEPT !.val = TRUE].store = q.store
<1> DEFINE x == [id |-> a.id, user |-> Me, upd |-> SQ!FormatUTCMillis(SQ!Coalesce(a.upd, m)),
                 arch |-> SQ!FormatUTCMillis(a.arch)]
           t == SQ!InsertRow(s, tab, x)
           q == SQ!createEntry(s, tab, m, a)
<1>1. /\ q.store = s \/ q.store = t
      /\ [q EXCEPT !.val = TRUE].store = q.store
  BY DEF SQ!createEntry, SQ!Ok, SQ!Err
<1>2. DOMAIN x = EntryCols /\ x.user = Me
  BY DEF EntryCols
<1> HIDE DEF x
<1>3. Inserts(s, t, tab, {x})
  BY SQInsertRow DEF Wf, Tables, OwnedTables
<1> HIDE DEF t, q
<1>4. Good(s, t, Me)
  BY <1>2, <1>3, EntryInserted
<1>5. Good(s, q.store, Me) /\ [q EXCEPT !.val = TRUE].store = q.store
  BY <1>1, <1>4, GoodSame
<1> QED  BY <1>5 DEF q

LEMMA SQUpdatesEntry ==
    ASSUME NEW s, Wf(s), OwnedBy(s, Me), NEW tab \in {"projects", "devices"}, NEW old \in s[tab],
           NEW m, NEW upd, NEW arch
    PROVE  /\ Good(s, SQ!UpdateTouched(s, tab, old, [old EXCEPT !.arch = arch], m), Me)
           /\ Good(s, SQ!UpdateTouched(s, tab, old, [old EXCEPT !.upd = upd, !.arch = arch], m), Me)
<1>1. DOMAIN old = EntryCols /\ old.user = Me
  BY DEF Wf, RowsTyped, OwnedBy, OwnedTables
<1>2. ASSUME NEW new, DOMAIN new = EntryCols, new.id = old.id, new.user = old.user
      PROVE  Good(s, SQ!UpdateTouched(s, tab, old, new, m), Me)
  BY SQUpdateTouched, <1>1, <1>2, EntryUpdated DEF Wf, Tables, OwnedTables
<1> DEFINE n1 == [old EXCEPT !.arch = arch]
           n2 == [old EXCEPT !.upd = upd, !.arch = arch]
<1>3. /\ DOMAIN n1 = EntryCols /\ n1.id = old.id /\ n1.user = old.user
      /\ DOMAIN n2 = EntryCols /\ n2.id = old.id /\ n2.user = old.user
  BY <1>1 DEF EntryCols
<1> HIDE DEF n1, n2
<1> QED  BY <1>2, <1>3 DEF n1, n2

LEMMA SQsetArchivedAt ==
    ASSUME NEW s, Wf(s), OwnedBy(s, Me), NEW tab \in {"projects", "devices"}, NEW m, NEW id, NEW arch
    PROVE  Good(s, SQ!setArchivedAt(s, tab, m, id, arch).store, Me)
<1> DEFINE found == {e \in s[tab] : e.id = id}
           old == CHOOSE e \in found : TRUE
           when == SQ!FormatUTCMillis(arch)
           t == SQ!UpdateTouched(s, tab, old, [old EXCEPT !.arch = when], m)
<1>1. \/ SQ!setArchivedAt(s, tab, m, id, arch).store = s
      \/ found # {} /\ SQ!setArchivedAt(s, tab, m, id, arch).store = t
  BY DEF SQ!setArchivedAt, SQ!Ok, SQ!Err
<1>2. ASSUME found # {}
      PROVE  Good(s, t, Me)
  <2>1. old \in s[tab]
    BY <1>2
  <2> HIDE DEF old, when
  <2> QED  BY <2>1, SQUpdatesEntry
<1> HIDE DEF t
<1> QED  BY <1>1, <1>2, GoodSame

LEMMA SQupsertEntryForImport ==
    ASSUME NEW s, Wf(s), OwnedBy(s, Me), NEW tab \in {"projects", "devices"}, NEW m, NEW a
    PROVE  Good(s, SQ!upsertEntryForImport(s, tab, m, a).store, Me)
<1> DEFINE found == {e \in s[tab] : e.id = a.id}
           old == CHOOSE e \in found : TRUE
           upd == SQ!FormatUTCMillis(a.upd)
           arch == SQ!FormatUTCMillis(a.arch)
           t == SQ!UpdateTouched(s, tab, old, [old EXCEPT !.upd = upd, !.arch = arch], m)
           q == SQ!upsertEntryForImport(s, tab, m, a)
           c == SQ!createEntry(s, tab, m, a)
<1>1. \/ q.store = s
      \/ q.store = [c EXCEPT !.val = TRUE].store
      \/ found # {} /\ q.store = t
  BY DEF SQ!upsertEntryForImport, SQ!Ok
<1>2. ASSUME found # {}
      PROVE  Good(s, t, Me)
  <2>1. old \in s[tab]
    BY <1>2
  <2> HIDE DEF old, upd, arch
  <2> QED  BY <2>1, SQUpdatesEntry
<1>3. Good(s, [c EXCEPT !.val = TRUE].store, Me)
  BY SQcreateEntry
<1> HIDE DEF t, q, c
<1>4. Good(s, q.store, Me)
  BY <1>1, <1>2, <1>3, GoodSame
<1> QED  BY <1>4 DEF q

LEMMA SQEntries ==
    ASSUME NEW s, Wf(s), OwnedBy(s, Me), NEW m, NEW a, NEW id
    PROVE  /\ Good(s, SQ!CreateProject(s, m, a).store, Me)
           /\ Good(s, SQ!CreateDevice(s, m, a).store, Me)
           /\ Good(s, SQ!UpsertProjectForImport(s, m, a).store, Me)
           /\ Good(s, SQ!UpsertDeviceForImport(s, m, a).store, Me)
           /\ Good(s, SQ!ArchiveProject(s, m, id).store, Me)
           /\ Good(s, SQ!RestoreProject(s, m, id).store, Me)
           /\ Good(s, SQ!ArchiveDevice(s, m, id).store, Me)
           /\ Good(s, SQ!RestoreDevice(s, m, id).store, Me)
BY SQcreateEntry, SQsetArchivedAt, SQupsertEntryForImport
   DEF SQ!CreateProject, SQ!CreateDevice, SQ!UpsertProjectForImport, SQ!UpsertDeviceForImport,
       SQ!ArchiveProject, SQ!RestoreProject, SQ!ArchiveDevice, SQ!RestoreDevice

LEMMA SQUpsertProjectPath ==
    ASSUME NEW s, Wf(s), OwnedBy(s, Me), NEW m, NEW a, a.path \in Seq(Nat), a.proj \in Nat
    PROVE  Good(s, SQ!UpsertProjectPath(s, m, a).store, Me)
<1> DEFINE x == [user |-> Me, proj |-> a.proj, path |-> a.path, dev |-> a.dev,
                 upd |-> SQ!FormatUTCMillis(SQ!Coalesce(a.upd, m))]
           t == SQ!InsertRow(s, "paths", x)
<1>1. \/ SQ!UpsertProjectPath(s, m, a).store = s
      \/ SQ!RecordRefs(s, a) /\ SQ!UpsertProjectPath(s, m, a).store = t
  BY DEF SQ!UpsertProjectPath, SQ!Ok, SQ!Err
<1>2. DOMAIN x = PathCols /\ x.user = Me /\ x.proj = a.proj /\ x.path = a.path /\ x.dev = a.dev
  BY DEF PathCols
<1> HIDE DEF x
<1>3. Inserts(s, t, "paths", {x})
  BY SQInsertRow DEF Wf, Tables, OwnedTables
<1>4. SQ!RecordRefs(s, a) => ProjectExists(s, x) /\ DeviceExists(s, x)
  BY <1>2, SQRefs
<1>5. x.path \in Seq(Nat) /\ x.proj \in Nat
  BY <1>2
<1> HIDE DEF t
<1> QED  BY <1>1, <1>2, <1>3, <1>4, <1>5, GoodPaths, GoodSame

\* ORDER BY length(path) DESC, project_id has a first row.
LEMMA LongestExists ==
    ASSUME NEW P, P # {}, NEW n \in Nat,
           \A p \in P : p.path \in Seq(Nat) /\ p.proj \in Nat /\ Len(p.path) <= n
    PROVE  \E p \in P : \A q \in P : \/ Len(p.path) > Len(q.path)
                                     \/ Len(p.path) = Len(q.path) /\ p.proj <= q.proj
<1> DEFINE T == {n - Len(p.path) : p \in P}
<1>1. \A p \in P : Len(p.path) \in Nat
  OBVIOUS
<1>2. T \subseteq Nat /\ T # {}
  BY <1>1
<1>3. PICK k \in T : \A j \in T : k <= j
  <2> HIDE DEF T
  <2> QED  BY <1>2, WellFoundedNat
<1>4. PICK p0 \in P : k = n - Len(p0.path)
  BY <1>3
<1>5. \A q \in P : Len(q.path) <= Len(p0.path)
  <2> SUFFICES ASSUME NEW q \in P
               PROVE  Len(q.path) <= Len(p0.path)
    OBVIOUS
  <2>1. n - Len(p0.path) <= n - Len(q.path)
    BY <1>3, <1>4
  <2> QED  BY <1>1, <2>1
<1> DEFINE L == {p \in P : Len(p.path) = Len(p0.path)}
           U == {p.proj : p \in L}
<1>6. U \subseteq Nat /\ U # {}
  OBVIOUS
<1>7. PICK i \in U : \A j \in U : i <= j
  <2> HIDE DEF U
  <2> QED  BY <1>6, WellFoundedNat
<1>8. PICK p1 \in L : i = p1.proj
  BY <1>7
<1>9. ASSUME NEW q \in P
      PROVE  \/ Len(p1.path) > Len(q.path)
             \/ Len(p1.path) = Len(q.path) /\ p1.proj <= q.proj
  BY <1>7, <1>8, <1>1, <1>5
<1> QED  BY <1>8, <1>9

LEMMA SQLongestPath ==
    ASSUME NEW s, Wf(s), OwnedBy(s, Me), NEW c \in s.sessions, SQ!PathsOf(s, c) # {}
    PROVE  \E p \in s.projects : p.user = c.user /\ p.id = SQ!longestPathProject(s, c)
<1> DEFINE P == SQ!PathsOf(s, c)
           first(p) == \A q \in P : \/ Len(p.path) > Len(q.path)
                                    \/ Len(p.path) = Len(q.path) /\ p.proj <= q.proj
           best == CHOOSE p \in P : first(p)
<1>1. \A p \in P : p \in s.paths /\ c.cwd # None /\ Len(p.path) <= Len(c.cwd)
  BY DEF SQ!PathsOf, SQ!InDirectory, SQ!IsPrefix
<1>2. \A p \in P : p.path \in Seq(Nat) /\ p.proj \in Nat
  BY <1>1 DEF Wf, RowsTyped
<1>3. Len(c.cwd) \in Nat
  BY <1>1 DEF Wf, RowsTyped
<1>4. \E p \in P : first(p)
  <2>1. P # {}
    OBVIOUS
  <2> HIDE DEF P
  <2> QED  BY <1>1, <1>2, <1>3, <2>1, LongestExists
<1>5. best \in P
  <2> HIDE DEF P, first
  <2> QED  BY <1>4
<1>6. SQ!longestPathProject(s, c) = best.proj
  BY DEF SQ!longestPathProject
<1> HIDE DEF best, P
<1>7. best \in s.paths /\ best.user = c.user
  BY <1>1, <1>5 DEF OwnedBy, OwnedTables
<1> QED  BY <1>6, <1>7 DEF Wf, Refs, PathRefs, ProjectExists

LEMMA SQBackfillChatProjects ==
    ASSUME NEW s, Wf(s), OwnedBy(s, Me), NEW m
    PROVE  Good(s, SQ!BackfillChatProjects(s, m).store, Me)
<1> DEFINE open == {c \in s.sessions : c.proj = None /\ SQ!PathsOf(s, c) # {}}
           best(c) == SQ!longestPathProject(s, c)
           F == [c \in open |-> [c EXCEPT !.proj = SQ!longestPathProject(s, c),
                                          !.upd = SQ!FormatUTCMillis(m)]]
           t == SQ!BackfillChatProjects(s, m).store
<1>1. t = SQ!SyncBump([s EXCEPT !.sessions = (s.sessions \ open) \cup {F[c] : c \in open}],
                      SQ!Cardinality(open))
  <2> DEFINE rows == {[c EXCEPT !.proj = SQ!longestPathProject(s, c),
                                !.upd = SQ!FormatUTCMillis(m)] : c \in open}
             q == SQ!SyncBump([s EXCEPT !.sessions = (s.sessions \ open) \cup rows],
                              SQ!Cardinality(open))
  <2>1. rows = {F[c] : c \in open}
    OBVIOUS
  <2>2. SQ!BackfillChatProjects(s, m) = SQ!Ok(q, SQ!Cardinality(open))
    BY DEF SQ!BackfillChatProjects
  <2>3. t = q
    <3> HIDE DEF q
    <3> QED  BY <2>2 DEF SQ!Ok
  <2> HIDE DEF rows, open, F, t
  <2> QED  BY <2>1, <2>3
<1>2. ASSUME NEW c \in open
      PROVE  /\ c \in s.sessions /\ c.user = Me
             /\ DOMAIN F[c] = SessionCols
             /\ F[c].id = c.id /\ F[c].user = c.user /\ F[c].src = c.src /\ F[c].cwd = c.cwd
             /\ ProjectExists(s, F[c]) /\ DeviceExists(s, F[c])
  <2>1. c \in s.sessions /\ SQ!PathsOf(s, c) # {}
    OBVIOUS
  <2>2. c.user = Me /\ DOMAIN c = SessionCols
    BY <2>1 DEF OwnedBy, OwnedTables, Wf, RowsTyped
  <2>3. \E p \in s.projects : p.user = c.user /\ p.id = best(c)
    BY <2>1, SQLongestPath
  <2>4. F[c] = [c EXCEPT !.proj = best(c), !.upd = SQ!FormatUTCMillis(m)]
    OBVIOUS
  <2> HIDE DEF F, best
  <2>5. /\ DOMAIN F[c] = SessionCols
        /\ F[c].id = c.id /\ F[c].user = c.user /\ F[c].src = c.src /\ F[c].cwd = c.cwd
        /\ F[c].proj = best(c) /\ F[c].dev = c.dev
    BY <2>2, <2>4 DEF SessionCols
  <2>6. ProjectExists(s, F[c]) /\ DeviceExists(s, F[c])
    BY <2>3, <2>5, <2>1 DEF ProjectExists, DeviceExists, Wf, Refs, SessionRefsHold
  <2> QED  BY <2>1, <2>2, <2>5, <2>6
<1> HIDE DEF open, F, t
<1>3. Alters(s, t, {"sessions"}) /\ t.sessions = (s.sessions \ open) \cup {F[c] : c \in open}
  <2> DEFINE new == (s.sessions \ open) \cup {F[c] : c \in open}
  <2>1. t = SQ!SyncBump([s EXCEPT !.sessions = new], SQ!Cardinality(open))
    BY <1>1
  <2> HIDE DEF new
  <2>2. Alters(s, t, {"sessions"}) /\ t.sessions = new
    BY <2>1, StoreDomain DEF Wf, IsStore, Alters, SQ!SyncBump, Tables, OwnedTables
  <2> QED  BY <2>2 DEF new
<1>4. Good(s, t, Me)
  BY <1>2, <1>3, SessionsFilled
<1> QED  BY <1>4 DEF t

LEMMA ItemRowsUnique ==
    ASSUME NEW id, NEW items, DistinctOrds(items)
    PROVE  OrdinalsUnique(ItemRows(id, items)) /\ \A i \in ItemRows(id, items) : i.sess = id
<1>1. \A f \in ItemRows(id, items) : \E i \in DOMAIN items :
         f = [sess |-> id, ord |-> items[i].ord, text |-> items[i].text]
  BY DEF ItemRows
<1>2. OrdinalsUnique(ItemRows(id, items))
  <2> SUFFICES ASSUME NEW f \in ItemRows(id, items), NEW g \in ItemRows(id, items), f.ord = g.ord
               PROVE  f = g
    BY DEF OrdinalsUnique
  <2>1. PICK i \in DOMAIN items : f = [sess |-> id, ord |-> items[i].ord, text |-> items[i].text]
    BY <1>1
  <2>2. PICK j \in DOMAIN items : g = [sess |-> id, ord |-> items[j].ord, text |-> items[j].text]
    BY <1>1
  <2>3. i = j
    BY <2>1, <2>2 DEF DistinctOrds
  <2> QED  BY <2>1, <2>2, <2>3
<1> QED  BY <1>1, <1>2

\* A list inserted for a session of u; an error changes nothing.
LEMMA ItemListInserted ==
    ASSUME NEW s, NEW t, NEW u, NEW c \in s.sessions, NEW items, Wf(s), c.user = u,
           Inserts(s, t, "items", ItemRows(c.id, items)), DistinctOrds(items),
           \A i \in ItemRows(c.id, items), j \in s.items : j.sess = c.id => i.ord # j.ord
    PROVE  Good(s, t, u)
<1> DEFINE rows == ItemRows(c.id, items)
<1>1. OrdinalsUnique(rows) /\ \A i \in rows : i.sess = c.id
  BY ItemRowsUnique
<1>2. Inserts(s, t, "items", rows) /\ \A i \in rows, j \in s.items : j.sess = c.id => i.ord # j.ord
  OBVIOUS
<1> HIDE DEF rows
<1> QED  BY <1>1, <1>2, ItemsInserted

LEMMA SQinsertChatItems ==
    ASSUME NEW s, Wf(s), NEW c \in s.sessions, c.user = Me, NEW items
    PROVE  LET q == SQ!insertChatItemsTx(s, c.id, items)
           IN  Good(s, q.store, Me) /\ \A v : [q EXCEPT !.val = v].store = q.store
<1> DEFINE q == SQ!insertChatItemsTx(s, c.id, items)
           rows == {[sess |-> c.id, ord |-> items[i].ord, text |-> items[i].text] : i \in DOMAIN items}
           t == SQ!SyncBump([s EXCEPT !.items = s.items \cup rows], Len(items))
<1>1. \/ q = SQ!Err(s, "conflict")
      \/ /\ ~ SQ!Repeats([i \in DOMAIN items |-> items[i].ord])
         /\ ~ \E i \in rows, j \in SQ!ItemsOf(s, c.id) : i.ord = j.ord
         /\ q = SQ!Ok(t, c.id)
  BY DEF SQ!insertChatItemsTx, SQ!Column
<1>2. \/ q.store = s
      \/ /\ ~ SQ!Repeats([i \in DOMAIN items |-> items[i].ord])
         /\ ~ \E i \in rows, j \in SQ!ItemsOf(s, c.id) : i.ord = j.ord
         /\ q.store = t
  <2> HIDE DEF t, rows, q
  <2> QED  BY <1>1 DEF SQ!Ok, SQ!Err
<1>3. \A v : [q EXCEPT !.val = v].store = q.store
  <2> HIDE DEF t, rows, q
  <2> QED  BY <1>1 DEF SQ!Ok, SQ!Err
<1>4. rows = ItemRows(c.id, items)
  BY DEF ItemRows
<1>5. Inserts(s, t, "items", rows)
  <2> HIDE DEF rows
  <2> QED  BY StoreDomain DEF Wf, IsStore, Inserts, Alters, SQ!SyncBump, Tables
<1>6. ASSUME ~ SQ!Repeats([i \in DOMAIN items |-> items[i].ord]),
             ~ \E i \in rows, j \in SQ!ItemsOf(s, c.id) : i.ord = j.ord
      PROVE  Good(s, t, Me)
  <2>1. DistinctOrds(items)
    BY <1>6 DEF DistinctOrds, SQ!Repeats
  <2> HIDE DEF t, rows, q
  <2> QED  BY <1>4, <1>5, <2>1, <1>6, ItemListInserted DEF SQ!ItemsOf
<1> HIDE DEF t, rows
<1>7. Good(s, q.store, Me)
  <2> HIDE DEF q
  <2> QED  BY <1>2, <1>6, GoodSame
<1> QED  BY <1>3, <1>7

LEMMA SQSessionRow ==
    ASSUME NEW a, NEW m
    PROVE  LET x == SQ!sessionRow(a, m)
           IN  /\ DOMAIN x = SessionCols /\ x.id = a.id /\ x.user = Me /\ x.src = a.src
               /\ x.proj = a.proj /\ x.dev = a.dev /\ x.cwd = a.cwd
BY DEF SQ!sessionRow, SessionCols

LEMMA SQUpdatesSession ==
    ASSUME NEW s, Wf(s), OwnedBy(s, Me), NEW old \in s.sessions, NEW m, NEW new,
           DOMAIN new = SessionCols, new.id = old.id, new.user = old.user, new.src = old.src,
           new.cwd = None \/ new.cwd \in Seq(Nat),
           new.proj # None => ProjectExists(s, new), DeviceExists(s, new)
    PROVE  LET t == SQ!UpdateTouched(s, "sessions", old, new, m)
           IN  /\ Good(s, t, Me) /\ Alters(s, t, {"sessions"})
               /\ \E c \in t.sessions : c.id = old.id /\ c.user = Me
<1> DEFINE t == SQ!UpdateTouched(s, "sessions", old, new, m)
<1>1. Updates(s, t, "sessions", old, new)
  BY SQUpdateTouched DEF Wf, Tables, OwnedTables
<1>2. old.user = Me
  BY DEF OwnedBy, OwnedTables
<1> HIDE DEF t
<1>3. Good(s, t, Me)
  BY <1>1, <1>2, SessionUpdated
<1>4. PICK x, gone : Stamped(new, x) /\ t.sessions = (s.sessions \ gone) \cup {x}
  BY <1>1 DEF Updates
<1>5. Good(s, t, Me) /\ Alters(s, t, {"sessions"}) /\ \E c \in t.sessions : c.id = old.id /\ c.user = Me
  BY <1>1, <1>3, <1>4, <1>2, StampedKeeps DEF Updates, SessionCols
<1> QED  BY <1>5 DEF t

LEMMA SQupsertChatSession ==
    ASSUME NEW s, Wf(s), OwnedBy(s, Me), NEW m, NEW a, a.cwd = None \/ a.cwd \in Seq(Nat)
    PROVE  Upserted(s, SQ!upsertChatSessionTx(s, m, a), Me)
<1> DEFINE same == {c \in s.sessions : c.src = a.src}
           row == SQ!sessionRow(a, m)
           old == CHOOSE c \in same : TRUE
           proj == SQ!Coalesce(row.proj, old.proj)
           cwd == SQ!Coalesce(row.cwd, old.cwd)
           title == SQ!Coalesce(row.title, old.title)
           start == SQ!Lesser(old.start, row.start)
           last == SQ!Greater(old.last, row.last)
           del == IF a.clearDel THEN None ELSE row.del
           new == [old EXCEPT !.dev = row.dev, !.proj = proj, !.cwd = cwd, !.title = title,
                      !.start = start, !.last = last, !.orig = row.orig, !.upd = row.upd,
                      !.del = del]
           ins == SQ!InsertRow(s, "sessions", row)
           upd == SQ!UpdateTouched(s, "sessions", old, new, m)
           q == SQ!upsertChatSessionTx(s, m, a)
<1>1. \/ q = SQ!Err(s, "conflict") \/ q = SQ!Err(s, "foreign_key")
      \/ /\ same = {} /\ ~ SQ!recordIDExists(s, a.id) /\ ~ SQ!chatSessionIDExists(s, a.id)
         /\ SQ!SessionRefs(s, a) /\ q = SQ!Ok(ins, [id |-> a.id, created |-> TRUE])
      \/ /\ same # {} /\ SQ!SessionRefs(s, a)
         /\ q = SQ!Ok(upd, [id |-> old.id, created |-> FALSE])
  <2> HIDE DEF ins
  <2> QED  BY DEF SQ!upsertChatSessionTx, ins
<1>2. /\ DOMAIN row = SessionCols /\ row.id = a.id /\ row.user = Me /\ row.src = a.src
      /\ row.proj = a.proj /\ row.dev = a.dev /\ row.cwd = a.cwd
  BY SQSessionRow
<1>3. ASSUME SQ!SessionRefs(s, a)
      PROVE  /\ a.proj # None => \E p \in s.projects : p.user = Me /\ p.id = a.proj
             /\ \E d \in s.devices : d.user = Me /\ d.id = a.dev
  BY <1>3 DEF SQ!SessionRefs, OwnedBy, OwnedTables
<1>4. ASSUME same = {}, ~ SQ!recordIDExists(s, a.id), ~ SQ!chatSessionIDExists(s, a.id),
             SQ!SessionRefs(s, a)
      PROVE  /\ Good(s, ins, Me) /\ Alters(s, ins, {"sessions"})
             /\ \E c \in ins.sessions : c.id = a.id /\ c.user = Me
  <2>1. \A c \in s.sessions : c.src # row.src /\ c.id # row.id
    BY <1>2, <1>4 DEF SQ!chatSessionIDExists
  <2>2. \A r \in s.records : r.id # row.id
    BY <1>2, <1>4 DEF SQ!recordIDExists
  <2> HIDE DEF row, same
  <2>3. Inserts(s, ins, "sessions", {row})
    BY SQInsertRow DEF Wf, Tables, OwnedTables
  <2>4. (row.proj # None => ProjectExists(s, row)) /\ DeviceExists(s, row)
    BY <1>2, <1>3, <1>4 DEF ProjectExists, DeviceExists
  <2> HIDE DEF ins
  <2> QED  BY <1>2, <2>3, <2>1, <2>2, <2>4, SessionInserted DEF Inserts
<1>5. ASSUME same # {}, SQ!SessionRefs(s, a)
      PROVE  /\ Good(s, upd, Me) /\ Alters(s, upd, {"sessions"})
             /\ \E c \in upd.sessions : c.id = old.id /\ c.user = Me
  <2>1. old \in s.sessions
    BY <1>5
  <2>2. proj = (IF a.proj = None THEN old.proj ELSE a.proj) /\ cwd = (IF a.cwd = None THEN old.cwd ELSE a.cwd)
    BY <1>2 DEF SQ!Coalesce
  <2> HIDE DEF old, row, proj, cwd, title, start, last, del, same
  <2>3. DOMAIN old = SessionCols /\ old.user = Me /\ (old.cwd = None \/ old.cwd \in Seq(Nat))
    BY <2>1 DEF Wf, RowsTyped, OwnedBy, OwnedTables
  <2>4. (old.proj # None => ProjectExists(s, old))
    BY <2>1 DEF Wf, Refs, SessionRefsHold
  <2>5. /\ DOMAIN new = SessionCols /\ new.id = old.id /\ new.user = old.user /\ new.src = old.src
        /\ new.proj = proj /\ new.dev = row.dev /\ new.cwd = cwd
    BY <2>3 DEF SessionCols
  <2> HIDE DEF new
  <2>6. (new.proj # None => ProjectExists(s, new)) /\ DeviceExists(s, new)
    BY <1>2, <1>3, <1>5, <2>2, <2>3, <2>4, <2>5 DEF ProjectExists, DeviceExists
  <2> QED  BY <2>1, <2>5, <2>2, <2>3, <2>6, SQUpdatesSession
<1> HIDE DEF q, ins, upd, same, old
<1>6. CASE q = SQ!Err(s, "conflict") \/ q = SQ!Err(s, "foreign_key")
  BY <1>6, NoneAssumption, GoodSame DEF SQ!Err, Errors, Alters, Wf, Upserted, q
<1>7. ASSUME NEW t, NEW i, NEW b, q = SQ!Ok(t, [id |-> i, created |-> b]),
             Good(s, t, Me), Alters(s, t, {"sessions"}), \E c \in t.sessions : c.id = i /\ c.user = Me
      PROVE  Upserted(s, q, Me)
  BY <1>7 DEF SQ!Ok, Upserted
<1> QED  BY <1>4, <1>7, <1>5, <1>1, <1>6 DEF q

\* The items of a session deleted and inserted anew.
LEMMA SQItemsReplaced ==
    ASSUME NEW s, Wf(s), NEW c \in s.sessions, c.user = Me, NEW items
    PROVE  LET q == SQ!insertChatItemsTx(SQ!DeleteRows(s, "items", SQ!ItemsOf(s, c.id)), c.id, items)
           IN  Good(s, q.store, Me) /\ \A v : [q EXCEPT !.val = v].store = q.store
<1> DEFINE rows == SQ!ItemsOf(s, c.id)
           d == SQ!DeleteRows(s, "items", rows)
           q == SQ!insertChatItemsTx(d, c.id, items)
<1>1. \A i \in rows : \E e \in s.sessions : e.id = i.sess /\ e.user = Me
  BY DEF SQ!ItemsOf
<1> HIDE DEF rows
<1>2. Removes(s, d, "items", rows)
  BY SQDeleteRows DEF Wf, Tables
<1> HIDE DEF d
<1>3. Good(s, d, Me)
  BY <1>1, <1>2, ItemsRemoved
<1>4. Good(d, q.store, Me) /\ \A v : [q EXCEPT !.val = v].store = q.store
  BY <1>3, <1>2, SQinsertChatItems DEF Good, Removes, Alters, Tables, OwnedTables
<1> HIDE DEF q
<1> QED  BY <1>3, <1>4, GoodTrans DEF q, d, rows

LEMMA SQRollback ==
    ASSUME NEW s, Wf(s), NEW q, Good(s, q.store, Me)
    PROVE  Good(s, SQ!Rollback(s, q).store, Me)
BY GoodSame DEF SQ!Rollback, SQ!Err

LEMMA SQUpsertChatSessionWithItems ==
    ASSUME NEW s, Wf(s), OwnedBy(s, Me), NEW m, NEW a, a.cwd = None \/ a.cwd \in Seq(Nat)
    PROVE  Good(s, SQ!UpsertChatSessionWithItems(s, m, a).store, Me)
<1> DEFINE up == SQ!upsertChatSessionTx(s, m, a)
           id == up.val.id
           d == SQ!DeleteRows(up.store, "items", SQ!ItemsOf(s, id))
           ins == SQ!insertChatItemsTx(d, id, a.items)
           q == SQ!UpsertChatSessionWithItems(s, m, a)
<1>1. Upserted(s, up, Me)
  BY SQupsertChatSession
<1>2. q = IF up.err # None THEN up ELSE SQ!Rollback(s, [ins EXCEPT !.val = up.val])
  BY DEF SQ!UpsertChatSessionWithItems
<1> HIDE DEF up
<1>3. CASE up.err # None
  BY <1>1, <1>2, <1>3 DEF Upserted
<1>4. CASE up.err = None
  <2>1. PICK c \in up.store.sessions : c.id = id /\ c.user = Me
    BY <1>1, <1>4 DEF Upserted
  <2>2. Wf(up.store) /\ Good(s, up.store, Me)
    BY <1>1 DEF Upserted, Good
  <2>3. ins = SQ!insertChatItemsTx(SQ!DeleteRows(up.store, "items", SQ!ItemsOf(up.store, c.id)), c.id, a.items)
    BY <2>1, <1>1 DEF Upserted, Alters, SQ!ItemsOf, Tables
  <2> HIDE DEF ins, d, id
  <2>4. Good(up.store, ins.store, Me) /\ \A v : [ins EXCEPT !.val = v].store = ins.store
    BY <2>1, <2>2, <2>3, SQItemsReplaced
  <2>5. Good(s, ins.store, Me)
    BY <2>2, <2>4, GoodTrans
  <2>6. [ins EXCEPT !.val = up.val].store = ins.store
    BY <2>4
  <2> DEFINE r == [ins EXCEPT !.val = up.val]
  <2> HIDE DEF r
  <2>7. Good(s, SQ!Rollback(s, r).store, Me)
    BY <2>5, <2>6, SQRollback DEF r
  <2> QED  BY <1>2, <1>4, <2>7 DEF r
<1> QED  BY <1>3, <1>4

\* An UPDATE of a session's tombstone.
LEMMA SQSetsChatDeleted ==
    ASSUME NEW s, Wf(s), OwnedBy(s, Me), NEW old \in s.sessions, NEW m, NEW del
    PROVE  Good(s, SQ!UpdateTouched(s, "sessions", old, [old EXCEPT !.del = del], m), Me)
<1> DEFINE new == [old EXCEPT !.del = del]
<1>1. DOMAIN old = SessionCols /\ (old.cwd = None \/ old.cwd \in Seq(Nat))
  BY DEF Wf, RowsTyped
<1>2. (old.proj # None => ProjectExists(s, old)) /\ DeviceExists(s, old)
  BY DEF Wf, Refs, SessionRefsHold
<1>3. /\ DOMAIN new = SessionCols /\ new.id = old.id /\ new.user = old.user /\ new.src = old.src
      /\ new.cwd = old.cwd /\ new.proj = old.proj /\ new.dev = old.dev
  BY <1>1 DEF SessionCols
<1> HIDE DEF new
<1>4. (new.proj # None => ProjectExists(s, new)) /\ DeviceExists(s, new)
  BY <1>2, <1>3 DEF ProjectExists, DeviceExists
<1>5. Good(s, SQ!UpdateTouched(s, "sessions", old, new, m), Me)
  BY <1>3, <1>1, <1>4, SQUpdatesSession
<1> QED  BY <1>5 DEF new

LEMMA SQSoftDeleteChatSession ==
    ASSUME NEW s, Wf(s), OwnedBy(s, Me), NEW m, NEW id
    PROVE  Good(s, SQ!SoftDeleteChatSession(s, m, id).store, Me)
<1> DEFINE old == CHOOSE c \in s.sessions : c.id = id
           del == SQ!Coalesce(old.del, SQ!FormatUTCMillis(m))
           q == SQ!UpdateTouched(s, "sessions", old, [old EXCEPT !.del = del], m)
<1>1. \/ SQ!SoftDeleteChatSession(s, m, id).store = s
      \/ SQ!chatSessionIDExists(s, id) /\ SQ!SoftDeleteChatSession(s, m, id).store = q
  BY DEF SQ!SoftDeleteChatSession, SQ!Ok, SQ!Err
<1>2. ASSUME SQ!chatSessionIDExists(s, id)
      PROVE  Good(s, q, Me)
  <2>1. old \in s.sessions
    BY <1>2 DEF SQ!chatSessionIDExists
  <2> HIDE DEF old, del
  <2> QED  BY <2>1, SQSetsChatDeleted
<1> HIDE DEF q
<1> QED  BY <1>1, <1>2, GoodSame

LEMMA SQRestoreChatSession ==
    ASSUME NEW s, Wf(s), OwnedBy(s, Me), NEW m, NEW id
    PROVE  Good(s, SQ!RestoreChatSession(s, m, id).store, Me)
<1> DEFINE found == {c \in s.sessions : c.id = id /\ c.del # None}
           old == CHOOSE c \in found : TRUE
           q == SQ!UpdateTouched(s, "sessions", old, [old EXCEPT !.del = None], m)
<1>1. \/ SQ!RestoreChatSession(s, m, id).store = s
      \/ found # {} /\ SQ!RestoreChatSession(s, m, id).store = q
  BY DEF SQ!RestoreChatSession, SQ!Ok, SQ!Err
<1>2. ASSUME found # {}
      PROVE  Good(s, q, Me)
  <2>1. old \in s.sessions
    BY <1>2
  <2> HIDE DEF old
  <2> QED  BY <2>1, SQSetsChatDeleted
<1> HIDE DEF q
<1> QED  BY <1>1, <1>2, GoodSame

LEMMA SQDeleteChatSession ==
    ASSUME NEW s, Wf(s), OwnedBy(s, Me), NEW id
    PROVE  Good(s, SQ!DeleteChatSession(s, id).store, Me)
<1> DEFINE found == {c \in s.sessions : c.id = id}
           items == SQ!ItemsOf(s, id)
           s1 == SQ!DeleteRows(s, "sessions", found)
           s2 == SQ!DeleteRows(s1, "items", items)
<1>1. \/ SQ!DeleteChatSession(s, id).store = s
      \/ found # {} /\ SQ!DeleteChatSession(s, id).store = s2
  BY DEF SQ!DeleteChatSession, SQ!Ok, SQ!Err
<1>2. ASSUME found # {}
      PROVE  Good(s, s2, Me)
  <2>1. \A c \in found : c \in s.sessions /\ c.user = Me
    BY DEF OwnedBy, OwnedTables
  <2>2. {c.id : c \in found} = {id}
    BY <1>2
  <2>3. items = {i \in s.items : i.sess = id}
    BY DEF SQ!ItemsOf
  <2> HIDE DEF found, items
  <2>4. Removes(s, s1, "sessions", found)
    BY SQDeleteRows DEF Wf, Tables, OwnedTables
  <2> HIDE DEF s1
  <2>5. Removes(s1, s2, "items", items)
    <3>1. IsStore(s1)
      BY <2>4 DEF Removes, Alters
    <3> QED  BY <3>1, SQDeleteRows DEF Tables
  <2> HIDE DEF s2
  <2>6. s2.sessions = s.sessions \ found
    BY <2>4, <2>5 DEF Removes, Alters, Tables, OwnedTables
  <2>7. s2.items = {i \in s.items : i.sess \notin {c.id : c \in found}}
    BY <2>2, <2>3, <2>4, <2>5 DEF Removes, Alters, Tables
  <2> QED  BY <2>1, <2>4, <2>5, <2>6, <2>7, SessionsDeleted DEF Removes, Alters
<1> HIDE DEF s2
<1> QED  BY <1>1, <1>2, GoodSame

LEMMA SQChatItems ==
    ASSUME NEW s, Wf(s), OwnedBy(s, Me), NEW a
    PROVE  /\ Good(s, SQ!CreateChatItem(s, a).store, Me)
           /\ Good(s, SQ!AppendChatItems(s, a).store, Me)
           /\ Good(s, SQ!ReplaceChatItems(s, a).store, Me)
<1> DEFINE ins == SQ!insertChatItemsTx(s, a.id, a.items)
           rep == SQ!insertChatItemsTx(SQ!DeleteRows(s, "items", SQ!ItemsOf(s, a.id)), a.id, a.items)
<1>1. ASSUME SQ!chatSessionIDExists(s, a.id)
      PROVE  Good(s, ins.store, Me) /\ Good(s, rep.store, Me)
  <2>1. PICK c \in s.sessions : c.id = a.id /\ c.user = Me
    BY <1>1 DEF SQ!chatSessionIDExists, OwnedBy, OwnedTables
  <2>2. Good(s, rep.store, Me)
    BY <2>1, SQItemsReplaced
  <2> QED  BY <2>1, SQinsertChatItems, <2>2
<1>2. /\ \/ SQ!CreateChatItem(s, a).store = s
         \/ SQ!chatSessionIDExists(s, a.id) /\ SQ!CreateChatItem(s, a) = ins
      /\ \/ SQ!AppendChatItems(s, a).store = s
         \/ SQ!chatSessionIDExists(s, a.id) /\ SQ!AppendChatItems(s, a) = ins
      /\ \/ SQ!ReplaceChatItems(s, a).store = s
         \/ SQ!chatSessionIDExists(s, a.id) /\ SQ!ReplaceChatItems(s, a) = SQ!Rollback(s, rep)
  <2>1. SQ!chatSessionIDExists(s, a.id) =>
           /\ SQ!CreateChatItem(s, a) = ins /\ SQ!AppendChatItems(s, a) = ins
           /\ SQ!ReplaceChatItems(s, a) = SQ!Rollback(s, rep)
    BY DEF SQ!CreateChatItem, SQ!AppendChatItems, SQ!ReplaceChatItems
  <2>2. ~ SQ!chatSessionIDExists(s, a.id) =>
           /\ SQ!CreateChatItem(s, a).store = s /\ SQ!AppendChatItems(s, a).store = s
           /\ SQ!ReplaceChatItems(s, a).store = s
    BY DEF SQ!CreateChatItem, SQ!AppendChatItems, SQ!ReplaceChatItems, SQ!Err
  <2> HIDE DEF ins, rep
  <2> QED  BY <2>1, <2>2
<1> HIDE DEF ins, rep
<1> QED  BY <1>1, <1>2, GoodSame, SQRollback

LEMMA SQUpsertChatSession ==
    ASSUME NEW s, Wf(s), OwnedBy(s, Me), NEW m, NEW a, a.cwd = None \/ a.cwd \in Seq(Nat)
    PROVE  Good(s, SQ!UpsertChatSession(s, m, a).store, Me)
BY SQupsertChatSession DEF Upserted, SQ!UpsertChatSession

---------------------------------------------------------------------------
(* Postgres: the same for the rows of one account among all. *)

LEMMA PGBump ==
    ASSUME NEW s, IsStore(s), NEW u, NEW tab, NEW n
    PROVE  LET t == PG!Bump(s, u, tab, n) IN IsStore(t) /\ \A k \in Tables : t[k] = s[k]
BY StoreDomain DEF IsStore, PG!Bump, PG!bumpEverybody, PG!bumpSyncVersion

LEMMA PGInsertRow ==
    ASSUME NEW s, IsStore(s), NEW u, NEW tab \in Tables, NEW row
    PROVE  Inserts(s, PG!InsertRow(s, u, tab, row), tab, {row})
<1> DEFINE m == [s EXCEPT ![tab] = @ \cup {row}]
           t == PG!Bump(m, u, tab, 1)
<1>1. IsStore(m) /\ m[tab] = s[tab] \cup {row} /\ \A k \in Tables \ {tab} : m[k] = s[k]
  BY StoreDomain DEF IsStore
<1> HIDE DEF m
<1>2. IsStore(t) /\ \A k \in Tables : t[k] = m[k]
  BY <1>1, PGBump
<1> HIDE DEF t
<1> QED  BY <1>1, <1>2 DEF PG!InsertRow, t, m, Inserts, Alters

LEMMA PGUpdateRow ==
    ASSUME NEW s, IsStore(s), NEW u, NEW tab \in Tables, NEW old, NEW new
    PROVE  Swaps(s, PG!UpdateRow(s, u, tab, old, new), tab, old, new)
<1> DEFINE m == [s EXCEPT ![tab] = (@ \ {old}) \cup {new}]
           n == IF PG!Watched(tab, old) # PG!Watched(tab, new) THEN 1 ELSE 0
           t == PG!Bump(m, u, tab, n)
<1>1. IsStore(m) /\ m[tab] = (s[tab] \ {old}) \cup {new} /\ \A k \in Tables \ {tab} : m[k] = s[k]
  BY StoreDomain DEF IsStore
<1> HIDE DEF m, n
<1>2. IsStore(t) /\ \A k \in Tables : t[k] = m[k]
  BY <1>1, PGBump
<1> HIDE DEF t
<1> QED  BY <1>1, <1>2 DEF PG!UpdateRow, t, m, n, Swaps, Alters

LEMMA PGDeleteRows ==
    ASSUME NEW s, IsStore(s), NEW u, NEW tab \in Tables, NEW rows
    PROVE  Removes(s, PG!DeleteRows(s, u, tab, rows), tab, rows)
<1> DEFINE m == [s EXCEPT ![tab] = @ \ rows]
           n == PG!Cardinality(rows)
           t == PG!Bump(m, u, tab, n)
<1>1. IsStore(m) /\ m[tab] = s[tab] \ rows /\ \A k \in Tables \ {tab} : m[k] = s[k]
  BY StoreDomain DEF IsStore
<1> HIDE DEF m, n
<1>2. IsStore(t) /\ \A k \in Tables : t[k] = m[k]
  BY <1>1, PGBump
<1> HIDE DEF t
<1> QED  BY <1>1, <1>2 DEF PG!DeleteRows, t, m, n, Removes, Alters

\* The trigger stamps the row before it is written: one swap.
LEMMA PGUpdateTouched ==
    ASSUME NEW s, IsStore(s), NEW u, NEW tab \in Tables, NEW old, NEW new, NEW m
    PROVE  Updates(s, PG!UpdateTouched(s, u, tab, old, new, m), tab, old, new)
<1> DEFINE x == PG!autoUpdateUpdatedAt(old, new, m)
           t == PG!UpdateRow(s, u, tab, old, x)
<1>1. Stamped(new, x)
  BY DEF Stamped, PG!autoUpdateUpdatedAt
<1> HIDE DEF x
<1>2. Swaps(s, t, tab, old, x)
  BY PGUpdateRow
<1> HIDE DEF t
<1>3. old \in {old} /\ {old} \subseteq {old, new}
  OBVIOUS
<1>4. Updates(s, t, tab, old, new)
  BY <1>1, <1>2, <1>3 DEF Updates, Swaps
<1> QED  BY <1>4 DEF PG!UpdateTouched, t, x

LEMMA PGRefs ==
    ASSUME NEW s, NEW u, NEW a, PG!RecordRefs(s, u, a), NEW x,
           x.user = u, x.proj = a.proj, x.dev = a.dev
    PROVE  ProjectExists(s, x) /\ DeviceExists(s, x)
BY DEF PG!RecordRefs, ProjectExists, DeviceExists

LEMMA PGRecordRow ==
    ASSUME NEW u, NEW a, NEW m
    PROVE  LET x == PG!recordRow(u, a, m)
           IN  /\ DOMAIN x = RecordCols /\ x.id = a.id /\ x.user = u
               /\ x.proj = a.proj /\ x.dev = a.dev
BY DEF PG!recordRow, RecordCols

LEMMA PGInsertRecord ==
    ASSUME NEW s, Wf(s), NEW u, NEW a, NEW m, PG!RecordRefs(s, u, a),
           \A r \in s.records : r.id # a.id, ~ PG!chatSessionIDExists(s, u, a.id)
    PROVE  Good(s, PG!InsertRow(s, u, "records", PG!recordRow(u, a, m)), u)
<1> DEFINE x == PG!recordRow(u, a, m)
           t == PG!InsertRow(s, u, "records", x)
<1>1. DOMAIN x = RecordCols /\ x.id = a.id /\ x.user = u /\ x.proj = a.proj /\ x.dev = a.dev
  BY PGRecordRow
<1> HIDE DEF x
<1>2. Inserts(s, t, "records", {x})
  BY PGInsertRow DEF Wf, Tables, OwnedTables
<1>3. ProjectExists(s, x) /\ DeviceExists(s, x)
  BY <1>1, PGRefs
<1>4. \A r \in s.records : r.id # x.id
  BY <1>1
<1>5. \A c \in s.sessions : c.user = u => c.id # x.id
  BY <1>1 DEF PG!chatSessionIDExists, PG!OwnSession
<1> HIDE DEF t
<1>6. Good(s, t, u)
  BY <1>1, <1>2, <1>3, <1>4, <1>5, RecordInserted
<1> QED  BY <1>6 DEF t, x

LEMMA PGCreateRecord ==
    ASSUME NEW s, Wf(s), NEW u, NEW m, NEW a
    PROVE  Good(s, PG!CreateRecord(s, u, m, a).store, u)
BY GoodSame, PGInsertRecord DEF PG!CreateRecord, PG!Ok, PG!Err

\* An UPDATE of a record that keeps its key.
LEMMA PGUpdatesRecord ==
    ASSUME NEW s, Wf(s), NEW u, NEW m, NEW old \in s.records, old.user = u, NEW new,
           DOMAIN new = RecordCols, new.id = old.id, new.user = old.user,
           ProjectExists(s, new), DeviceExists(s, new)
    PROVE  Good(s, PG!UpdateTouched(s, u, "records", old, new, m), u)
<1> DEFINE t == PG!UpdateTouched(s, u, "records", old, new, m)
<1>1. Updates(s, t, "records", old, new)
  BY PGUpdateTouched DEF Wf, Tables, OwnedTables
<1> HIDE DEF t
<1>2. Good(s, t, u)
  BY <1>1, RecordUpdated
<1> QED  BY <1>2 DEF t

LEMMA PGOwnRecord ==
    ASSUME NEW s, Wf(s), NEW u, NEW id, PG!OwnRecord(s, u, id) # {}
    PROVE  LET old == CHOOSE r \in PG!OwnRecord(s, u, id) : TRUE
           IN  /\ old \in s.records /\ old.id = id /\ old.user = u /\ DOMAIN old = RecordCols
               /\ ProjectExists(s, old) /\ DeviceExists(s, old)
<1> DEFINE old == CHOOSE r \in PG!OwnRecord(s, u, id) : TRUE
<1>1. old \in PG!OwnRecord(s, u, id)
  OBVIOUS
<1> HIDE DEF old
<1>2. old \in s.records /\ old.id = id /\ old.user = u
  BY <1>1 DEF PG!OwnRecord
<1>3. /\ old \in s.records /\ old.id = id /\ old.user = u /\ DOMAIN old = RecordCols
      /\ ProjectExists(s, old) /\ DeviceExists(s, old)
  BY <1>2 DEF Wf, RowsTyped, Refs, RecordRefsHold
<1> QED  BY <1>3 DEF old

LEMMA PGUpdateRecord ==
    ASSUME NEW s, Wf(s), NEW u, NEW m, NEW a
    PROVE  Good(s, PG!UpdateRecord(s, u, m, a).store, u)
<1> DEFINE own == PG!OwnRecord(s, u, a.id)
           old == CHOOSE r \in own : TRUE
           upd == PG!Coalesce(a.upd, old.upd)
           del == IF a.setDel THEN a.del ELSE old.del
           new == [old EXCEPT !.proj = a.proj, !.dev = a.dev, !.body = a.body,
                      !.upd = upd, !.del = del]
           q == PG!UpdateTouched(s, u, "records", old, new, m)
<1>1. \/ PG!UpdateRecord(s, u, m, a).store = s
      \/ /\ own # {} /\ PG!RecordRefs(s, u, a)
         /\ PG!UpdateRecord(s, u, m, a).store = q
  BY DEF PG!UpdateRecord, PG!updateOwn, PG!Ok, PG!Err
<1>2. ASSUME own # {}, PG!RecordRefs(s, u, a)
      PROVE  Good(s, q, u)
  <2>1. old \in s.records /\ old.user = u /\ DOMAIN old = RecordCols
    BY <1>2, PGOwnRecord
  <2> HIDE DEF old, upd, del
  <2>2. /\ DOMAIN new = RecordCols /\ new.id = old.id /\ new.user = old.user
        /\ new.proj = a.proj /\ new.dev = a.dev
    BY <2>1 DEF RecordCols
  <2> HIDE DEF new
  <2> QED  BY <2>1, <2>2, <1>2, PGRefs, PGUpdatesRecord
<1> HIDE DEF q
<1> QED  BY <1>1, <1>2, GoodSame

\* An UPDATE of a record's tombstone.
LEMMA PGSetsDeleted ==
    ASSUME NEW s, Wf(s), NEW u, NEW old \in s.records, old.user = u, NEW m, NEW del
    PROVE  Good(s, PG!UpdateTouched(s, u, "records", old, [old EXCEPT !.del = del], m), u)
<1> DEFINE new == [old EXCEPT !.del = del]
<1>1. DOMAIN old = RecordCols /\ ProjectExists(s, old) /\ DeviceExists(s, old)
  BY DEF Wf, RowsTyped, Refs, RecordRefsHold
<1>2. /\ DOMAIN new = RecordCols /\ new.id = old.id /\ new.user = old.user
      /\ new.proj = old.proj /\ new.dev = old.dev
  BY <1>1 DEF RecordCols
<1> HIDE DEF new
<1>3. Good(s, PG!UpdateTouched(s, u, "records", old, new, m), u)
  BY <1>2, <1>1, PGUpdatesRecord DEF ProjectExists, DeviceExists
<1> QED  BY <1>3 DEF new

LEMMA PGTombstones ==
    ASSUME NEW s, Wf(s), NEW u, NEW m, NEW id
    PROVE  /\ Good(s, PG!SoftDeleteRecord(s, u, m, id).store, u)
           /\ Good(s, PG!RestoreRecord(s, u, m, id).store, u)
<1> DEFINE own == PG!OwnRecord(s, u, id)
           old == CHOOSE r \in own : TRUE
           del == PG!Coalesce(old.del, m)
           q(d) == PG!UpdateTouched(s, u, "records", old, [old EXCEPT !.del = d], m)
<1>1. /\ \/ PG!SoftDeleteRecord(s, u, m, id).store = s
         \/ own # {} /\ PG!SoftDeleteRecord(s, u, m, id).store = q(del)
      /\ \/ PG!RestoreRecord(s, u, m, id).store = s
         \/ own # {} /\ PG!RestoreRecord(s, u, m, id).store = q(None)
  BY DEF PG!SoftDeleteRecord, PG!RestoreRecord, PG!updateOwn, PG!Ok, PG!Err
<1>2. ASSUME own # {}, NEW d
      PROVE  Good(s, q(d), u)
  <2>1. old \in s.records /\ old.user = u
    BY <1>2, PGOwnRecord
  <2> HIDE DEF old
  <2> QED  BY <2>1, PGSetsDeleted
<1> HIDE DEF q, del
<1> QED  BY <1>1, <1>2, GoodSame

LEMMA PGDeleteRecordRows ==
    ASSUME NEW s, Wf(s), NEW u, NEW rows, \A r \in rows : r \in s.records /\ r.user = u
    PROVE  Good(s, PG!DeleteRecordRows(s, u, rows), u)
<1> DEFINE s1 == PG!DeleteRows(s, u, "records", rows)
           fs == {f \in s.figures : f.rec \notin {r.id : r \in rows}}
           ds == {f \in s.dataFiles : f.rec \notin {r.id : r \in rows}}
           t == [s1 EXCEPT !["figures"] = fs, !["dataFiles"] = ds]
           q == PG!DeleteRecordRows(s, u, rows)
<1>1. Removes(s, s1, "records", rows)
  BY PGDeleteRows DEF Wf, Tables, OwnedTables
<1>2. q = t
  <2>1. s1.figures = s.figures /\ s1.dataFiles = s.dataFiles
    <3> HIDE DEF s1
    <3> QED  BY <1>1 DEF Removes, Alters, Tables, ChildTables
  <2>2. q = [s1 EXCEPT !.figures = {f \in s1.figures : f.rec \notin {r.id : r \in rows}},
                       !.dataFiles = {f \in s1.dataFiles : f.rec \notin {r.id : r \in rows}}]
    BY DEF PG!DeleteRecordRows
  <2> HIDE DEF s1, q
  <2> QED  BY <2>1, <2>2
<1> HIDE DEF s1, q
<1>3. /\ IsStore(t) /\ t.figures = fs /\ t.dataFiles = ds
      /\ \A k \in Tables \ {"figures", "dataFiles"} : t[k] = s1[k]
  <2> HIDE DEF fs, ds
  <2> QED  BY <1>1, StoreDomain DEF Removes, Alters, IsStore, Tables, ChildTables
<1> HIDE DEF t
<1>4. t.records = s.records \ rows
  BY <1>1, <1>3 DEF Removes, Tables, OwnedTables
<1>5. Good(s, t, u)
  BY <1>3, <1>1, <1>4, RecordsDeleted DEF Removes, Alters
<1> QED  BY <1>2, <1>5 DEF q

LEMMA PGDeletes ==
    ASSUME NEW s, Wf(s), NEW u, NEW id
    PROVE  /\ Good(s, PG!DeleteRecord(s, u, id).store, u)
           /\ Good(s, PG!PurgeDeletedRecords(s, u).store, u)
<1> DEFINE own == PG!OwnRecord(s, u, id)
           trash == {r \in s.records : r.user = u /\ r.del # None}
<1>1. \/ PG!DeleteRecord(s, u, id).store = s
      \/ PG!DeleteRecord(s, u, id).store = PG!DeleteRecordRows(s, u, own)
  BY DEF PG!DeleteRecord, PG!Ok, PG!Err
<1>2. PG!PurgeDeletedRecords(s, u).store = PG!DeleteRecordRows(s, u, trash)
  BY DEF PG!PurgeDeletedRecords, PG!Ok
<1>3. \A r \in own : r \in s.records /\ r.user = u
  BY DEF PG!OwnRecord
<1>4. \A r \in trash : r \in s.records /\ r.user = u
  OBVIOUS
<1> HIDE DEF own, trash
<1> QED  BY <1>1, <1>2, <1>3, <1>4, PGDeleteRecordRows, GoodSame

LEMMA PGInsertChildren ==
    ASSUME NEW s, IsStore(s), NEW u, NEW tab \in ChildTables, NEW id, NEW children
    PROVE  Inserts(s, PG!insertChildrenTx(s, u, tab, id, children), tab, ChildRows(id, children))
<1> DEFINE m == [s EXCEPT ![tab] = @ \cup ChildRows(id, children)]
           t == PG!Bump(m, u, tab, Len(children))
<1>1. t = PG!insertChildrenTx(s, u, tab, id, children)
  BY DEF PG!insertChildrenTx, ChildRows
<1>2. /\ IsStore(m) /\ m[tab] = s[tab] \cup ChildRows(id, children)
      /\ \A k \in Tables \ {tab} : m[k] = s[k]
  BY StoreDomain DEF IsStore, Tables
<1> HIDE DEF m
<1>3. IsStore(t) /\ \A k \in Tables : t[k] = m[k]
  BY <1>2, PGBump
<1> HIDE DEF t
<1> QED  BY <1>1, <1>2, <1>3 DEF Inserts, Alters, Tables

LEMMA PGReplaceRecordRow ==
    ASSUME NEW s, Wf(s), NEW u, NEW m, NEW a, PG!RecordRefs(s, u, a),
           \/ PG!recordIDExists(s, u, a.id)
           \/ ~ PG!recordIDExistsForOtherUserTx(s, u, a.id) /\ ~ PG!chatSessionIDExists(s, u, a.id)
    PROVE  LET t == PG!replaceRecordRowTx(s, u, m, a)
           IN  /\ Good(s, t, u) /\ Alters(s, t, {"records"})
               /\ \E r \in t.records : r.id = a.id /\ r.user = u
<1> DEFINE row == PG!recordRow(u, a, m)
           own == PG!OwnRecord(s, u, a.id)
           old == CHOOSE r \in own : TRUE
           del == IF a.setDel THEN row.del ELSE old.del
           new == [old EXCEPT !.proj = a.proj, !.dev = a.dev, !.body = a.body,
                      !.upd = row.upd, !.del = del]
           t == PG!replaceRecordRowTx(s, u, m, a)
           ins == PG!InsertRow(s, u, "records", row)
           upd == PG!UpdateTouched(s, u, "records", old, new, m)
<1>1. t = IF own = {} THEN ins ELSE upd
  BY DEF PG!replaceRecordRowTx, PG!recordIDExists, PG!updateOwn, PG!Ok
<1>2. ASSUME own = {}
      PROVE  Good(s, ins, u) /\ Alters(s, ins, {"records"}) /\ \E r \in ins.records : r.id = a.id /\ r.user = u
  <2>1. Good(s, ins, u)
    BY <1>2, PGInsertRecord DEF PG!recordIDExists, PG!recordIDExistsForOtherUserTx, PG!OwnRecord
  <2>2. Inserts(s, ins, "records", {row})
    <3> HIDE DEF row
    <3> QED  BY PGInsertRow DEF Wf, Tables, OwnedTables
  <2>3. row.id = a.id /\ row.user = u
    BY PGRecordRow
  <2> HIDE DEF row, ins
  <2> QED  BY <2>1, <2>2, <2>3 DEF Inserts
<1>3. ASSUME own # {}
      PROVE  Good(s, upd, u) /\ Alters(s, upd, {"records"}) /\ \E r \in upd.records : r.id = a.id /\ r.user = u
  <2>1. old \in s.records /\ old.id = a.id /\ old.user = u /\ DOMAIN old = RecordCols
    BY <1>3, PGOwnRecord
  <2> HIDE DEF old, row, del
  <2>2. /\ DOMAIN new = RecordCols /\ new.id = old.id /\ new.user = old.user
        /\ new.proj = a.proj /\ new.dev = a.dev
    BY <2>1 DEF RecordCols
  <2> HIDE DEF new
  <2>3. Good(s, upd, u)
    BY <2>1, <2>2, PGRefs, PGUpdatesRecord
  <2>4. Updates(s, upd, "records", old, new)
    BY PGUpdateTouched DEF Wf, Tables, OwnedTables
  <2> HIDE DEF upd
  <2>5. PICK x, gone : Stamped(new, x) /\ upd.records = (s.records \ gone) \cup {x}
    BY <2>4 DEF Updates
  <2> QED  BY <2>3, <2>4, <2>5, <2>1, <2>2, StampedKeeps DEF Updates, RecordCols
<1> HIDE DEF ins, upd, t, own
<1> QED  BY <1>1, <1>2, <1>3 DEF t

LEMMA PGReplaceRecordChildren ==
    ASSUME NEW s, Wf(s), NEW u, NEW m, NEW a
    PROVE  Good(s, PG!ReplaceRecordChildren(s, u, m, a).store, u)
<1> DEFINE s1 == PG!replaceRecordRowTx(s, u, m, a)
           s2 == PG!DeleteRows(s1, u, "figures", {f \in s.figures : f.rec = a.id})
           s3 == PG!DeleteRows(s2, u, "dataFiles", {d \in s.dataFiles : d.rec = a.id})
           s4 == PG!insertChildrenTx(s3, u, "figures", a.id, a.figures)
           s5 == PG!insertChildrenTx(s4, u, "dataFiles", a.id, a.dataFiles)
           fresh == \/ PG!recordIDExists(s, u, a.id)
                    \/ /\ ~ PG!recordIDExistsForOtherUserTx(s, u, a.id)
                       /\ ~ PG!chatSessionIDExists(s, u, a.id)
           distinct == /\ ~ PG!Repeats([i \in DOMAIN a.figures |-> a.figures[i].name])
                       /\ ~ PG!Repeats([i \in DOMAIN a.dataFiles |-> a.dataFiles[i].name])
<1>1. \/ PG!ReplaceRecordChildren(s, u, m, a).store = s
      \/ /\ fresh /\ PG!RecordRefs(s, u, a) /\ distinct
         /\ PG!ReplaceRecordChildren(s, u, m, a).store = s5
  BY DEF PG!ReplaceRecordChildren, PG!Ok, PG!Err, PG!Column
<1>2. ASSUME fresh, PG!RecordRefs(s, u, a), distinct
      PROVE  Good(s, s5, u)
  <2>1. Good(s, s1, u) /\ Alters(s, s1, {"records"}) /\ \E r \in s1.records : r.id = a.id /\ r.user = u
    BY <1>2, PGReplaceRecordRow
  <2>2. DistinctNames(a.figures) /\ DistinctNames(a.dataFiles)
    BY <1>2 DEF DistinctNames, PG!Repeats
  <2> HIDE DEF s1
  <2>3. s1.figures = s.figures /\ s1.dataFiles = s.dataFiles
    BY <2>1 DEF Alters, Tables, ChildTables
  <2>4. PICK r \in s1.records : r.id = a.id /\ r.user = u
    BY <2>1
  <2>5. Removes(s1, s2, "figures", {f \in s1.figures : f.rec = r.id})
    BY <2>1, PGDeleteRows, <2>3, <2>4 DEF Alters, Tables, ChildTables
  <2> HIDE DEF s2
  <2>6. Removes(s2, s3, "dataFiles", {f \in s1.dataFiles : f.rec = r.id})
    <3>1. IsStore(s2)
      BY <2>5 DEF Removes, Alters
    <3> QED  BY <2>3, <2>4, <3>1, PGDeleteRows DEF Tables, ChildTables
  <2> HIDE DEF s3
  <2>7. Inserts(s3, s4, "figures", ChildRows(r.id, a.figures))
    BY <2>6, PGInsertChildren, <2>4 DEF Removes, Alters, ChildTables
  <2> HIDE DEF s4
  <2>8. Inserts(s4, s5, "dataFiles", ChildRows(r.id, a.dataFiles))
    <3>1. IsStore(s4)
      BY <2>7 DEF Inserts, Alters
    <3> QED  BY <2>4, <3>1, PGInsertChildren DEF ChildTables
  <2> HIDE DEF s5
  <2>9. Good(s1, s5, u)
    BY <2>1, <2>2, <2>4, <2>5, <2>6, <2>7, <2>8, ChildrenReplaced DEF Good
  <2> QED  BY <2>1, <2>9, GoodTrans
<1> HIDE DEF s5, fresh, distinct
<1> QED  BY <1>1, <1>2, GoodSame

LEMMA PGChildAt ==
    ASSUME NEW s, Wf(s), NEW u, NEW tab \in ChildTables, NEW rec, NEW name,
           NEW f \in PG!ChildAt(s, u, tab, rec, name)
    PROVE  f \in s[tab] /\ DOMAIN f = ChildCols /\ \E r \in s.records : r.id = f.rec /\ r.user = u
BY DEF PG!ChildAt, Wf, RowsTyped, ChildTables, PG!recordIDExists, PG!OwnRecord

LEMMA PGcreateChild ==
    ASSUME NEW s, Wf(s), NEW u, NEW tab \in ChildTables, NEW a
    PROVE  Good(s, PG!createChild(s, u, tab, a).store, u)
<1> DEFINE x == [rec |-> a.rec, name |-> a.name, meta |-> a.meta]
           t == PG!InsertRow(s, u, tab, x)
<1>1. \/ PG!createChild(s, u, tab, a).store = s
      \/ /\ PG!recordIDExists(s, u, a.rec) /\ PG!ChildAt(s, u, tab, a.rec, a.name) = {}
         /\ PG!createChild(s, u, tab, a).store = t
  BY DEF PG!createChild, PG!Ok, PG!Err
<1>2. ASSUME PG!recordIDExists(s, u, a.rec), PG!ChildAt(s, u, tab, a.rec, a.name) = {}
      PROVE  Good(s, t, u)
  <2>1. PICK r \in s.records : r.id = a.rec /\ r.user = u
    BY <1>2 DEF PG!recordIDExists, PG!OwnRecord
  <2>2. DOMAIN x = ChildCols /\ x.rec = r.id /\ x.name = a.name
    BY <2>1 DEF ChildCols
  <2> HIDE DEF x
  <2>3. Inserts(s, t, tab, {x})
    BY PGInsertRow DEF Wf, Tables
  <2>4. \A f \in {x}, g \in s[tab] : g.rec = r.id => g.name # f.name
    BY <2>1, <2>2, <1>2 DEF PG!ChildAt
  <2>5. NamesUnique({x})
    BY DEF NamesUnique
  <2> HIDE DEF t
  <2> QED  BY <2>1, <2>2, <2>3, <2>4, <2>5, ChildrenInserted
<1> HIDE DEF t
<1> QED  BY <1>1, <1>2, GoodSame

LEMMA PGupdateChild ==
    ASSUME NEW s, Wf(s), NEW u, NEW tab \in ChildTables, NEW a
    PROVE  Good(s, PG!updateChild(s, u, tab, a).store, u)
<1> DEFINE found == PG!ChildAt(s, u, tab, a.rec, a.name)
           old == CHOOSE c \in found : TRUE
           nam == PG!Coalesce(a.newName, old.name)
           met == PG!Coalesce(a.newMeta, old.meta)
           new == [old EXCEPT !.name = nam, !.meta = met]
           t == PG!UpdateRow(s, u, tab, old, new)
<1>1. \/ PG!updateChild(s, u, tab, a).store = s
      \/ /\ found # {} /\ ~ \E c \in s[tab] \ {old} : c.rec = new.rec /\ c.name = new.name
         /\ PG!updateChild(s, u, tab, a).store = t
  BY DEF PG!updateChild, PG!Ok, PG!Err
<1>2. ASSUME found # {}, ~ \E c \in s[tab] \ {old} : c.rec = new.rec /\ c.name = new.name
      PROVE  Good(s, t, u)
  <2>1. old \in found
    BY <1>2
  <2> HIDE DEF old, nam, met
  <2>2. /\ old \in s[tab] /\ DOMAIN old = ChildCols
        /\ \E r \in s.records : r.id = old.rec /\ r.user = u
    BY <2>1, PGChildAt
  <2>3. DOMAIN new = ChildCols /\ new.rec = old.rec
    BY <2>2 DEF ChildCols
  <2> HIDE DEF new, found
  <2>4. Swaps(s, t, tab, old, new)
    BY PGUpdateRow DEF Wf, Tables
  <2> HIDE DEF t
  <2> QED  BY <2>2, <2>3, <2>4, <1>2, ChildSwapped
<1> HIDE DEF t
<1> QED  BY <1>1, <1>2, GoodSame

LEMMA PGdeleteChild ==
    ASSUME NEW s, Wf(s), NEW u, NEW tab \in ChildTables, NEW a
    PROVE  Good(s, PG!deleteChild(s, u, tab, a).store, u)
<1> DEFINE found == PG!ChildAt(s, u, tab, a.rec, a.name)
           t == PG!DeleteRows(s, u, tab, found)
<1>1. PG!deleteChild(s, u, tab, a).store = s \/ PG!deleteChild(s, u, tab, a).store = t
  BY DEF PG!deleteChild, PG!Ok, PG!Err
<1>2. \A f \in found : \E r \in s.records : r.id = f.rec /\ r.user = u
  BY PGChildAt
<1> HIDE DEF found
<1>3. Removes(s, t, tab, found)
  BY PGDeleteRows DEF Wf, Tables
<1> HIDE DEF t
<1> QED  BY <1>1, <1>2, <1>3, ChildrenRemoved, GoodSame

LEMMA PGChildren ==
    ASSUME NEW s, Wf(s), NEW u, NEW a
    PROVE  /\ Good(s, PG!CreateRecordFigure(s, u, a).store, u)
           /\ Good(s, PG!UpdateRecordFigure(s, u, a).store, u)
           /\ Good(s, PG!DeleteRecordFigure(s, u, a).store, u)
           /\ Good(s, PG!CreateRecordDataFile(s, u, a).store, u)
           /\ Good(s, PG!UpdateRecordDataFile(s, u, a).store, u)
           /\ Good(s, PG!DeleteRecordDataFile(s, u, a).store, u)
BY PGcreateChild, PGupdateChild, PGdeleteChild DEF ChildTables, PG!CreateRecordFigure,
   PG!UpdateRecordFigure, PG!DeleteRecordFigure, PG!CreateRecordDataFile, PG!UpdateRecordDataFile,
   PG!DeleteRecordDataFile

LEMMA PGTemplates ==
    ASSUME NEW s, Wf(s), NEW u, NEW m, NEW a, NEW name
    PROVE  /\ Good(s, PG!CreateTemplate(s, u, m, a).store, u)
           /\ Good(s, PG!UpdateTemplate(s, u, m, a).store, u)
           /\ Good(s, PG!DeleteTemplate(s, u, name).store, u)
<1>1. IsStore(s) /\ "templates" \in Tables
  BY DEF Wf, Tables
<1>2. \A row : DOMAIN row = TemplateCols => Good(s, PG!InsertRow(s, u, "templates", row), u)
  <2> TAKE row
  <2> HAVE DOMAIN row = TemplateCols
  <2>1. Inserts(s, PG!InsertRow(s, u, "templates", row), "templates", {row})
    BY <1>1, PGInsertRow
  <2> QED  BY <2>1, <1>1, GoodTemplates DEF Inserts, Wf, RowsTyped
<1>3. \A old, new : DOMAIN new = TemplateCols =>
         Good(s, PG!UpdateTouched(s, u, "templates", old, new, m), u)
  <2> TAKE old, new
  <2> HAVE DOMAIN new = TemplateCols
  <2>1. Updates(s, PG!UpdateTouched(s, u, "templates", old, new, m), "templates", old, new)
    BY <1>1, PGUpdateTouched
  <2> DEFINE t == PG!UpdateTouched(s, u, "templates", old, new, m)
  <2>2. Alters(s, t, {"templates"})
    BY <2>1 DEF Updates
  <2>3. PICK x, gone : Stamped(new, x) /\ t.templates = (s.templates \ gone) \cup {x}
    BY <2>1 DEF Updates
  <2> HIDE DEF t
  <2>4. \A y \in t.templates : DOMAIN y = TemplateCols
    BY <2>3, StampedKeeps DEF Wf, RowsTyped, TemplateCols
  <2>5. Good(s, t, u)
    BY <2>2, <2>4, GoodTemplates
  <2> QED  BY <2>5 DEF t
<1>4. \A rows : Good(s, PG!DeleteRows(s, u, "templates", rows), u)
  <2> TAKE rows
  <2>1. Removes(s, PG!DeleteRows(s, u, "templates", rows), "templates", rows)
    BY <1>1, PGDeleteRows
  <2> QED  BY <2>1, <1>1, GoodTemplates DEF Removes, Wf, RowsTyped
<1>5. Good(s, PG!UpdateTemplate(s, u, m, a).store, u)
  <2>1. \/ PG!UpdateTemplate(s, u, m, a).store = s
        \/ \E old, new : /\ DOMAIN new = TemplateCols
                         /\ PG!UpdateTemplate(s, u, m, a).store = PG!UpdateTouched(s, u, "templates", old, new, m)
    <3> DEFINE found == {x \in s.templates : x.name = a.name}
               old == CHOOSE x \in found : TRUE
               upd == PG!Coalesce(a.upd, old.upd)
               new == [old EXCEPT !.html = a.html, !.upd = upd]
    <3>1. \/ PG!UpdateTemplate(s, u, m, a).store = s
          \/ found # {} /\ PG!UpdateTemplate(s, u, m, a).store = PG!UpdateTouched(s, u, "templates", old, new, m)
      BY DEF PG!UpdateTemplate, PG!updateOwn, PG!Ok, PG!Err
    <3>2. found # {} => DOMAIN new = TemplateCols
      BY DEF Wf, RowsTyped, TemplateCols
    <3> HIDE DEF found, new
    <3> QED  BY <3>1, <3>2
  <2> QED  BY <1>3, <2>1, GoodSame
<1>6. Good(s, PG!DeleteTemplate(s, u, name).store, u)
  BY <1>4, GoodSame DEF PG!DeleteTemplate, PG!Ok, PG!Err
<1> QED  BY <1>2, GoodSame, <1>5, <1>6 DEF PG!CreateTemplate, PG!Ok, PG!Err, TemplateCols

LEMMA PGcreateEntry ==
    ASSUME NEW s, Wf(s), NEW u, NEW tab \in {"projects", "devices"}, NEW m, NEW a
    PROVE  LET q == PG!createEntry(s, u, tab, m, a)
           IN  Good(s, q.store, u) /\ [q EXCEPT !.val = TRUE].store = q.store
<1> DEFINE x == [id |-> a.id, user |-> u, upd |-> PG!Coalesce(a.upd, m), arch |-> a.arch]
           t == PG!InsertRow(s, u, tab, x)
           q == PG!createEntry(s, u, tab, m, a)
<1>1. /\ q.store = s \/ q.store = t
      /\ [q EXCEPT !.val = TRUE].store = q.store
  BY DEF PG!createEntry, PG!Ok, PG!Err
<1>2. DOMAIN x = EntryCols /\ x.user = u
  BY DEF EntryCols
<1> HIDE DEF x
<1>3. Inserts(s, t, tab, {x})
  BY PGInsertRow DEF Wf, Tables, OwnedTables
<1> HIDE DEF t, q
<1>4. Good(s, t, u)
  BY <1>2, <1>3, EntryInserted
<1> QED  BY <1>1, <1>4, GoodSame DEF q

LEMMA PGUpdatesEntry ==
    ASSUME NEW s, Wf(s), NEW u, NEW tab \in {"projects", "devices"}, NEW old \in s[tab],
           old.user = u, NEW m, NEW upd, NEW arch
    PROVE  /\ Good(s, PG!UpdateTouched(s, u, tab, old, [old EXCEPT !.arch = arch], m), u)
           /\ Good(s, PG!UpdateTouched(s, u, tab, old, [old EXCEPT !.upd = upd, !.arch = arch], m), u)
<1>1. DOMAIN old = EntryCols
  BY DEF Wf, RowsTyped
<1>2. ASSUME NEW new, DOMAIN new = EntryCols, new.id = old.id, new.user = old.user
      PROVE  Good(s, PG!UpdateTouched(s, u, tab, old, new, m), u)
  BY PGUpdateTouched, <1>1, <1>2, EntryUpdated DEF Wf, Tables, OwnedTables
<1> DEFINE n1 == [old EXCEPT !.arch = arch]
           n2 == [old EXCEPT !.upd = upd, !.arch = arch]
<1>3. /\ DOMAIN n1 = EntryCols /\ n1.id = old.id /\ n1.user = old.user
      /\ DOMAIN n2 = EntryCols /\ n2.id = old.id /\ n2.user = old.user
  BY <1>1 DEF EntryCols
<1> HIDE DEF n1, n2
<1> QED  BY <1>2, <1>3 DEF n1, n2

LEMMA PGsetArchivedAt ==
    ASSUME NEW s, Wf(s), NEW u, NEW tab \in {"projects", "devices"}, NEW m, NEW id, NEW arch
    PROVE  Good(s, PG!setArchivedAt(s, u, tab, m, id, arch).store, u)
<1> DEFINE own == PG!OwnEntry(s, u, tab, id)
           old == CHOOSE r \in own : TRUE
           t == PG!UpdateTouched(s, u, tab, old, [old EXCEPT !.arch = arch], m)
<1>1. \/ PG!setArchivedAt(s, u, tab, m, id, arch).store = s
      \/ own # {} /\ PG!setArchivedAt(s, u, tab, m, id, arch).store = t
  BY DEF PG!setArchivedAt, PG!updateOwn, PG!Ok, PG!Err
<1>2. ASSUME own # {}
      PROVE  Good(s, t, u)
  <2>1. old \in own
    BY <1>2
  <2>2. old \in s[tab] /\ old.user = u
    BY <2>1 DEF PG!OwnEntry
  <2> HIDE DEF old
  <2> QED  BY <2>2, PGUpdatesEntry
<1> HIDE DEF t
<1> QED  BY <1>1, <1>2, GoodSame

LEMMA PGupsertEntryForImport ==
    ASSUME NEW s, Wf(s), NEW u, NEW tab \in {"projects", "devices"}, NEW m, NEW a
    PROVE  Good(s, PG!upsertEntryForImport(s, u, tab, m, a).store, u)
<1> DEFINE own == PG!OwnEntry(s, u, tab, a.id)
           old == CHOOSE r \in own : TRUE
           t == PG!UpdateTouched(s, u, tab, old, [old EXCEPT !.upd = a.upd, !.arch = a.arch], m)
           q == PG!upsertEntryForImport(s, u, tab, m, a)
           c == PG!createEntry(s, u, tab, m, a)
<1>1. \/ q.store = s
      \/ q.store = [c EXCEPT !.val = TRUE].store
      \/ own # {} /\ q.store = t
  BY DEF PG!upsertEntryForImport, PG!updateOwn, PG!Ok
<1>2. ASSUME own # {}
      PROVE  Good(s, t, u)
  <2>1. old \in own
    BY <1>2
  <2>2. old \in s[tab] /\ old.user = u
    BY <2>1 DEF PG!OwnEntry
  <2> HIDE DEF old
  <2> QED  BY <2>2, PGUpdatesEntry
<1>3. Good(s, [c EXCEPT !.val = TRUE].store, u)
  BY PGcreateEntry
<1> HIDE DEF t, q, c
<1>4. Good(s, q.store, u)
  BY <1>1, <1>2, <1>3, GoodSame
<1> QED  BY <1>4 DEF q

LEMMA PGEntries ==
    ASSUME NEW s, Wf(s), NEW u, NEW m, NEW a, NEW id
    PROVE  /\ Good(s, PG!CreateProject(s, u, m, a).store, u)
           /\ Good(s, PG!CreateDevice(s, u, m, a).store, u)
           /\ Good(s, PG!UpsertProjectForImport(s, u, m, a).store, u)
           /\ Good(s, PG!UpsertDeviceForImport(s, u, m, a).store, u)
           /\ Good(s, PG!ArchiveProject(s, u, m, id).store, u)
           /\ Good(s, PG!RestoreProject(s, u, m, id).store, u)
           /\ Good(s, PG!ArchiveDevice(s, u, m, id).store, u)
           /\ Good(s, PG!RestoreDevice(s, u, m, id).store, u)
BY PGcreateEntry, PGsetArchivedAt, PGupsertEntryForImport
   DEF PG!CreateProject, PG!CreateDevice, PG!UpsertProjectForImport, PG!UpsertDeviceForImport,
       PG!ArchiveProject, PG!RestoreProject, PG!ArchiveDevice, PG!RestoreDevice

LEMMA PGUpsertProjectPath ==
    ASSUME NEW s, Wf(s), NEW u, NEW m, NEW a, a.path \in Seq(Nat), a.proj \in Nat
    PROVE  Good(s, PG!UpsertProjectPath(s, u, m, a).store, u)
<1> DEFINE x == [user |-> u, proj |-> a.proj, path |-> a.path, dev |-> a.dev,
                 upd |-> PG!Coalesce(a.upd, m)]
           t == PG!InsertRow(s, u, "paths", x)
<1>1. \/ PG!UpsertProjectPath(s, u, m, a).store = s
      \/ PG!RecordRefs(s, u, a) /\ PG!UpsertProjectPath(s, u, m, a).store = t
  BY DEF PG!UpsertProjectPath, PG!Ok, PG!Err
<1>2. DOMAIN x = PathCols /\ x.user = u /\ x.proj = a.proj /\ x.path = a.path /\ x.dev = a.dev
  BY DEF PathCols
<1> HIDE DEF x
<1>3. Inserts(s, t, "paths", {x})
  BY PGInsertRow DEF Wf, Tables, OwnedTables
<1>4. PG!RecordRefs(s, u, a) => ProjectExists(s, x) /\ DeviceExists(s, x)
  BY <1>2, PGRefs
<1>5. x.path \in Seq(Nat) /\ x.proj \in Nat
  BY <1>2
<1> HIDE DEF t
<1> QED  BY <1>1, <1>2, <1>3, <1>4, <1>5, GoodPaths, GoodSame

LEMMA PGLongestPath ==
    ASSUME NEW s, Wf(s), NEW c \in s.sessions, PG!PathsOf(s, c) # {}
    PROVE  \E p \in s.projects : p.user = c.user /\ p.id = PG!longestPathProject(s, c)
<1> DEFINE P == PG!PathsOf(s, c)
           first(p) == \A q \in P : \/ Len(p.path) > Len(q.path)
                                    \/ Len(p.path) = Len(q.path) /\ p.proj <= q.proj
           best == CHOOSE p \in P : first(p)
<1>1. \A p \in P : p \in s.paths /\ p.user = c.user /\ c.cwd # None /\ Len(p.path) <= Len(c.cwd)
  BY DEF PG!PathsOf, PG!InDirectory, PG!IsPrefix
<1>2. \A p \in P : p.path \in Seq(Nat) /\ p.proj \in Nat
  BY <1>1 DEF Wf, RowsTyped
<1>3. Len(c.cwd) \in Nat
  BY <1>1 DEF Wf, RowsTyped
<1>4. \E p \in P : first(p)
  <2>1. P # {}
    OBVIOUS
  <2> HIDE DEF P
  <2> QED  BY <1>1, <1>2, <1>3, <2>1, LongestExists
<1>5. best \in P
  <2> HIDE DEF P, first
  <2> QED  BY <1>4
<1>6. PG!longestPathProject(s, c) = best.proj
  BY DEF PG!longestPathProject
<1> HIDE DEF best, P
<1> QED  BY <1>6, <1>1, <1>5 DEF Wf, Refs, PathRefs, ProjectExists

LEMMA PGBackfillChatProjects ==
    ASSUME NEW s, Wf(s), NEW u, NEW m
    PROVE  Good(s, PG!BackfillChatProjects(s, u, m).store, u)
<1> DEFINE open == {c \in s.sessions : c.user = u /\ c.proj = None /\ PG!PathsOf(s, c) # {}}
           best(c) == PG!longestPathProject(s, c)
           F == [c \in open |-> [c EXCEPT !.proj = PG!longestPathProject(s, c), !.upd = m]]
           n == PG!Cardinality(open)
           t == PG!BackfillChatProjects(s, u, m).store
<1>1. t = PG!bumpSyncVersion([s EXCEPT !.sessions = (s.sessions \ open) \cup {F[c] : c \in open}], u, n)
  <2> DEFINE rows == {[c EXCEPT !.proj = PG!longestPathProject(s, c), !.upd = m] : c \in open}
             q == PG!bumpSyncVersion([s EXCEPT !.sessions = (s.sessions \ open) \cup rows], u, n)
  <2>1. rows = {F[c] : c \in open}
    OBVIOUS
  <2>2. PG!BackfillChatProjects(s, u, m) = PG!Ok(q, n)
    BY DEF PG!BackfillChatProjects
  <2>3. t = q
    <3> HIDE DEF q
    <3> QED  BY <2>2 DEF PG!Ok
  <2> HIDE DEF rows, open, F, t, n
  <2> QED  BY <2>1, <2>3
<1>2. ASSUME NEW c \in open
      PROVE  /\ c \in s.sessions /\ c.user = u
             /\ DOMAIN F[c] = SessionCols
             /\ F[c].id = c.id /\ F[c].user = c.user /\ F[c].src = c.src /\ F[c].cwd = c.cwd
             /\ ProjectExists(s, F[c]) /\ DeviceExists(s, F[c])
  <2>1. c \in s.sessions /\ c.user = u /\ PG!PathsOf(s, c) # {}
    OBVIOUS
  <2>2. DOMAIN c = SessionCols
    BY <2>1 DEF Wf, RowsTyped
  <2>3. \E p \in s.projects : p.user = c.user /\ p.id = best(c)
    BY <2>1, PGLongestPath
  <2>4. F[c] = [c EXCEPT !.proj = best(c), !.upd = m]
    OBVIOUS
  <2> HIDE DEF F, best
  <2>5. /\ DOMAIN F[c] = SessionCols
        /\ F[c].id = c.id /\ F[c].user = c.user /\ F[c].src = c.src /\ F[c].cwd = c.cwd
        /\ F[c].proj = best(c) /\ F[c].dev = c.dev
    BY <2>2, <2>4 DEF SessionCols
  <2>6. ProjectExists(s, F[c]) /\ DeviceExists(s, F[c])
    BY <2>3, <2>5, <2>1 DEF ProjectExists, DeviceExists, Wf, Refs, SessionRefsHold
  <2> QED  BY <2>1, <2>2, <2>5, <2>6
<1> HIDE DEF open, F, t, n
<1>3. Alters(s, t, {"sessions"}) /\ t.sessions = (s.sessions \ open) \cup {F[c] : c \in open}
  <2> DEFINE new == (s.sessions \ open) \cup {F[c] : c \in open}
  <2>1. t = PG!bumpSyncVersion([s EXCEPT !.sessions = new], u, n)
    BY <1>1
  <2> HIDE DEF new
  <2>2. Alters(s, t, {"sessions"}) /\ t.sessions = new
    BY <2>1, StoreDomain DEF Wf, IsStore, Alters, PG!bumpSyncVersion, Tables, OwnedTables
  <2> QED  BY <2>2 DEF new
<1>4. Good(s, t, u)
  BY <1>2, <1>3, SessionsFilled
<1> QED  BY <1>4 DEF t

LEMMA PGinsertChatItems ==
    ASSUME NEW s, Wf(s), NEW u, NEW c \in s.sessions, c.user = u, NEW items
    PROVE  LET q == PG!insertChatItemsTx(s, u, c.id, items)
           IN  Good(s, q.store, u) /\ \A v : [q EXCEPT !.val = v].store = q.store
<1> DEFINE q == PG!insertChatItemsTx(s, u, c.id, items)
           rows == {[sess |-> c.id, ord |-> items[i].ord, text |-> items[i].text] : i \in DOMAIN items}
           t == PG!bumpSyncVersion([s EXCEPT !.items = s.items \cup rows], u, Len(items))
<1>1. \/ q = PG!Err(s, "conflict")
      \/ /\ ~ PG!Repeats([i \in DOMAIN items |-> items[i].ord])
         /\ ~ \E i \in rows, j \in PG!ItemsOf(s, c.id) : i.ord = j.ord
         /\ q = PG!Ok(t, c.id)
  BY DEF PG!insertChatItemsTx, PG!Column
<1>2. \/ q.store = s
      \/ /\ ~ PG!Repeats([i \in DOMAIN items |-> items[i].ord])
         /\ ~ \E i \in rows, j \in PG!ItemsOf(s, c.id) : i.ord = j.ord
         /\ q.store = t
  <2> HIDE DEF t, rows, q
  <2> QED  BY <1>1 DEF PG!Ok, PG!Err
<1>3. \A v : [q EXCEPT !.val = v].store = q.store
  <2> HIDE DEF t, rows, q
  <2> QED  BY <1>1 DEF PG!Ok, PG!Err
<1>4. rows = ItemRows(c.id, items)
  BY DEF ItemRows
<1>5. Inserts(s, t, "items", rows)
  <2> HIDE DEF rows
  <2> QED  BY StoreDomain DEF Wf, IsStore, Inserts, Alters, PG!bumpSyncVersion, Tables
<1>6. ASSUME ~ PG!Repeats([i \in DOMAIN items |-> items[i].ord]),
             ~ \E i \in rows, j \in PG!ItemsOf(s, c.id) : i.ord = j.ord
      PROVE  Good(s, t, u)
  <2>1. DistinctOrds(items)
    BY <1>6 DEF DistinctOrds, PG!Repeats
  <2> HIDE DEF t, rows, q
  <2> QED  BY <1>4, <1>5, <2>1, <1>6, ItemListInserted DEF PG!ItemsOf
<1> HIDE DEF t, rows
<1>7. Good(s, q.store, u)
  <2> HIDE DEF q
  <2> QED  BY <1>2, <1>6, GoodSame
<1> QED  BY <1>3, <1>7

LEMMA PGSessionRow ==
    ASSUME NEW u, NEW a, NEW m
    PROVE  LET x == PG!sessionRow(u, a, m)
           IN  /\ DOMAIN x = SessionCols /\ x.id = a.id /\ x.user = u /\ x.src = a.src
               /\ x.proj = a.proj /\ x.dev = a.dev /\ x.cwd = a.cwd
BY DEF PG!sessionRow, SessionCols

LEMMA PGUpdatesSession ==
    ASSUME NEW s, Wf(s), NEW u, NEW old \in s.sessions, old.user = u, NEW m, NEW new,
           DOMAIN new = SessionCols, new.id = old.id, new.user = old.user, new.src = old.src,
           new.cwd = None \/ new.cwd \in Seq(Nat),
           new.proj # None => ProjectExists(s, new), DeviceExists(s, new)
    PROVE  LET t == PG!UpdateTouched(s, u, "sessions", old, new, m)
           IN  /\ Good(s, t, u) /\ Alters(s, t, {"sessions"})
               /\ \E c \in t.sessions : c.id = old.id /\ c.user = u
<1> DEFINE t == PG!UpdateTouched(s, u, "sessions", old, new, m)
<1>1. Updates(s, t, "sessions", old, new)
  BY PGUpdateTouched DEF Wf, Tables, OwnedTables
<1> HIDE DEF t
<1>2. Good(s, t, u)
  BY <1>1, SessionUpdated
<1>3. PICK x, gone : Stamped(new, x) /\ t.sessions = (s.sessions \ gone) \cup {x}
  BY <1>1 DEF Updates
<1>4. Good(s, t, u) /\ Alters(s, t, {"sessions"}) /\ \E c \in t.sessions : c.id = old.id /\ c.user = u
  BY <1>1, <1>2, <1>3, StampedKeeps DEF Updates, SessionCols
<1> QED  BY <1>4 DEF t

LEMMA PGupsertChatSession ==
    ASSUME NEW s, Wf(s), NEW u, NEW m, NEW a, a.cwd = None \/ a.cwd \in Seq(Nat)
    PROVE  Upserted(s, PG!upsertChatSession(s, u, m, a), u)
<1> DEFINE same == {c \in s.sessions : c.user = u /\ c.src = a.src}
           row == PG!sessionRow(u, a, m)
           old == CHOOSE c \in same : TRUE
           proj == PG!Coalesce(row.proj, old.proj)
           cwd == PG!Coalesce(row.cwd, old.cwd)
           title == PG!Coalesce(row.title, old.title)
           start == PG!Lesser(old.start, row.start)
           last == PG!Greater(old.last, row.last)
           del == IF a.clearDel THEN None ELSE row.del
           new == [old EXCEPT !.dev = row.dev, !.proj = proj, !.cwd = cwd, !.title = title,
                      !.start = start, !.last = last, !.orig = row.orig, !.upd = row.upd,
                      !.del = del]
           ins == PG!InsertRow(s, u, "sessions", row)
           upd == PG!UpdateTouched(s, u, "sessions", old, new, m)
           q == PG!upsertChatSession(s, u, m, a)
           free == ~ PG!recordIDExists(s, u, a.id) /\ ~ \E c \in s.sessions : c.id = a.id
<1>1. \/ q = PG!Err(s, "conflict") \/ q = PG!Err(s, "foreign_key")
      \/ /\ same = {} /\ free /\ PG!SessionRefs(s, u, a)
         /\ q = PG!Ok(ins, [id |-> a.id, created |-> TRUE])
      \/ /\ same # {} /\ PG!SessionRefs(s, u, a)
         /\ q = PG!Ok(upd, [id |-> old.id, created |-> FALSE])
  <2> HIDE DEF ins
  <2> QED  BY DEF PG!upsertChatSession, PG!updateOwn, ins
<1>2. /\ DOMAIN row = SessionCols /\ row.id = a.id /\ row.user = u /\ row.src = a.src
      /\ row.proj = a.proj /\ row.dev = a.dev /\ row.cwd = a.cwd
  BY PGSessionRow
<1>3. ASSUME PG!SessionRefs(s, u, a)
      PROVE  /\ a.proj # None => \E p \in s.projects : p.user = u /\ p.id = a.proj
             /\ \E d \in s.devices : d.user = u /\ d.id = a.dev
  BY <1>3 DEF PG!SessionRefs
<1>4. ASSUME same = {}, free, PG!SessionRefs(s, u, a)
      PROVE  /\ Good(s, ins, u) /\ Alters(s, ins, {"sessions"})
             /\ \E c \in ins.sessions : c.id = a.id /\ c.user = u
  <2>1. \A c \in s.sessions : c.id # row.id /\ (c.user = u => c.src # row.src)
    BY <1>2, <1>4
  <2>2. \A r \in s.records : r.user = u => r.id # row.id
    BY <1>2, <1>4 DEF PG!recordIDExists, PG!OwnRecord
  <2> HIDE DEF row, same, free
  <2>3. Inserts(s, ins, "sessions", {row})
    BY PGInsertRow DEF Wf, Tables, OwnedTables
  <2>4. (row.proj # None => ProjectExists(s, row)) /\ DeviceExists(s, row)
    BY <1>2, <1>3, <1>4 DEF ProjectExists, DeviceExists
  <2> HIDE DEF ins
  <2> QED  BY <1>2, <2>3, <2>1, <2>2, <2>4, SessionInserted DEF Inserts
<1>5. ASSUME same # {}, PG!SessionRefs(s, u, a)
      PROVE  /\ Good(s, upd, u) /\ Alters(s, upd, {"sessions"})
             /\ \E c \in upd.sessions : c.id = old.id /\ c.user = u
  <2>1. old \in s.sessions /\ old.user = u
    BY <1>5
  <2>2. proj = (IF a.proj = None THEN old.proj ELSE a.proj) /\ cwd = (IF a.cwd = None THEN old.cwd ELSE a.cwd)
    BY <1>2 DEF PG!Coalesce
  <2> HIDE DEF old, row, proj, cwd, title, start, last, del, same
  <2>3. DOMAIN old = SessionCols /\ (old.cwd = None \/ old.cwd \in Seq(Nat))
    BY <2>1 DEF Wf, RowsTyped
  <2>4. (old.proj # None => ProjectExists(s, old))
    BY <2>1 DEF Wf, Refs, SessionRefsHold
  <2>5. /\ DOMAIN new = SessionCols /\ new.id = old.id /\ new.user = old.user /\ new.src = old.src
        /\ new.proj = proj /\ new.dev = row.dev /\ new.cwd = cwd
    BY <2>3 DEF SessionCols
  <2> HIDE DEF new
  <2>6. new.cwd = None \/ new.cwd \in Seq(Nat)
    BY <2>2, <2>3, <2>5
  <2>7. (new.proj # None => ProjectExists(s, new)) /\ DeviceExists(s, new)
    BY <1>2, <1>3, <1>5, <2>1, <2>2, <2>3, <2>4, <2>5 DEF ProjectExists, DeviceExists
  <2> QED  BY <2>1, <2>5, <2>6, <2>7, PGUpdatesSession
<1> HIDE DEF q, ins, upd, same, old, free
<1>6. CASE q = PG!Err(s, "conflict") \/ q = PG!Err(s, "foreign_key")
  BY <1>6, NoneAssumption, GoodSame DEF PG!Err, Errors, Alters, Wf, Upserted, q
<1>7. ASSUME NEW t, NEW i, NEW b, q = PG!Ok(t, [id |-> i, created |-> b]),
             Good(s, t, u), Alters(s, t, {"sessions"}), \E c \in t.sessions : c.id = i /\ c.user = u
      PROVE  Upserted(s, q, u)
  BY <1>7 DEF PG!Ok, Upserted
<1>8. Upserted(s, q, u)
  BY <1>4, <1>7, <1>5, <1>1, <1>6 DEF q
<1> QED  BY <1>8 DEF q

\* The items of a session deleted and inserted anew.
LEMMA PGItemsReplaced ==
    ASSUME NEW s, Wf(s), NEW u, NEW c \in s.sessions, c.user = u, NEW items
    PROVE  LET q == PG!insertChatItemsTx(PG!DeleteRows(s, u, "items", PG!ItemsOf(s, c.id)), u, c.id, items)
           IN  Good(s, q.store, u) /\ \A v : [q EXCEPT !.val = v].store = q.store
<1> DEFINE rows == PG!ItemsOf(s, c.id)
           d == PG!DeleteRows(s, u, "items", rows)
           q == PG!insertChatItemsTx(d, u, c.id, items)
<1>1. \A i \in rows : \E e \in s.sessions : e.id = i.sess /\ e.user = u
  BY DEF PG!ItemsOf
<1> HIDE DEF rows
<1>2. Removes(s, d, "items", rows)
  BY PGDeleteRows DEF Wf, Tables
<1> HIDE DEF d
<1>3. Good(s, d, u)
  BY <1>1, <1>2, ItemsRemoved
<1>4. Good(d, q.store, u) /\ \A v : [q EXCEPT !.val = v].store = q.store
  BY <1>3, <1>2, PGinsertChatItems DEF Good, Removes, Alters, Tables, OwnedTables
<1> HIDE DEF q
<1> QED  BY <1>3, <1>4, GoodTrans DEF q, d, rows

LEMMA PGRollback ==
    ASSUME NEW s, Wf(s), NEW u, NEW q, Good(s, q.store, u)
    PROVE  Good(s, PG!Rollback(s, q).store, u)
BY GoodSame DEF PG!Rollback, PG!Err

LEMMA PGUpsertChatSession ==
    ASSUME NEW s, Wf(s), NEW u, NEW m, NEW a, a.cwd = None \/ a.cwd \in Seq(Nat)
    PROVE  Good(s, PG!UpsertChatSession(s, u, m, a).store, u)
BY PGupsertChatSession DEF Upserted, PG!UpsertChatSession

LEMMA PGUpsertChatSessionWithItems ==
    ASSUME NEW s, Wf(s), NEW u, NEW m, NEW a, a.cwd = None \/ a.cwd \in Seq(Nat)
    PROVE  Good(s, PG!UpsertChatSessionWithItems(s, u, m, a).store, u)
<1> DEFINE up == PG!upsertChatSession(s, u, m, a)
           id == up.val.id
           d == PG!DeleteRows(up.store, u, "items", PG!ItemsOf(s, id))
           ins == PG!insertChatItemsTx(d, u, id, a.items)
           q == PG!UpsertChatSessionWithItems(s, u, m, a)
<1>1. Upserted(s, up, u)
  BY PGupsertChatSession
<1>2. q = IF up.err # None THEN up ELSE PG!Rollback(s, [ins EXCEPT !.val = up.val])
  BY DEF PG!UpsertChatSessionWithItems
<1> HIDE DEF up
<1>3. CASE up.err # None
  BY <1>1, <1>2, <1>3 DEF Upserted
<1>4. CASE up.err = None
  <2>1. PICK c \in up.store.sessions : c.id = id /\ c.user = u
    BY <1>1, <1>4 DEF Upserted
  <2>2. Wf(up.store) /\ Good(s, up.store, u)
    BY <1>1 DEF Upserted, Good
  <2>3. ins = PG!insertChatItemsTx(PG!DeleteRows(up.store, u, "items", PG!ItemsOf(up.store, c.id)),
                                   u, c.id, a.items)
    BY <2>1, <1>1 DEF Upserted, Alters, PG!ItemsOf, Tables
  <2> HIDE DEF ins, d, id
  <2>4. Good(up.store, ins.store, u) /\ \A v : [ins EXCEPT !.val = v].store = ins.store
    BY <2>1, <2>2, <2>3, PGItemsReplaced
  <2>5. Good(s, ins.store, u)
    BY <2>2, <2>4, GoodTrans
  <2>6. [ins EXCEPT !.val = up.val].store = ins.store
    BY <2>4
  <2> DEFINE r == [ins EXCEPT !.val = up.val]
  <2> HIDE DEF r
  <2>7. Good(s, r.store, u)
    BY <2>5, <2>6 DEF r
  <2> QED  BY <1>2, <1>4, <2>7, PGRollback DEF r
<1> QED  BY <1>3, <1>4

\* An UPDATE of a session's tombstone.
LEMMA PGSetsChatDeleted ==
    ASSUME NEW s, Wf(s), NEW u, NEW old \in s.sessions, old.user = u, NEW m, NEW del
    PROVE  Good(s, PG!UpdateTouched(s, u, "sessions", old, [old EXCEPT !.del = del], m), u)
<1> DEFINE new == [old EXCEPT !.del = del]
<1>1. DOMAIN old = SessionCols /\ (old.cwd = None \/ old.cwd \in Seq(Nat))
  BY DEF Wf, RowsTyped
<1>2. (old.proj # None => ProjectExists(s, old)) /\ DeviceExists(s, old)
  BY DEF Wf, Refs, SessionRefsHold
<1>3. /\ DOMAIN new = SessionCols /\ new.id = old.id /\ new.user = old.user /\ new.src = old.src
      /\ new.cwd = old.cwd /\ new.proj = old.proj /\ new.dev = old.dev
  BY <1>1 DEF SessionCols
<1> HIDE DEF new
<1>4. (new.proj # None => ProjectExists(s, new)) /\ DeviceExists(s, new)
  BY <1>2, <1>3 DEF ProjectExists, DeviceExists
<1>5. Good(s, PG!UpdateTouched(s, u, "sessions", old, new, m), u)
  BY <1>3, <1>1, <1>4, PGUpdatesSession
<1> QED  BY <1>5 DEF new

LEMMA PGChatTombstones ==
    ASSUME NEW s, Wf(s), NEW u, NEW m, NEW id
    PROVE  /\ Good(s, PG!SoftDeleteChatSession(s, u, m, id).store, u)
           /\ Good(s, PG!RestoreChatSession(s, u, m, id).store, u)
<1> DEFINE own == PG!OwnSession(s, u, id)
           gone == {c \in own : c.del # None}
           old(set) == CHOOSE r \in set : TRUE
           del == PG!Coalesce(old(own).del, m)
           q(set, d) == PG!UpdateTouched(s, u, "sessions", old(set), [old(set) EXCEPT !.del = d], m)
<1>1. /\ \/ PG!SoftDeleteChatSession(s, u, m, id).store = s
         \/ own # {} /\ PG!SoftDeleteChatSession(s, u, m, id).store = q(own, del)
      /\ \/ PG!RestoreChatSession(s, u, m, id).store = s
         \/ gone # {} /\ PG!RestoreChatSession(s, u, m, id).store = q(gone, None)
  BY DEF PG!SoftDeleteChatSession, PG!RestoreChatSession, PG!updateOwn, PG!Ok, PG!Err
<1>2. ASSUME NEW set, set \subseteq own, set # {}, NEW d
      PROVE  Good(s, q(set, d), u)
  <2>1. old(set) \in own
    BY <1>2
  <2>2. old(set) \in s.sessions /\ old(set).user = u
    BY <2>1 DEF PG!OwnSession
  <2> HIDE DEF old
  <2> QED  BY <2>2, PGSetsChatDeleted
<1>3. gone \subseteq own /\ own \subseteq own
  OBVIOUS
<1> HIDE DEF q, del, gone, own
<1> QED  BY <1>1, <1>2, <1>3, GoodSame

LEMMA PGDeleteChatSession ==
    ASSUME NEW s, Wf(s), NEW u, NEW id
    PROVE  Good(s, PG!DeleteChatSession(s, u, id).store, u)
<1> DEFINE own == PG!OwnSession(s, u, id)
           s1 == PG!DeleteRows(s, u, "sessions", own)
           its == s1.items \ PG!ItemsOf(s, id)
           t == [s1 EXCEPT !["items"] = its]
<1>1. \/ PG!DeleteChatSession(s, u, id).store = s
      \/ own # {} /\ PG!DeleteChatSession(s, u, id).store = t
  BY DEF PG!DeleteChatSession, PG!Ok, PG!Err
<1>2. ASSUME own # {}
      PROVE  Good(s, t, u)
  <2>1. \A c \in own : c \in s.sessions /\ c.user = u
    BY DEF PG!OwnSession
  <2>2. {c.id : c \in own} = {id}
    BY <1>2 DEF PG!OwnSession
  <2> HIDE DEF own
  <2>3. Removes(s, s1, "sessions", own)
    BY PGDeleteRows DEF Wf, Tables, OwnedTables
  <2>4. its = {i \in s1.items : i.sess # id}
    <3>1. s1.items = s.items
      BY <2>3 DEF Removes, Alters, Tables, OwnedTables
    <3> HIDE DEF s1
    <3> QED  BY <3>1 DEF PG!ItemsOf
  <2> HIDE DEF s1, its
  <2>5. IsStore(t) /\ t.items = its /\ \A k \in Tables \ {"items"} : t[k] = s1[k]
    BY <2>3, StoreDomain DEF Removes, Alters, IsStore, Tables
  <2> HIDE DEF t
  <2>6. t.sessions = s.sessions \ own /\ s1.items = s.items
    BY <2>3, <2>5 DEF Removes, Alters, Tables, OwnedTables
  <2>7. t.items = {i \in s.items : i.sess \notin {c.id : c \in own}}
    BY <2>2, <2>4, <2>5, <2>6
  <2> QED  BY <2>1, <2>3, <2>5, <2>6, <2>7, SessionsDeleted DEF Removes, Alters
<1> HIDE DEF t
<1> QED  BY <1>1, <1>2, GoodSame

LEMMA PGChatItems ==
    ASSUME NEW s, Wf(s), NEW u, NEW a
    PROVE  /\ Good(s, PG!CreateChatItem(s, u, a).store, u)
           /\ Good(s, PG!AppendChatItems(s, u, a).store, u)
           /\ Good(s, PG!ReplaceChatItems(s, u, a).store, u)
<1> DEFINE ins == PG!insertChatItemsTx(s, u, a.id, a.items)
           rep == PG!insertChatItemsTx(PG!DeleteRows(s, u, "items", PG!ItemsOf(s, a.id)),
                                       u, a.id, a.items)
           there == PG!chatSessionIDExists(s, u, a.id)
<1>1. ASSUME there
      PROVE  Good(s, ins.store, u) /\ Good(s, rep.store, u)
  <2>1. PICK c \in s.sessions : c.id = a.id /\ c.user = u
    BY <1>1 DEF PG!chatSessionIDExists, PG!OwnSession
  <2>2. Good(s, rep.store, u)
    BY <2>1, PGItemsReplaced
  <2> QED  BY <2>1, PGinsertChatItems, <2>2
<1>2. there => /\ PG!CreateChatItem(s, u, a) = ins /\ PG!AppendChatItems(s, u, a) = ins
               /\ PG!ReplaceChatItems(s, u, a) = PG!Rollback(s, rep)
  BY DEF PG!CreateChatItem, PG!AppendChatItems, PG!ReplaceChatItems
<1>3. ~ there => /\ PG!CreateChatItem(s, u, a).store = s /\ PG!AppendChatItems(s, u, a).store = s
                 /\ PG!ReplaceChatItems(s, u, a).store = s
  BY DEF PG!CreateChatItem, PG!AppendChatItems, PG!ReplaceChatItems, PG!Err
<1> HIDE DEF ins, rep, there
<1> QED  BY <1>1, <1>2, <1>3, GoodSame, PGRollback

---------------------------------------------------------------------------
(* The calls of the specification *)

LEMMA UnfiredGood ==
    ASSUME NEW s, Wf(s), NEW u
    PROVE  Good(s, Unfired(s), u) /\ Wf(Unfired(s)) /\ (OwnedBy(s, u) => OwnedBy(Unfired(s), u))
<1>1. Good(s, Unfired(s), u)
  BY StoreDomain, GoodTemplates DEF Wf, IsStore, Unfired, Tables, RowsTyped, Alters
<1> QED  BY <1>1, OwnedStays DEF Good

LEMMA CallKeeps ==
    ASSUME IInv, NEW op, NEW id, NEW upd, NEW onSQ, NEW onPG,
           CallAt(op, id, upd, onSQ, onPG),
           Good(Unfired(sq), onSQ.store, Me), Good(Unfired(pg), onPG.store, Me)
    PROVE  Kept
BY CallsAssumption, UnfiredGood, GoodTrans, OwnedStays DEF CallAt, IInv, Counted, Good, Kept

LEMMA RecordsKeep ==
    ASSUME IInv, Records
    PROVE  Kept
<1>1. Wf(Unfired(sq)) /\ OwnedBy(Unfired(sq), Me) /\ Wf(Unfired(pg))
  BY UnfiredGood DEF IInv
<1>2. ASSUME NEW a,
             CallAt("CreateRecord", a.id, a.upd, SQ!CreateRecord(Unfired(sq), now, a),
                    PG!CreateRecord(Unfired(pg), Me, now, a))
      PROVE  Kept
  BY <1>1, <1>2, CallKeeps, SQCreateRecord, PGCreateRecord
<1>3. ASSUME NEW a,
             CallAt("UpdateRecord", a.id, a.upd, SQ!UpdateRecord(Unfired(sq), now, a),
                    PG!UpdateRecord(Unfired(pg), Me, now, a))
      PROVE  Kept
  BY <1>1, <1>3, CallKeeps, SQUpdateRecord, PGUpdateRecord
<1>4. ASSUME NEW i,
             Call("SoftDeleteRecord", i, SQ!SoftDeleteRecord(Unfired(sq), now, i),
                  PG!SoftDeleteRecord(Unfired(pg), Me, now, i))
      PROVE  Kept
  BY <1>1, <1>4, CallKeeps, SQSoftDeleteRecord, PGTombstones DEF Call
<1>5. ASSUME NEW i,
             Call("RestoreRecord", i, SQ!RestoreRecord(Unfired(sq), now, i),
                  PG!RestoreRecord(Unfired(pg), Me, now, i))
      PROVE  Kept
  BY <1>1, <1>5, CallKeeps, SQRestoreRecord, PGTombstones DEF Call
<1>6. ASSUME NEW i,
             Call("DeleteRecord", i, SQ!DeleteRecord(Unfired(sq), i),
                  PG!DeleteRecord(Unfired(pg), Me, i))
      PROVE  Kept
  BY <1>1, <1>6, CallKeeps, SQDeleteRecord, PGDeletes DEF Call
<1>7. ASSUME Call("PurgeDeletedRecords", None, SQ!PurgeDeletedRecords(Unfired(sq)),
                  PG!PurgeDeletedRecords(Unfired(pg), Me))
      PROVE  Kept
  BY <1>1, <1>7, CallKeeps, SQPurgeDeletedRecords, PGDeletes DEF Call
<1> QED  BY <1>2, <1>3, <1>4, <1>5, <1>6, <1>7 DEF Records

LEMMA ChildrenKeep ==
    ASSUME IInv, Children
    PROVE  Kept
<1>1. Wf(Unfired(sq)) /\ OwnedBy(Unfired(sq), Me) /\ Wf(Unfired(pg))
  BY UnfiredGood DEF IInv
<1>2. ASSUME NEW a,
             \/ Call("CreateRecordFigure", a.rec, SQ!CreateRecordFigure(Unfired(sq), a),
                     PG!CreateRecordFigure(Unfired(pg), Me, a))
             \/ Call("UpdateRecordFigure", a.rec, SQ!UpdateRecordFigure(Unfired(sq), a),
                     PG!UpdateRecordFigure(Unfired(pg), Me, a))
             \/ Call("DeleteRecordFigure", a.rec, SQ!DeleteRecordFigure(Unfired(sq), a),
                     PG!DeleteRecordFigure(Unfired(pg), Me, a))
      PROVE  Kept
  BY <1>1, <1>2, CallKeeps, SQChildren, PGChildren DEF Call
<1>3. ASSUME NEW a,
             \/ Call("CreateRecordDataFile", a.rec, SQ!CreateRecordDataFile(Unfired(sq), a),
                     PG!CreateRecordDataFile(Unfired(pg), Me, a))
             \/ Call("UpdateRecordDataFile", a.rec, SQ!UpdateRecordDataFile(Unfired(sq), a),
                     PG!UpdateRecordDataFile(Unfired(pg), Me, a))
             \/ Call("DeleteRecordDataFile", a.rec, SQ!DeleteRecordDataFile(Unfired(sq), a),
                     PG!DeleteRecordDataFile(Unfired(pg), Me, a))
      PROVE  Kept
  BY <1>1, <1>3, CallKeeps, SQChildren, PGChildren DEF Call
<1>4. ASSUME NEW a,
             CallAt("ReplaceRecordChildren", a.id, a.upd, SQ!ReplaceRecordChildren(Unfired(sq), now, a),
                    PG!ReplaceRecordChildren(Unfired(pg), Me, now, a))
      PROVE  Kept
  BY <1>1, <1>4, CallKeeps, SQReplaceRecordChildren, PGReplaceRecordChildren
<1>5. ASSUME Call("DeleteRecord", "r1", SQ!DeleteRecord(Unfired(sq), "r1"),
                  PG!DeleteRecord(Unfired(pg), Me, "r1"))
      PROVE  Kept
  BY <1>1, <1>5, CallKeeps, SQDeleteRecord, PGDeletes DEF Call
<1> QED  BY <1>2, <1>3, <1>4, <1>5 DEF Children

LEMMA ChatInputsTyped ==
    /\ \A a \in ChatInputs : a.cwd = None
    /\ \A a \in ChatWithItemsInputs : a.cwd = None
BY DEF ChatInput, ChatInputs, ChatWithItemsInputs

LEMMA ChatsKeep ==
    ASSUME IInv, Chats
    PROVE  Kept
<1>1. Wf(Unfired(sq)) /\ OwnedBy(Unfired(sq), Me) /\ Wf(Unfired(pg))
  BY UnfiredGood DEF IInv
<1>2. ASSUME NEW a \in ChatInputs, NEW i,
             CallAt("UpsertChatSession", i, a.upd,
                    SQ!UpsertChatSession(Unfired(sq), now, a),
                    PG!UpsertChatSession(Unfired(pg), Me, now, a))
      PROVE  Kept
  BY ChatInputsTyped, <1>1, <1>2, CallKeeps, SQUpsertChatSession, PGUpsertChatSession
<1>3. ASSUME NEW a \in ChatWithItemsInputs, NEW i,
             CallAt("UpsertChatSessionWithItems", i, a.upd,
                    SQ!UpsertChatSessionWithItems(Unfired(sq), now, a),
                    PG!UpsertChatSessionWithItems(Unfired(pg), Me, now, a))
      PROVE  Kept
  <2>1. a.cwd = None
    BY ChatInputsTyped
  <2> QED  BY <1>1, <1>3, <2>1, CallKeeps, SQUpsertChatSessionWithItems, PGUpsertChatSessionWithItems
<1>4. ASSUME NEW i,
             \/ Call("SoftDeleteChatSession", i, SQ!SoftDeleteChatSession(Unfired(sq), now, i),
                     PG!SoftDeleteChatSession(Unfired(pg), Me, now, i))
             \/ Call("RestoreChatSession", i, SQ!RestoreChatSession(Unfired(sq), now, i),
                     PG!RestoreChatSession(Unfired(pg), Me, now, i))
             \/ Call("DeleteChatSession", i, SQ!DeleteChatSession(Unfired(sq), i),
                     PG!DeleteChatSession(Unfired(pg), Me, i))
      PROVE  Kept
  BY <1>1, <1>4, CallKeeps, SQSoftDeleteChatSession, SQRestoreChatSession, SQDeleteChatSession,
     PGChatTombstones, PGDeleteChatSession DEF Call
<1>5. ASSUME NEW op, NEW a, NEW b,
             \/ Call(op, a, SQ!CreateChatItem(Unfired(sq), b), PG!CreateChatItem(Unfired(pg), Me, b))
             \/ Call(op, a, SQ!AppendChatItems(Unfired(sq), b), PG!AppendChatItems(Unfired(pg), Me, b))
             \/ Call(op, a, SQ!ReplaceChatItems(Unfired(sq), b), PG!ReplaceChatItems(Unfired(pg), Me, b))
      PROVE  Kept
  BY <1>1, <1>5, CallKeeps, SQChatItems, PGChatItems DEF Call
<1> QED  BY <1>2, <1>3, <1>4, <1>5 DEF Chats

LEMMA RegistryKeep ==
    ASSUME IInv, Registry
    PROVE  Kept
<1>1. Wf(Unfired(sq)) /\ OwnedBy(Unfired(sq), Me) /\ Wf(Unfired(pg))
  BY UnfiredGood DEF IInv
<1>2. ASSUME NEW op, NEW i, NEW a,
             \/ Call(op, i, SQ!CreateProject(Unfired(sq), now, a), PG!CreateProject(Unfired(pg), Me, now, a))
             \/ Call(op, i, SQ!CreateDevice(Unfired(sq), now, a), PG!CreateDevice(Unfired(pg), Me, now, a))
             \/ Call(op, i, SQ!UpsertProjectForImport(Unfired(sq), now, a),
                     PG!UpsertProjectForImport(Unfired(pg), Me, now, a))
             \/ Call(op, i, SQ!UpsertDeviceForImport(Unfired(sq), now, a),
                     PG!UpsertDeviceForImport(Unfired(pg), Me, now, a))
      PROVE  Kept
  BY <1>1, <1>2, CallKeeps, SQEntries, PGEntries DEF Call
<1>3. ASSUME NEW op, NEW i, NEW id,
             \/ Call(op, i, SQ!ArchiveProject(Unfired(sq), now, id), PG!ArchiveProject(Unfired(pg), Me, now, id))
             \/ Call(op, i, SQ!RestoreProject(Unfired(sq), now, id), PG!RestoreProject(Unfired(pg), Me, now, id))
             \/ Call(op, i, SQ!ArchiveDevice(Unfired(sq), now, id), PG!ArchiveDevice(Unfired(pg), Me, now, id))
             \/ Call(op, i, SQ!RestoreDevice(Unfired(sq), now, id), PG!RestoreDevice(Unfired(pg), Me, now, id))
      PROVE  Kept
  BY <1>1, <1>3, CallKeeps, SQEntries, PGEntries DEF Call
<1>4. ASSUME NEW a \in PathInputs, NEW i,
             Call("UpsertProjectPath", i, SQ!UpsertProjectPath(Unfired(sq), now, a),
                  PG!UpsertProjectPath(Unfired(pg), Me, now, a))
      PROVE  Kept
  <2>1. a.path \in Seq(Nat) /\ a.proj \in Nat
    <3>1. <<1>> \in Seq(Nat) /\ <<1, 2>> \in Seq(Nat) /\ <<2>> \in Seq(Nat)
      OBVIOUS
    <3>2. a.path \in {<<1>>, <<1, 2>>, <<2>>} /\ a.proj \in {1, 2}
      BY DEF PathInputs
    <3>3. a.path \in Seq(Nat)
      BY <3>1, <3>2, Zenon
    <3> QED  BY <3>2, <3>3
  <2> QED  BY <1>1, <1>4, <2>1, CallKeeps, SQUpsertProjectPath, PGUpsertProjectPath DEF Call
<1>5. ASSUME NEW i,
             Call("BackfillChatProjects", i, SQ!BackfillChatProjects(Unfired(sq), now),
                  PG!BackfillChatProjects(Unfired(pg), Me, now))
      PROVE  Kept
  BY <1>1, <1>5, CallKeeps, SQBackfillChatProjects, PGBackfillChatProjects DEF Call
<1>6. ASSUME NEW i, NEW a,
             \/ Call("CreateTemplate", i, SQ!CreateTemplate(Unfired(sq), now, a),
                     PG!CreateTemplate(Unfired(pg), Me, now, a))
             \/ Call("UpdateTemplate", i, SQ!UpdateTemplate(Unfired(sq), now, a),
                     PG!UpdateTemplate(Unfired(pg), Me, now, a))
             \/ Call("DeleteTemplate", i, SQ!DeleteTemplate(Unfired(sq), a.name),
                     PG!DeleteTemplate(Unfired(pg), Me, a.name))
      PROVE  Kept
  BY <1>1, <1>6, CallKeeps, SQTemplates, PGTemplates DEF Call
<1> QED  BY <1>2, <1>3, <1>4, <1>5, <1>6 DEF Registry

\* The other account's calls are calls like any other.
LEMMA ForeignWritesGood ==
    ASSUME NEW s, Wf(s), NEW x \in ForeignWrites(s)
    PROVE  Good(s, x, Other)
<1> DEFINE rec(i) == [id |-> i, proj |-> 1, dev |-> 1, body |-> None, upd |-> None,
                      setDel |-> TRUE, del |-> 1, figures |-> <<>>, dataFiles |-> <<>>]
           chat(i) == [id |-> i, src |-> "s1", dev |-> 1, proj |-> 1, cwd |-> None, title |-> "k",
                       start |-> 1, last |-> 3, orig |-> None, upd |-> None, del |-> 1,
                       clearDel |-> FALSE, items |-> <<>>]
           child(i) == [rec |-> i, name |-> "a", meta |-> "k", newName |-> "b", newMeta |-> "k"]
           onRecord(i) == {PG!CreateRecord(s, Other, now, rec(i)).store,
                           PG!UpdateRecord(s, Other, now, rec(i)).store,
                           PG!ReplaceRecordChildren(s, Other, now, rec(i)).store,
                           PG!DeleteRecord(s, Other, i).store,
                           PG!UpdateRecordFigure(s, Other, child(i)).store,
                           PG!CreateRecordFigure(s, Other, child(i)).store}
           onChat(i) == {PG!UpsertChatSessionWithItems(s, Other, now, chat(i)).store,
                         PG!DeleteChatSession(s, Other, i).store,
                         PG!ReplaceChatItems(s, Other, [id |-> i, items |-> <<>>]).store}
           onAll == {PG!PurgeDeletedRecords(s, Other).store, PG!BackfillChatProjects(s, Other, now).store,
                     PG!ArchiveProject(s, Other, now, 1).store,
                     PG!CreateTemplate(s, Other, now, [name |-> 2, html |-> "b", upd |-> None]).store}
           R == {k \in {"r1", "x"} : k = "r1" => Held(k, Me)}
           C == {k \in {"c1", "y"} : k = "c1" => Held(k, Me)}
<1>1. ForeignWrites(s) =
         (UNION {onRecord(i) : i \in R}) \cup (UNION {onChat(i) : i \in C}) \cup onAll
  BY DEF ForeignWrites
<1>2. ASSUME NEW i, NEW y \in onRecord(i)
      PROVE  Good(s, y, Other)
  <2> HIDE DEF rec, child
  <2> QED  BY PGCreateRecord, PGUpdateRecord, PGReplaceRecordChildren, PGDeletes, PGChildren
<1>3. ASSUME NEW i, NEW y \in onChat(i)
      PROVE  Good(s, y, Other)
  <2>1. chat(i).cwd = None
    OBVIOUS
  <2> HIDE DEF chat
  <2> QED  BY <2>1, PGUpsertChatSessionWithItems, PGDeleteChatSession, PGChatItems
<1>4. ASSUME NEW y \in onAll
      PROVE  Good(s, y, Other)
  BY PGDeletes, PGBackfillChatProjects, PGEntries, PGTemplates
<1>5. \/ \E i : x \in onRecord(i)
      \/ \E i : x \in onChat(i)
      \/ x \in onAll
  <2> HIDE DEF onRecord, onChat, onAll, R, C
  <2> DEFINE U == UNION {onRecord(i) : i \in R}
             V == UNION {onChat(i) : i \in C}
  <2>1. x \in U \/ x \in V \/ x \in onAll
    <3>1. x \in U \cup V \cup onAll
      BY <1>1
    <3> HIDE DEF U, V
    <3> QED  BY <3>1
  <2> QED  BY <2>1
<1> QED  BY <1>2, <1>3, <1>4, <1>5

LEMMA AnotherUserKeeps ==
    ASSUME IInv, AnotherUser
    PROVE  IInv'
BY UnfiredGood, CallsAssumption, ForeignWritesGood DEF IInv, AnotherUser, Counted, Good

---------------------------------------------------------------------------
(* The initial stores *)

LEMMA PreparedWf ==
    ASSUME NEW user, NEW rec, NEW chat, NEW src, rec # chat
    PROVE  LET s == Prepared(user, rec, chat, src)
           IN  /\ Wf(s) /\ OwnedBy(s, user)
               /\ \A r \in s.records : r.id = rec
               /\ \A c \in s.sessions : c.id = chat
<1> DEFINE s == Prepared(user, rec, chat, src)
           R == Row(rec, user)
           C == Session(chat, user, src)
           E == Entry(1, user)
           F == [rec |-> rec, name |-> "a", meta |-> "m"]
           I == [sess |-> chat, ord |-> 0, text |-> "b"]
<1>1. /\ s.records = {R} /\ s.figures = {F} /\ s.dataFiles = {} /\ s.templates = {}
      /\ s.sessions = {C} /\ s.items = {I} /\ s.projects = {E} /\ s.devices = {E} /\ s.paths = {}
      /\ IsStore(s)
  <2> HIDE DEF R, C, E, F, I
  <2> QED  BY DEF Prepared, EmptyStore, IsStore, R, C, E, F, I
<1>2. /\ DOMAIN R = RecordCols /\ R.id = rec /\ R.user = user /\ R.proj = 1 /\ R.dev = 1
      /\ DOMAIN E = EntryCols /\ E.id = 1 /\ E.user = user
      /\ DOMAIN F = ChildCols /\ F.rec = rec /\ I.sess = chat
  BY DEF Row, Entry, RecordCols, EntryCols, ChildCols
<1>3. DOMAIN C = SessionCols /\ C.id = chat /\ C.user = user /\ C.proj = None /\ C.dev = 1
  BY DEF Session, SessionCols
<1>4. C.cwd \in Seq(Nat)
  BY DEF Session
<1> HIDE DEF s, R, C, E, F, I
<1>5. RowsTyped(s)
  BY <1>1, <1>2, <1>3, <1>4 DEF RowsTyped
<1>6. Unique(s)
  BY <1>1 DEF Unique, RecordsUnique, SessionsUnique, NamesUnique, OrdinalsUnique
<1>7. Refs(s)
  BY <1>1, <1>2, <1>3
     DEF Refs, ChildRefs, ItemRefs, RecordRefsHold, PathRefs, SessionRefsHold, Apart,
         ProjectExists, DeviceExists
<1>8. OwnedBy(s, user)
  BY <1>1, <1>2, <1>3 DEF OwnedBy, OwnedTables
<1>9. Wf(s) /\ OwnedBy(s, user) /\ (\A r \in s.records : r.id = rec) /\ \A c \in s.sessions : c.id = chat
  BY <1>1, <1>2, <1>3, <1>5, <1>6, <1>7, <1>8 DEF Wf
<1> QED  BY <1>9 DEF s

\* Two accounts with no ID in common fit in one database.
LEMMA MergeWf ==
    ASSUME NEW s, NEW t, NEW u, NEW v, u # v, Wf(s), Wf(t), OwnedBy(s, u), OwnedBy(t, v),
           \A r \in s.records, q \in t.records : r.id # q.id,
           \A c \in s.sessions, d \in t.sessions : c.id # d.id
    PROVE  Wf(Merge(s, t))
<1> DEFINE m == Merge(s, t)
<1>1. IsStore(m) /\ \A k \in Tables : m[k] = s[k] \cup t[k]
  BY StoreDomain DEF Merge, Wf, IsStore
<1> HIDE DEF m
<1>2. /\ m.records = s.records \cup t.records /\ m.sessions = s.sessions \cup t.sessions
      /\ m.projects = s.projects \cup t.projects /\ m.devices = s.devices \cup t.devices
      /\ m.paths = s.paths \cup t.paths /\ m.figures = s.figures \cup t.figures
      /\ m.dataFiles = s.dataFiles \cup t.dataFiles /\ m.items = s.items \cup t.items
      /\ m.templates = s.templates \cup t.templates
  BY <1>1 DEF Tables, OwnedTables, ChildTables
<1>3. /\ \A r \in s.records : r.user = u
      /\ \A r \in t.records : r.user = v
      /\ \A c \in s.sessions : c.user = u
      /\ \A c \in t.sessions : c.user = v
  BY DEF OwnedBy, OwnedTables
<1>4. RowsTyped(m)
  BY <1>2 DEF Wf, RowsTyped
<1>5. RecordsUnique(m)
  BY <1>2 DEF Wf, Unique, RecordsUnique
<1>6. SessionsUnique(m)
  BY <1>2, <1>3 DEF Wf, Unique, SessionsUnique
<1>7. NamesUnique(m.figures) /\ NamesUnique(m.dataFiles)
  BY <1>2 DEF Wf, Unique, NamesUnique, Refs, ChildRefs
<1>8. OrdinalsUnique(m.items)
  BY <1>2 DEF Wf, Unique, OrdinalsUnique, Refs, ItemRefs
<1>9. ChildRefs(m, m.figures) /\ ChildRefs(m, m.dataFiles) /\ ItemRefs(m)
  BY <1>2 DEF Wf, Refs, ChildRefs, ItemRefs
<1>10. RecordRefsHold(m) /\ PathRefs(m) /\ SessionRefsHold(m)
  BY <1>2 DEF Wf, Refs, RecordRefsHold, PathRefs, SessionRefsHold, ProjectExists, DeviceExists
<1>11. Apart(m)
  BY <1>2, <1>3 DEF Wf, Refs, Apart
<1>12. Wf(m)
  BY <1>1, <1>4, <1>5, <1>6, <1>7, <1>8, <1>9, <1>10, <1>11 DEF Wf, Unique, Refs
<1> QED  BY <1>12 DEF m

LEMMA Initial == Init => IInv
<1> SUFFICES ASSUME Init
             PROVE  IInv
  OBVIOUS
<1> DEFINE s == Prepared(Me, "r1", "c1", "s1")
           t == Prepared(Other, "x", "y", "s1")
<1>1. /\ Wf(s) /\ OwnedBy(s, Me)
      /\ \A r \in s.records : r.id = "r1"
      /\ \A c \in s.sessions : c.id = "c1"
  BY PreparedWf
<1>2. /\ Wf(t) /\ OwnedBy(t, Other)
      /\ \A r \in t.records : r.id = "x"
      /\ \A c \in t.sessions : c.id = "y"
  BY PreparedWf
<1>3. sq = s /\ pg = Merge(s, t) /\ now = TicksPerMilli + 1
      /\ workload \in Workloads /\ calls = 0
  BY DEF Init
<1> HIDE DEF s, t
<1>4. Wf(pg)
  BY <1>1, <1>2, <1>3, AccountsAssumption, MergeWf
<1>5. Counted
  BY <1>3, TicksAssumption, CallsAssumption DEF Counted
<1> QED  BY <1>1, <1>3, <1>4, <1>5 DEF IInv

---------------------------------------------------------------------------
(* Theorems *)

LEMMA Inductive == IInv /\ [Next]_vars => IInv'
BY RecordsKeep, ChildrenKeep, ChatsKeep, RegistryKeep, AnotherUserKeeps DEF vars, IInv, Counted,
   Kept, Next

\* Whatever is called, in whatever order, by either account, for every number
\* of calls: both stores stay well formed.
THEOREM Invariance == Spec => []IInv
BY Initial, Inductive, PTL DEF Spec

\* Primary keys and unique indexes hold in every reachable store of both
\* backends, also after the replacements, the upserts and the cascades.
THEOREM TypeCorrect == Spec => []TypeOK
<1>1. IInv => TypeOK
  BY DEF IInv, Counted, Wf, IsStore, Unique, RecordsUnique, SessionsUnique, NamesUnique,
         OrdinalsUnique, TypeOK
<1> QED  BY <1>1, Invariance, PTL

\* No call of either account leaves a child, item, path, record or chat whose
\* parent is gone, or an ID that is both a record and a chat of one account.
THEOREM ReferencesHoldHolds == Spec => []ReferencesHold
<1>1. IInv => ReferencesHold
  BY DEF ReferencesHold, IInv, Wf, Refs, ChildRefs, ItemRefs, RecordRefsHold, PathRefs,
     SessionRefsHold, Apart
<1> QED  BY <1>1, Invariance, PTL

LEMMA WithoutTemplates ==
    ASSUME NEW a, NEW b, NEW c, NEW d, NEW e, NEW f
    PROVE  [AllRows(a, b, c, d, e, f) EXCEPT !.templates = {}] = AllRows(a, b, c, d, e, {})
BY DEF AllRows

LEMMA RowsRead ==
    ASSUME NEW s, NEW v
    PROVE  /\ RowsOf(s, v) = ReadBy(s, v, {Columns(x) : x \in s.templates})
           /\ [RowsOf(s, v) EXCEPT !.templates = {}] = ReadBy(s, v, {})
<1> DEFINE recs == {r \in s.records : r.user = v}
           sess == {c \in s.sessions : c.user = v}
           kids == {f \in s.figures \cup s.dataFiles : \E r \in recs : r.id = f.rec}
           items == {i \in s.items : \E c \in sess : c.id = i.sess}
           ents == {x \in s.projects \cup s.devices \cup s.paths : x.user = v}
           all(tpls) == AllRows({Columns(r) : r \in recs}, {Columns(c) : c \in sess},
                                kids, items, {Columns(e) : e \in ents}, tpls)
<1>1. RowsOf(s, v) = all({Columns(x) : x \in s.templates})
  BY DEF RowsOf, AllRows
<1>2. \A tpls : [all(tpls) EXCEPT !.templates = {}] = all({})
  BY WithoutTemplates
<1>3. recs = UserRows(s, "records", v) /\ sess = UserRows(s, "sessions", v)
  BY DEF UserRows
<1>4. /\ kids = ChildrenOf(s, "figures", v) \cup ChildrenOf(s, "dataFiles", v)
      /\ items = ItemsSeenBy(s, v)
  BY DEF ChildrenOf, ItemsSeenBy
<1>5. ents = UserRows(s, "projects", v) \cup UserRows(s, "devices", v) \cup UserRows(s, "paths", v)
  BY DEF UserRows
<1>6. \A tpls : all(tpls) = ReadBy(s, v, tpls)
  <2> HIDE DEF recs, sess, kids, items, ents
  <2> QED  BY <1>3, <1>4, <1>5 DEF ReadBy
<1> HIDE DEF all
<1> QED  BY <1>1, <1>2, <1>6

LEMMA UntouchedRead ==
    ASSUME NEW s, NEW t, NEW u, NEW v, v # u, Untouched(s, t, u), NEW tpls
    PROVE  ReadBy(t, v, tpls) = ReadBy(s, v, tpls)
BY DEF Untouched, OwnedTables, ChildTables, ReadBy

\* What RowsOf shows of the other account is what Untouched speaks of.
LEMMA UntouchedRows ==
    ASSUME NEW s, NEW t, Untouched(s, t, Me)
    PROVE  [RowsOf(t, Other) EXCEPT !.templates = {}] = [RowsOf(s, Other) EXCEPT !.templates = {}]
<1>1. Other # Me
  BY AccountsAssumption
<1>2. /\ [RowsOf(t, Other) EXCEPT !.templates = {}] = ReadBy(t, Other, {})
      /\ [RowsOf(s, Other) EXCEPT !.templates = {}] = ReadBy(s, Other, {})
  BY RowsRead
<1> QED  BY <1>1, UntouchedRead, <1>2

\* Nothing the caller does, naming whatever ID, changes what the other account
\* reads, apart from the templates, which everybody shares.
THEOREM OthersUntouchedHolds == Spec => OthersUntouched
<1>1. ASSUME IInv, [Next]_vars
      PROVE  [call'.op # "AnotherUser" =>
                [RowsOf(pg, Other) EXCEPT !.templates = {}]'
                  = [RowsOf(pg, Other) EXCEPT !.templates = {}]]_vars
  BY UntouchedRows, <1>1, RecordsKeep, ChildrenKeep, ChatsKeep, RegistryKeep DEF AnotherUser, Kept,
     Next
<1> QED  BY <1>1, Invariance, PTL DEF Spec, OthersUntouched

---------------------------------------------------------------------------
(* What moves the versions and dates the rows: the same change seen by a    *)
(* client that polls and by one that syncs.                                 *)

LEMMA ToldSame ==
    ASSUME NEW s, Counting(s), NEW u \in Users, NEW all \in SUBSET Users
    PROVE  Told(s, s, u, all)
BY DEF Told, Counting, SameView

LEMMA ToldTrans ==
    ASSUME NEW s, NEW t, NEW q, NEW u \in Users, NEW all \in SUBSET Users, Counting(s),
           Told(s, t, u, all), Told(t, q, u, all)
    PROVE  Told(s, q, u, all)
BY DEF Told, Counting, SameView

LEMMA SameDated ==
    ASSUME NEW s, NEW t, NEW m, NEW w, Aside(s, t)
    PROVE  Dated(s, t, m, w)
BY DEF Aside, Dated, SyncTables, ViewOf

LEMMA DatedAside ==
    ASSUME NEW s, NEW t, NEW q, NEW m, NEW w, Dated(s, t, m, w), Aside(t, q)
    PROVE  Dated(s, q, m, w)
BY DEF Aside, Dated

LEMMA AccountsInUsers == Me \in Users /\ Other \in Users /\ {Me} \in SUBSET Users
BY AccountsAssumption

\* A table changed and the version moved by n, which is 0 if nothing is seen.
LEMMA ToldChange ==
    ASSUME NEW s, Counting(s), NEW tab \in Tables, NEW rows, IsFiniteSet(rows), NEW n \in Nat,
           n = 0 => ViewOf(tab, rows) = ViewOf(tab, s[tab]),
           NEW t, IsStore(t), t[tab] = rows, \A k \in Tables \ {tab} : t[k] = s[k],
           NEW u \in Users, NEW all \in SUBSET Users, t.fired \in [Users -> Nat],
           \A v \in Users : t.fired[v] >= s.fired[v], t.fired[u] = s.fired[u] + n,
           tab = "templates" => \A v \in all : t.fired[v] = s.fired[v] + n
    PROVE  Told(s, t, u, all)
<1>1. s.fired \in [Users -> Nat] /\ \A v \in Users : s.fired[v] \in Nat
  BY DEF Counting
<1>2. Counting(t)
  BY DEF Counting, FiniteTables
<1>3. ASSUME t.fired[u] = s.fired[u]
      PROVE  SameView(s, t)
  <2>1. n = 0
    BY <1>1, <1>3
  <2> QED  BY <2>1 DEF SameView
<1>4. ASSUME NEW v \in all, t.fired[v] = s.fired[v]
      PROVE  ViewOf("templates", t.templates) = ViewOf("templates", s.templates)
  BY <1>1, <1>4 DEF Tables
<1> QED  BY <1>2, <1>3, <1>4 DEF Told

LEMMA Added ==
    ASSUME NEW f \in [Users -> Nat], NEW u \in Users, NEW n \in Nat, NEW g,
           g = [f EXCEPT ![u] = @ + n]
    PROVE  g \in [Users -> Nat] /\ g[u] = f[u] + n /\ \A v \in Users : g[v] >= f[v]
OBVIOUS

LEMMA AddedToAll ==
    ASSUME NEW f \in [Users -> Nat], NEW n \in Nat, NEW g, g = [v \in Users |-> f[v] + n]
    PROVE  /\ g \in [Users -> Nat]
           /\ \A v \in Users : g[v] >= f[v] /\ g[v] = f[v] + n
OBVIOUS

LEMMA SQBumped ==
    ASSUME NEW s, Counting(s), NEW tab \in Tables, NEW rows, IsFiniteSet(rows), NEW n \in Nat,
           n = 0 => ViewOf(tab, rows) = ViewOf(tab, s[tab]),
           NEW t, t = SQ!SyncBump([s EXCEPT ![tab] = rows], n)
    PROVE  SQTold(s, t) /\ t[tab] = rows /\ OnlyTable(s, t, tab)
<1>1. IsStore(t) /\ t[tab] = rows /\ \A k \in Tables \ {tab} : t[k] = s[k]
  BY StoreDomain DEF Counting, IsStore, SQ!SyncBump
<1>2. t.fired = [s.fired EXCEPT ![Me] = @ + n]
  BY StoreDomain DEF Counting, IsStore, SQ!SyncBump
<1>3. /\ t.fired \in [Users -> Nat] /\ \A v \in Users : t.fired[v] >= s.fired[v]
      /\ t.fired[Me] = s.fired[Me] + n
  <2> DEFINE f == s.fired
             g == t.fired
  <2>1. f \in [Users -> Nat] /\ g = [f EXCEPT ![Me] = @ + n]
    BY <1>2 DEF Counting
  <2> HIDE DEF f, g
  <2>2. g \in [Users -> Nat] /\ g[Me] = f[Me] + n /\ \A v \in Users : g[v] >= f[v]
    BY <2>1, AccountsInUsers, Added
  <2> QED  BY <2>2 DEF f, g
<1>4. SQTold(s, t)
  BY <1>1, <1>3, AccountsInUsers, ToldChange DEF SQTold
<1> QED  BY <1>1, <1>4 DEF OnlyTable

LEMMA PGBumped ==
    ASSUME NEW s, Counting(s), NEW u \in Users, NEW tab \in Tables, NEW rows, IsFiniteSet(rows),
           NEW n \in Nat, n = 0 => ViewOf(tab, rows) = ViewOf(tab, s[tab]),
           NEW t, t = PG!Bump([s EXCEPT ![tab] = rows], u, tab, n)
    PROVE  PGTold(s, t, u) /\ t[tab] = rows /\ OnlyTable(s, t, tab)
<1>1. IsStore(t) /\ t[tab] = rows /\ \A k \in Tables \ {tab} : t[k] = s[k]
  BY StoreDomain DEF Counting, IsStore, PG!Bump, PG!bumpEverybody, PG!bumpSyncVersion
<1>2. t.fired = IF tab = "templates" THEN [v \in Users |-> s.fired[v] + n]
                ELSE [s.fired EXCEPT ![u] = @ + n]
  BY StoreDomain DEF Counting, IsStore, PG!Bump, PG!bumpEverybody, PG!bumpSyncVersion
<1>3. /\ t.fired \in [Users -> Nat] /\ \A v \in Users : t.fired[v] >= s.fired[v]
      /\ t.fired[u] = s.fired[u] + n
      /\ tab = "templates" => \A v \in Users : t.fired[v] = s.fired[v] + n
  <2> DEFINE f == s.fired
             g == t.fired
  <2>1. /\ f \in [Users -> Nat]
        /\ tab = "templates" => g = [v \in Users |-> f[v] + n]
        /\ tab # "templates" => g = [f EXCEPT ![u] = @ + n]
    BY <1>2 DEF Counting
  <2> HIDE DEF f, g
  <2>2. CASE tab = "templates"
    <3>1. g \in [Users -> Nat] /\ \A v \in Users : g[v] >= f[v] /\ g[v] = f[v] + n
      BY <2>1, <2>2, AddedToAll
    <3> QED  BY <3>1 DEF f, g
  <2>3. CASE tab # "templates"
    <3>1. g \in [Users -> Nat] /\ g[u] = f[u] + n /\ \A v \in Users : g[v] >= f[v]
      BY <2>1, <2>3, Added
    <3> QED  BY <2>3, <3>1 DEF f, g
  <2> QED  BY <2>2, <2>3
<1>4. PGTold(s, t, u)
  <2> DEFINE all == Users
  <2>1. all \in SUBSET Users /\ (tab = "templates" => \A v \in all : t.fired[v] = s.fired[v] + n)
    BY <1>3
  <2> HIDE DEF all
  <2>2. Told(s, t, u, all)
    BY <1>1, <1>3, <2>1, ToldChange, ZenonT(30)
  <2> QED  BY <2>2 DEF all, PGTold
<1> QED  BY <1>1, <1>4 DEF OnlyTable

LEMMA SameOperators ==
    /\ \A x : SQ!Columns(x) = Columns(x) /\ PG!Columns(x) = Columns(x)
    /\ \A x : SQ!FormatUTCMillis(x) = FormatUTCMillis(x)
    /\ \A x : SQ!Cardinality(x) = Cardinality(x) /\ PG!Cardinality(x) = Cardinality(x)
BY Zenon DEF SQ!Cardinality, PG!Cardinality, Cardinality, Columns, SQ!Columns, PG!Columns,
   FormatUTCMillis, SQ!FormatUTCMillis

LEMMA FormattedTime ==
    ASSUME NEW k \in Nat
    PROVE  FormatUTCMillis(k) \in Int
BY TicksAssumption DEF FormatUTCMillis

LEMMA SwapView ==
    ASSUME NEW tab \in Tables \ {"items"}, NEW rows, NEW old \in rows, NEW new,
           Columns(old) = Columns(new)
    PROVE  ViewOf(tab, (rows \ {old}) \cup {new}) = ViewOf(tab, rows)
BY DEF ViewOf

LEMMA OnlyAside ==
    ASSUME NEW s, NEW t, NEW tab, OnlyTable(s, t, tab), tab \notin SyncTables
    PROVE  Aside(s, t)
BY DEF OnlyTable, Aside, SyncTables, Tables, OwnedTables

LEMMA RowDated ==
    ASSUME NEW s, NEW t, NEW tab \in Tables, NEW x, NEW m, NEW w, OnlyTable(s, t, tab),
           t[tab] \subseteq s[tab] \cup {x}, tab \in SyncTables => Fresh(s[tab], x, m, w)
    PROVE  Dated(s, t, m, w)
BY DEF Dated, SyncTables, Tables, OwnedTables, ViewOf, OnlyTable

LEMMA NoRowDated ==
    ASSUME NEW s, NEW t, NEW tab \in Tables, NEW m, NEW w, OnlyTable(s, t, tab),
           t[tab] \subseteq s[tab]
    PROVE  Dated(s, t, m, w)
BY DEF Dated, SyncTables, Tables, OwnedTables, OnlyTable, ViewOf

LEMMA NewFresh ==
    ASSUME NEW rows, NEW x, NEW m, NEW w, New(rows, x, m, w)
    PROVE  Fresh(rows, x, m, w)
BY DEF New, Fresh

LEMMA AssignedFresh ==
    ASSUME NEW rows, NEW old \in rows, NEW new, NEW m \in Int, NEW w, NEW x,
           Assigned(rows, old, new, m, w),
           x = IF new.upd = old.upd THEN [new EXCEPT !.upd = m] ELSE new
    PROVE  Fresh(rows, x, m, w)
BY DEF Assigned, Fresh

---------------------------------------------------------------------------
(* Statements: an INSERT, an UPDATE with its trigger, a DELETE *)

LEMMA SQInsertTold ==
    ASSUME NEW s, Counting(s), NEW tab \in Tables, NEW row
    PROVE  LET t == SQ!InsertRow(s, tab, row)
           IN  SQTold(s, t) /\ OnlyTable(s, t, tab) /\ t[tab] = s[tab] \cup {row}
<1> DEFINE rows == s[tab] \cup {row}
           n == 1
           t == SQ!InsertRow(s, tab, row)
<1>1. IsFiniteSet(rows) /\ n \in Nat /\ n # 0
  BY FS_AddElement DEF Counting, FiniteTables
<1>2. t = SQ!SyncBump([s EXCEPT ![tab] = rows], n)
  BY DEF SQ!InsertRow
<1> HIDE DEF rows, n, t
<1>3. SQTold(s, t) /\ t[tab] = rows /\ OnlyTable(s, t, tab)
  BY <1>1, <1>2, SQBumped
<1> QED  BY <1>3 DEF rows, t

LEMMA SQInsertSeen ==
    ASSUME NEW s, Counting(s), NEW tab \in Tables, NEW row, NEW k \in Nat, NEW w,
           tab \in SyncTables => New(s[tab], row, FormatUTCMillis(k), w)
    PROVE  SQSeen(s, SQ!InsertRow(s, tab, row), k, w)
<1> DEFINE t == SQ!InsertRow(s, tab, row)
<1>1. SQTold(s, t) /\ OnlyTable(s, t, tab) /\ t[tab] = s[tab] \cup {row}
  BY SQInsertTold
<1> HIDE DEF t
<1>2. t[tab] \subseteq s[tab] \cup {row}
  BY <1>1
<1>3. Dated(s, t, FormatUTCMillis(k), w)
  BY <1>1, NewFresh, <1>2, RowDated
<1> QED  BY <1>1, <1>3 DEF SQSeen, t

LEMMA SQUpdateTold ==
    ASSUME NEW s, Counting(s), NEW tab \in Tables \ {"items"}, NEW old \in s[tab], NEW new
    PROVE  LET t == SQ!UpdateRow(s, tab, old, new)
           IN  SQTold(s, t) /\ OnlyTable(s, t, tab) /\ t[tab] = (s[tab] \ {old}) \cup {new}
<1> DEFINE rows == (s[tab] \ {old}) \cup {new}
           n == IF SQ!Watched(tab, old) # SQ!Watched(tab, new) THEN 1 ELSE 0
           t == SQ!UpdateRow(s, tab, old, new)
<1>1. IsFiniteSet(rows)
  BY FS_RemoveElement, FS_AddElement DEF Counting, FiniteTables
<1>2. n \in Nat
  OBVIOUS
<1>3. n = 0 => ViewOf(tab, rows) = ViewOf(tab, s[tab])
  <2>1. n = 0 => Columns(old) = Columns(new)
    BY SameOperators DEF SQ!Watched
  <2> HIDE DEF n
  <2> QED  BY <2>1, SwapView
<1>4. t = SQ!SyncBump([s EXCEPT ![tab] = rows], n)
  BY DEF SQ!UpdateRow
<1> HIDE DEF rows, n, t
<1>5. SQTold(s, t) /\ t[tab] = rows /\ OnlyTable(s, t, tab)
  BY <1>1, <1>2, <1>3, <1>4, SQBumped
<1> QED  BY <1>5 DEF rows, t

LEMMA PGInsertTold ==
    ASSUME NEW s, Counting(s), NEW u \in Users, NEW tab \in Tables, NEW row
    PROVE  LET t == PG!InsertRow(s, u, tab, row)
           IN  PGTold(s, t, u) /\ OnlyTable(s, t, tab) /\ t[tab] = s[tab] \cup {row}
<1> DEFINE rows == s[tab] \cup {row}
           n == 1
           t == PG!InsertRow(s, u, tab, row)
<1>1. IsFiniteSet(rows) /\ n \in Nat /\ n # 0
  BY FS_AddElement DEF Counting, FiniteTables
<1>2. t = PG!Bump([s EXCEPT ![tab] = rows], u, tab, n)
  BY DEF PG!InsertRow
<1> HIDE DEF rows, n, t
<1>3. PGTold(s, t, u) /\ t[tab] = rows /\ OnlyTable(s, t, tab)
  BY <1>1, <1>2, PGBumped
<1> QED  BY <1>3 DEF rows, t

LEMMA PGInsertSeen ==
    ASSUME NEW s, Counting(s), NEW u \in Users, NEW tab \in Tables, NEW row, NEW k \in Nat, NEW w,
           tab \in SyncTables => New(s[tab], row, k, w)
    PROVE  PGSeen(s, PG!InsertRow(s, u, tab, row), u, k, w)
<1> DEFINE t == PG!InsertRow(s, u, tab, row)
<1>1. PGTold(s, t, u) /\ OnlyTable(s, t, tab) /\ t[tab] = s[tab] \cup {row}
  BY PGInsertTold
<1> HIDE DEF t
<1>2. t[tab] \subseteq s[tab] \cup {row}
  BY <1>1
<1>3. Dated(s, t, k, w)
  BY <1>1, NewFresh, <1>2, RowDated
<1> QED  BY <1>1, <1>3 DEF PGSeen, t

LEMMA PGUpdateTold ==
    ASSUME NEW s, Counting(s), NEW u \in Users, NEW tab \in Tables \ {"items"}, NEW old \in s[tab], NEW new
    PROVE  LET t == PG!UpdateRow(s, u, tab, old, new)
           IN  PGTold(s, t, u) /\ OnlyTable(s, t, tab) /\ t[tab] = (s[tab] \ {old}) \cup {new}
<1> DEFINE rows == (s[tab] \ {old}) \cup {new}
           n == IF PG!Watched(tab, old) # PG!Watched(tab, new) THEN 1 ELSE 0
           t == PG!UpdateRow(s, u, tab, old, new)
<1>1. IsFiniteSet(rows)
  BY FS_RemoveElement, FS_AddElement DEF Counting, FiniteTables
<1>2. n \in Nat
  OBVIOUS
<1>3. n = 0 => ViewOf(tab, rows) = ViewOf(tab, s[tab])
  <2>1. n = 0 => Columns(old) = Columns(new)
    BY SameOperators DEF PG!Watched
  <2> HIDE DEF n
  <2> QED  BY <2>1, SwapView
<1>4. t = PG!Bump([s EXCEPT ![tab] = rows], u, tab, n)
  BY DEF PG!UpdateRow
<1> HIDE DEF rows, n, t
<1>5. PGTold(s, t, u) /\ t[tab] = rows /\ OnlyTable(s, t, tab)
  BY <1>1, <1>2, <1>3, <1>4, PGBumped
<1> QED  BY <1>5 DEF rows, t

\* In SQLite the trigger's UPDATE is a second one.
LEMMA SQTouchedTold ==
    ASSUME NEW s, Counting(s), NEW tab \in Tables \ {"items"}, NEW old \in s[tab], NEW new, NEW k
    PROVE  LET t == SQ!UpdateTouched(s, tab, old, new, k)
               x == IF new.upd = old.upd THEN [new EXCEPT !.upd = FormatUTCMillis(k)] ELSE new
           IN  SQTold(s, t) /\ OnlyTable(s, t, tab) /\ t[tab] \subseteq s[tab] \cup {x}
<1> DEFINE stamped == [new EXCEPT !.upd = FormatUTCMillis(k)]
           first == SQ!UpdateRow(s, tab, old, new)
           second == SQ!UpdateRow(first, tab, new, stamped)
           t == SQ!UpdateTouched(s, tab, old, new, k)
           x == IF new.upd = old.upd THEN stamped ELSE new
<1>1. t = IF new.upd = old.upd THEN second ELSE first
  BY SameOperators DEF SQ!UpdateTouched
<1>2. SQTold(s, first) /\ OnlyTable(s, first, tab) /\ first[tab] = (s[tab] \ {old}) \cup {new}
  BY SQUpdateTold
<1> HIDE DEF first
<1>3. SQTold(first, second) /\ OnlyTable(first, second, tab)
      /\ second[tab] = (first[tab] \ {new}) \cup {stamped}
  <2>1. Counting(first) /\ new \in first[tab]
    BY <1>2 DEF SQTold, Told
  <2> HIDE DEF stamped
  <2> QED  BY <2>1, SQUpdateTold
<1> HIDE DEF second, stamped
<1>4. SQTold(s, second)
  BY <1>2, <1>3, AccountsInUsers, ToldTrans DEF SQTold
<1>5. OnlyTable(s, second, tab)
  BY <1>2, <1>3 DEF OnlyTable
<1>6. second[tab] \subseteq s[tab] \cup {stamped} /\ first[tab] \subseteq s[tab] \cup {new}
  BY <1>2, <1>3
<1> HIDE DEF t
<1> QED  BY <1>1, <1>2, <1>4, <1>5, <1>6 DEF t, stamped

LEMMA PGTouchedTold ==
    ASSUME NEW s, Counting(s), NEW u \in Users, NEW tab \in Tables \ {"items"}, NEW old \in s[tab],
           NEW new, NEW k
    PROVE  LET t == PG!UpdateTouched(s, u, tab, old, new, k)
               x == IF new.upd = old.upd THEN [new EXCEPT !.upd = k] ELSE new
           IN  PGTold(s, t, u) /\ OnlyTable(s, t, tab) /\ t[tab] \subseteq s[tab] \cup {x}
<1> DEFINE t == PG!UpdateTouched(s, u, tab, old, new, k)
           x == IF new.upd = old.upd THEN [new EXCEPT !.upd = k] ELSE new
<1>1. t = PG!UpdateRow(s, u, tab, old, x)
  BY DEF PG!UpdateTouched, PG!autoUpdateUpdatedAt
<1> HIDE DEF x
<1>2. PGTold(s, t, u) /\ OnlyTable(s, t, tab) /\ t[tab] = (s[tab] \ {old}) \cup {x}
  BY <1>1, PGUpdateTold
<1> HIDE DEF t
<1> QED  BY <1>2 DEF t, x

LEMMA SQTouchedSeen ==
    ASSUME NEW s, Counting(s), NEW tab \in Tables \ {"items"}, NEW old \in s[tab], NEW new,
           NEW k \in Nat, NEW w, tab \in SyncTables => Assigned(s[tab], old, new, FormatUTCMillis(k), w)
    PROVE  SQSeen(s, SQ!UpdateTouched(s, tab, old, new, k), k, w)
<1> DEFINE t == SQ!UpdateTouched(s, tab, old, new, k)
           m == FormatUTCMillis(k)
           x == IF new.upd = old.upd THEN [new EXCEPT !.upd = m] ELSE new
<1>1. SQTold(s, t) /\ OnlyTable(s, t, tab) /\ t[tab] \subseteq s[tab] \cup {x}
  BY SQTouchedTold
<1>2. m \in Int
  BY FormattedTime
<1>3. x = IF new.upd = old.upd THEN [new EXCEPT !.upd = m] ELSE new
  OBVIOUS
<1>4. tab \in SyncTables => Assigned(s[tab], old, new, m, w)
  OBVIOUS
<1> HIDE DEF x, m, t
<1>5. tab \in Tables
  OBVIOUS
<1>6. Dated(s, t, m, w)
  BY <1>1, <1>2, <1>3, <1>4, AssignedFresh, <1>5, RowDated
<1> QED  BY <1>1, <1>6 DEF SQSeen, t, m

LEMMA SQDeleteTold ==
    ASSUME NEW s, Counting(s), NEW tab \in Tables, NEW rows \in SUBSET s[tab]
    PROVE  LET t == SQ!DeleteRows(s, tab, rows)
           IN  SQTold(s, t) /\ OnlyTable(s, t, tab) /\ t[tab] = s[tab] \ rows
<1> DEFINE left == s[tab] \ rows
           n == Cardinality(rows)
           t == SQ!DeleteRows(s, tab, rows)
<1>1. IsFiniteSet(s[tab])
  BY DEF Counting, FiniteTables
<1>2. IsFiniteSet(left) /\ IsFiniteSet(rows)
  BY <1>1, FS_Subset, FS_Difference
<1>3. n \in Nat /\ (n = 0 => left = s[tab])
  BY <1>2, FS_CardinalityType, FS_EmptySet
<1>4. t = SQ!SyncBump([s EXCEPT ![tab] = left], n)
  BY SameOperators DEF SQ!DeleteRows
<1> HIDE DEF left, n, t
<1>5. SQTold(s, t) /\ t[tab] = left /\ OnlyTable(s, t, tab)
  BY <1>2, <1>3, <1>4, SQBumped
<1> QED  BY <1>5 DEF left, t

LEMMA SQDeleteSeen ==
    ASSUME NEW s, Counting(s), NEW tab \in Tables, NEW rows \in SUBSET s[tab], NEW k, NEW w
    PROVE  SQSeen(s, SQ!DeleteRows(s, tab, rows), k, w)
<1> DEFINE t == SQ!DeleteRows(s, tab, rows)
<1>1. SQTold(s, t) /\ OnlyTable(s, t, tab) /\ t[tab] = s[tab] \ rows
  BY SQDeleteTold
<1> HIDE DEF t
<1>2. Dated(s, t, FormatUTCMillis(k), w)
  BY <1>1, NoRowDated
<1> QED  BY <1>1, <1>2 DEF SQSeen, t

LEMMA SQSame ==
    ASSUME NEW s, Counting(s), NEW k, NEW w
    PROVE  SQSeen(s, s, k, w)
BY AccountsInUsers, ToldSame, SameDated DEF SQTold, Aside, SQSeen

LEMMA SQThen ==
    ASSUME NEW s, NEW t, NEW q, Counting(s), NEW k, NEW w,
           SQSeen(s, t, k, w), SQTold(t, q), Aside(t, q)
    PROVE  SQSeen(s, q, k, w)
BY AccountsInUsers, ToldTrans, DatedAside DEF SQTold, SQSeen

LEMMA PGTouchedSeen ==
    ASSUME NEW s, Counting(s), NEW u \in Users, NEW tab \in Tables \ {"items"}, NEW old \in s[tab], NEW new,
           NEW k \in Nat, NEW w, tab \in SyncTables => Assigned(s[tab], old, new, k, w)
    PROVE  PGSeen(s, PG!UpdateTouched(s, u, tab, old, new, k), u, k, w)
<1> DEFINE t == PG!UpdateTouched(s, u, tab, old, new, k)
           m == k
           x == IF new.upd = old.upd THEN [new EXCEPT !.upd = m] ELSE new
<1>1. PGTold(s, t, u) /\ OnlyTable(s, t, tab) /\ t[tab] \subseteq s[tab] \cup {x}
  BY PGTouchedTold
<1>2. m \in Int
  BY FormattedTime
<1>3. x = IF new.upd = old.upd THEN [new EXCEPT !.upd = m] ELSE new
  OBVIOUS
<1>4. tab \in SyncTables => Assigned(s[tab], old, new, m, w)
  OBVIOUS
<1> HIDE DEF x, m, t
<1>5. tab \in Tables
  OBVIOUS
<1>6. Dated(s, t, m, w)
  BY <1>1, <1>2, <1>3, <1>4, AssignedFresh, <1>5, RowDated
<1> QED  BY <1>1, <1>6 DEF PGSeen, t, m

LEMMA PGDeleteTold ==
    ASSUME NEW s, Counting(s), NEW u \in Users, NEW tab \in Tables, NEW rows \in SUBSET s[tab]
    PROVE  LET t == PG!DeleteRows(s, u, tab, rows)
           IN  PGTold(s, t, u) /\ OnlyTable(s, t, tab) /\ t[tab] = s[tab] \ rows
<1> DEFINE left == s[tab] \ rows
           n == Cardinality(rows)
           t == PG!DeleteRows(s, u, tab, rows)
<1>1. IsFiniteSet(s[tab])
  BY DEF Counting, FiniteTables
<1>2. IsFiniteSet(left) /\ IsFiniteSet(rows)
  BY <1>1, FS_Subset, FS_Difference
<1>3. n \in Nat /\ (n = 0 => left = s[tab])
  BY <1>2, FS_CardinalityType, FS_EmptySet
<1>4. t = PG!Bump([s EXCEPT ![tab] = left], u, tab, n)
  BY SameOperators DEF PG!DeleteRows
<1> HIDE DEF left, n, t
<1>5. PGTold(s, t, u) /\ t[tab] = left /\ OnlyTable(s, t, tab)
  BY <1>2, <1>3, <1>4, PGBumped
<1> QED  BY <1>5 DEF left, t

LEMMA PGDeleteSeen ==
    ASSUME NEW s, Counting(s), NEW u \in Users, NEW tab \in Tables, NEW rows \in SUBSET s[tab], NEW k, NEW w
    PROVE  PGSeen(s, PG!DeleteRows(s, u, tab, rows), u, k, w)
<1> DEFINE t == PG!DeleteRows(s, u, tab, rows)
<1>1. PGTold(s, t, u) /\ OnlyTable(s, t, tab) /\ t[tab] = s[tab] \ rows
  BY PGDeleteTold
<1> HIDE DEF t
<1>2. Dated(s, t, k, w)
  BY <1>1, NoRowDated
<1> QED  BY <1>1, <1>2 DEF PGSeen, t

LEMMA PGSame ==
    ASSUME NEW s, Counting(s), NEW u \in Users, NEW k, NEW w
    PROVE  PGSeen(s, s, u, k, w)
BY ToldSame, SameDated DEF PGTold, Aside, PGSeen

LEMMA PGThen ==
    ASSUME NEW s, NEW t, NEW q, Counting(s), NEW u \in Users, NEW k, NEW w,
           PGSeen(s, t, u, k, w), PGTold(t, q, u), Aside(t, q)
    PROVE  PGSeen(s, q, u, k, w)
BY ToldTrans, DatedAside DEF PGTold, PGSeen

---------------------------------------------------------------------------
(* Lists of rows *)

LEMMA ImageFinite ==
    ASSUME NEW D, IsFiniteSet(D), NEW f, DOMAIN f = D
    PROVE  IsFiniteSet({f[x] : x \in D})
<1> DEFINE g == [x \in D |-> f[x]]
           R == {f[x] : x \in D}
<1>1. g \in Surjection(D, R)
  BY DEF Surjection
<1> HIDE DEF g, R
<1>2. IsFiniteSet(R)
  BY <1>1, FS_Surjection
<1> QED  BY <1>2 DEF R

LEMMA ListedRows ==
    ASSUME NEW l, IsList(l), NEW rows, RowsFrom(rows, l)
    PROVE  IsFiniteSet(rows) /\ (Len(l) = 0 => rows = {})
<1>1. PICK f : DOMAIN f = DOMAIN l /\ rows = {f[i] : i \in DOMAIN l}
  BY DEF RowsFrom
<1>2. IsFiniteSet(DOMAIN l)
  BY FS_Interval DEF IsList
<1>3. IsFiniteSet(rows)
  BY <1>1, <1>2, ImageFinite
<1>4. Len(l) = 0 => rows = {}
  BY <1>1 DEF IsList
<1> QED  BY <1>3, <1>4

LEMMA ListView ==
    ASSUME NEW s, Counting(s), NEW tab \in Tables, NEW l, IsList(l), NEW rows, RowsFrom(rows, l)
    PROVE  Listing(s, tab, Len(l), s[tab] \cup rows)
BY ListedRows, FS_Union DEF Counting, FiniteTables, IsList, Listing

LEMMA SQListTold ==
    ASSUME NEW s, Counting(s), NEW tab \in Tables, NEW l, IsList(l), NEW rows, RowsFrom(rows, l),
           NEW t, t = SQ!SyncBump([s EXCEPT ![tab] = s[tab] \cup rows], Len(l))
    PROVE  SQTold(s, t) /\ OnlyTable(s, t, tab) /\ t[tab] = s[tab] \cup rows
<1> DEFINE more == s[tab] \cup rows
           n == Len(l)
<1>1. Listing(s, tab, n, more)
  BY ListView
<1>2. t = SQ!SyncBump([s EXCEPT ![tab] = more], n)
  OBVIOUS
<1> HIDE DEF more, n
<1>3. SQTold(s, t) /\ OnlyTable(s, t, tab) /\ t[tab] = more
  BY <1>1, <1>2, SQBumped DEF Listing
<1> QED  BY <1>3 DEF more

LEMMA PGListTold ==
    ASSUME NEW s, Counting(s), NEW u \in Users, NEW tab \in Tables, NEW l, IsList(l), NEW rows, RowsFrom(rows, l),
           NEW t, t = PG!Bump([s EXCEPT ![tab] = s[tab] \cup rows], u, tab, Len(l))
    PROVE  PGTold(s, t, u) /\ OnlyTable(s, t, tab) /\ t[tab] = s[tab] \cup rows
<1> DEFINE more == s[tab] \cup rows
           n == Len(l)
<1>1. Listing(s, tab, n, more)
  BY ListView
<1>2. t = PG!Bump([s EXCEPT ![tab] = more], u, tab, n)
  OBVIOUS
<1> HIDE DEF more, n
<1>3. PGTold(s, t, u) /\ OnlyTable(s, t, tab) /\ t[tab] = more
  BY <1>1, <1>2, PGBumped DEF Listing
<1> QED  BY <1>3 DEF more

---------------------------------------------------------------------------
(* Records, seen *)

LEMMA RecordAssigned ==
    ASSUME NEW s, Wf(s), NEW old \in s.records, NEW new, DOMAIN new = RecordCols,
           new.id = old.id, NEW m, NEW w, w = None => new.upd = old.upd \/ new.upd >= m
    PROVE  Assigned(s["records"], old, new, m, w)
BY DEF Assigned, Wf, Unique, RecordsUnique, RecordCols

LEMMA SessionAssigned ==
    ASSUME NEW s, Wf(s), NEW old \in s.sessions, NEW new, DOMAIN new = SessionCols,
           new.id = old.id, NEW m, NEW w, w = None => new.upd = old.upd \/ new.upd >= m
    PROVE  Assigned(s["sessions"], old, new, m, w)
BY DEF Assigned, Wf, Unique, SessionsUnique, SessionCols

LEMMA TableNames ==
    /\ "records" \in Tables \ {"items"} /\ "sessions" \in Tables \ {"items"}
    /\ "figures" \in Tables \ {"items"} /\ "dataFiles" \in Tables \ {"items"}
    /\ "projects" \in Tables \ {"items"} /\ "devices" \in Tables \ {"items"}
    /\ "paths" \in Tables \ {"items"} /\ "templates" \in Tables \ {"items"}
    /\ "items" \in Tables
    /\ \A k \in {"figures", "dataFiles", "projects", "devices", "paths", "templates", "items"} :
          k \notin SyncTables
BY DEF Tables, OwnedTables, ChildTables, SyncTables

LEMMA SQRecordRowNew ==
    ASSUME NEW s, NEW k \in Nat, NEW a, \A r \in s.records : r.id # a.id
    PROVE  New(s["records"], SQ!recordRow(a, k), FormatUTCMillis(k), a.upd)
<1> DEFINE x == SQ!recordRow(a, k)
<1>1. x.id = a.id /\ (a.upd = None => x.upd = FormatUTCMillis(k))
  BY SameOperators DEF SQ!recordRow, SQ!Coalesce
<1>2. FormatUTCMillis(k) \in Int
  BY FormattedTime
<1> HIDE DEF x
<1> QED  BY <1>1, <1>2 DEF x, New

LEMMA SQCreateRecordSeen ==
    ASSUME NEW s, Counting(s), NEW k \in Nat, NEW a
    PROVE  SQSeen(s, SQ!CreateRecord(s, k, a).store, k, a.upd)
<1> DEFINE row == SQ!recordRow(a, k)
           q == SQ!InsertRow(s, "records", row)
<1>1. \/ SQ!CreateRecord(s, k, a).store = s
      \/ /\ \A r \in s.records : r.id # a.id
         /\ SQ!CreateRecord(s, k, a).store = q
  BY DEF SQ!CreateRecord, SQ!recordIDExists, SQ!Ok, SQ!Err
<1>2. ASSUME \A r \in s.records : r.id # a.id
      PROVE  SQSeen(s, q, k, a.upd)
  <2>1. New(s["records"], row, FormatUTCMillis(k), a.upd)
    BY <1>2, SQRecordRowNew
  <2> HIDE DEF row
  <2> QED  BY <2>1, TableNames, SQInsertSeen
<1> HIDE DEF q
<1> QED  BY <1>1, <1>2, SQSame

\* An UPDATE of a record.
LEMMA SQRecordTouched ==
    ASSUME NEW s, Counting(s), Wf(s), NEW old \in s.records, NEW new, DOMAIN new = RecordCols,
           new.id = old.id, NEW k \in Nat, NEW w, w = None => new.upd = old.upd \/ new.upd >= FormatUTCMillis(k)
    PROVE  SQSeen(s, SQ!UpdateTouched(s, "records", old, new, k), k, w)
BY RecordAssigned, TableNames, SQTouchedSeen

LEMMA PGRecordRowNew ==
    ASSUME NEW s, NEW u \in Users, NEW k \in Nat, NEW a, \A r \in s.records : r.id # a.id
    PROVE  New(s["records"], PG!recordRow(u, a, k), k, a.upd)
<1> DEFINE x == PG!recordRow(u, a, k)
<1>1. x.id = a.id /\ (a.upd = None => x.upd = k)
  BY SameOperators DEF PG!recordRow, PG!Coalesce
<1>2. k \in Int
  BY FormattedTime
<1> HIDE DEF x
<1> QED  BY <1>1, <1>2 DEF x, New

LEMMA PGCreateRecordSeen ==
    ASSUME NEW s, Counting(s), NEW u \in Users, NEW k \in Nat, NEW a
    PROVE  PGSeen(s, PG!CreateRecord(s, u, k, a).store, u, k, a.upd)
<1> DEFINE row == PG!recordRow(u, a, k)
           q == PG!InsertRow(s, u, "records", row)
<1>1. \/ PG!CreateRecord(s, u, k, a).store = s
      \/ /\ \A r \in s.records : r.id # a.id
         /\ PG!CreateRecord(s, u, k, a).store = q
  BY DEF PG!CreateRecord, PG!Ok, PG!Err
<1>2. ASSUME \A r \in s.records : r.id # a.id
      PROVE  PGSeen(s, q, u, k, a.upd)
  <2>1. New(s["records"], row, k, a.upd)
    BY <1>2, PGRecordRowNew
  <2> HIDE DEF row
  <2> QED  BY <2>1, TableNames, PGInsertSeen
<1> HIDE DEF q
<1> QED  BY <1>1, <1>2, PGSame

\* An UPDATE of a record.
LEMMA PGRecordTouched ==
    ASSUME NEW s, Counting(s), Wf(s), NEW u \in Users, NEW old \in s.records, NEW new, DOMAIN new = RecordCols,
           new.id = old.id, NEW k \in Nat, NEW w, w = None => new.upd = old.upd \/ new.upd >= k
    PROVE  PGSeen(s, PG!UpdateTouched(s, u, "records", old, new, k), u, k, w)
BY RecordAssigned, TableNames, PGTouchedSeen

LEMMA SQUpdateRecordSeen ==
    ASSUME NEW s, Counting(s), Wf(s), OwnedBy(s, Me), NEW k \in Nat, NEW a
    PROVE  SQSeen(s, SQ!UpdateRecord(s, k, a).store, k, a.upd)
<1> DEFINE old == SQ!RecordById(s, a.id)
           upd == SQ!Coalesce(SQ!FormatUTCMillis(a.upd), old.upd)
           del == IF a.setDel THEN SQ!FormatUTCMillis(a.del) ELSE old.del
           new == [old EXCEPT !.proj = a.proj, !.dev = a.dev, !.body = a.body,
                      !.upd = upd, !.del = del]
           q == SQ!UpdateTouched(s, "records", old, new, k)
<1>1. \/ SQ!UpdateRecord(s, k, a).store = s
      \/ SQ!recordIDExists(s, a.id) /\ SQ!UpdateRecord(s, k, a).store = q
  BY DEF SQ!UpdateRecord, SQ!Ok, SQ!Err
<1>2. ASSUME SQ!recordIDExists(s, a.id)
      PROVE  SQSeen(s, q, k, a.upd)
  <2>1. old \in s.records /\ DOMAIN old = RecordCols
    BY <1>2, SQRecordById
  <2>2. a.upd = None => upd = old.upd
    BY DEF SQ!Coalesce, SQ!FormatUTCMillis
  <2> HIDE DEF old, upd, del
  <2>3. DOMAIN new = RecordCols /\ new.id = old.id /\ new.upd = upd
    BY <2>1 DEF RecordCols
  <2> HIDE DEF new
  <2> QED  BY <2>1, <2>2, <2>3, SQRecordTouched
<1> HIDE DEF q
<1> QED  BY <1>1, <1>2, SQSame

LEMMA SQRecordTombstonesSeen ==
    ASSUME NEW s, Counting(s), Wf(s), OwnedBy(s, Me), NEW k \in Nat, NEW id, NEW w
    PROVE  /\ SQSeen(s, SQ!SoftDeleteRecord(s, k, id).store, k, w)
           /\ SQSeen(s, SQ!RestoreRecord(s, k, id).store, k, w)
<1> DEFINE old == SQ!RecordById(s, id)
           del == SQ!Coalesce(old.del, SQ!FormatUTCMillis(k))
           q(d) == SQ!UpdateTouched(s, "records", old, [old EXCEPT !.del = d], k)
<1>1. /\ \/ SQ!SoftDeleteRecord(s, k, id).store = s
         \/ SQ!recordIDExists(s, id) /\ SQ!SoftDeleteRecord(s, k, id).store = q(del)
      /\ \/ SQ!RestoreRecord(s, k, id).store = s
         \/ SQ!recordIDExists(s, id) /\ SQ!RestoreRecord(s, k, id).store = q(None)
  BY DEF SQ!SoftDeleteRecord, SQ!RestoreRecord, SQ!Ok, SQ!Err
<1>2. ASSUME SQ!recordIDExists(s, id), NEW d
      PROVE  SQSeen(s, q(d), k, w)
  <2> DEFINE new == [old EXCEPT !.del = d]
  <2>1. old \in s.records /\ DOMAIN old = RecordCols
    BY <1>2, SQRecordById
  <2> HIDE DEF old
  <2>2. DOMAIN new = RecordCols /\ new.id = old.id /\ new.upd = old.upd
    BY <2>1 DEF RecordCols
  <2> HIDE DEF new
  <2> QED  BY <2>1, <2>2, SQRecordTouched DEF new
<1> HIDE DEF q, del
<1> QED  BY <1>1, <1>2, SQSame

LEMMA SQDeleteRecordRowsSeen ==
    ASSUME NEW s, Counting(s), NEW rows \in SUBSET s.records, NEW k, NEW w
    PROVE  SQSeen(s, SQ!DeleteRecordRows(s, rows), k, w)
<1> DEFINE ids == {r.id : r \in rows}
           fs == {f \in s.figures : f.rec \in ids}
           ds == {d \in s.dataFiles : d.rec \in ids}
           s1 == SQ!DeleteRows(s, "records", rows)
           s2 == SQ!DeleteRows(s1, "figures", fs)
           s3 == SQ!DeleteRows(s2, "dataFiles", ds)
<1>1. SQSeen(s, s1, k, w)
  BY TableNames, SQDeleteSeen
<1>2. SQTold(s, s1) /\ OnlyTable(s, s1, "records")
  BY TableNames, SQDeleteTold
<1>3. fs \in SUBSET s.figures /\ ds \in SUBSET s.dataFiles
  OBVIOUS
<1> HIDE DEF s1, fs, ds
<1>4. Counting(s1) /\ fs \in SUBSET s1["figures"] /\ s1.dataFiles = s.dataFiles
  BY <1>2, <1>3, TableNames DEF SQTold, Told, OnlyTable
<1>5. SQTold(s1, s2) /\ OnlyTable(s1, s2, "figures")
  BY <1>4, TableNames, SQDeleteTold
<1> HIDE DEF s2
<1>6. SQTold(s2, s3) /\ OnlyTable(s2, s3, "dataFiles")
  BY <1>3, <1>4, <1>5, TableNames, SQDeleteTold DEF SQTold, Told, OnlyTable
<1> HIDE DEF s3
<1>7. Aside(s1, s2) /\ Aside(s2, s3)
  BY <1>5, <1>6, TableNames, OnlyAside
<1>8. SQSeen(s, s3, k, w)
  BY <1>6, <1>7, <1>1, <1>5, SQThen
<1> QED  BY <1>8 DEF SQ!DeleteRecordRows, s1, s2, s3, fs, ds

LEMMA SQDeletesSeen ==
    ASSUME NEW s, Counting(s), Wf(s), OwnedBy(s, Me), NEW id, NEW k, NEW w
    PROVE  /\ SQSeen(s, SQ!DeleteRecord(s, id).store, k, w)
           /\ SQSeen(s, SQ!PurgeDeletedRecords(s).store, k, w)
<1> DEFINE rows == {SQ!RecordById(s, id)}
           trash == {r \in s.records : r.del # None}
<1>1. \/ SQ!DeleteRecord(s, id).store = s
      \/ SQ!recordIDExists(s, id) /\ SQ!DeleteRecord(s, id).store = SQ!DeleteRecordRows(s, rows)
  BY DEF SQ!DeleteRecord, SQ!Ok, SQ!Err
<1>2. SQ!PurgeDeletedRecords(s).store = SQ!DeleteRecordRows(s, trash)
  BY DEF SQ!PurgeDeletedRecords, SQ!Ok
<1>3. SQ!recordIDExists(s, id) => rows \in SUBSET s.records
  BY SQRecordById
<1>4. trash \in SUBSET s.records
  OBVIOUS
<1> HIDE DEF rows, trash
<1> QED  BY <1>1, <1>2, <1>3, <1>4, SQDeleteRecordRowsSeen, SQSame

\* A cascade deletes rows for which no trigger counts.
LEMMA CascadeTold ==
    ASSUME NEW s, Counting(s), NEW u \in Users, NEW t, PGTold(s, t, u),
           NEW tabs \in SUBSET (Tables \ {"templates"}), NEW q, IsStore(q), q.fired = t.fired,
           \A k \in Tables \ tabs : q[k] = t[k], \A k \in tabs : q[k] \subseteq t[k],
           t.fired[u] = s.fired[u] => \A k \in tabs : q[k] = t[k]
    PROVE  PGTold(s, q, u)
BY FS_Subset, TableNames DEF PGTold, Told, Counting, FiniteTables, SameView

LEMMA PGDeleteNone ==
    ASSUME NEW s, Counting(s), NEW u \in Users, NEW tab \in Tables \ {"templates"},
           NEW rows \in SUBSET s[tab], PG!DeleteRows(s, u, tab, rows).fired[u] = s.fired[u]
    PROVE  rows = {}
<1> DEFINE n == Cardinality(rows)
           f == s.fired
           t == PG!DeleteRows(s, u, tab, rows)
<1>1. IsFiniteSet(rows)
  BY FS_Subset DEF Counting, FiniteTables
<1>2. n \in Nat /\ (n = 0 => rows = {})
  BY <1>1, FS_CardinalityType, FS_EmptySet
<1>3. f \in [Users -> Nat]
  BY DEF Counting
<1>4. t.fired = [f EXCEPT ![u] = @ + n]
  BY StoreDomain, SameOperators DEF Counting, IsStore, PG!DeleteRows, PG!Bump, PG!bumpSyncVersion
<1>5. t.fired[u] = f[u]
  OBVIOUS
<1> HIDE DEF n, f, t
<1>6. n = 0
  BY <1>2, <1>3, <1>4, <1>5
<1> QED  BY <1>2, <1>6

LEMMA PGUpdateRecordSeen ==
    ASSUME NEW s, Counting(s), Wf(s), NEW u \in Users, NEW k \in Nat, NEW a
    PROVE  PGSeen(s, PG!UpdateRecord(s, u, k, a).store, u, k, a.upd)
<1> DEFINE own == PG!OwnRecord(s, u, a.id)
           old == CHOOSE r \in own : TRUE
           upd == PG!Coalesce(a.upd, old.upd)
           del == IF a.setDel THEN a.del ELSE old.del
           new == [old EXCEPT !.proj = a.proj, !.dev = a.dev, !.body = a.body,
                      !.upd = upd, !.del = del]
           q == PG!UpdateTouched(s, u, "records", old, new, k)
<1>1. \/ PG!UpdateRecord(s, u, k, a).store = s
      \/ own # {} /\ PG!UpdateRecord(s, u, k, a).store = q
  BY DEF PG!UpdateRecord, PG!updateOwn, PG!Ok, PG!Err
<1>2. ASSUME own # {}
      PROVE  PGSeen(s, q, u, k, a.upd)
  <2>1. old \in s.records /\ DOMAIN old = RecordCols
    BY <1>2, PGOwnRecord
  <2>2. a.upd = None => upd = old.upd
    BY DEF PG!Coalesce
  <2> HIDE DEF old, upd, del
  <2>3. DOMAIN new = RecordCols /\ new.id = old.id /\ new.upd = upd
    BY <2>1 DEF RecordCols
  <2> HIDE DEF new
  <2> QED  BY <2>1, <2>2, <2>3, PGRecordTouched
<1> HIDE DEF q, own
<1> QED  BY <1>1, <1>2, PGSame

LEMMA PGRecordTombstonesSeen ==
    ASSUME NEW s, Counting(s), Wf(s), NEW u \in Users, NEW k \in Nat, NEW id, NEW w
    PROVE  /\ PGSeen(s, PG!SoftDeleteRecord(s, u, k, id).store, u, k, w)
           /\ PGSeen(s, PG!RestoreRecord(s, u, k, id).store, u, k, w)
<1> DEFINE own == PG!OwnRecord(s, u, id)
           old == CHOOSE r \in own : TRUE
           del == PG!Coalesce(old.del, k)
           q(d) == PG!UpdateTouched(s, u, "records", old, [old EXCEPT !.del = d], k)
<1>1. /\ \/ PG!SoftDeleteRecord(s, u, k, id).store = s
         \/ own # {} /\ PG!SoftDeleteRecord(s, u, k, id).store = q(del)
      /\ \/ PG!RestoreRecord(s, u, k, id).store = s
         \/ own # {} /\ PG!RestoreRecord(s, u, k, id).store = q(None)
  BY DEF PG!SoftDeleteRecord, PG!RestoreRecord, PG!updateOwn, PG!Ok, PG!Err
<1>2. ASSUME own # {}, NEW d
      PROVE  PGSeen(s, q(d), u, k, w)
  <2> DEFINE new == [old EXCEPT !.del = d]
  <2>1. old \in s.records /\ DOMAIN old = RecordCols
    BY <1>2, PGOwnRecord
  <2> HIDE DEF old
  <2>2. DOMAIN new = RecordCols /\ new.id = old.id /\ new.upd = old.upd
    BY <2>1 DEF RecordCols
  <2> HIDE DEF new
  <2> QED  BY <2>1, <2>2, PGRecordTouched DEF new
<1> HIDE DEF q, del, own
<1> QED  BY <1>1, <1>2, PGSame

LEMMA PGDeleteRecordRowsSeen ==
    ASSUME NEW s, Counting(s), NEW u \in Users, NEW rows \in SUBSET s.records, NEW k, NEW w
    PROVE  PGSeen(s, PG!DeleteRecordRows(s, u, rows), u, k, w)
<1> DEFINE ids == {r.id : r \in rows}
           s1 == PG!DeleteRows(s, u, "records", rows)
           fs == {f \in s1.figures : f.rec \notin ids}
           ds == {d \in s1.dataFiles : d.rec \notin ids}
           q == [s1 EXCEPT !["figures"] = fs, !["dataFiles"] = ds]
<1>1. PG!DeleteRecordRows(s, u, rows) = q
  BY DEF PG!DeleteRecordRows
<1>2. rows \in SUBSET s["records"]
  OBVIOUS
<1>3. PGSeen(s, s1, u, k, w) /\ PGTold(s, s1, u)
  BY <1>2, TableNames, PGDeleteSeen, PGDeleteTold
<1>4. s1.fired[u] = s.fired[u] => rows = {}
  BY <1>2, TableNames, PGDeleteNone
<1>5. rows = {} => fs = s1.figures /\ ds = s1.dataFiles
  <2>1. rows = {} => ids = {}
    OBVIOUS
  <2> HIDE DEF ids, s1
  <2> QED  BY <2>1
<1>6. fs \subseteq s1.figures /\ ds \subseteq s1.dataFiles
  OBVIOUS
<1> HIDE DEF fs, ds, s1
<1>7. IsStore(s1)
  BY <1>3 DEF PGTold, Told, Counting
<1>8. /\ IsStore(q) /\ q.fired = s1.fired /\ q.figures = fs /\ q.dataFiles = ds
      /\ \A i \in Tables \ {"figures", "dataFiles"} : q[i] = s1[i]
  BY <1>7, StoreDomain, TableNames DEF IsStore
<1> HIDE DEF q
<1>9. PGTold(s, q, u)
  <2> DEFINE tabs == {"figures", "dataFiles"}
  <2>1. tabs \in SUBSET (Tables \ {"templates"})
    BY TableNames
  <2>2. /\ \A i \in Tables \ tabs : q[i] = s1[i]
        /\ \A i \in tabs : q[i] \subseteq s1[i]
        /\ s1.fired[u] = s.fired[u] => \A i \in tabs : q[i] = s1[i]
    BY <1>4, <1>5, <1>6, <1>8
  <2> HIDE DEF tabs
  <2> QED  BY <1>3, <1>8, <2>1, <2>2, CascadeTold
<1>10. Aside(s1, q)
  BY <1>8, TableNames DEF Aside, SyncTables
<1> QED  BY <1>1, <1>9, <1>3, <1>10, DatedAside DEF PGSeen

LEMMA PGDeletesSeen ==
    ASSUME NEW s, Counting(s), NEW u \in Users, NEW id, NEW k, NEW w
    PROVE  /\ PGSeen(s, PG!DeleteRecord(s, u, id).store, u, k, w)
           /\ PGSeen(s, PG!PurgeDeletedRecords(s, u).store, u, k, w)
<1> DEFINE own == PG!OwnRecord(s, u, id)
           trash == {r \in s.records : r.user = u /\ r.del # None}
<1>1. \/ PG!DeleteRecord(s, u, id).store = s
      \/ PG!DeleteRecord(s, u, id).store = PG!DeleteRecordRows(s, u, own)
  BY DEF PG!DeleteRecord, PG!Ok, PG!Err
<1>2. PG!PurgeDeletedRecords(s, u).store = PG!DeleteRecordRows(s, u, trash)
  BY DEF PG!PurgeDeletedRecords, PG!Ok
<1>3. own \in SUBSET s.records
  BY DEF PG!OwnRecord
<1>4. trash \in SUBSET s.records
  OBVIOUS
<1> HIDE DEF own, trash
<1> QED  BY <1>1, <1>2, <1>3, <1>4, PGDeleteRecordRowsSeen, PGSame

---------------------------------------------------------------------------
(* SQLite: a record replaced with its children *)

LEMMA SQInsertChildrenTold ==
    ASSUME NEW s, Counting(s), NEW tab \in ChildTables, NEW id, NEW l, IsList(l)
    PROVE  LET t == SQ!insertChildrenTx(s, tab, id, l)
           IN  SQTold(s, t) /\ OnlyTable(s, t, tab)
<1> DEFINE rows == ChildRows(id, l)
           f == [i \in DOMAIN l |-> [rec |-> id, name |-> l[i].name, meta |-> l[i].meta]]
           t == SQ!insertChildrenTx(s, tab, id, l)
<1>1. DOMAIN f = DOMAIN l /\ rows = {f[i] : i \in DOMAIN l}
  BY DEF ChildRows
<1>2. t = SQ!SyncBump([s EXCEPT ![tab] = s[tab] \cup rows], Len(l))
  BY DEF SQ!insertChildrenTx, ChildRows
<1>3. tab \in Tables
  BY DEF Tables
<1> HIDE DEF rows, f, t
<1>4. RowsFrom(rows, l)
  BY <1>1 DEF RowsFrom
<1> QED  BY <1>2, <1>3, <1>4, SQListTold DEF t

LEMMA SQReplaceRecordRowSeen ==
    ASSUME NEW s, Counting(s), Wf(s), OwnedBy(s, Me), NEW k \in Nat, NEW a
    PROVE  LET t == SQ!replaceRecordRowTx(s, k, a)
           IN  SQSeen(s, t, k, a.upd) /\ SQTold(s, t) /\ OnlyTable(s, t, "records")
<1> DEFINE row == SQ!recordRow(a, k)
           old == SQ!RecordById(s, a.id)
           del == IF a.setDel THEN row.del ELSE old.del
           new == [old EXCEPT !.proj = a.proj, !.dev = a.dev, !.body = a.body,
                      !.upd = row.upd, !.del = del]
           t == SQ!replaceRecordRowTx(s, k, a)
           ins == SQ!InsertRow(s, "records", row)
           upd == SQ!UpdateTouched(s, "records", old, new, k)
<1>1. t = IF ~ SQ!recordIDExists(s, a.id) THEN ins ELSE upd
  BY DEF SQ!replaceRecordRowTx
<1>2. ASSUME ~ SQ!recordIDExists(s, a.id)
      PROVE  SQSeen(s, ins, k, a.upd) /\ OnlyTable(s, ins, "records")
  <2>1. New(s["records"], row, FormatUTCMillis(k), a.upd)
    BY <1>2, SQRecordRowNew DEF SQ!recordIDExists
  <2> HIDE DEF row
  <2> QED  BY <2>1, TableNames, SQInsertSeen, SQInsertTold
<1>3. ASSUME SQ!recordIDExists(s, a.id)
      PROVE  SQSeen(s, upd, k, a.upd) /\ OnlyTable(s, upd, "records")
  <2>1. old \in s.records /\ DOMAIN old = RecordCols
    BY <1>3, SQRecordById
  <2>2. FormatUTCMillis(k) \in Int /\ (a.upd = None => row.upd = FormatUTCMillis(k))
    BY FormattedTime, SameOperators DEF SQ!recordRow, SQ!Coalesce
  <2> DEFINE rowUpd == row.upd
             x == [old EXCEPT !.proj = a.proj, !.dev = a.dev, !.body = a.body,
                      !.upd = rowUpd, !.del = del]
  <2>3. x = new /\ (a.upd = None => rowUpd >= FormatUTCMillis(k))
    BY <2>2
  <2> HIDE DEF old, row, del, rowUpd
  <2>4. DOMAIN new = RecordCols /\ new.id = old.id /\ new.upd = rowUpd
    BY <2>1, <2>3 DEF RecordCols
  <2> HIDE DEF new
  <2>5. OnlyTable(s, upd, "records")
    BY <2>1, TableNames, SQTouchedTold
  <2> QED  BY <2>1, <2>3, <2>4, SQRecordTouched, <2>5
<1> HIDE DEF ins, upd, t
<1>4. SQSeen(s, t, k, a.upd) /\ OnlyTable(s, t, "records")
  BY <1>1, <1>2, <1>3
<1>5. SQTold(s, t)
  BY <1>4 DEF SQSeen
<1> QED  BY <1>4, <1>5 DEF t

---------------------------------------------------------------------------
(* Postgres: a record replaced with its children *)

LEMMA PGInsertChildrenTold ==
    ASSUME NEW s, Counting(s), NEW u \in Users, NEW tab \in ChildTables, NEW id, NEW l, IsList(l)
    PROVE  LET t == PG!insertChildrenTx(s, u, tab, id, l)
           IN  PGTold(s, t, u) /\ OnlyTable(s, t, tab)
<1> DEFINE rows == ChildRows(id, l)
           f == [i \in DOMAIN l |-> [rec |-> id, name |-> l[i].name, meta |-> l[i].meta]]
           t == PG!insertChildrenTx(s, u, tab, id, l)
<1>1. DOMAIN f = DOMAIN l /\ rows = {f[i] : i \in DOMAIN l}
  BY DEF ChildRows
<1>2. t = PG!Bump([s EXCEPT ![tab] = s[tab] \cup rows], u, tab, Len(l))
  BY DEF PG!insertChildrenTx, ChildRows
<1>3. tab \in Tables
  BY DEF Tables
<1> HIDE DEF rows, f, t
<1>4. RowsFrom(rows, l)
  BY <1>1 DEF RowsFrom
<1> QED  BY <1>2, <1>3, <1>4, PGListTold DEF t

LEMMA PGReplaceRecordRowSeen ==
    ASSUME NEW s, Counting(s), Wf(s), NEW u \in Users, NEW k \in Nat, NEW a,
           PG!recordIDExists(s, u, a.id) \/ ~ PG!recordIDExistsForOtherUserTx(s, u, a.id)
    PROVE  LET t == PG!replaceRecordRowTx(s, u, k, a)
           IN  PGSeen(s, t, u, k, a.upd) /\ PGTold(s, t, u) /\ OnlyTable(s, t, "records")
<1> DEFINE row == PG!recordRow(u, a, k)
           own == PG!OwnRecord(s, u, a.id)
           old == CHOOSE r \in own : TRUE
           del == IF a.setDel THEN row.del ELSE old.del
           new == [old EXCEPT !.proj = a.proj, !.dev = a.dev, !.body = a.body,
                      !.upd = row.upd, !.del = del]
           t == PG!replaceRecordRowTx(s, u, k, a)
           ins == PG!InsertRow(s, u, "records", row)
           upd == PG!UpdateTouched(s, u, "records", old, new, k)
<1>1. t = IF own = {}  THEN ins ELSE upd
  BY DEF PG!replaceRecordRowTx, PG!recordIDExists, PG!updateOwn, PG!Ok
<1>2. ASSUME own = {} 
      PROVE  PGSeen(s, ins, u, k, a.upd) /\ OnlyTable(s, ins, "records")
  <2>1. New(s["records"], row, k, a.upd)
    BY <1>2, PGRecordRowNew DEF PG!recordIDExists, PG!recordIDExistsForOtherUserTx, PG!OwnRecord
  <2> HIDE DEF row
  <2> QED  BY <2>1, TableNames, PGInsertSeen, PGInsertTold
<1>3. ASSUME own # {} 
      PROVE  PGSeen(s, upd, u, k, a.upd) /\ OnlyTable(s, upd, "records")
  <2>1. old \in s.records /\ DOMAIN old = RecordCols
    BY <1>3, PGOwnRecord
  <2>2. k \in Int /\ (a.upd = None => row.upd = k)
    BY FormattedTime, SameOperators DEF PG!recordRow, PG!Coalesce
  <2> DEFINE rowUpd == row.upd
             x == [old EXCEPT !.proj = a.proj, !.dev = a.dev, !.body = a.body,
                      !.upd = rowUpd, !.del = del]
  <2>3. x = new /\ (a.upd = None => rowUpd >= k)
    BY <2>2
  <2> HIDE DEF old, row, del, rowUpd
  <2>4. DOMAIN new = RecordCols /\ new.id = old.id /\ new.upd = rowUpd
    BY <2>1, <2>3 DEF RecordCols
  <2> HIDE DEF new
  <2>5. OnlyTable(s, upd, "records")
    BY <2>1, TableNames, PGTouchedTold
  <2> QED  BY <2>1, <2>3, <2>4, PGRecordTouched, <2>5
<1> HIDE DEF ins, upd, t, own
<1>4. PGSeen(s, t, u, k, a.upd) /\ OnlyTable(s, t, "records")
  BY <1>1, <1>2, <1>3
<1> QED  BY <1>4 DEF t, PGSeen

LEMMA SQReplaceRecordChildrenSeen ==
    ASSUME NEW s, Counting(s), Wf(s), OwnedBy(s, Me), NEW k \in Nat, NEW a, IsList(a.figures), IsList(a.dataFiles)
    PROVE  SQSeen(s, SQ!ReplaceRecordChildren(s, k, a).store, k, a.upd)
<1> DEFINE fs == {f \in s.figures : f.rec = a.id}
           ds == {d \in s.dataFiles : d.rec = a.id}
           s1 == SQ!replaceRecordRowTx(s, k, a)
           s2 == SQ!DeleteRows(s1, "figures", fs)
           s3 == SQ!DeleteRows(s2, "dataFiles", ds)
           s4 == SQ!insertChildrenTx(s3, "figures", a.id, a.figures)
           s5 == SQ!insertChildrenTx(s4, "dataFiles", a.id, a.dataFiles)
           fresh == TRUE
<1>1. \/ SQ!ReplaceRecordChildren(s, k, a).store = s
      \/ fresh /\ SQ!ReplaceRecordChildren(s, k, a).store = s5
  BY DEF SQ!ReplaceRecordChildren, SQ!Ok, SQ!Err, SQ!Column
<1>2. ASSUME fresh
      PROVE  SQSeen(s, s5, k, a.upd)
  <2>1. SQSeen(s, s1, k, a.upd) /\ SQTold(s, s1) /\ OnlyTable(s, s1, "records")
    BY <1>2, SQReplaceRecordRowSeen
  <2>2. fs \in SUBSET s.figures /\ ds \in SUBSET s.dataFiles
    OBVIOUS
  <2> HIDE DEF fs, ds, s1
  <2>3. Counting(s1) /\ fs \in SUBSET s1["figures"] /\ ds \in SUBSET s1["dataFiles"]
    BY <2>1, <2>2, TableNames DEF SQTold, Told, OnlyTable
  <2>4. SQTold(s1, s2) /\ OnlyTable(s1, s2, "figures")
    BY <2>3, TableNames, SQDeleteTold
  <2> HIDE DEF s2
  <2>5. SQTold(s2, s3) /\ OnlyTable(s2, s3, "dataFiles")
    BY <2>3, <2>4, TableNames, SQDeleteTold DEF SQTold, Told, OnlyTable
  <2> HIDE DEF s3
  <2>6. Counting(s3)
    BY <2>5 DEF SQTold, Told
  <2>7. SQTold(s3, s4) /\ OnlyTable(s3, s4, "figures")
    BY <2>6, SQInsertChildrenTold DEF ChildTables
  <2> HIDE DEF s4
  <2>8. Counting(s4)
    BY <2>7 DEF SQTold, Told
  <2>9. SQTold(s4, s5) /\ OnlyTable(s4, s5, "dataFiles")
    BY <2>8, SQInsertChildrenTold DEF ChildTables
  <2> HIDE DEF s5
  <2>10. Aside(s1, s2) /\ Aside(s2, s3) /\ Aside(s3, s4) /\ Aside(s4, s5)
    BY <2>4, <2>5, <2>7, <2>9, TableNames, OnlyAside
  <2>11. SQSeen(s, s3, k, a.upd)
    BY <2>5, <2>10, <2>1, <2>4, SQThen
  <2> QED  BY <2>9, <2>10, <2>7, <2>11, SQThen
<1> HIDE DEF s5, fresh
<1> QED  BY <1>1, <1>2, SQSame

---------------------------------------------------------------------------
(* SQLite: the tables that sync does not date *)

LEMMA SQAsideSeen ==
    ASSUME NEW s, Counting(s), NEW tab \in Tables \ SyncTables, NEW t, SQTold(s, t),
           OnlyTable(s, t, tab), NEW k, NEW w
    PROVE  SQSeen(s, t, k, w)
BY OnlyAside, SameDated DEF SQSeen

LEMMA SQChildSeen ==
    ASSUME NEW s, Counting(s), NEW tab \in ChildTables, NEW a, NEW k, NEW w
    PROVE  /\ SQSeen(s, SQ!createChild(s, tab, a).store, k, w)
           /\ SQSeen(s, SQ!updateChild(s, tab, a).store, k, w)
           /\ SQSeen(s, SQ!deleteChild(s, tab, a).store, k, w)
<1> DEFINE x == [rec |-> a.rec, name |-> a.name, meta |-> a.meta]
           found == SQ!ChildAt(s, tab, a.rec, a.name)
           old == CHOOSE c \in found : TRUE
           new == [old EXCEPT !.name = SQ!Coalesce(a.newName, old.name),
                      !.meta = SQ!Coalesce(a.newMeta, old.meta)]
           ins == SQ!InsertRow(s, tab, x)
           upd == SQ!UpdateRow(s, tab, old, new)
           del == SQ!DeleteRows(s, tab, found)
<1>1. /\ SQ!createChild(s, tab, a).store \in {s, ins}
      /\ \/ SQ!updateChild(s, tab, a).store = s
         \/ found # {} /\ SQ!updateChild(s, tab, a).store = upd
      /\ SQ!deleteChild(s, tab, a).store \in {s, del}
  BY DEF SQ!createChild, SQ!updateChild, SQ!deleteChild, SQ!Ok, SQ!Err
<1>2. tab \in Tables \ {"items"} /\ tab \in Tables \ SyncTables /\ tab \in Tables
  BY TableNames DEF ChildTables
<1>3. SQSeen(s, ins, k, w)
  <2>1. SQTold(s, ins) /\ OnlyTable(s, ins, tab)
    <3> HIDE DEF x
    <3> QED  BY <1>2, SQInsertTold
  <2> HIDE DEF ins
  <2> QED  BY <1>2, <2>1, SQAsideSeen
<1>4. ASSUME found # {}
      PROVE  SQSeen(s, upd, k, w)
  <2>1. old \in found /\ found \subseteq s[tab]
    BY <1>4 DEF SQ!ChildAt
  <2> HIDE DEF old, found
  <2>2. old \in s[tab]
    BY <2>1
  <2> HIDE DEF new
  <2>3. SQTold(s, upd) /\ OnlyTable(s, upd, tab)
    BY <1>2, <2>2, SQUpdateTold
  <2> HIDE DEF upd
  <2> QED  BY <1>2, <2>3, SQAsideSeen
<1>5. SQSeen(s, del, k, w)
  <2>1. found \in SUBSET s[tab]
    BY DEF SQ!ChildAt
  <2> HIDE DEF found
  <2> QED  BY <1>2, <2>1, SQDeleteSeen
<1> HIDE DEF ins, upd, del, found
<1> QED  BY <1>1, <1>3, <1>4, <1>5, SQSame

LEMMA SQChildrenSeen ==
    ASSUME NEW s, Counting(s), NEW a, NEW k, NEW w
    PROVE  /\ SQSeen(s, SQ!CreateRecordFigure(s, a).store, k, w)
           /\ SQSeen(s, SQ!UpdateRecordFigure(s, a).store, k, w)
           /\ SQSeen(s, SQ!DeleteRecordFigure(s, a).store, k, w)
           /\ SQSeen(s, SQ!CreateRecordDataFile(s, a).store, k, w)
           /\ SQSeen(s, SQ!UpdateRecordDataFile(s, a).store, k, w)
           /\ SQSeen(s, SQ!DeleteRecordDataFile(s, a).store, k, w)
BY SQChildSeen DEF ChildTables, SQ!CreateRecordFigure, SQ!UpdateRecordFigure, SQ!DeleteRecordFigure,
   SQ!CreateRecordDataFile, SQ!UpdateRecordDataFile, SQ!DeleteRecordDataFile

LEMMA PGReplaceRecordChildrenSeen ==
    ASSUME NEW s, Counting(s), Wf(s), NEW u \in Users, NEW k \in Nat, NEW a, IsList(a.figures), IsList(a.dataFiles)
    PROVE  PGSeen(s, PG!ReplaceRecordChildren(s, u, k, a).store, u, k, a.upd)
<1> DEFINE fs == {f \in s.figures : f.rec = a.id}
           ds == {d \in s.dataFiles : d.rec = a.id}
           s1 == PG!replaceRecordRowTx(s, u, k, a)
           s2 == PG!DeleteRows(s1, u, "figures", fs)
           s3 == PG!DeleteRows(s2, u, "dataFiles", ds)
           s4 == PG!insertChildrenTx(s3, u, "figures", a.id, a.figures)
           s5 == PG!insertChildrenTx(s4, u, "dataFiles", a.id, a.dataFiles)
           fresh == PG!recordIDExists(s, u, a.id) \/ ~ PG!recordIDExistsForOtherUserTx(s, u, a.id)
<1>1. \/ PG!ReplaceRecordChildren(s, u, k, a).store = s
      \/ fresh /\ PG!ReplaceRecordChildren(s, u, k, a).store = s5
  BY DEF PG!ReplaceRecordChildren, PG!Ok, PG!Err, PG!Column
<1>2. ASSUME fresh
      PROVE  PGSeen(s, s5, u, k, a.upd)
  <2>1. PGSeen(s, s1, u, k, a.upd) /\ PGTold(s, s1, u) /\ OnlyTable(s, s1, "records")
    BY <1>2, PGReplaceRecordRowSeen
  <2>2. fs \in SUBSET s.figures /\ ds \in SUBSET s.dataFiles
    OBVIOUS
  <2> HIDE DEF fs, ds, s1
  <2>3. Counting(s1) /\ fs \in SUBSET s1["figures"] /\ ds \in SUBSET s1["dataFiles"]
    BY <2>1, <2>2, TableNames DEF PGTold, Told, OnlyTable
  <2>4. PGTold(s1, s2, u) /\ OnlyTable(s1, s2, "figures")
    BY <2>3, TableNames, PGDeleteTold
  <2> HIDE DEF s2
  <2>5. PGTold(s2, s3, u) /\ OnlyTable(s2, s3, "dataFiles")
    BY <2>3, <2>4, TableNames, PGDeleteTold DEF PGTold, Told, OnlyTable
  <2> HIDE DEF s3
  <2>6. Counting(s3)
    BY <2>5 DEF PGTold, Told
  <2>7. PGTold(s3, s4, u) /\ OnlyTable(s3, s4, "figures")
    BY <2>6, PGInsertChildrenTold DEF ChildTables
  <2> HIDE DEF s4
  <2>8. Counting(s4)
    BY <2>7 DEF PGTold, Told
  <2>9. PGTold(s4, s5, u) /\ OnlyTable(s4, s5, "dataFiles")
    BY <2>8, PGInsertChildrenTold DEF ChildTables
  <2> HIDE DEF s5
  <2>10. Aside(s1, s2) /\ Aside(s2, s3) /\ Aside(s3, s4) /\ Aside(s4, s5)
    BY <2>4, <2>5, <2>7, <2>9, TableNames, OnlyAside
  <2>11. PGSeen(s, s3, u, k, a.upd)
    BY <2>5, <2>10, <2>1, <2>4, PGThen
  <2> QED  BY <2>9, <2>10, <2>7, <2>11, PGThen
<1> HIDE DEF s5, fresh
<1> QED  BY <1>1, <1>2, PGSame

---------------------------------------------------------------------------
(* Postgres: the tables that sync does not date *)

LEMMA PGAsideSeen ==
    ASSUME NEW s, Counting(s), NEW u \in Users, NEW tab \in Tables \ SyncTables, NEW t, PGTold(s, t, u),
           OnlyTable(s, t, tab), NEW k, NEW w
    PROVE  PGSeen(s, t, u, k, w)
BY OnlyAside, SameDated DEF PGSeen

LEMMA PGChildSeen ==
    ASSUME NEW s, Counting(s), NEW u \in Users, NEW tab \in ChildTables, NEW a, NEW k, NEW w
    PROVE  /\ PGSeen(s, PG!createChild(s, u, tab, a).store, u, k, w)
           /\ PGSeen(s, PG!updateChild(s, u, tab, a).store, u, k, w)
           /\ PGSeen(s, PG!deleteChild(s, u, tab, a).store, u, k, w)
<1> DEFINE x == [rec |-> a.rec, name |-> a.name, meta |-> a.meta]
           found == PG!ChildAt(s, u, tab, a.rec, a.name)
           old == CHOOSE c \in found : TRUE
           new == [old EXCEPT !.name = PG!Coalesce(a.newName, old.name),
                      !.meta = PG!Coalesce(a.newMeta, old.meta)]
           ins == PG!InsertRow(s, u, tab, x)
           upd == PG!UpdateRow(s, u, tab, old, new)
           del == PG!DeleteRows(s, u, tab, found)
<1>1. /\ PG!createChild(s, u, tab, a).store \in {s, ins}
      /\ \/ PG!updateChild(s, u, tab, a).store = s
         \/ found # {} /\ PG!updateChild(s, u, tab, a).store = upd
      /\ PG!deleteChild(s, u, tab, a).store \in {s, del}
  BY DEF PG!createChild, PG!updateChild, PG!deleteChild, PG!Ok, PG!Err
<1>2. tab \in Tables \ {"items"} /\ tab \in Tables \ SyncTables /\ tab \in Tables
  BY TableNames DEF ChildTables
<1>3. PGSeen(s, ins, u, k, w)
  <2>1. PGTold(s, ins, u) /\ OnlyTable(s, ins, tab)
    <3> HIDE DEF x
    <3> QED  BY <1>2, PGInsertTold
  <2> HIDE DEF ins
  <2> QED  BY <1>2, <2>1, PGAsideSeen
<1>4. ASSUME found # {}
      PROVE  PGSeen(s, upd, u, k, w)
  <2>1. old \in found /\ found \subseteq s[tab]
    BY <1>4 DEF PG!ChildAt
  <2> HIDE DEF old, found
  <2>2. old \in s[tab]
    BY <2>1
  <2> HIDE DEF new
  <2>3. PGTold(s, upd, u) /\ OnlyTable(s, upd, tab)
    BY <1>2, <2>2, PGUpdateTold
  <2> HIDE DEF upd
  <2> QED  BY <1>2, <2>3, PGAsideSeen
<1>5. PGSeen(s, del, u, k, w)
  <2>1. found \in SUBSET s[tab]
    BY DEF PG!ChildAt
  <2> HIDE DEF found
  <2> QED  BY <1>2, <2>1, PGDeleteSeen
<1> HIDE DEF ins, upd, del, found
<1> QED  BY <1>1, <1>3, <1>4, <1>5, PGSame

LEMMA PGChildrenSeen ==
    ASSUME NEW s, Counting(s), NEW u \in Users, NEW a, NEW k, NEW w
    PROVE  /\ PGSeen(s, PG!CreateRecordFigure(s, u, a).store, u, k, w)
           /\ PGSeen(s, PG!UpdateRecordFigure(s, u, a).store, u, k, w)
           /\ PGSeen(s, PG!DeleteRecordFigure(s, u, a).store, u, k, w)
           /\ PGSeen(s, PG!CreateRecordDataFile(s, u, a).store, u, k, w)
           /\ PGSeen(s, PG!UpdateRecordDataFile(s, u, a).store, u, k, w)
           /\ PGSeen(s, PG!DeleteRecordDataFile(s, u, a).store, u, k, w)
BY PGChildSeen DEF ChildTables, PG!CreateRecordFigure, PG!UpdateRecordFigure, PG!DeleteRecordFigure,
   PG!CreateRecordDataFile, PG!UpdateRecordDataFile, PG!DeleteRecordDataFile

---------------------------------------------------------------------------
(* Templates and registries, seen *)

\* Statements on a table that sync does not date.
LEMMA SQStatementsSeen ==
    ASSUME NEW s, Counting(s), NEW tab \in Tables \ (SyncTables \cup {"items"}), NEW k \in Nat, NEW w
    PROVE  /\ \A row : SQSeen(s, SQ!InsertRow(s, tab, row), k, w)
           /\ \A old \in s[tab] : \A new : SQSeen(s, SQ!UpdateTouched(s, tab, old, new, k), k, w)
           /\ \A rows \in SUBSET s[tab] : SQSeen(s, SQ!DeleteRows(s, tab, rows), k, w)
BY SQInsertSeen, SQTouchedSeen, SQDeleteSeen

LEMMA SQTemplatesSeen ==
    ASSUME NEW s, Counting(s), NEW k \in Nat, NEW a, NEW name, NEW w
    PROVE  /\ SQSeen(s, SQ!CreateTemplate(s, k, a).store, k, w)
           /\ SQSeen(s, SQ!UpdateTemplate(s, k, a).store, k, w)
           /\ SQSeen(s, SQ!DeleteTemplate(s, name).store, k, w)
<1>1. "templates" \in Tables \ (SyncTables \cup {"items"}) /\ s["templates"] = s.templates
  BY TableNames
<1>2. \/ SQ!UpdateTemplate(s, k, a).store = s
      \/ \E old \in s["templates"] : \E new :
            SQ!UpdateTemplate(s, k, a).store = SQ!UpdateTouched(s, "templates", old, new, k)
  <2> DEFINE found == {x \in s.templates : x.name = a.name}
             old == CHOOSE x \in found : TRUE
  <2>1. \/ SQ!UpdateTemplate(s, k, a).store = s
        \/ found # {} /\ \E new :
              SQ!UpdateTemplate(s, k, a).store = SQ!UpdateTouched(s, "templates", old, new, k)
    BY DEF SQ!UpdateTemplate, SQ!Ok, SQ!Err
  <2>2. found # {} => old \in s["templates"]
    BY <1>1
  <2> HIDE DEF found, old
  <2> QED  BY <2>1, <2>2
<1>3. \/ SQ!DeleteTemplate(s, name).store = s
      \/ \E rows \in SUBSET s["templates"] :
            SQ!DeleteTemplate(s, name).store = SQ!DeleteRows(s, "templates", rows)
  <2> DEFINE found == {x \in s.templates : x.name = name}
  <2>1. \/ SQ!DeleteTemplate(s, name).store = s
        \/ SQ!DeleteTemplate(s, name).store = SQ!DeleteRows(s, "templates", found)
    BY DEF SQ!DeleteTemplate, SQ!Ok, SQ!Err
  <2>2. found \in SUBSET s["templates"]
    BY <1>1
  <2> HIDE DEF found
  <2> QED  BY <2>1, <2>2
<1>4. SQSeen(s, SQ!CreateTemplate(s, k, a).store, k, w)
  BY <1>1, SQStatementsSeen, SQSame DEF SQ!CreateTemplate, SQ!Ok, SQ!Err
<1>5. SQSeen(s, SQ!DeleteTemplate(s, name).store, k, w)
  BY <1>1, <1>3, SQStatementsSeen, SQSame
<1> QED  BY <1>4, <1>1, <1>2, SQStatementsSeen, SQSame, <1>5

LEMMA SQEntrySeen ==
    ASSUME NEW s, Counting(s), NEW tab \in EntryTables, NEW k \in Nat, NEW a, NEW id, NEW arch, NEW w
    PROVE  /\ SQSeen(s, SQ!createEntry(s, tab, k, a).store, k, w)
           /\ SQSeen(s, SQ!setArchivedAt(s, tab, k, id, arch).store, k, w)
           /\ SQSeen(s, SQ!upsertEntryForImport(s, tab, k, a).store, k, w)
<1> DEFINE x == [id |-> a.id, user |-> Me, upd |-> SQ!FormatUTCMillis(SQ!Coalesce(a.upd, k)),
                 arch |-> SQ!FormatUTCMillis(a.arch)]
           ins == SQ!InsertRow(s, tab, x)
           c == SQ!createEntry(s, tab, k, a)
           found(i) == {e \in s[tab] : e.id = i} 
           old(i) == CHOOSE e \in found(i) : TRUE
           q == SQ!setArchivedAt(s, tab, k, id, arch)
           r == SQ!upsertEntryForImport(s, tab, k, a)
<1>1. tab \in Tables \ (SyncTables \cup {"items"})
  BY TableNames DEF EntryTables
<1>2. c.store \in {s, ins} /\ [c EXCEPT !.val = TRUE].store = c.store
  BY DEF SQ!createEntry, SQ!Ok, SQ!Err
<1>3. \A i : found(i) # {} => old(i) \in s[tab]
  BY <1>1
<1>4. \/ q.store = s
      \/ found(id) # {} /\ \E new : q.store = SQ!UpdateTouched(s, tab, old(id), new, k)
  BY DEF SQ!setArchivedAt, SQ!Ok, SQ!Err
<1>5. \/ r.store = s
      \/ r.store = [c EXCEPT !.val = TRUE].store
      \/ found(a.id) # {} /\ \E new : r.store = SQ!UpdateTouched(s, tab, old(a.id), new, k)
  BY DEF SQ!upsertEntryForImport, SQ!Ok
<1>6. SQSeen(s, ins, k, w)
  <2> HIDE DEF x
  <2> QED  BY <1>1, SQStatementsSeen
<1> HIDE DEF x, ins, c, found, old, q, r
<1>7. \A o \in s[tab] : \A new : SQSeen(s, SQ!UpdateTouched(s, tab, o, new, k), k, w)
  BY <1>1, SQStatementsSeen
<1>8. SQSeen(s, c.store, k, w) /\ SQSeen(s, q.store, k, w)
  BY <1>2, <1>3, <1>4, <1>6, <1>7, SQSame
<1>9. SQSeen(s, r.store, k, w)
  BY <1>2, <1>3, <1>5, <1>7, <1>8, SQSame
<1> QED  BY <1>8, <1>9 DEF c, q, r

LEMMA SQEntriesSeen ==
    ASSUME NEW s, Counting(s), NEW k \in Nat, NEW a, NEW id, NEW w
    PROVE  /\ SQSeen(s, SQ!CreateProject(s, k, a).store, k, w)
           /\ SQSeen(s, SQ!CreateDevice(s, k, a).store, k, w)
           /\ SQSeen(s, SQ!UpsertProjectForImport(s, k, a).store, k, w)
           /\ SQSeen(s, SQ!UpsertDeviceForImport(s, k, a).store, k, w)
           /\ SQSeen(s, SQ!ArchiveProject(s, k, id).store, k, w)
           /\ SQSeen(s, SQ!RestoreProject(s, k, id).store, k, w)
           /\ SQSeen(s, SQ!ArchiveDevice(s, k, id).store, k, w)
           /\ SQSeen(s, SQ!RestoreDevice(s, k, id).store, k, w)
BY SQEntrySeen
   DEF EntryTables, SQ!CreateProject, SQ!CreateDevice, SQ!UpsertProjectForImport, SQ!UpsertDeviceForImport,
       SQ!ArchiveProject, SQ!RestoreProject, SQ!ArchiveDevice, SQ!RestoreDevice

LEMMA SQUpsertProjectPathSeen ==
    ASSUME NEW s, Counting(s), NEW k \in Nat, NEW a, NEW w
    PROVE  SQSeen(s, SQ!UpsertProjectPath(s, k, a).store, k, w)
BY TableNames, SQStatementsSeen, SQSame DEF SQ!UpsertProjectPath, SQ!Ok, SQ!Err

\* Statements on a table that sync does not date.
LEMMA PGStatementsSeen ==
    ASSUME NEW s, Counting(s), NEW u \in Users, NEW tab \in Tables \ (SyncTables \cup {"items"}), NEW k \in Nat, NEW w
    PROVE  /\ \A row : PGSeen(s, PG!InsertRow(s, u, tab, row), u, k, w)
           /\ \A old \in s[tab] : \A new : PGSeen(s, PG!UpdateTouched(s, u, tab, old, new, k), u, k, w)
           /\ \A rows \in SUBSET s[tab] : PGSeen(s, PG!DeleteRows(s, u, tab, rows), u, k, w)
BY PGInsertSeen, PGTouchedSeen, PGDeleteSeen

LEMMA PGTemplatesSeen ==
    ASSUME NEW s, Counting(s), NEW u \in Users, NEW k \in Nat, NEW a, NEW name, NEW w
    PROVE  /\ PGSeen(s, PG!CreateTemplate(s, u, k, a).store, u, k, w)
           /\ PGSeen(s, PG!UpdateTemplate(s, u, k, a).store, u, k, w)
           /\ PGSeen(s, PG!DeleteTemplate(s, u, name).store, u, k, w)
<1>1. "templates" \in Tables \ (SyncTables \cup {"items"}) /\ s["templates"] = s.templates
  BY TableNames
<1>2. \/ PG!UpdateTemplate(s, u, k, a).store = s
      \/ \E old \in s["templates"] : \E new :
            PG!UpdateTemplate(s, u, k, a).store = PG!UpdateTouched(s, u, "templates", old, new, k)
  <2> DEFINE found == {x \in s.templates : x.name = a.name}
             old == CHOOSE x \in found : TRUE
  <2>1. \/ PG!UpdateTemplate(s, u, k, a).store = s
        \/ found # {} /\ \E new :
              PG!UpdateTemplate(s, u, k, a).store = PG!UpdateTouched(s, u, "templates", old, new, k)
    BY DEF PG!UpdateTemplate, PG!Ok, PG!Err, PG!updateOwn
  <2>2. found # {} => old \in s["templates"]
    BY <1>1
  <2> HIDE DEF found, old
  <2> QED  BY <2>1, <2>2
<1>3. \/ PG!DeleteTemplate(s, u, name).store = s
      \/ \E rows \in SUBSET s["templates"] :
            PG!DeleteTemplate(s, u, name).store = PG!DeleteRows(s, u, "templates", rows)
  <2> DEFINE found == {x \in s.templates : x.name = name}
  <2>1. \/ PG!DeleteTemplate(s, u, name).store = s
        \/ PG!DeleteTemplate(s, u, name).store = PG!DeleteRows(s, u, "templates", found)
    BY DEF PG!DeleteTemplate, PG!Ok, PG!Err
  <2>2. found \in SUBSET s["templates"]
    BY <1>1
  <2> HIDE DEF found
  <2> QED  BY <2>1, <2>2
<1>4. PGSeen(s, PG!CreateTemplate(s, u, k, a).store, u, k, w)
  BY <1>1, PGStatementsSeen, PGSame DEF PG!CreateTemplate, PG!Ok, PG!Err
<1>5. PGSeen(s, PG!DeleteTemplate(s, u, name).store, u, k, w)
  BY <1>1, <1>3, PGStatementsSeen, PGSame
<1> QED  BY <1>4, <1>1, <1>2, PGStatementsSeen, PGSame, <1>5

LEMMA PGEntrySeen ==
    ASSUME NEW s, Counting(s), NEW u \in Users, NEW tab \in EntryTables, NEW k \in Nat, NEW a, NEW id, NEW arch, NEW w
    PROVE  /\ PGSeen(s, PG!createEntry(s, u, tab, k, a).store, u, k, w)
           /\ PGSeen(s, PG!setArchivedAt(s, u, tab, k, id, arch).store, u, k, w)
           /\ PGSeen(s, PG!upsertEntryForImport(s, u, tab, k, a).store, u, k, w)
<1> DEFINE x == [id |-> a.id, user |-> u, upd |-> PG!Coalesce(a.upd, k),
                 arch |-> a.arch]
           ins == PG!InsertRow(s, u, tab, x)
           c == PG!createEntry(s, u, tab, k, a)
           found(i) == PG!OwnEntry(s, u, tab, i)
           old(i) == CHOOSE e \in found(i) : TRUE
           q == PG!setArchivedAt(s, u, tab, k, id, arch)
           r == PG!upsertEntryForImport(s, u, tab, k, a)
<1>1. tab \in Tables \ (SyncTables \cup {"items"})
  BY TableNames DEF EntryTables
<1>2. c.store \in {s, ins} /\ [c EXCEPT !.val = TRUE].store = c.store
  BY DEF PG!createEntry, PG!Ok, PG!Err
<1>3. \A i : found(i) # {} => old(i) \in s[tab]
  BY DEF PG!OwnEntry
<1>4. \/ q.store = s
      \/ found(id) # {} /\ \E new : q.store = PG!UpdateTouched(s, u, tab, old(id), new, k)
  BY DEF PG!setArchivedAt, PG!Ok, PG!Err, PG!updateOwn
<1>5. \/ r.store = s
      \/ r.store = [c EXCEPT !.val = TRUE].store
      \/ found(a.id) # {} /\ \E new : r.store = PG!UpdateTouched(s, u, tab, old(a.id), new, k)
  BY DEF PG!upsertEntryForImport, PG!Ok, PG!Err, PG!updateOwn
<1>6. PGSeen(s, ins, u, k, w)
  <2> HIDE DEF x
  <2> QED  BY <1>1, PGStatementsSeen
<1> HIDE DEF x, ins, c, found, old, q, r
<1>7. \A o \in s[tab] : \A new : PGSeen(s, PG!UpdateTouched(s, u, tab, o, new, k), u, k, w)
  BY <1>1, PGStatementsSeen
<1>8. PGSeen(s, c.store, u, k, w) /\ PGSeen(s, q.store, u, k, w)
  BY <1>2, <1>3, <1>4, <1>6, <1>7, PGSame
<1>9. PGSeen(s, r.store, u, k, w)
  BY <1>2, <1>3, <1>5, <1>7, <1>8, PGSame
<1> QED  BY <1>8, <1>9 DEF c, q, r

LEMMA PGEntriesSeen ==
    ASSUME NEW s, Counting(s), NEW u \in Users, NEW k \in Nat, NEW a, NEW id, NEW w
    PROVE  /\ PGSeen(s, PG!CreateProject(s, u, k, a).store, u, k, w)
           /\ PGSeen(s, PG!CreateDevice(s, u, k, a).store, u, k, w)
           /\ PGSeen(s, PG!UpsertProjectForImport(s, u, k, a).store, u, k, w)
           /\ PGSeen(s, PG!UpsertDeviceForImport(s, u, k, a).store, u, k, w)
           /\ PGSeen(s, PG!ArchiveProject(s, u, k, id).store, u, k, w)
           /\ PGSeen(s, PG!RestoreProject(s, u, k, id).store, u, k, w)
           /\ PGSeen(s, PG!ArchiveDevice(s, u, k, id).store, u, k, w)
           /\ PGSeen(s, PG!RestoreDevice(s, u, k, id).store, u, k, w)
BY PGEntrySeen
   DEF EntryTables, PG!CreateProject, PG!CreateDevice, PG!UpsertProjectForImport, PG!UpsertDeviceForImport,
       PG!ArchiveProject, PG!RestoreProject, PG!ArchiveDevice, PG!RestoreDevice

LEMMA PGUpsertProjectPathSeen ==
    ASSUME NEW s, Counting(s), NEW u \in Users, NEW k \in Nat, NEW a, NEW w
    PROVE  PGSeen(s, PG!UpsertProjectPath(s, u, k, a).store, u, k, w)
BY TableNames, PGStatementsSeen, PGSame DEF PG!UpsertProjectPath, PG!Ok, PG!Err

---------------------------------------------------------------------------
(* Chats, seen *)

\* Rows written with the time of the call.
LEMMA FilledDated ==
    ASSUME NEW s, NEW t, NEW m \in Int, NEW w, NEW open, NEW F, \A c \in open : F[c].upd = m,
           t.records = s.records, t.sessions = (s.sessions \ open) \cup {F[c] : c \in open}
    PROVE  Dated(s, t, m, w)
BY DEF Dated, SyncTables, ViewOf, Fresh

LEMMA FilledFinite ==
    ASSUME NEW s, Counting(s), NEW open \in SUBSET s.sessions, NEW F, DOMAIN F = open
    PROVE  Listing(s, "sessions", Cardinality(open), (s.sessions \ open) \cup {F[c] : c \in open})
<1> DEFINE rows == {F[c] : c \in open}
           more == (s.sessions \ open) \cup rows
           n == Cardinality(open)
<1>1. IsFiniteSet(s.sessions)
  BY TableNames DEF Counting, FiniteTables
<1>2. IsFiniteSet(open) /\ IsFiniteSet(s.sessions \ open)
  BY <1>1, FS_Subset, FS_Difference
<1>3. IsFiniteSet(rows)
  BY <1>2, ImageFinite
<1>4. n \in Nat /\ (n = 0 => open = {})
  BY <1>2, FS_CardinalityType, FS_EmptySet
<1>5. open = {} => more = s.sessions
  OBVIOUS
<1> HIDE DEF rows, n
<1>6. IsFiniteSet(more)
  BY <1>2, <1>3, FS_Union
<1> HIDE DEF more
<1> QED  BY <1>4, <1>5, <1>6 DEF rows, more, n, Listing

LEMMA SQBackfillSeen ==
    ASSUME NEW s, Counting(s), Wf(s), NEW k \in Nat, NEW w
    PROVE  SQSeen(s, SQ!BackfillChatProjects(s, k).store, k, w)
<1> DEFINE open == {c \in s.sessions : c.proj = None /\ SQ!PathsOf(s, c) # {}}
           F == [c \in open |-> [c EXCEPT !.proj = SQ!longestPathProject(s, c), !.upd = SQ!FormatUTCMillis(k)]]
           n == SQ!Cardinality(open)
           rows == {F[c] : c \in open}
           more == (s.sessions \ open) \cup rows
           t == SQ!BackfillChatProjects(s, k).store
<1>1. t = SQ!SyncBump([s EXCEPT !.sessions = more], n)
  <2> DEFINE new == {[c EXCEPT !.proj = SQ!longestPathProject(s, c), !.upd = SQ!FormatUTCMillis(k)] : c \in open}
             q == SQ!SyncBump([s EXCEPT !.sessions = (s.sessions \ open) \cup new], n)
  <2>1. new = rows
    OBVIOUS
  <2>2. SQ!BackfillChatProjects(s, k) = SQ!Ok(q, n)
    BY DEF SQ!BackfillChatProjects
  <2>3. t = q
    <3> HIDE DEF q
    <3> QED  BY <2>2 DEF SQ!Ok
  <2> HIDE DEF new, rows, open, F, t, n
  <2> QED  BY <2>1, <2>3
<1>2. open \in SUBSET s.sessions /\ DOMAIN F = open /\ n = Cardinality(open)
  BY SameOperators
<1>3. \A c \in open : F[c].upd = FormatUTCMillis(k)
  <2> SUFFICES ASSUME NEW c \in open
               PROVE  F[c].upd = FormatUTCMillis(k)
    OBVIOUS
  <2> DEFINE best == SQ!longestPathProject(s, c)
  <2>1. F[c] = [c EXCEPT !.proj = best, !.upd = FormatUTCMillis(k)]
    BY SameOperators
  <2>2. DOMAIN c = SessionCols
    BY DEF Wf, RowsTyped
  <2> HIDE DEF F, best
  <2> QED  BY <2>1, <2>2 DEF SessionCols
<1>4. FormatUTCMillis(k) \in Int
  BY FormattedTime
<1> HIDE DEF open, F, n
<1>5. Listing(s, "sessions", n, more)
  BY <1>2, FilledFinite
<1>6. t = SQ!SyncBump([s EXCEPT !["sessions"] = more], n)
  BY <1>1
<1> DEFINE final == more
<1>7. final = more
  OBVIOUS
<1> HIDE DEF t, final
<1>8. t = SQ!SyncBump([s EXCEPT !["sessions"] = final], n)
  BY <1>6, <1>7
<1>9. Listing(s, "sessions", n, final)
  BY <1>5, <1>7
<1>10. SQTold(s, t) /\ t["sessions"] = final /\ OnlyTable(s, t, "sessions")
  BY <1>8, <1>9, TableNames, SQBumped DEF Listing
<1>11. t.records = s.records /\ t.sessions = (s.sessions \ open) \cup {F[c] : c \in open}
  BY <1>7, <1>10, TableNames DEF OnlyTable
<1> QED  BY <1>10, <1>3, <1>4, <1>11, FilledDated DEF SQSeen, t

\* An UPDATE of a session.
LEMMA SQSessionTouched ==
    ASSUME NEW s, Counting(s), Wf(s), NEW old \in s.sessions, NEW new, DOMAIN new = SessionCols,
           new.id = old.id, NEW k \in Nat, NEW w, w = None => new.upd = old.upd \/ new.upd >= FormatUTCMillis(k)
    PROVE  LET t == SQ!UpdateTouched(s, "sessions", old, new, k)
           IN  SQSeen(s, t, k, w) /\ OnlyTable(s, t, "sessions")
BY SessionAssigned, TableNames, SQTouchedSeen, SQTouchedTold

LEMMA SQUpsertSeen ==
    ASSUME NEW s, Counting(s), Wf(s), NEW k \in Nat, NEW a
    PROVE  LET q == SQ!upsertChatSessionTx(s, k, a)
           IN  SQSeen(s, q.store, k, a.upd) /\ OnlyTable(s, q.store, "sessions")
<1> DEFINE same == {c \in s.sessions : c.src = a.src}
           row == SQ!sessionRow(a, k)
           old == CHOOSE c \in same : TRUE
           proj == SQ!Coalesce(row.proj, old.proj)
           cwd == SQ!Coalesce(row.cwd, old.cwd)
           title == SQ!Coalesce(row.title, old.title)
           start == SQ!Lesser(old.start, row.start)
           last == SQ!Greater(old.last, row.last)
           del == IF a.clearDel THEN None ELSE row.del
           new == [old EXCEPT !.dev = row.dev, !.proj = proj, !.cwd = cwd, !.title = title,
                      !.start = start, !.last = last, !.orig = row.orig, !.upd = row.upd,
                      !.del = del]
           ins == SQ!InsertRow(s, "sessions", row)
           upd == SQ!UpdateTouched(s, "sessions", old, new, k)
           q == SQ!upsertChatSessionTx(s, k, a)
           free == ~ SQ!chatSessionIDExists(s, a.id)
<1>1. \/ \E e : q = SQ!Err(s, e)
      \/ same = {} /\ free /\ \E v : q = SQ!Ok(ins, v)
      \/ same # {} /\ \E v : q = SQ!Ok(upd, v)
  <2> HIDE DEF ins
  <2> QED  BY DEF SQ!upsertChatSessionTx, ins
<1>2. \/ q.store = s
      \/ free /\ q.store = ins
      \/ same # {} /\ q.store = upd
  <2> HIDE DEF ins, upd, q, same, free
  <2> QED  BY <1>1 DEF SQ!Ok, SQ!Err
<1>3. row.id = a.id /\ (a.upd = None => row.upd = FormatUTCMillis(k))
  BY SameOperators DEF SQ!sessionRow, SQ!Coalesce
<1>4. FormatUTCMillis(k) \in Int
  BY FormattedTime
<1>5. ASSUME free
      PROVE  SQSeen(s, ins, k, a.upd) /\ OnlyTable(s, ins, "sessions")
  <2>1. \A c \in s.sessions : c.id # a.id
    BY <1>5 DEF SQ!chatSessionIDExists
  <2> HIDE DEF row
  <2>2. New(s["sessions"], row, FormatUTCMillis(k), a.upd)
    BY <1>3, <1>4, <2>1 DEF New
  <2> QED  BY <2>2, TableNames, SQInsertSeen, SQInsertTold
<1>6. ASSUME same # {}
      PROVE  SQSeen(s, upd, k, a.upd) /\ OnlyTable(s, upd, "sessions")
  <2> DEFINE rowUpd == row.upd
             x == [old EXCEPT !.dev = row.dev, !.proj = proj, !.cwd = cwd, !.title = title,
                      !.start = start, !.last = last, !.orig = row.orig, !.upd = rowUpd,
                      !.del = del]
  <2>1. old \in s.sessions
    BY <1>6
  <2>2. x = new /\ (a.upd = None => rowUpd >= FormatUTCMillis(k))
    BY <1>3, <1>4
  <2> HIDE DEF old, row, proj, cwd, title, start, last, del, rowUpd
  <2>3. DOMAIN new = SessionCols /\ new.id = old.id /\ new.upd = rowUpd
    BY <2>2, <2>1 DEF SessionCols, Wf, RowsTyped
  <2> HIDE DEF new
  <2> QED  BY <2>1, <2>2, <2>3, SQSessionTouched
<1> HIDE DEF q, ins, upd, same, free
<1>7. SQSeen(s, q.store, k, a.upd) /\ OnlyTable(s, q.store, "sessions")
  BY <1>2, <1>5, <1>6, SQSame DEF OnlyTable
<1> QED  BY <1>7 DEF q

LEMMA SQInsertItemsTold ==
    ASSUME NEW s, Counting(s), NEW id, NEW l, IsList(l)
    PROVE  LET q == SQ!insertChatItemsTx(s, id, l)
           IN  /\ SQTold(s, q.store) /\ OnlyTable(s, q.store, "items")
               /\ \A v : [q EXCEPT !.val = v].store = q.store
<1> DEFINE q == SQ!insertChatItemsTx(s, id, l)
           rows == {[sess |-> id, ord |-> l[i].ord, text |-> l[i].text] : i \in DOMAIN l}
           f == [i \in DOMAIN l |-> [sess |-> id, ord |-> l[i].ord, text |-> l[i].text]]
           t == SQ!SyncBump([s EXCEPT !.items = s.items \cup rows], Len(l))
<1>1. (\E e : q = SQ!Err(s, e)) \/ \E v : q = SQ!Ok(t, v)
  BY DEF SQ!insertChatItemsTx
<1>2. DOMAIN f = DOMAIN l /\ rows = {f[i] : i \in DOMAIN l}
  OBVIOUS
<1>3. t = SQ!SyncBump([s EXCEPT !["items"] = s["items"] \cup rows], Len(l))
  OBVIOUS
<1> HIDE DEF f, rows, t, q
<1>4. RowsFrom(rows, l)
  BY <1>2 DEF RowsFrom
<1>5. SQTold(s, s) /\ OnlyTable(s, s, "items")
  BY SQSame DEF SQSeen, OnlyTable
<1>6. (q.store = s \/ q.store = t) /\ \A v : [q EXCEPT !.val = v].store = q.store
  BY <1>1 DEF SQ!Ok, SQ!Err
<1>7. /\ SQTold(s, q.store) /\ OnlyTable(s, q.store, "items")
      /\ \A v : [q EXCEPT !.val = v].store = q.store
  BY <1>3, <1>4, TableNames, SQListTold, <1>5, <1>6
<1> QED  BY <1>7 DEF q

LEMMA PGBackfillSeen ==
    ASSUME NEW s, Counting(s), Wf(s), NEW u \in Users, NEW k \in Nat, NEW w
    PROVE  PGSeen(s, PG!BackfillChatProjects(s, u, k).store, u, k, w)
<1> DEFINE open == {c \in s.sessions : c.user = u /\ c.proj = None /\ PG!PathsOf(s, c) # {}}
           F == [c \in open |-> [c EXCEPT !.proj = PG!longestPathProject(s, c), !.upd = k]]
           n == PG!Cardinality(open)
           rows == {F[c] : c \in open}
           more == (s.sessions \ open) \cup rows
           t == PG!BackfillChatProjects(s, u, k).store
<1>1. t = PG!bumpSyncVersion([s EXCEPT !.sessions = more], u, n)
  <2> DEFINE new == {[c EXCEPT !.proj = PG!longestPathProject(s, c), !.upd = k] : c \in open}
             q == PG!bumpSyncVersion([s EXCEPT !.sessions = (s.sessions \ open) \cup new], u, n)
  <2>1. new = rows
    OBVIOUS
  <2>2. PG!BackfillChatProjects(s, u, k) = PG!Ok(q, n)
    BY DEF PG!BackfillChatProjects
  <2>3. t = q
    <3> HIDE DEF q
    <3> QED  BY <2>2 DEF PG!Ok
  <2> HIDE DEF new, rows, open, F, t, n
  <2> QED  BY <2>1, <2>3
<1>2. open \in SUBSET s.sessions /\ DOMAIN F = open /\ n = Cardinality(open)
  BY SameOperators
<1>3. \A c \in open : F[c].upd = k
  <2> SUFFICES ASSUME NEW c \in open
               PROVE  F[c].upd = k
    OBVIOUS
  <2> DEFINE best == PG!longestPathProject(s, c)
  <2>1. F[c] = [c EXCEPT !.proj = best, !.upd = k]
    BY SameOperators
  <2>2. DOMAIN c = SessionCols
    BY DEF Wf, RowsTyped
  <2> HIDE DEF F, best
  <2> QED  BY <2>1, <2>2 DEF SessionCols
<1>4. k \in Int
  BY FormattedTime
<1> HIDE DEF open, F, n
<1>5. Listing(s, "sessions", n, more)
  BY <1>2, FilledFinite
<1>6. t = PG!Bump([s EXCEPT !["sessions"] = more], u, "sessions", n)
  BY <1>1 DEF PG!Bump
<1> DEFINE final == more
<1>7. final = more
  OBVIOUS
<1> HIDE DEF t, final
<1>8. t = PG!Bump([s EXCEPT !["sessions"] = final], u, "sessions", n)
  BY <1>6, <1>7
<1>9. Listing(s, "sessions", n, final)
  BY <1>5, <1>7
<1>10. PGTold(s, t, u) /\ t["sessions"] = final /\ OnlyTable(s, t, "sessions")
  BY <1>8, <1>9, TableNames, PGBumped DEF Listing
<1>11. Dated(s, t, k, w)
  BY <1>3, <1>4, <1>7, <1>10, TableNames, FilledDated DEF OnlyTable
<1> QED  BY <1>10, <1>11 DEF PGSeen, t

\* An UPDATE of a session.
LEMMA PGSessionTouched ==
    ASSUME NEW s, Counting(s), Wf(s), NEW u \in Users, NEW old \in s.sessions, NEW new, DOMAIN new = SessionCols,
           new.id = old.id, NEW k \in Nat, NEW w, w = None => new.upd = old.upd \/ new.upd >= k
    PROVE  LET t == PG!UpdateTouched(s, u, "sessions", old, new, k)
           IN  PGSeen(s, t, u, k, w) /\ OnlyTable(s, t, "sessions")
BY SessionAssigned, TableNames, PGTouchedSeen, PGTouchedTold

LEMMA PGUpsertSeen ==
    ASSUME NEW s, Counting(s), Wf(s), NEW u \in Users, NEW k \in Nat, NEW a
    PROVE  LET q == PG!upsertChatSession(s, u, k, a)
           IN  PGSeen(s, q.store, u, k, a.upd) /\ OnlyTable(s, q.store, "sessions")
<1> DEFINE same == {c \in s.sessions : c.user = u /\ c.src = a.src}
           row == PG!sessionRow(u, a, k)
           old == CHOOSE c \in same : TRUE
           proj == PG!Coalesce(row.proj, old.proj)
           cwd == PG!Coalesce(row.cwd, old.cwd)
           title == PG!Coalesce(row.title, old.title)
           start == PG!Lesser(old.start, row.start)
           last == PG!Greater(old.last, row.last)
           del == IF a.clearDel THEN None ELSE row.del
           new == [old EXCEPT !.dev = row.dev, !.proj = proj, !.cwd = cwd, !.title = title,
                      !.start = start, !.last = last, !.orig = row.orig, !.upd = row.upd,
                      !.del = del]
           ins == PG!InsertRow(s, u, "sessions", row)
           upd == PG!UpdateTouched(s, u, "sessions", old, new, k)
           q == PG!upsertChatSession(s, u, k, a)
           free == ~ \E c \in s.sessions : c.id = a.id
<1>1. \/ \E e : q = PG!Err(s, e)
      \/ same = {} /\ free /\ \E v : q = PG!Ok(ins, v)
      \/ same # {} /\ \E v : q = PG!Ok(upd, v)
  <2> HIDE DEF ins
  <2> QED  BY DEF PG!upsertChatSession, PG!updateOwn, ins
<1>2. \/ q.store = s
      \/ free /\ q.store = ins
      \/ same # {} /\ q.store = upd
  <2> HIDE DEF ins, upd, q, same, free
  <2> QED  BY <1>1 DEF PG!Ok, PG!Err
<1>3. row.id = a.id /\ (a.upd = None => row.upd = k)
  BY SameOperators DEF PG!sessionRow, PG!Coalesce
<1>4. k \in Int
  BY FormattedTime
<1>5. ASSUME free
      PROVE  PGSeen(s, ins, u, k, a.upd) /\ OnlyTable(s, ins, "sessions")
  <2>1. \A c \in s.sessions : c.id # a.id
    BY <1>5
  <2> HIDE DEF row
  <2>2. New(s["sessions"], row, k, a.upd)
    BY <1>3, <1>4, <2>1 DEF New
  <2> QED  BY <2>2, TableNames, PGInsertSeen, PGInsertTold
<1>6. ASSUME same # {}
      PROVE  PGSeen(s, upd, u, k, a.upd) /\ OnlyTable(s, upd, "sessions")
  <2> DEFINE rowUpd == row.upd
             x == [old EXCEPT !.dev = row.dev, !.proj = proj, !.cwd = cwd, !.title = title,
                      !.start = start, !.last = last, !.orig = row.orig, !.upd = rowUpd,
                      !.del = del]
  <2>1. old \in s.sessions
    BY <1>6
  <2>2. x = new /\ (a.upd = None => rowUpd >= k)
    BY <1>3, <1>4
  <2> HIDE DEF old, row, proj, cwd, title, start, last, del, rowUpd
  <2>3. DOMAIN new = SessionCols /\ new.id = old.id /\ new.upd = rowUpd
    BY <2>2, <2>1 DEF SessionCols, Wf, RowsTyped
  <2> HIDE DEF new
  <2> QED  BY <2>1, <2>2, <2>3, PGSessionTouched
<1> HIDE DEF q, ins, upd, same, free
<1>7. PGSeen(s, q.store, u, k, a.upd) /\ OnlyTable(s, q.store, "sessions")
  BY <1>2, <1>5, <1>6, PGSame DEF OnlyTable
<1> QED  BY <1>7 DEF q

LEMMA PGInsertItemsTold ==
    ASSUME NEW s, Counting(s), NEW u \in Users, NEW id, NEW l, IsList(l)
    PROVE  LET q == PG!insertChatItemsTx(s, u, id, l)
           IN  /\ PGTold(s, q.store, u) /\ OnlyTable(s, q.store, "items")
               /\ \A v : [q EXCEPT !.val = v].store = q.store
<1> DEFINE q == PG!insertChatItemsTx(s, u, id, l)
           rows == {[sess |-> id, ord |-> l[i].ord, text |-> l[i].text] : i \in DOMAIN l}
           f == [i \in DOMAIN l |-> [sess |-> id, ord |-> l[i].ord, text |-> l[i].text]]
           t == PG!bumpSyncVersion([s EXCEPT !.items = s.items \cup rows], u, Len(l))
<1>1. (\E e : q = PG!Err(s, e)) \/ \E v : q = PG!Ok(t, v)
  BY DEF PG!insertChatItemsTx
<1>2. DOMAIN f = DOMAIN l /\ rows = {f[i] : i \in DOMAIN l}
  OBVIOUS
<1>3. t = PG!Bump([s EXCEPT !["items"] = s["items"] \cup rows], u, "items", Len(l))
  BY DEF PG!Bump
<1> HIDE DEF f, rows, t, q
<1>4. RowsFrom(rows, l)
  BY <1>2 DEF RowsFrom
<1>5. PGTold(s, s, u) /\ OnlyTable(s, s, "items")
  BY PGSame DEF PGSeen, OnlyTable
<1>6. (q.store = s \/ q.store = t) /\ \A v : [q EXCEPT !.val = v].store = q.store
  BY <1>1 DEF PG!Ok, PG!Err
<1>7. /\ PGTold(s, q.store, u) /\ OnlyTable(s, q.store, "items")
      /\ \A v : [q EXCEPT !.val = v].store = q.store
  BY <1>3, <1>4, TableNames, PGListTold, <1>5, <1>6
<1> QED  BY <1>7 DEF q

\* The items of a session deleted and inserted anew.
LEMMA SQItemsToldAnew ==
    ASSUME NEW s, Counting(s), NEW id, NEW l, IsList(l), NEW its \in SUBSET s.items
    PROVE  LET q == SQ!insertChatItemsTx(SQ!DeleteRows(s, "items", its), id, l)
           IN  /\ SQTold(s, q.store) /\ OnlyTable(s, q.store, "items")
               /\ \A v : [q EXCEPT !.val = v].store = q.store
<1> DEFINE d == SQ!DeleteRows(s, "items", its)
           q == SQ!insertChatItemsTx(d, id, l)
<1>1. SQTold(s, d) /\ OnlyTable(s, d, "items")
  BY TableNames, SQDeleteTold
<1> HIDE DEF d
<1>2. Counting(d)
  BY <1>1 DEF SQTold, Told
<1>3. /\ SQTold(d, q.store) /\ OnlyTable(d, q.store, "items")
      /\ \A v : [q EXCEPT !.val = v].store = q.store
  BY <1>2, SQInsertItemsTold
<1> HIDE DEF q
<1>4. OnlyTable(s, q.store, "items")
  BY <1>1, <1>3 DEF OnlyTable
<1>5. /\ SQTold(s, q.store) /\ OnlyTable(s, q.store, "items")
      /\ \A v : [q EXCEPT !.val = v].store = q.store
  BY <1>3, <1>1, AccountsInUsers, ToldTrans, <1>4 DEF SQTold
<1> QED  BY <1>5 DEF q, d

LEMMA SQRollbackStore ==
    ASSUME NEW s, NEW q
    PROVE  SQ!Rollback(s, q).store \in {s, q.store}
BY DEF SQ!Rollback, SQ!Err

LEMMA SQUpsertsSeen ==
    ASSUME NEW s, Counting(s), Wf(s), NEW k \in Nat, NEW a
    PROVE  /\ SQSeen(s, SQ!UpsertChatSession(s, k, a).store, k, a.upd)
           /\ IsList(a.items) => SQSeen(s, SQ!UpsertChatSessionWithItems(s, k, a).store, k, a.upd)
<1> DEFINE up == SQ!upsertChatSessionTx(s, k, a)
           id == up.val.id
           its == SQ!ItemsOf(s, id)
           d == SQ!DeleteRows(up.store, "items", its)
           ins == SQ!insertChatItemsTx(d, id, a.items)
           r == [ins EXCEPT !.val = up.val]
           q == SQ!UpsertChatSessionWithItems(s, k, a)
<1>1. SQSeen(s, up.store, k, a.upd) /\ OnlyTable(s, up.store, "sessions")
  BY SQUpsertSeen
<1>2. SQ!UpsertChatSession(s, k, a) = up
  BY DEF SQ!UpsertChatSession
<1>3. q = IF up.err # None THEN up ELSE SQ!Rollback(s, r)
  BY DEF SQ!UpsertChatSessionWithItems
<1>4. ASSUME IsList(a.items)
      PROVE  SQSeen(s, q.store, k, a.upd)
  <2>1. its \in SUBSET s.items
    BY DEF SQ!ItemsOf
  <2> HIDE DEF up, its
  <2>2. Counting(up.store) /\ its \in SUBSET up.store.items
    BY <1>1, <2>1, TableNames DEF SQSeen, SQTold, Told, OnlyTable
  <2>3. /\ SQTold(up.store, ins.store) /\ OnlyTable(up.store, ins.store, "items")
        /\ \A v : [ins EXCEPT !.val = v].store = ins.store
    BY <1>4, <2>2, SQItemsToldAnew
  <2> HIDE DEF ins
  <2>4. Aside(up.store, ins.store) /\ r.store = ins.store
    BY <2>3, TableNames, OnlyAside
  <2>5. SQSeen(s, ins.store, k, a.upd)
    BY <1>1, <2>3, <2>4, SQThen
  <2> HIDE DEF r, q
  <2> QED  BY <1>1, <2>4, <2>5, <1>3, SQRollbackStore, SQSame
<1> HIDE DEF up, q
<1> QED  BY <1>1, <1>2, <1>4 DEF q

LEMMA SQChatTombstonesSeen ==
    ASSUME NEW s, Counting(s), Wf(s), NEW k \in Nat, NEW id, NEW w
    PROVE  /\ SQSeen(s, SQ!SoftDeleteChatSession(s, k, id).store, k, w)
           /\ SQSeen(s, SQ!RestoreChatSession(s, k, id).store, k, w)
<1> DEFINE gone == {c \in s.sessions : c.id = id /\ c.del # None}
           old1 == CHOOSE c \in s.sessions : c.id = id
           old2 == CHOOSE c \in gone : TRUE
           del == SQ!Coalesce(old1.del, SQ!FormatUTCMillis(k))
           q(old, d) == SQ!UpdateTouched(s, "sessions", old, [old EXCEPT !.del = d], k)
           q1 == SQ!SoftDeleteChatSession(s, k, id).store
           q2 == SQ!RestoreChatSession(s, k, id).store
           held == SQ!chatSessionIDExists(s, id)
<1>1. /\ q1 = s \/ (held /\ q1 = q(old1, del))
      /\ q2 = s \/ (gone # {} /\ q2 = q(old2, None))
  BY DEF SQ!SoftDeleteChatSession, SQ!Ok, SQ!Err, SQ!RestoreChatSession
<1>2. (held => old1 \in s.sessions) /\ (gone # {} => old2 \in s.sessions)
  BY DEF SQ!chatSessionIDExists
<1>3. ASSUME NEW old \in s.sessions, NEW d
      PROVE  SQSeen(s, q(old, d), k, w)
  <2> DEFINE new == [old EXCEPT !.del = d]
  <2>1. DOMAIN new = SessionCols /\ new.id = old.id /\ new.upd = old.upd
    BY DEF SessionCols, Wf, RowsTyped
  <2> HIDE DEF new
  <2> QED  BY <2>1, SQSessionTouched DEF new
<1> HIDE DEF q, gone, old1, old2, q1, q2, held, del
<1> QED  BY <1>1, <1>2, <1>3, SQSame DEF q1, q2

\* The items of a session deleted and inserted anew.
LEMMA PGItemsToldAnew ==
    ASSUME NEW s, Counting(s), NEW u \in Users, NEW id, NEW l, IsList(l), NEW its \in SUBSET s.items
    PROVE  LET q == PG!insertChatItemsTx(PG!DeleteRows(s, u, "items", its), u, id, l)
           IN  /\ PGTold(s, q.store, u) /\ OnlyTable(s, q.store, "items")
               /\ \A v : [q EXCEPT !.val = v].store = q.store
<1> DEFINE d == PG!DeleteRows(s, u, "items", its)
           q == PG!insertChatItemsTx(d, u, id, l)
<1>1. PGTold(s, d, u) /\ OnlyTable(s, d, "items")
  BY TableNames, PGDeleteTold
<1> HIDE DEF d
<1>2. Counting(d)
  BY <1>1 DEF PGTold, Told
<1>3. /\ PGTold(d, q.store, u) /\ OnlyTable(d, q.store, "items")
      /\ \A v : [q EXCEPT !.val = v].store = q.store
  BY <1>2, PGInsertItemsTold
<1> HIDE DEF q
<1>4. OnlyTable(s, q.store, "items")
  BY <1>1, <1>3 DEF OnlyTable
<1>5. /\ PGTold(s, q.store, u) /\ OnlyTable(s, q.store, "items")
      /\ \A v : [q EXCEPT !.val = v].store = q.store
  BY <1>3, <1>1, ToldTrans, <1>4 DEF PGTold
<1> QED  BY <1>5 DEF q, d

LEMMA PGRollbackStore ==
    ASSUME NEW s, NEW q
    PROVE  PG!Rollback(s, q).store \in {s, q.store}
BY DEF PG!Rollback, PG!Err

LEMMA PGUpsertsSeen ==
    ASSUME NEW s, Counting(s), Wf(s), NEW u \in Users, NEW k \in Nat, NEW a
    PROVE  /\ PGSeen(s, PG!UpsertChatSession(s, u, k, a).store, u, k, a.upd)
           /\ IsList(a.items) => PGSeen(s, PG!UpsertChatSessionWithItems(s, u, k, a).store, u, k, a.upd)
<1> DEFINE up == PG!upsertChatSession(s, u, k, a)
           id == up.val.id
           its == PG!ItemsOf(s, id)
           d == PG!DeleteRows(up.store, u, "items", its)
           ins == PG!insertChatItemsTx(d, u, id, a.items)
           r == [ins EXCEPT !.val = up.val]
           q == PG!UpsertChatSessionWithItems(s, u, k, a)
<1>1. PGSeen(s, up.store, u, k, a.upd) /\ OnlyTable(s, up.store, "sessions")
  BY PGUpsertSeen
<1>2. PG!UpsertChatSession(s, u, k, a) = up
  BY DEF PG!UpsertChatSession
<1>3. q = IF up.err # None THEN up ELSE PG!Rollback(s, r)
  BY DEF PG!UpsertChatSessionWithItems
<1>4. ASSUME IsList(a.items)
      PROVE  PGSeen(s, q.store, u, k, a.upd)
  <2>1. its \in SUBSET s.items
    BY DEF PG!ItemsOf
  <2> HIDE DEF up, its
  <2>2. Counting(up.store) /\ its \in SUBSET up.store.items
    BY <1>1, <2>1, TableNames DEF PGSeen, PGTold, Told, OnlyTable
  <2>3. /\ PGTold(up.store, ins.store, u) /\ OnlyTable(up.store, ins.store, "items")
        /\ \A v : [ins EXCEPT !.val = v].store = ins.store
    BY <1>4, <2>2, PGItemsToldAnew
  <2> HIDE DEF ins
  <2>4. Aside(up.store, ins.store) /\ r.store = ins.store
    BY <2>3, TableNames, OnlyAside
  <2>5. PGSeen(s, ins.store, u, k, a.upd)
    BY <1>1, <2>3, <2>4, PGThen
  <2> HIDE DEF r, q
  <2> QED  BY <1>1, <2>4, <2>5, <1>3, PGRollbackStore, PGSame
<1> HIDE DEF up, q
<1> QED  BY <1>1, <1>2, <1>4 DEF q

LEMMA PGChatTombstonesSeen ==
    ASSUME NEW s, Counting(s), Wf(s), NEW u \in Users, NEW k \in Nat, NEW id, NEW w
    PROVE  /\ PGSeen(s, PG!SoftDeleteChatSession(s, u, k, id).store, u, k, w)
           /\ PGSeen(s, PG!RestoreChatSession(s, u, k, id).store, u, k, w)
<1> DEFINE gone == {c \in PG!OwnSession(s, u, id) : c.del # None}
           old1 == CHOOSE c \in PG!OwnSession(s, u, id) : TRUE
           old2 == CHOOSE c \in gone : TRUE
           del == PG!Coalesce(old1.del, k)
           q(old, d) == PG!UpdateTouched(s, u, "sessions", old, [old EXCEPT !.del = d], k)
           q1 == PG!SoftDeleteChatSession(s, u, k, id).store
           q2 == PG!RestoreChatSession(s, u, k, id).store
           held == PG!OwnSession(s, u, id) # {} 
<1>1. /\ q1 = s \/ (held /\ q1 = q(old1, del))
      /\ q2 = s \/ (gone # {} /\ q2 = q(old2, None))
  BY DEF PG!SoftDeleteChatSession, PG!Ok, PG!Err, PG!updateOwn, PG!RestoreChatSession
<1>2. (held => old1 \in s.sessions) /\ (gone # {} => old2 \in s.sessions)
  BY DEF PG!OwnSession
<1>3. ASSUME NEW old \in s.sessions, NEW d
      PROVE  PGSeen(s, q(old, d), u, k, w)
  <2> DEFINE new == [old EXCEPT !.del = d]
  <2>1. DOMAIN new = SessionCols /\ new.id = old.id /\ new.upd = old.upd
    BY DEF SessionCols, Wf, RowsTyped
  <2> HIDE DEF new
  <2> QED  BY <2>1, PGSessionTouched DEF new
<1> HIDE DEF q, gone, old1, old2, q1, q2, held, del
<1> QED  BY <1>1, <1>2, <1>3, PGSame DEF q1, q2

LEMMA SQDeleteChatSeen ==
    ASSUME NEW s, Counting(s), NEW id, NEW k, NEW w
    PROVE  SQSeen(s, SQ!DeleteChatSession(s, id).store, k, w)
<1> DEFINE found == {c \in s.sessions : c.id = id}
           items == SQ!ItemsOf(s, id)
           s1 == SQ!DeleteRows(s, "sessions", found)
           s2 == SQ!DeleteRows(s1, "items", items)
<1>1. SQ!DeleteChatSession(s, id).store \in {s, s2}
  BY DEF SQ!DeleteChatSession, SQ!Ok, SQ!Err
<1>2. found \in SUBSET s["sessions"] /\ items \in SUBSET s["items"]
  BY DEF SQ!ItemsOf
<1> HIDE DEF found, items
<1>3. SQSeen(s, s1, k, w) /\ SQTold(s, s1) /\ OnlyTable(s, s1, "sessions")
  BY <1>2, TableNames, SQDeleteSeen, SQDeleteTold
<1> HIDE DEF s1
<1>4. SQTold(s1, s2) /\ OnlyTable(s1, s2, "items")
  BY <1>2, <1>3, TableNames, SQDeleteTold DEF SQTold, Told, OnlyTable
<1> HIDE DEF s2
<1>5. SQSeen(s, s2, k, w)
  BY <1>3, <1>4, TableNames, OnlyAside, SQThen
<1> QED  BY <1>1, <1>5, SQSame

LEMMA PGDeleteChatSeen ==
    ASSUME NEW s, Counting(s), NEW u \in Users, NEW id, NEW k, NEW w
    PROVE  PGSeen(s, PG!DeleteChatSession(s, u, id).store, u, k, w)
<1> DEFINE own == PG!OwnSession(s, u, id)
           s1 == PG!DeleteRows(s, u, "sessions", own)
           its == s1.items \ PG!ItemsOf(s, id)
           q == [s1 EXCEPT !["items"] = its]
<1>1. \/ PG!DeleteChatSession(s, u, id).store = s
      \/ own # {} /\ PG!DeleteChatSession(s, u, id).store = q
  BY DEF PG!DeleteChatSession, PG!Ok, PG!Err
<1>2. own \in SUBSET s["sessions"] /\ its \subseteq s1.items
  BY DEF PG!OwnSession
<1> HIDE DEF own
<1>3. PGSeen(s, s1, u, k, w) /\ PGTold(s, s1, u)
  BY <1>2, TableNames, PGDeleteSeen, PGDeleteTold
<1>4. s1.fired[u] = s.fired[u] => own = {}
  BY <1>2, TableNames, PGDeleteNone
<1> HIDE DEF its, s1
<1>5. IsStore(s1)
  BY <1>3 DEF PGTold, Told, Counting
<1>6. /\ IsStore(q) /\ q.fired = s1.fired /\ q.items = its
      /\ \A i \in Tables \ {"items"} : q[i] = s1[i]
  BY <1>5, StoreDomain, TableNames DEF IsStore
<1> HIDE DEF q
<1>7. ASSUME own # {}
      PROVE  PGTold(s, q, u)
  <2> DEFINE tabs == {"items"}
  <2>1. tabs \in SUBSET (Tables \ {"templates"})
    BY TableNames
  <2>2. /\ \A i \in Tables \ tabs : q[i] = s1[i]
        /\ \A i \in tabs : q[i] \subseteq s1[i]
        /\ s1.fired[u] = s.fired[u] => \A i \in tabs : q[i] = s1[i]
    BY <1>2, <1>4, <1>6, <1>7
  <2> HIDE DEF tabs
  <2> QED  BY <1>3, <1>6, <2>1, <2>2, CascadeTold
<1>8. Aside(s1, q)
  BY <1>6, TableNames DEF Aside, SyncTables
<1> QED  BY <1>1, <1>7, <1>3, <1>8, DatedAside, PGSame DEF PGSeen

LEMMA SQChatItemsSeen ==
    ASSUME NEW s, Counting(s), NEW a, IsList(a.items), NEW k, NEW w
    PROVE  /\ SQSeen(s, SQ!CreateChatItem(s, a).store, k, w)
           /\ SQSeen(s, SQ!AppendChatItems(s, a).store, k, w)
           /\ SQSeen(s, SQ!ReplaceChatItems(s, a).store, k, w)
<1> DEFINE its == SQ!ItemsOf(s, a.id)
           ins == SQ!insertChatItemsTx(s, a.id, a.items)
           rep == SQ!insertChatItemsTx(SQ!DeleteRows(s, "items", its), a.id, a.items)
           back == SQ!Rollback(s, rep)
           held == SQ!chatSessionIDExists(s, a.id)
<1>1. its \in SUBSET s.items
  BY DEF SQ!ItemsOf
<1>2. /\ held => /\ SQ!CreateChatItem(s, a) = ins /\ SQ!AppendChatItems(s, a) = ins
                 /\ SQ!ReplaceChatItems(s, a) = back
      /\ ~held => /\ SQ!CreateChatItem(s, a).store = s /\ SQ!AppendChatItems(s, a).store = s
                  /\ SQ!ReplaceChatItems(s, a).store = s
  BY DEF SQ!CreateChatItem, SQ!AppendChatItems, SQ!ReplaceChatItems, SQ!Err
<1> HIDE DEF its, held
<1>3. SQTold(s, ins.store) /\ OnlyTable(s, ins.store, "items")
  BY SQInsertItemsTold
<1>4. SQTold(s, rep.store) /\ OnlyTable(s, rep.store, "items")
  BY <1>1, SQItemsToldAnew
<1>5. back.store = s \/ back.store = rep.store
  BY SQRollbackStore
<1> HIDE DEF ins, rep, back
<1> QED  BY <1>2, <1>5, <1>3, <1>4, TableNames, SQAsideSeen, SQSame

LEMMA PGChatItemsSeen ==
    ASSUME NEW s, Counting(s), NEW u \in Users, NEW a, IsList(a.items), NEW k, NEW w
    PROVE  /\ PGSeen(s, PG!CreateChatItem(s, u, a).store, u, k, w)
           /\ PGSeen(s, PG!AppendChatItems(s, u, a).store, u, k, w)
           /\ PGSeen(s, PG!ReplaceChatItems(s, u, a).store, u, k, w)
<1> DEFINE its == PG!ItemsOf(s, a.id)
           ins == PG!insertChatItemsTx(s, u, a.id, a.items)
           rep == PG!insertChatItemsTx(PG!DeleteRows(s, u, "items", its), u, a.id, a.items)
           back == PG!Rollback(s, rep)
           held == PG!chatSessionIDExists(s, u, a.id)
<1>1. its \in SUBSET s.items
  BY DEF PG!ItemsOf
<1>2. /\ held => /\ PG!CreateChatItem(s, u, a) = ins /\ PG!AppendChatItems(s, u, a) = ins
                 /\ PG!ReplaceChatItems(s, u, a) = back
      /\ ~held => /\ PG!CreateChatItem(s, u, a).store = s /\ PG!AppendChatItems(s, u, a).store = s
                  /\ PG!ReplaceChatItems(s, u, a).store = s
  BY DEF PG!CreateChatItem, PG!AppendChatItems, PG!ReplaceChatItems, PG!Err
<1> HIDE DEF its, held
<1>3. PGTold(s, ins.store, u) /\ OnlyTable(s, ins.store, "items")
  BY PGInsertItemsTold
<1>4. PGTold(s, rep.store, u) /\ OnlyTable(s, rep.store, "items")
  BY <1>1, PGItemsToldAnew
<1>5. back.store = s \/ back.store = rep.store
  BY PGRollbackStore
<1> HIDE DEF ins, rep, back
<1> QED  BY <1>2, <1>5, <1>3, <1>4, TableNames, PGAsideSeen, PGSame

---------------------------------------------------------------------------
(* Every step of the specification is seen. *)

LEMMA UnfiredCounting ==
    ASSUME NEW s, IsStore(s), FiniteTables(s)
    PROVE  /\ Counting(Unfired(s)) /\ \A tab \in Tables : Unfired(s)[tab] = s[tab]
           /\ \A u \in Users : Unfired(s).fired[u] = 0
BY StoreDomain DEF IsStore, Unfired, Counting, FiniteTables

LEMMA SInvFacts ==
    ASSUME SInv
    PROVE  /\ now \in Nat /\ Me \in Users
           /\ Counting(Unfired(sq)) /\ Wf(Unfired(sq)) /\ OwnedBy(Unfired(sq), Me)
           /\ Counting(Unfired(pg)) /\ Wf(Unfired(pg))
BY UnfiredCounting, UnfiredGood, AccountsInUsers DEF SInv, IInv, Counted, Wf

LEMMA CallSeen ==
    ASSUME SInv, NEW op, NEW id, NEW upd, NEW onSQ, NEW onPG,
           CallAt(op, id, upd, onSQ, onPG),
           SQSeen(Unfired(sq), onSQ.store, now, upd), PGSeen(Unfired(pg), onPG.store, Me, now, upd)
    PROVE  StepSeen(Me)
BY SInvFacts, SQSame DEF CallAt, StepSeen

LEMMA RecordsSeen ==
    ASSUME SInv, Records
    PROVE  StepSeen(Me)
<1> DEFINE S == Unfired(sq)
           G == Unfired(pg)
<1>1. /\ now \in Nat /\ Me \in Users /\ Counting(S) /\ Wf(S) /\ OwnedBy(S, Me)
      /\ Counting(G) /\ Wf(G)
  BY SInvFacts
<1>2. ASSUME NEW a,
             CallAt("CreateRecord", a.id, a.upd, SQ!CreateRecord(S, now, a), PG!CreateRecord(G, Me, now, a))
      PROVE  StepSeen(Me)
  BY <1>1, <1>2, CallSeen, SQCreateRecordSeen, PGCreateRecordSeen
<1>3. ASSUME NEW a,
             CallAt("UpdateRecord", a.id, a.upd, SQ!UpdateRecord(S, now, a), PG!UpdateRecord(G, Me, now, a))
      PROVE  StepSeen(Me)
  BY <1>1, <1>3, CallSeen, SQUpdateRecordSeen, PGUpdateRecordSeen
<1>4. ASSUME NEW i,
             \/ Call("SoftDeleteRecord", i, SQ!SoftDeleteRecord(S, now, i), PG!SoftDeleteRecord(G, Me, now, i))
             \/ Call("RestoreRecord", i, SQ!RestoreRecord(S, now, i), PG!RestoreRecord(G, Me, now, i))
      PROVE  StepSeen(Me)
  BY <1>1, <1>4, CallSeen, SQRecordTombstonesSeen, PGRecordTombstonesSeen DEF Call
<1>5. ASSUME NEW i,
             \/ Call("DeleteRecord", i, SQ!DeleteRecord(S, i), PG!DeleteRecord(G, Me, i))
             \/ Call("PurgeDeletedRecords", i, SQ!PurgeDeletedRecords(S), PG!PurgeDeletedRecords(G, Me))
      PROVE  StepSeen(Me)
  BY <1>1, <1>5, CallSeen, SQDeletesSeen, PGDeletesSeen DEF Call
<1> QED  BY <1>2, <1>3, <1>4, <1>5 DEF Records

LEMMA ShortLists == \A x, y : IsList(<<>>) /\ IsList(<<x>>) /\ IsList(<<x, y>>)
BY DEF IsList

LEMMA ReplacementLists ==
    \A a \in Replacements : IsList(a.figures) /\ IsList(a.dataFiles)
<1> DEFINE child(n) == [name |-> n, meta |-> "k"]
           row(i, p, u, d, f, g) ==
               [id |-> i, proj |-> p, dev |-> 1, body |-> None, upd |-> u, setDel |-> d,
                del |-> None, figures |-> f, dataFiles |-> g]
           lists == {<<<<>>, <<child("a")>>>>, <<<<child("b"), child("a")>>, <<>>>>,
                     <<<<child("b")>>, <<child("b"), child("b")>>>>}
<1>1. \A a \in Replacements :
         (\E i, p, u, d : \E l \in lists : a = row(i, p, u, d, l[1], l[2]))
         \/ (\E i, p, u, d : a = row(i, p, u, d, <<>>, <<>>))
  <2> HIDE DEF row, lists
  <2> QED  BY DEF Replacements, row, lists
<1>2. \A i, p, u, d, f, g : row(i, p, u, d, f, g).figures = f /\ row(i, p, u, d, f, g).dataFiles = g
  OBVIOUS
<1>3. \A l \in lists : IsList(l[1]) /\ IsList(l[2])
  <2> HIDE DEF child
  <2>1. \A x, y : <<x, y>>[1] = x /\ <<x, y>>[2] = y
    OBVIOUS
  <2>2. \A l \in lists : \E x, y, z : l \in {<<<<>>, <<x>>>>, <<<<x, y>>, <<>>>>, <<<<x>>, <<y, z>>>>}
    BY Zenon
  <2> HIDE DEF lists
  <2> SUFFICES ASSUME NEW l \in lists
               PROVE  IsList(l[1]) /\ IsList(l[2])
    OBVIOUS
  <2>3. PICK x, y, z : l \in {<<<<>>, <<x>>>>, <<<<x, y>>, <<>>>>, <<<<x>>, <<y, z>>>>}
    BY <2>2
  <2>4. IsList(<<>>) /\ IsList(<<x>>) /\ IsList(<<x, y>>) /\ IsList(<<y, z>>)
    BY ShortLists
  <2> DEFINE e == <<>>
             ex == <<x>>
             exy == <<x, y>>
             eyz == <<y, z>>
  <2>5. IsList(e) /\ IsList(ex) /\ IsList(exy) /\ IsList(eyz) /\ l \in {<<e, ex>>, <<exy, e>>, <<ex, eyz>>}
    BY <2>3, <2>4
  <2> HIDE DEF e, ex, exy, eyz
  <2> QED  BY <2>5
<1> HIDE DEF row, lists
<1> SUFFICES ASSUME NEW a \in Replacements
             PROVE  IsList(a.figures) /\ IsList(a.dataFiles)
  OBVIOUS
<1>4. IsList(<<>>)
  BY ShortLists
<1>5. CASE \E i, p, u, d : \E l \in lists : a = row(i, p, u, d, l[1], l[2])
  <2>1. PICK i, p, u, d : \E l \in lists : a = row(i, p, u, d, l[1], l[2])
    BY <1>5
  <2>2. PICK l \in lists : a = row(i, p, u, d, l[1], l[2])
    BY <2>1
  <2> QED  BY <1>3, <1>2, <2>2
<1>6. CASE \E i, p, u, d : a = row(i, p, u, d, <<>>, <<>>)
  <2>1. PICK i, p, u, d : a = row(i, p, u, d, <<>>, <<>>)
    BY <1>6
  <2> DEFINE e == <<>>
  <2> QED  BY <1>4, <1>2, <2>1
<1> QED  BY <1>1, <1>5, <1>6

LEMMA ChatLists ==
    /\ \A a \in ChatInputs \cup ChatWithItemsInputs : IsList(a.items)
    /\ \A a \in ItemInputs : IsList(a.items) /\ IsList([a EXCEPT !.items = <<@[1]>>].items)
<1>1. \A i, c, p, k, u, d, its : ChatInput(i, c, p, k, u, d, its).items = its
  BY DEF ChatInput
<1>2. \A a \in ChatInputs : \E i, c, p, k, u, d : a = ChatInput(i, c, p, k, u, d, <<>>)
  BY DEF ChatInputs
<1>3. \A a \in ChatWithItemsInputs :
         \E i, c, p, k, u, d, x, y : \E its \in {<<>>, <<x, y>>} : a = ChatInput(i, c, p, k, u, d, its)
  <2> DEFINE two == <<[ord |-> 0, text |-> "k"], [ord |-> 1, text |-> "b"]>>
             repeated == <<[ord |-> 1, text |-> "k"], [ord |-> 1, text |-> "k"]>>
             V == {<<None, <<>>>>, <<None, repeated>>, <<None, two>>, <<1, two>>}
  <2>1. \A a \in ChatWithItemsInputs : \E i, c : \E v \in V : a = ChatInput(i, c, None, None, None, v[1], v[2])
    BY DEF ChatWithItemsInputs
  <2>2. \A v \in V : v[2] \in {<<>>, repeated, two}
    <3> HIDE DEF two, repeated
    <3>1. \A x, y : <<x, y>>[2] = y
      OBVIOUS
    <3> QED  BY <3>1, Zenon
  <2>3. \E x, y : repeated = <<x, y>>
    OBVIOUS
  <2>4. \E x, y : two = <<x, y>>
    OBVIOUS
  <2> HIDE DEF two, repeated, V
  <2> SUFFICES ASSUME NEW a \in ChatWithItemsInputs
               PROVE  \E i, c, p, k, u, d, x, y :
                         \E its \in {<<>>, <<x, y>>} : a = ChatInput(i, c, p, k, u, d, its)
    OBVIOUS
  <2>5. PICK i, c : \E v \in V : a = ChatInput(i, c, None, None, None, v[1], v[2])
    BY <2>1
  <2>6. PICK v \in V : a = ChatInput(i, c, None, None, None, v[1], v[2])
    BY <2>5
  <2> QED  BY <2>6, <2>2, <2>3, <2>4
<1>4. \A a \in ItemInputs : \E i, x, y : \E its \in {<<x>>, <<x, y>>} : a = [id |-> i, items |-> its]
  BY DEF ItemInputs
<1>5. \A a \in ChatInputs : IsList(a.items)
  <2>1. IsList(<<>>)
    BY ShortLists
  <2>2. \A a \in ChatInputs : a.items = <<>>
    <3> SUFFICES ASSUME NEW a \in ChatInputs
                 PROVE  a.items = <<>>
      OBVIOUS
    <3>1. PICK i, c, p, k, u, d : a = ChatInput(i, c, p, k, u, d, <<>>)
      BY <1>2
    <3> QED  BY <1>1, <3>1
  <2> QED  BY <2>1, <2>2, Zenon
<1>6. \A a \in ChatWithItemsInputs : IsList(a.items)
  <2>1. \A a \in ChatWithItemsInputs : \E x, y : a.items \in {<<>>, <<x, y>>}
    <3> SUFFICES ASSUME NEW a \in ChatWithItemsInputs
                 PROVE  \E x, y : a.items \in {<<>>, <<x, y>>}
      OBVIOUS
    <3>1. PICK i, c, p, k, u, d, x, y :
             \E its \in {<<>>, <<x, y>>} : a = ChatInput(i, c, p, k, u, d, its)
      BY <1>3
    <3>2. PICK its \in {<<>>, <<x, y>>} : a = ChatInput(i, c, p, k, u, d, its)
      BY <3>1
    <3> QED  BY <3>2, <1>1
  <2> SUFFICES ASSUME NEW a \in ChatWithItemsInputs
               PROVE  IsList(a.items)
    OBVIOUS
  <2>2. PICK x, y : a.items \in {<<>>, <<x, y>>}
    BY <2>1
  <2>3. IsList(<<>>) /\ IsList(<<x, y>>)
    BY ShortLists
  <2> QED  BY <2>2, <2>3, Zenon
<1>7. \A i, its : [id |-> i, items |-> its].items = its
  OBVIOUS
<1>8. \A i, its : [[id |-> i, items |-> its] EXCEPT !.items = <<@[1]>>].items = <<its[1]>>
  OBVIOUS
<1>9. \A a \in ItemInputs : IsList(a.items) /\ IsList([a EXCEPT !.items = <<@[1]>>].items)
  <2> SUFFICES ASSUME NEW a \in ItemInputs
               PROVE  IsList(a.items) /\ IsList([a EXCEPT !.items = <<@[1]>>].items)
    OBVIOUS
  <2>1. PICK i, x, y : \E its \in {<<x>>, <<x, y>>} : a = [id |-> i, items |-> its]
    BY <1>4
  <2>2. PICK its \in {<<x>>, <<x, y>>} : a = [id |-> i, items |-> its]
    BY <2>1
  <2>3. a.items \in {<<x>>, <<x, y>>} /\ [a EXCEPT !.items = <<@[1]>>].items = <<its[1]>>
    BY <1>7, <1>8, <2>2, Zenon
  <2> DEFINE first == its[1]
  <2>4. IsList(<<x>>) /\ IsList(<<x, y>>) /\ IsList(<<first>>)
    BY ShortLists
  <2> QED  BY <2>3, <2>4, Zenon
<1> QED  BY <1>5, <1>6, <1>9

LEMMA ChildrenSeen ==
    ASSUME SInv, Children
    PROVE  StepSeen(Me)
<1> DEFINE S == Unfired(sq)
           G == Unfired(pg)
<1>1. /\ now \in Nat /\ Me \in Users /\ Counting(S) /\ Wf(S) /\ OwnedBy(S, Me)
      /\ Counting(G) /\ Wf(G)
  BY SInvFacts
<1>2. ASSUME NEW a,
             \/ Call("CreateRecordFigure", a.rec, SQ!CreateRecordFigure(S, a), PG!CreateRecordFigure(G, Me, a))
             \/ Call("UpdateRecordFigure", a.rec, SQ!UpdateRecordFigure(S, a), PG!UpdateRecordFigure(G, Me, a))
             \/ Call("DeleteRecordFigure", a.rec, SQ!DeleteRecordFigure(S, a), PG!DeleteRecordFigure(G, Me, a))
      PROVE  StepSeen(Me)
  BY <1>1, <1>2, CallSeen, SQChildrenSeen, PGChildrenSeen DEF Call
<1>3. ASSUME NEW a,
             \/ Call("CreateRecordDataFile", a.rec, SQ!CreateRecordDataFile(S, a), PG!CreateRecordDataFile(G, Me, a))
             \/ Call("UpdateRecordDataFile", a.rec, SQ!UpdateRecordDataFile(S, a), PG!UpdateRecordDataFile(G, Me, a))
             \/ Call("DeleteRecordDataFile", a.rec, SQ!DeleteRecordDataFile(S, a), PG!DeleteRecordDataFile(G, Me, a))
      PROVE  StepSeen(Me)
  BY <1>1, <1>3, CallSeen, SQChildrenSeen, PGChildrenSeen DEF Call
<1>4. ASSUME NEW a \in Replacements,
             CallAt("ReplaceRecordChildren", a.id, a.upd, SQ!ReplaceRecordChildren(S, now, a),
                    PG!ReplaceRecordChildren(G, Me, now, a))
      PROVE  StepSeen(Me)
  BY ReplacementLists, <1>1, <1>4, CallSeen, SQReplaceRecordChildrenSeen,
     PGReplaceRecordChildrenSeen
<1>5. ASSUME Call("DeleteRecord", "r1", SQ!DeleteRecord(S, "r1"), PG!DeleteRecord(G, Me, "r1"))
      PROVE  StepSeen(Me)
  BY <1>1, <1>5, CallSeen, SQDeletesSeen, PGDeletesSeen DEF Call
<1> QED  BY <1>2, <1>3, <1>4, <1>5 DEF Children

LEMMA ChatsSeen ==
    ASSUME SInv, Chats
    PROVE  StepSeen(Me)
<1> DEFINE S == Unfired(sq)
           G == Unfired(pg)
<1>1. /\ now \in Nat /\ Me \in Users /\ Counting(S) /\ Wf(S) /\ OwnedBy(S, Me)
      /\ Counting(G) /\ Wf(G)
  BY SInvFacts
<1>2. ASSUME NEW a, NEW i,
             CallAt("UpsertChatSession", i, a.upd, SQ!UpsertChatSession(S, now, a),
                    PG!UpsertChatSession(G, Me, now, a))
      PROVE  StepSeen(Me)
  BY <1>1, <1>2, CallSeen, SQUpsertsSeen, PGUpsertsSeen
<1>3. ASSUME NEW a \in ChatWithItemsInputs, NEW i,
             CallAt("UpsertChatSessionWithItems", i, a.upd, SQ!UpsertChatSessionWithItems(S, now, a),
                    PG!UpsertChatSessionWithItems(G, Me, now, a))
      PROVE  StepSeen(Me)
  BY ChatLists, <1>1, <1>3, CallSeen, SQUpsertsSeen, PGUpsertsSeen
<1>4. ASSUME NEW i,
             \/ Call("SoftDeleteChatSession", i, SQ!SoftDeleteChatSession(S, now, i),
                     PG!SoftDeleteChatSession(G, Me, now, i))
             \/ Call("RestoreChatSession", i, SQ!RestoreChatSession(S, now, i),
                     PG!RestoreChatSession(G, Me, now, i))
             \/ Call("DeleteChatSession", i, SQ!DeleteChatSession(S, i), PG!DeleteChatSession(G, Me, i))
      PROVE  StepSeen(Me)
  BY <1>1, <1>4, CallSeen, SQChatTombstonesSeen, SQDeleteChatSeen, PGChatTombstonesSeen,
     PGDeleteChatSeen DEF Call
<1>5. ASSUME NEW op, NEW i, NEW b, IsList(b.items),
             \/ Call(op, i, SQ!CreateChatItem(S, b), PG!CreateChatItem(G, Me, b))
             \/ Call(op, i, SQ!AppendChatItems(S, b), PG!AppendChatItems(G, Me, b))
             \/ Call(op, i, SQ!ReplaceChatItems(S, b), PG!ReplaceChatItems(G, Me, b))
      PROVE  StepSeen(Me)
  BY <1>1, <1>5, CallSeen, SQChatItemsSeen, PGChatItemsSeen DEF Call
<1> QED  BY <1>2, <1>3, <1>4, <1>5, ChatLists DEF Chats

LEMMA RegistrySeen ==
    ASSUME SInv, Registry
    PROVE  StepSeen(Me)
<1> DEFINE S == Unfired(sq)
           G == Unfired(pg)
<1>1. /\ now \in Nat /\ Me \in Users /\ Counting(S) /\ Wf(S) /\ OwnedBy(S, Me)
      /\ Counting(G) /\ Wf(G)
  BY SInvFacts
<1>2. ASSUME NEW op, NEW i, NEW a,
             \/ Call(op, i, SQ!CreateProject(S, now, a), PG!CreateProject(G, Me, now, a))
             \/ Call(op, i, SQ!CreateDevice(S, now, a), PG!CreateDevice(G, Me, now, a))
             \/ Call(op, i, SQ!UpsertProjectForImport(S, now, a), PG!UpsertProjectForImport(G, Me, now, a))
             \/ Call(op, i, SQ!UpsertDeviceForImport(S, now, a), PG!UpsertDeviceForImport(G, Me, now, a))
      PROVE  StepSeen(Me)
  BY <1>1, <1>2, CallSeen, SQEntriesSeen, PGEntriesSeen DEF Call
<1>3. ASSUME NEW op, NEW i, NEW id,
             \/ Call(op, i, SQ!ArchiveProject(S, now, id), PG!ArchiveProject(G, Me, now, id))
             \/ Call(op, i, SQ!RestoreProject(S, now, id), PG!RestoreProject(G, Me, now, id))
             \/ Call(op, i, SQ!ArchiveDevice(S, now, id), PG!ArchiveDevice(G, Me, now, id))
             \/ Call(op, i, SQ!RestoreDevice(S, now, id), PG!RestoreDevice(G, Me, now, id))
      PROVE  StepSeen(Me)
  BY <1>1, <1>3, CallSeen, SQEntriesSeen, PGEntriesSeen, SMTT(30) DEF Call
<1>4. ASSUME NEW a, NEW i,
             \/ Call("UpsertProjectPath", i, SQ!UpsertProjectPath(S, now, a), PG!UpsertProjectPath(G, Me, now, a))
             \/ Call("BackfillChatProjects", i, SQ!BackfillChatProjects(S, now), PG!BackfillChatProjects(G, Me, now))
      PROVE  StepSeen(Me)
  BY <1>1, <1>4, CallSeen, SQUpsertProjectPathSeen, PGUpsertProjectPathSeen, SQBackfillSeen,
     PGBackfillSeen DEF Call
<1>5. ASSUME NEW i, NEW a,
             \/ Call("CreateTemplate", i, SQ!CreateTemplate(S, now, a), PG!CreateTemplate(G, Me, now, a))
             \/ Call("UpdateTemplate", i, SQ!UpdateTemplate(S, now, a), PG!UpdateTemplate(G, Me, now, a))
             \/ Call("DeleteTemplate", i, SQ!DeleteTemplate(S, a.name), PG!DeleteTemplate(G, Me, a.name))
      PROVE  StepSeen(Me)
  BY <1>1, <1>5, CallSeen, SQTemplatesSeen, PGTemplatesSeen DEF Call
<1> QED  BY <1>2, <1>3, <1>4, <1>5 DEF Registry

LEMMA ForeignWritesSeen ==
    ASSUME NEW s, Counting(s), Wf(s), now \in Nat, NEW x \in ForeignWrites(s)
    PROVE  PGSeen(s, x, Other, now, None)
<1> DEFINE rec(i) == [id |-> i, proj |-> 1, dev |-> 1, body |-> None, upd |-> None,
                      setDel |-> TRUE, del |-> 1, figures |-> <<>>, dataFiles |-> <<>>]
           chat(i) == [id |-> i, src |-> "s1", dev |-> 1, proj |-> 1, cwd |-> None, title |-> "k",
                       start |-> 1, last |-> 3, orig |-> None, upd |-> None, del |-> 1,
                       clearDel |-> FALSE, items |-> <<>>]
           child(i) == [rec |-> i, name |-> "a", meta |-> "k", newName |-> "b", newMeta |-> "k"]
           none(i) == [id |-> i, items |-> <<>>]
           onRecord(i) == {PG!CreateRecord(s, Other, now, rec(i)).store,
                           PG!UpdateRecord(s, Other, now, rec(i)).store,
                           PG!ReplaceRecordChildren(s, Other, now, rec(i)).store,
                           PG!DeleteRecord(s, Other, i).store,
                           PG!UpdateRecordFigure(s, Other, child(i)).store,
                           PG!CreateRecordFigure(s, Other, child(i)).store}
           onChat(i) == {PG!UpsertChatSessionWithItems(s, Other, now, chat(i)).store,
                         PG!DeleteChatSession(s, Other, i).store,
                         PG!ReplaceChatItems(s, Other, none(i)).store}
           onAll == {PG!PurgeDeletedRecords(s, Other).store, PG!BackfillChatProjects(s, Other, now).store,
                     PG!ArchiveProject(s, Other, now, 1).store,
                     PG!CreateTemplate(s, Other, now, [name |-> 2, html |-> "b", upd |-> None]).store}
           R == {k \in {"r1", "x"} : k = "r1" => Held(k, Me)}
           C == {k \in {"c1", "y"} : k = "c1" => Held(k, Me)}
<1>1. ForeignWrites(s) =
         (UNION {onRecord(i) : i \in R}) \cup (UNION {onChat(i) : i \in C}) \cup onAll
  BY DEF ForeignWrites
<1>2. Other \in Users
  BY AccountsInUsers
<1>3. ASSUME NEW i
      PROVE  /\ rec(i).upd = None /\ IsList(rec(i).figures) /\ IsList(rec(i).dataFiles)
             /\ chat(i).upd = None /\ IsList(chat(i).items) /\ IsList(none(i).items)
  <2> DEFINE e == <<>>
  <2>1. IsList(e)
    BY ShortLists
  <2>2. /\ rec(i).upd = None /\ rec(i).figures = e /\ rec(i).dataFiles = e
        /\ chat(i).upd = None /\ chat(i).items = e /\ none(i).items = e
    OBVIOUS
  <2> HIDE DEF e, rec, chat, none
  <2> QED  BY <2>1, <2>2
<1>4. ASSUME NEW i, NEW y \in onRecord(i)
      PROVE  PGSeen(s, y, Other, now, None)
  <2> HIDE DEF rec, child
  <2> QED
    BY <1>2, <1>3, PGCreateRecordSeen, PGUpdateRecordSeen, PGReplaceRecordChildrenSeen,
       PGDeletesSeen, PGChildrenSeen
<1>5. ASSUME NEW i, NEW y \in onChat(i)
      PROVE  PGSeen(s, y, Other, now, None)
  <2> HIDE DEF chat, none
  <2>1. PGSeen(s, PG!ReplaceChatItems(s, Other, none(i)).store, Other, now, None)
    BY <1>2, <1>3, PGChatItemsSeen
  <2> QED  BY <1>2, <1>3, PGUpsertsSeen, <2>1, PGDeleteChatSeen
<1>6. ASSUME NEW y \in onAll
      PROVE  PGSeen(s, y, Other, now, None)
  BY <1>2, PGDeletesSeen, PGBackfillSeen, PGEntriesSeen, PGTemplatesSeen
<1>7. \/ \E i : x \in onRecord(i)
      \/ \E i : x \in onChat(i)
      \/ x \in onAll
  <2> HIDE DEF onRecord, onChat, onAll, R, C
  <2> DEFINE U == UNION {onRecord(i) : i \in R}
             V == UNION {onChat(i) : i \in C}
  <2>1. x \in U \/ x \in V \/ x \in onAll
    <3>1. x \in U \cup V \cup onAll
      BY <1>1
    <3> HIDE DEF U, V
    <3> QED  BY <3>1
  <2> QED  BY <2>1
<1> QED  BY <1>4, <1>5, <1>6, <1>7

LEMMA AnotherUserSeen ==
    ASSUME SInv, AnotherUser
    PROVE  StepSeen(Other) /\ Untouched(pg, pg', Other)
<1>1. /\ now \in Nat /\ Counting(Unfired(sq)) /\ Counting(Unfired(pg)) /\ Wf(Unfired(pg))
  BY SInvFacts
<1>2. pg' \in ForeignWrites(Unfired(pg)) /\ sq' = Unfired(sq)
  BY DEF AnotherUser
<1>3. SQSeen(Unfired(sq), sq', now, None)
  BY <1>1, <1>2, SQSame
<1>4. Good(Unfired(pg), pg', Other)
  BY <1>1, <1>2, ForeignWritesGood
<1>5. Good(pg, pg', Other)
  BY UnfiredGood, <1>4, GoodTrans DEF SInv, IInv
<1> QED  BY <1>1, <1>2, ForeignWritesSeen, <1>3, <1>5 DEF StepSeen, Good

\* Whoever takes the step: the version of that account, the rows of all others.
LEMMA NextSeen ==
    ASSUME SInv, Next
    PROVE  \E u \in Users : StepSeen(u) /\ Untouched(pg, pg', u)
<1>1. CASE AnotherUser
  BY <1>1, AnotherUserSeen, AccountsInUsers
<1>2. ASSUME Records \/ Children \/ Chats \/ Registry
      PROVE  StepSeen(Me) /\ Untouched(pg, pg', Me)
  <2>1. StepSeen(Me)
    BY <1>2, RecordsSeen, ChildrenSeen, ChatsSeen, RegistrySeen
  <2>2. Kept
    BY <1>2, RecordsKeep, ChildrenKeep, ChatsKeep, RegistryKeep DEF SInv
  <2> QED  BY <2>1, <2>2 DEF Kept
<1> QED  BY <1>1, <1>2, AccountsInUsers DEF Next

LEMMA FiniteInit == Init => FiniteTables(sq) /\ FiniteTables(pg)
<1> SUFFICES ASSUME Init
             PROVE  FiniteTables(sq) /\ FiniteTables(pg)
  OBVIOUS
<1> DEFINE s == Prepared(Me, "r1", "c1", "s1")
           t == Prepared(Other, "x", "y", "s1")
<1>1. ASSUME NEW user, NEW rec, NEW chat, NEW src
      PROVE  /\ IsStore(Prepared(user, rec, chat, src))
             /\ FiniteTables(Prepared(user, rec, chat, src))
  <2> DEFINE p == Prepared(user, rec, chat, src)
             R == Row(rec, user)
             K == Session(chat, user, src)
             E == Entry(1, user)
             F == [rec |-> rec, name |-> "a", meta |-> "m"]
             I == [sess |-> chat, ord |-> 0, text |-> "b"]
  <2>1. /\ p.records = {R} /\ p.figures = {F} /\ p.dataFiles = {} /\ p.templates = {}
        /\ p.sessions = {K} /\ p.items = {I} /\ p.projects = {E} /\ p.devices = {E} /\ p.paths = {}
        /\ IsStore(p)
    <3> HIDE DEF R, K, E, F, I
    <3> QED  BY DEF Prepared, EmptyStore, IsStore, R, K, E, F, I
  <2> HIDE DEF p, R, K, E, F, I
  <2>2. IsStore(p) /\ \A tab \in Tables : p[tab] = {} \/ \E row : p[tab] = {row}
    BY <2>1 DEF Tables, OwnedTables, ChildTables
  <2> QED  BY <2>2, FS_EmptySet, FS_Singleton DEF p, FiniteTables
<1>2. /\ IsStore(s) /\ FiniteTables(s) /\ IsStore(t) /\ FiniteTables(t)
      /\ sq = s /\ pg = Merge(s, t)
  BY <1>1 DEF Init
<1> HIDE DEF s, t
<1>3. \A tab \in Tables : pg[tab] = s[tab] \cup t[tab]
  BY <1>2, StoreDomain DEF Merge, IsStore
<1>4. FiniteTables(pg)
  <2> SUFFICES ASSUME NEW tab \in Tables
               PROVE  IsFiniteSet(pg[tab])
    BY DEF FiniteTables
  <2> DEFINE a == s[tab]
             b == t[tab]
  <2>1. IsFiniteSet(a) /\ IsFiniteSet(b) /\ pg[tab] = a \cup b
    BY <1>2, <1>3 DEF FiniteTables
  <2> HIDE DEF a, b
  <2> QED  BY <2>1, FS_Union
<1> QED  BY <1>2, <1>4

LEMMA FiniteKept ==
    ASSUME SInv, [Next]_vars
    PROVE  SInv'
<1>1. IInv'
  BY Inductive DEF SInv
<1>2. CASE UNCHANGED vars
  BY <1>1, <1>2 DEF vars, SInv, FiniteTables
<1>3. CASE Next
  <2>1. PICK u \in Users : StepSeen(u)
    BY <1>3, NextSeen
  <2>2. Counting(sq') /\ Counting(pg')
    BY <2>1 DEF StepSeen, SQSeen, PGSeen, SQTold, PGTold, Told
  <2> QED  BY <1>1, <2>2 DEF SInv, Counting, FiniteTables
<1> QED  BY <1>2, <1>3

---------------------------------------------------------------------------
(* What the client reads. *)

\* Columns hides the time of a change and nothing else.
LEMMA ColumnsKeep ==
    ASSUME NEW r, NEW c \in DOMAIN r, c # "upd"
    PROVE  Columns(r)[c] = r[c]
BY DEF Columns

\* The owner and the ID are read off what can be seen of a row.
LEMMA OwnView ==
    ASSUME NEW s, Wf(s), NEW tab \in OwnedTables, NEW v
    PROVE  {Columns(r) : r \in UserRows(s, tab, v)} = {c \in ViewOf(tab, s[tab]) : c.user = v}
BY ColumnsKeep DEF OwnedTables, Wf, RowsTyped, RecordCols, SessionCols, EntryCols, PathCols,
   UserRows, ViewOf

LEMMA OwnIds ==
    ASSUME NEW s, Wf(s), NEW tab \in SyncTables, NEW v, NEW id
    PROVE  (\E r \in s[tab] : r.user = v /\ r.id = id)
              <=> \E c \in ViewOf(tab, s[tab]) : c.user = v /\ c.id = id
BY ColumnsKeep DEF SyncTables, Wf, RowsTyped, RecordCols, SessionCols, ViewOf

LEMMA ChildView ==
    ASSUME NEW s, Wf(s), NEW tab \in ChildTables
    PROVE  ViewOf(tab, s[tab]) = s[tab]
<1>1. \A f \in s[tab] : Columns(f) = f
  BY DEF ChildCols, Columns, Wf, RowsTyped, ChildTables
<1>2. tab # "items"
  BY DEF ChildTables
<1> QED  BY <1>1, <1>2 DEF ViewOf

LEMMA SameRead ==
    ASSUME NEW s, NEW t, Wf(s), Wf(t), SameView(s, t), NEW v
    PROVE  RowsOf(t, v) = RowsOf(s, v)
<1>1. \A tab \in Tables : ViewOf(tab, t[tab]) = ViewOf(tab, s[tab])
  BY DEF SameView
<1>2. \A tab \in OwnedTables :
         {Columns(r) : r \in UserRows(t, tab, v)} = {Columns(r) : r \in UserRows(s, tab, v)}
  <2> SUFFICES ASSUME NEW tab \in OwnedTables
               PROVE  {Columns(r) : r \in UserRows(t, tab, v)} = {Columns(r) : r \in UserRows(s, tab, v)}
    OBVIOUS
  <2>1. {Columns(r) : r \in UserRows(t, tab, v)} = {c \in ViewOf(tab, t[tab]) : c.user = v}
    BY OwnView
  <2>2. {Columns(r) : r \in UserRows(s, tab, v)} = {c \in ViewOf(tab, s[tab]) : c.user = v}
    BY OwnView
  <2> QED  BY <1>1, <2>1, <2>2 DEF Tables
<1>3. \A tab \in SyncTables : \A id :
         (\E r \in t[tab] : r.user = v /\ r.id = id) <=> \E r \in s[tab] : r.user = v /\ r.id = id
  BY <1>1, OwnIds DEF Tables, OwnedTables, SyncTables
<1>4. t.items = s.items
  BY <1>1 DEF ViewOf, Tables
<1>5. \A tab \in ChildTables : ChildrenOf(t, tab, v) = ChildrenOf(s, tab, v)
  BY <1>3, <1>1, ChildView DEF ChildrenOf, SyncTables, Tables
<1>6. ItemsSeenBy(t, v) = ItemsSeenBy(s, v)
  BY <1>3, <1>4 DEF ItemsSeenBy, SyncTables
<1>7. {Columns(x) : x \in t.templates} = {Columns(x) : x \in s.templates}
  BY <1>1 DEF ViewOf, Tables
<1>8. \A q : {Columns(e) : e \in UserRows(q, "projects", v) \cup UserRows(q, "devices", v)
                                    \cup UserRows(q, "paths", v)}
               = {Columns(e) : e \in UserRows(q, "projects", v)}
                   \cup {Columns(e) : e \in UserRows(q, "devices", v)}
                   \cup {Columns(e) : e \in UserRows(q, "paths", v)}
  OBVIOUS
<1>9. \A tpls : ReadBy(t, v, tpls) = ReadBy(s, v, tpls)
  BY <1>2, <1>5, <1>6, <1>8 DEF ReadBy, OwnedTables, ChildTables
<1> QED  BY <1>7, <1>9, RowsRead, ZenonT(30)

\* If u's version did not move, nobody's reading of s changed but the owner's
\* of rows that u cannot write; templates are everybody's.
LEMMA QuietRead ==
    ASSUME NEW s, NEW t, Wf(s), Wf(t), NEW u \in Users, NEW v \in Users,
           PGTold(Unfired(s), t, u), Untouched(s, t, u), IsStore(s), FiniteTables(s),
           RowsOf(t, v) # RowsOf(s, v)
    PROVE  t.fired[v] > 0
<1>1. /\ \A tab \in Tables : Unfired(s)[tab] = s[tab]
      /\ Unfired(s).fired[v] = 0 /\ Unfired(s).fired[u] = 0
  BY UnfiredCounting
<1>2. /\ Counting(t) /\ t.fired[v] >= Unfired(s).fired[v]
      /\ t.fired[u] = Unfired(s).fired[u] => SameView(Unfired(s), t)
      /\ t.fired[v] = Unfired(s).fired[v] =>
            ViewOf("templates", t.templates) = ViewOf("templates", Unfired(s).templates)
  BY DEF PGTold, Told
<1>3. t.fired[v] \in Nat
  BY <1>2 DEF Counting
<1> SUFFICES ASSUME t.fired[v] = 0
             PROVE  FALSE
  BY <1>3
<1>4. CASE v = u
  BY <1>1, <1>2, <1>4, SameRead DEF SameView
<1>5. CASE v # u
  <2>1. {Columns(x) : x \in t.templates} = {Columns(x) : x \in s.templates}
    BY <1>1, <1>2 DEF ViewOf, Tables
  <2>2. \A tpls : ReadBy(t, v, tpls) = ReadBy(s, v, tpls)
    BY <1>5, UntouchedRead
  <2> QED  BY <2>1, <2>2, RowsRead, ZenonT(30)
<1> QED  BY <1>4, <1>5

LEMMA LocalQuietRead ==
    ASSUME NEW s, NEW t, Wf(s), Wf(t), SQTold(Unfired(s), t), IsStore(s), FiniteTables(s),
           RowsOf(t, Me) # RowsOf(s, Me)
    PROVE  t.fired[Me] > 0
BY UnfiredCounting, AccountsInUsers, SameRead DEF SQTold, Told, Counting, SameView

\* A row that sync has not seen before, as Dated has it.
LEMMA ChangedFresh ==
    ASSUME NEW s, NEW t, IsStore(s), FiniteTables(s), NEW m, NEW w, Dated(Unfired(s), t, m, w),
           NEW tab \in SyncTables, NEW r \in Changed(s, t, tab)
    PROVE  r \in t[tab] /\ Fresh(s[tab], r, m, w)
BY UnfiredCounting DEF SyncTables, Tables, OwnedTables, Changed, ViewOf, Dated

LEMMA ListedAfter ==
    ASSUME NEW t, NEW k, NEW r
    PROVE  /\ r \in t.records /\ r.upd >= FormatUTCMillis(k) => r \in SQ!ListRecords(t, After(k))
           /\ r \in t.sessions /\ r.upd >= FormatUTCMillis(k) => r \in SQ!ListChatSessions(t, After(k))
           /\ r \in t.records /\ r.upd >= k => r \in PG!ListRecords(t, r.user, After(k))
           /\ r \in t.sessions /\ r.upd >= k => r \in PG!ListChatSessions(t, r.user, After(k))
<1> DEFINE f == After(k)
<1>1. /\ f.del = "include" /\ f.proj = None /\ f.body = FALSE /\ f.data = FALSE
      /\ f.after = k /\ f.before = None /\ f.unassigned = FALSE /\ f.dev = None
      /\ f.from = None /\ f.to = None
  BY DEF After
<1> HIDE DEF f
<1>2. /\ r.upd >= FormatUTCMillis(k) => SQ!listRecordsPredicate(t, r, f) /\ SQ!chatSessionPredicate(r, f)
      /\ r.upd >= k => PG!listRecordsPredicate(t, r.user, r, f) /\ PG!chatSessionPredicate(r, r.user, f)
  BY <1>1, SameOperators DEF SQ!listRecordsPredicate, SQ!chatSessionPredicate,
     PG!listRecordsPredicate, PG!chatSessionPredicate
<1> QED  BY <1>2 DEF f, SQ!ListRecords, SQ!ListChatSessions, PG!ListRecords, PG!ListChatSessions

\* The version: VersionMoves of one step.
LEMMA StepMoves ==
    ASSUME SInv, Next
    PROVE  /\ RowsOf(sq', Me) # RowsOf(sq, Me) => sq'.fired[Me] > 0
           /\ \A v \in Users : RowsOf(pg', v) # RowsOf(pg, v) => pg'.fired[v] > 0
<1>1. PICK u \in Users : StepSeen(u) /\ Untouched(pg, pg', u)
  BY NextSeen
<1>2. SQTold(Unfired(sq), sq') /\ PGTold(Unfired(pg), pg', u)
  BY <1>1 DEF StepSeen, SQSeen, PGSeen
<1>3. /\ Wf(sq) /\ Wf(pg) /\ FiniteTables(sq) /\ FiniteTables(pg) /\ IsStore(sq) /\ IsStore(pg)
      /\ Wf(sq') /\ Wf(pg')
  BY FiniteKept DEF SInv, IInv, Wf
<1>4. \A v \in Users : RowsOf(pg', v) # RowsOf(pg, v) => pg'.fired[v] > 0
  BY <1>1, <1>2, <1>3, QuietRead
<1> QED  BY <1>2, <1>3, LocalQuietRead, <1>4

\* The window: ChangesAreListed of one step.
LEMMA StepListed ==
    ASSUME SInv, Next
    PROVE  /\ call'.stamp =>
                /\ Changed(sq, sq', "records") \subseteq SQ!ListRecords(sq', After(now))
                /\ Changed(sq, sq', "sessions") \subseteq SQ!ListChatSessions(sq', After(now))
                /\ \A r \in Changed(pg, pg', "records") : r \in PG!ListRecords(pg', r.user, After(now))
                /\ \A c \in Changed(pg, pg', "sessions") : c \in PG!ListChatSessions(pg', c.user, After(now))
           /\ \A tab \in {"records", "sessions"} :
                /\ \A r \in Changed(sq, sq', tab), q \in sq[tab] :
                      r.id = q.id /\ r.upd = q.upd => r.upd = FormatUTCMillis(now)
                /\ \A r \in Changed(pg, pg', tab), q \in pg[tab] :
                      r.id = q.id /\ r.upd = q.upd => r.upd = now
<1>1. PICK u \in Users : StepSeen(u)
  BY NextSeen
<1>2. PICK w : /\ SQSeen(Unfired(sq), sq', now, w) /\ PGSeen(Unfired(pg), pg', u, now, w)
               /\ call'.stamp => w = None
  BY <1>1 DEF StepSeen
<1>3. Dated(Unfired(sq), sq', FormatUTCMillis(now), w) /\ Dated(Unfired(pg), pg', now, w)
  BY <1>2 DEF SQSeen, PGSeen
<1>4. FiniteTables(sq) /\ FiniteTables(pg) /\ IsStore(sq) /\ IsStore(pg)
  BY DEF SInv, IInv, Wf
<1>5. ASSUME NEW tab \in SyncTables, NEW r \in Changed(sq, sq', tab)
      PROVE  r \in sq'[tab] /\ Fresh(sq[tab], r, FormatUTCMillis(now), w)
  BY <1>3, <1>4, ChangedFresh
<1>6. ASSUME NEW tab \in SyncTables, NEW r \in Changed(pg, pg', tab)
      PROVE  r \in pg'[tab] /\ Fresh(pg[tab], r, now, w)
  BY <1>3, <1>4, ChangedFresh
<1>7. ASSUME call'.stamp
      PROVE  /\ Changed(sq, sq', "records") \subseteq SQ!ListRecords(sq', After(now))
             /\ Changed(sq, sq', "sessions") \subseteq SQ!ListChatSessions(sq', After(now))
             /\ \A r \in Changed(pg, pg', "records") : r \in PG!ListRecords(pg', r.user, After(now))
             /\ \A c \in Changed(pg, pg', "sessions") : c \in PG!ListChatSessions(pg', c.user, After(now))
  BY <1>2, <1>5, <1>6, <1>7, ListedAfter DEF Fresh, SyncTables
<1> QED  BY <1>7, <1>5, <1>6 DEF SyncTables, Fresh

\* Whatever either account does to either store moves the version that a
\* polling client compares in the same call, and stamps what it changed so that
\* a query from the time before the call lists it and no changed row keeps its
\* old updated_at, the time of the call excepted: the triggers miss no
\* operation, no cascade and no statement of one.
THEOREM EveryChangeIsSeenHolds == Spec => EveryChangeIsSeen
<1>1. Spec => []SInv
  <2>1. Init => SInv
    BY Initial, FiniteInit DEF SInv
  <2>2. SInv /\ [Next]_vars => SInv'
    BY FiniteKept
  <2> QED  BY <2>1, <2>2, PTL DEF Spec
<1>2. SInv /\ [Next]_vars =>
         [/\ RowsOf(sq, Me)' # RowsOf(sq, Me) => sq'.fired[Me] > 0
          /\ \A u \in Users : RowsOf(pg, u)' # RowsOf(pg, u) => pg'.fired[u] > 0]_vars
  BY StepMoves
<1>3. SInv /\ [Next]_vars =>
         [/\ call'.stamp =>
               /\ Changed(sq, sq', "records") \subseteq SQ!ListRecords(sq', After(now))
               /\ Changed(sq, sq', "sessions") \subseteq SQ!ListChatSessions(sq', After(now))
               /\ \A r \in Changed(pg, pg', "records") : r \in PG!ListRecords(pg', r.user, After(now))
               /\ \A c \in Changed(pg, pg', "sessions") : c \in PG!ListChatSessions(pg', c.user, After(now))
          /\ \A tab \in {"records", "sessions"} :
               /\ \A r \in Changed(sq, sq', tab), q \in sq[tab] :
                     r.id = q.id /\ r.upd = q.upd => r.upd = FormatUTCMillis(now)
               /\ \A r \in Changed(pg, pg', tab), q \in pg[tab] :
                     r.id = q.id /\ r.upd = q.upd => r.upd = now]_vars
  BY StepListed
<1>4. Spec => VersionMoves
  BY <1>1, <1>2, PTL DEF Spec, VersionMoves
<1>5. Spec => ChangesAreListed
  BY <1>1, <1>3, PTL DEF Spec, ChangesAreListed
<1> QED  BY <1>4, <1>5 DEF EveryChangeIsSeen

---------------------------------------------------------------------------
(* The contract, on stores: what a change of one table does to the caller's *)
(* view of a store.                                                        *)

LEMMA StatusPut ==
    ASSUME NEW rows, NEW x, x.id \in Ids
    PROVE  Stat({r \in rows : r.id # x.id} \cup {x}) = [Stat(rows) EXCEPT ![x.id] = StatusFor(x)]
<1> DEFINE new == {r \in rows : r.id # x.id} \cup {x}
<1> SUFFICES ASSUME NEW i \in Ids
             PROVE  StatusOf(new, i) = IF i = x.id THEN StatusFor(x) ELSE StatusOf(rows, i)
  BY DEF Stat
<1>1. CASE i = x.id
  BY <1>1 DEF StatusOf, StatusFor
<1>2. CASE i # x.id
  <2>1. \A r : r.id = i => (r \in new <=> r \in rows)
    BY <1>2
  <2> HIDE DEF new
  <2> QED  BY <1>2, <2>1 DEF StatusOf
<1> QED  BY <1>1, <1>2

LEMMA StatusDrop ==
    ASSUME NEW rows, NEW i
    PROVE  Stat({r \in rows : r.id # i}) = [Stat(rows) EXCEPT ![i] = "absent"]
BY DEF Stat, StatusOf

\* What the status of an ID says of the rows.
LEMMA StatusRead ==
    ASSUME NEW rows, NEW i \in Ids
    PROVE  /\ Stat(rows)[i] = "absent" <=> \A r \in rows : r.id # i
           /\ Stat(rows)[i] = "live" <=> \E r \in rows : r.id = i /\ r.del = None
           /\ Stat(rows)[i] = "trashed" <=> /\ \E r \in rows : r.id = i
                                            /\ \A r \in rows : r.id = i => r.del # None
BY DEF Stat, StatusOf

\* One row has the ID.
LEMMA StatusOfRow ==
    ASSUME NEW rows, NEW r \in rows, r.id \in Ids, \A q \in rows : q.id = r.id => q = r
    PROVE  Stat(rows)[r.id] = StatusFor(r)
BY StatusRead DEF StatusFor

LEMMA PutIds ==
    ASSUME NEW s, NEW t, NEW tab, NEW x, Puts(s, t, tab, x)
    PROVE  OwnIdsIn(t, tab) = OwnIdsIn(s, tab) \cup {x.id}
BY DEF Puts, OwnIdsIn

LEMMA DropIds ==
    ASSUME NEW s, NEW t, NEW tab, NEW i, Drops(s, t, tab, i)
    PROVE  OwnIdsIn(t, tab) = OwnIdsIn(s, tab) \ {i}
BY DEF Drops, OwnIdsIn

LEMMA RecordPut ==
    ASSUME NEW s, NEW t, NEW x, Puts(s, t, "records", x), x.id \in Ids
    PROVE  Recs(t) = [Recs(s) EXCEPT ![x.id] = StatusFor(x)]
BY StatusPut DEF Puts, Recs

LEMMA ChatPut ==
    ASSUME NEW s, NEW t, NEW x, Puts(s, t, "sessions", x), x.id \in Ids
    PROVE  Chats_(t) = [Chats_(s) EXCEPT ![x.id] = StatusFor(x)]
BY StatusPut DEF Puts, Chats_

LEMMA ChatDrop ==
    ASSUME NEW s, NEW t, NEW i, Drops(s, t, "sessions", i)
    PROVE  Chats_(t) = [Chats_(s) EXCEPT ![i] = "absent"]
BY StatusDrop DEF Drops, Chats_

\* INSERT of a row of the caller under a new ID.
LEMMA InsertPuts ==
    ASSUME NEW s, NEW t, NEW tab, NEW x, x.user = Me, Inserts(s, t, tab, {x}),
           \A r \in s[tab] : r.id # x.id
    PROVE  Puts(s, t, tab, x)
BY DEF Inserts, Puts, OwnRows

\* UPDATE of a row of the caller that keeps its ID.
LEMMA UpdatePuts ==
    ASSUME NEW s, Wf(s), NEW t, NEW tab \in SyncTables, NEW old \in s[tab], old.user = Me, NEW new,
           Updates(s, t, tab, old, new), new.id = old.id, new.user = old.user,
           {"id", "user", "del"} \subseteq DOMAIN new
    PROVE  Becomes(s, t, tab, old.id, new)
<1>1. PICK x, gone : /\ Stamped(new, x) /\ old \in gone /\ gone \subseteq {old, new}
                     /\ t[tab] = (s[tab] \ gone) \cup {x}
  BY DEF Updates
<1>2. x.id = old.id /\ x.user = Me /\ x.del = new.del
  BY <1>1, StampedKeeps
<1>3. \A r \in s[tab] : r.id = old.id => r = old
  BY DEF SyncTables, Wf, Unique, RecordsUnique, SessionsUnique
<1>4. Puts(s, t, tab, x)
  BY <1>1, <1>2, <1>3 DEF Puts, OwnRows
<1> QED  BY <1>2, <1>4 DEF Becomes, StatusFor

---------------------------------------------------------------------------
(* What depends on which tables. *)

LEMMA KidsRead ==
    ASSUME NEW s
    PROVE  ChildNames(s) = KidNames("figures", s.figures, OwnIdsIn(s, "records"))
                              \cup KidNames("dataFiles", s.dataFiles, OwnIdsIn(s, "records"))
BY DEF OwnIdsIn, ChildNames, KidNames

LEMMA ItemsRead ==
    ASSUME NEW s
    PROVE  ItemNames(s) = {[sess |-> i.sess, ord |-> i.ord] :
                              i \in {j \in s.items : j.sess \in OwnIdsIn(s, "sessions")}}
BY DEF OwnIdsIn, ItemNames

LEMMA SameTables ==
    ASSUME NEW s, NEW t
    PROVE  /\ t.records = s.records =>
                 SameRecs(s, t) /\ OwnIdsIn(t, "records") = OwnIdsIn(s, "records")
           /\ t.sessions = s.sessions =>
                 SameChats(s, t) /\ OwnIdsIn(t, "sessions") = OwnIdsIn(s, "sessions")
           /\ /\ OwnIdsIn(t, "records") = OwnIdsIn(s, "records")
              /\ t.figures = s.figures /\ t.dataFiles = s.dataFiles
              => SameKids(s, t)
           /\ OwnIdsIn(t, "sessions") = OwnIdsIn(s, "sessions") /\ t.items = s.items => SameItems(s, t)
           /\ /\ t.projects = s.projects /\ t.devices = s.devices /\ t.paths = s.paths
              /\ t.templates = s.templates
              => SameEntries(s, t)
<1>1. t.sessions = s.sessions => SameChats(s, t) /\ OwnIdsIn(t, "sessions") = OwnIdsIn(s, "sessions")
  BY DEF SameChats, Chats_, OwnIdsIn, OwnRows
<1>2. /\ OwnIdsIn(t, "records") = OwnIdsIn(s, "records")
      /\ t.figures = s.figures /\ t.dataFiles = s.dataFiles
      => SameKids(s, t)
  BY KidsRead DEF SameKids
<1>3. OwnIdsIn(t, "sessions") = OwnIdsIn(s, "sessions") /\ t.items = s.items => SameItems(s, t)
  BY ItemsRead DEF SameItems
<1>4. /\ t.projects = s.projects /\ t.devices = s.devices /\ t.paths = s.paths
      /\ t.templates = s.templates
      => SameEntries(s, t)
  BY DEF SameEntries, EntryNames, OwnRows
<1> QED  BY <1>1, <1>2, <1>3, <1>4 DEF SameRecs, Recs, OwnIdsIn, OwnRows

\* A change of the records alone, which leaves no child that was hidden.
LEMMA RecordsOnly ==
    ASSUME NEW s, Wf(s), NEW t, Alters(s, t, {"records"}), NEW x, Puts(s, t, "records", x),
           x.id \in OwnIdsIn(s, "records") \/ \A r \in s.records : r.id # x.id
    PROVE  SameChats(s, t) /\ SameItems(s, t) /\ SameEntries(s, t) /\ SameKids(s, t)
<1>1. /\ t.sessions = s.sessions /\ t.items = s.items /\ t.projects = s.projects
      /\ t.devices = s.devices /\ t.paths = s.paths /\ t.templates = s.templates
      /\ t.figures = s.figures /\ t.dataFiles = s.dataFiles
  BY DEF Alters, Tables, OwnedTables, ChildTables
<1>2. \A f \in s.figures \cup s.dataFiles :
         f.rec \in OwnIdsIn(t, "records") <=> f.rec \in OwnIdsIn(s, "records")
  BY PutIds DEF Wf, Refs, ChildRefs
<1>3. SameKids(s, t)
  BY <1>1, <1>2, KidsRead DEF SameKids, KidNames
<1> QED  BY <1>1, SameTables, <1>3

LEMMA SessionsOnly ==
    ASSUME NEW s, Wf(s), NEW t, Alters(s, t, {"sessions"}), NEW x, Puts(s, t, "sessions", x),
           x.id \in OwnIdsIn(s, "sessions") \/ \A c \in s.sessions : c.id # x.id
    PROVE  SameRecs(s, t) /\ SameItems(s, t) /\ SameEntries(s, t) /\ SameKids(s, t)
<1>1. /\ t.records = s.records /\ t.items = s.items /\ t.projects = s.projects
      /\ t.devices = s.devices /\ t.paths = s.paths /\ t.templates = s.templates
      /\ t.figures = s.figures /\ t.dataFiles = s.dataFiles
  BY DEF Alters, Tables, OwnedTables, ChildTables
<1>2. \A i \in s.items : i.sess \in OwnIdsIn(t, "sessions") <=> i.sess \in OwnIdsIn(s, "sessions")
  BY PutIds DEF Wf, Refs, ItemRefs
<1>3. SameItems(s, t)
  BY <1>1, <1>2, ItemsRead DEF SameItems
<1> QED  BY <1>1, SameTables, <1>3

---------------------------------------------------------------------------
(* The calls of the caller, one by one: what each answers and leaves meets *)
(* the contract.  That what changes the view also moves the version is     *)
(* known of every call (StepMoves) and assumed here as Tells.              *)

LEMMA PGAnswers ==
    ASSUME NEW s, NEW e, NEW v
    PROVE  /\ PG!Ok(s, v).store = s /\ PG!Ok(s, v).err = None
           /\ PG!Err(s, e).store = s /\ PG!Err(s, e).err = e
BY DEF PG!Ok, PG!Err

LEMMA NoneApart ==
    /\ None # "conflict" /\ None # "not_found" /\ None # "foreign_key"
    /\ \A n \in Nat : None # n
BY NoneAssumption DEF Errors

LEMMA SameStore ==
    ASSUME NEW s
    PROVE  SameView5(s, s)
BY DEF SameView5, SameRecs, SameChats, SameKids, SameItems, SameEntries

LEMMA RefusedFits ==
    ASSUME NEW s, Ready(s), NEW op, NEW i, NEW e \in {"conflict", "not_found", "foreign_key"}
    PROVE  Fits(op, i, s, PG!Err(s, e))
<1> DEFINE r == PG!Err(s, e)
<1>1. r.store = s /\ r.err # None
  BY PGAnswers, NoneApart
<1> HIDE DEF r
<1>2. ~ Moved(s)
  BY DEF Ready, Moved
<1>3. Fits(op, i, s, r)
  BY <1>1, <1>2, SameStore DEF Fits, Meets, Refuses, Ready
<1> QED  BY <1>3 DEF r

LEMMA AcceptedFits ==
    ASSUME NEW s, NEW t, NEW v, NEW op, NEW i, Accepts(op, i, s, t), Known(t)
    PROVE  Fits(op, i, s, PG!Ok(t, v))
<1> DEFINE r == PG!Ok(t, v)
<1>1. r.store = t /\ r.err = None
  BY PGAnswers
<1> HIDE DEF r
<1>2. Fits(op, i, s, r)
  BY <1>1 DEF Fits, Meets
<1> QED  BY <1>2 DEF r

LEMMA RecordFacts ==
    ASSUME NEW s, Ready(s), NEW t, Alters(s, t, {"records"}), NEW x, Puts(s, t, "records", x),
           x.id \in OwnIdsIn(s, "records") \/ \A r \in s.records : r.id # x.id, x.id \in Ids
    PROVE  RecordSet(s, t, x.id, StatusFor(x))
BY RecordsOnly, RecordPut, PutIds, SameTables DEF Ready, Alters, Tables, OwnedTables, Known,
   RecordSet

LEMMA AbsentIds ==
    ASSUME NEW s, NEW i \in Ids
    PROVE  /\ Recs(s)[i] = "absent" <=> i \notin OwnIdsIn(s, "records")
           /\ Chats_(s)[i] = "absent" <=> i \notin OwnIdsIn(s, "sessions")
BY StatusRead DEF Recs, Chats_, OwnIdsIn

LEMMA OwnIdsExist ==
    ASSUME NEW s, NEW i
    PROVE  /\ i \in OwnIdsIn(s, "records") <=> PG!OwnRecord(s, Me, i) # {}
           /\ i \in OwnIdsIn(s, "sessions") <=> PG!OwnSession(s, Me, i) # {}
           /\ PG!recordIDExists(s, Me, i) <=> i \in OwnIdsIn(s, "records")
           /\ PG!chatSessionIDExists(s, Me, i) <=> i \in OwnIdsIn(s, "sessions")
BY DEF OwnIdsIn, OwnRows, PG!OwnRecord, PG!OwnSession, PG!recordIDExists, PG!chatSessionIDExists

LEMMA StatusKinds == \A x : StatusFor(x) \in {"live", "trashed"}
BY DEF StatusFor

\* The functions of status are total.
LEMMA StatusDomain ==
    ASSUME NEW s, NEW t, NEW i \in Ids, NEW st
    PROVE  /\ Recs(t) = [Recs(s) EXCEPT ![i] = st] => Recs(t)[i] = st
           /\ Chats_(t) = [Chats_(s) EXCEPT ![i] = st] => Chats_(t)[i] = st
BY DEF Recs, Chats_, Stat

LEMMA FitsCreateRecord ==
    ASSUME NEW s, Ready(s), NEW m, NEW a, a.id \in Ids, Tells(s, PG!CreateRecord(s, Me, m, a).store)
    PROVE  Fits("CreateRecord", a.id, s, PG!CreateRecord(s, Me, m, a))
<1> DEFINE x == PG!recordRow(Me, a, m)
           t == PG!InsertRow(s, Me, "records", x)
           r == PG!CreateRecord(s, Me, m, a)
<1>1. \/ \E e \in {"conflict", "not_found", "foreign_key"} : r = PG!Err(s, e)
      \/ /\ ~ PG!chatSessionIDExists(s, Me, a.id) /\ \A q \in s.records : q.id # a.id
         /\ r = PG!Ok(t, a.id)
  BY DEF PG!CreateRecord
<1>2. x.id = a.id /\ x.user = Me
  BY PGRecordRow
<1> HIDE DEF x
<1>3. Inserts(s, t, "records", {x})
  BY PGInsertRow DEF Ready, Wf, Tables, OwnedTables
<1> HIDE DEF t
<1>4. ASSUME ~ PG!chatSessionIDExists(s, Me, a.id), \A q \in s.records : q.id # a.id, r = PG!Ok(t, a.id)
      PROVE  Fits("CreateRecord", a.id, s, r)
  <2>1. RecordSet(s, t, a.id, StatusFor(x))
    BY <1>3, <1>2, <1>4, InsertPuts, RecordFacts DEF Inserts
  <2>2. Recs(s)[a.id] = "absent" /\ Chats_(s)[a.id] = "absent"
    BY <1>4, AbsentIds, OwnIdsExist DEF OwnIdsIn, OwnRows
  <2>3. Recs(t)[a.id] = StatusFor(x)
    BY <2>1, StatusDomain DEF RecordSet
  <2>4. Moved(t)
    BY <1>4, PGAnswers, <2>2, <2>3, StatusKinds DEF SameRecs, Tells, SameView5
  <2>5. Accepts("CreateRecord", a.id, s, t) /\ Known(t)
    BY <2>1, <2>2, <2>4, StatusKinds DEF Accepts, RecordSet, RecordMeets, SetsRec
  <2> QED  BY <1>4, <2>5, AcceptedFits
<1> HIDE DEF r
<1> QED  BY <1>1, <1>4, RefusedFits DEF r

\* An UPDATE of the caller's record.
LEMMA RecordUpdateFacts ==
    ASSUME NEW s, Ready(s), NEW m, NEW i \in Ids, PG!OwnRecord(s, Me, i) # {}, NEW old, NEW new,
           old = CHOOSE r \in PG!OwnRecord(s, Me, i) : TRUE,
           DOMAIN new = RecordCols, new.id = old.id, new.user = old.user
    PROVE  /\ RecordSet(s, PG!UpdateTouched(s, Me, "records", old, new, m), i, StatusFor(new))
           /\ Recs(s)[i] = StatusFor(old)
<1> DEFINE t == PG!UpdateTouched(s, Me, "records", old, new, m)
<1>1. old \in s.records /\ old.id = i /\ old.user = Me
  BY PGOwnRecord DEF Ready
<1>2. Updates(s, t, "records", old, new)
  BY PGUpdateTouched DEF Ready, Wf, Tables, OwnedTables
<1> HIDE DEF t
<1>3. PICK x : Puts(s, t, "records", x) /\ x.id = old.id /\ StatusFor(x) = StatusFor(new)
  <2>1. Becomes(s, t, "records", old.id, new)
    BY <1>1, <1>2, UpdatePuts DEF Ready, RecordCols, SyncTables
  <2> QED  BY <2>1 DEF Becomes
<1>4. RecordSet(s, t, i, StatusFor(new))
  BY <1>2, <1>1, <1>3, RecordFacts DEF Updates, OwnIdsIn, OwnRows
<1>5. Recs(s)[i] = StatusFor(old)
  <2>1. old \in OwnRows(s, "records") /\ \A q \in OwnRows(s, "records") : q.id = old.id => q = old
    BY <1>1 DEF OwnRows, Ready, Wf, Unique, RecordsUnique
  <2> QED  BY <1>1, <2>1, StatusOfRow DEF Recs
<1> QED  BY <1>4, <1>5 DEF t

LEMMA FitsUpdateRecord ==
    ASSUME NEW s, Ready(s), NEW m, NEW a, a.id \in Ids
    PROVE  Fits("UpdateRecord", a.id, s, PG!UpdateRecord(s, Me, m, a))
<1> DEFINE own == PG!OwnRecord(s, Me, a.id)
           old == CHOOSE r \in own : TRUE
           upd == PG!Coalesce(a.upd, old.upd)
           del == IF a.setDel THEN a.del ELSE old.del
           new == [old EXCEPT !.proj = a.proj, !.dev = a.dev, !.body = a.body,
                      !.upd = upd, !.del = del]
           t == PG!UpdateTouched(s, Me, "records", old, new, m)
           r == PG!UpdateRecord(s, Me, m, a)
<1>1. \/ \E e \in {"conflict", "not_found", "foreign_key"} : r = PG!Err(s, e)
      \/ own # {} /\ r = PG!Ok(t, a.id)
  BY DEF PG!UpdateRecord, PG!updateOwn
<1>2. ASSUME own # {}, r = PG!Ok(t, a.id)
      PROVE  Fits("UpdateRecord", a.id, s, r)
  <2>1. DOMAIN old = RecordCols
    BY <1>2, PGOwnRecord DEF Ready
  <2>2. DOMAIN new = RecordCols /\ new.id = old.id /\ new.user = old.user
    <3> HIDE DEF old, upd, del
    <3> QED  BY <2>1 DEF RecordCols
  <2>3. RecordSet(s, t, a.id, StatusFor(new))
    <3> HIDE DEF new
    <3> QED  BY <1>2, <2>2, RecordUpdateFacts
  <2> HIDE DEF t, new
  <2>4. RecordMeets("UpdateRecord", a.id, s, t)
    BY <2>3, <1>2, AbsentIds, OwnIdsExist, StatusKinds DEF RecordMeets, RecordSet, SetsRec
  <2> QED  BY <1>2, <2>3, <2>4, AcceptedFits DEF Accepts, RecordSet
<1> HIDE DEF r, t
<1> QED  BY <1>1, <1>2, RefusedFits DEF r

\* An UPDATE that assigns what was there moves no version.
LEMMA QuietUpdate ==
    ASSUME NEW s, Counting(s), NEW tab \in SyncTables, NEW old, NEW new, NEW m,
           DOMAIN new = DOMAIN old, \A k \in DOMAIN old : new[k] = old[k], "upd" \in DOMAIN old
    PROVE  PG!UpdateTouched(s, Me, tab, old, new, m).fired[Me] = s.fired[Me]
<1> DEFINE x == PG!autoUpdateUpdatedAt(old, new, m)
           q == [s EXCEPT ![tab] = (@ \ {old}) \cup {x}]
           n == IF PG!Watched(tab, old) # PG!Watched(tab, x) THEN 1 ELSE 0
<1>1. tab \notin {"projects", "devices", "paths", "templates"} /\ tab # "fired"
  BY DEF SyncTables
<1>2. Columns(x) = Columns(old)
  <2>1. x = [new EXCEPT !.upd = m]
    BY DEF PG!autoUpdateUpdatedAt
  <2> HIDE DEF x
  <2> DEFINE c == [x EXCEPT !.upd = None]
             d == [old EXCEPT !.upd = None]
  <2>2. DOMAIN x = DOMAIN old /\ \A k \in DOMAIN old : k # "upd" => x[k] = old[k]
    BY <2>1
  <2>3. c = d
    BY <2>2
  <2> QED  BY <2>2, <2>3 DEF Columns
<1>3. n = 0
  <2> HIDE DEF x
  <2> QED  BY <1>1, <1>2, SameOperators DEF PG!Watched
<1> HIDE DEF x, n
<1>4. PG!UpdateTouched(s, Me, tab, old, new, m) = PG!bumpSyncVersion(q, Me, n)
  BY <1>1 DEF PG!UpdateTouched, PG!UpdateRow, PG!Bump, x, n
<1>5. q.fired = s.fired /\ "fired" \in DOMAIN q
  BY <1>1, StoreDomain DEF Counting, IsStore
<1> HIDE DEF q
<1>6. PG!bumpSyncVersion(q, Me, n).fired = [s.fired EXCEPT ![Me] = @ + n]
  BY <1>5 DEF PG!bumpSyncVersion
<1> QED  BY <1>3, <1>4, AccountsInUsers, <1>6 DEF Counting

LEMMA FitsRecordTombstones ==
    ASSUME NEW s, Ready(s), NEW m \in Nat, NEW i \in Ids
    PROVE  /\ Tells(s, PG!SoftDeleteRecord(s, Me, m, i).store) =>
                 Fits("SoftDeleteRecord", i, s, PG!SoftDeleteRecord(s, Me, m, i))
           /\ Tells(s, PG!RestoreRecord(s, Me, m, i).store) =>
                 Fits("RestoreRecord", i, s, PG!RestoreRecord(s, Me, m, i))
<1> DEFINE own == PG!OwnRecord(s, Me, i)
           old == CHOOSE r \in own : TRUE
           new(d) == [old EXCEPT !.del = d]
           t(d) == PG!UpdateTouched(s, Me, "records", old, new(d), m)
           del == PG!Coalesce(old.del, m)
           soft == PG!SoftDeleteRecord(s, Me, m, i)
           back == PG!RestoreRecord(s, Me, m, i)
<1>1. /\ soft = PG!Err(s, "not_found") \/ (own # {} /\ soft = PG!Ok(t(del), i))
      /\ back = PG!Err(s, "not_found") \/ (own # {} /\ back = PG!Ok(t(None), i))
  BY DEF PG!SoftDeleteRecord, PG!RestoreRecord, PG!updateOwn
<1>2. ASSUME own # {}, NEW d
      PROVE  /\ RecordSet(s, t(d), i, IF d = None THEN "live" ELSE "trashed")
             /\ Recs(s)[i] = StatusFor(old) /\ Recs(s)[i] # "absent"
             /\ d = old.del => ~ Moved(t(d))
  <2>1. DOMAIN old = RecordCols
    BY <1>2, PGOwnRecord DEF Ready
  <2>2. DOMAIN new(d) = RecordCols /\ new(d).id = old.id /\ new(d).user = old.user /\ new(d).del = d
    <3> HIDE DEF old
    <3> QED  BY <2>1 DEF RecordCols
  <2>3. d = old.del => \A k \in DOMAIN old : new(d)[k] = old[k]
    <3> HIDE DEF old
    <3> QED  BY <2>1 DEF RecordCols
  <2> DEFINE n == new(d)
             q == PG!UpdateTouched(s, Me, "records", old, n, m)
  <2>4. RecordSet(s, q, i, StatusFor(n)) /\ Recs(s)[i] = StatusFor(old)
    <3>1. DOMAIN n = RecordCols /\ n.id = old.id /\ n.user = old.user
      BY <2>2
    <3>2. old = CHOOSE r \in own : TRUE
      OBVIOUS
    <3> HIDE DEF n, old
    <3> QED  BY <1>2, <3>1, <3>2, RecordUpdateFacts
  <2>5. d = old.del => ~ Moved(t(d))
    <3> SUFFICES ASSUME d = old.del
                 PROVE  ~ Moved(q)
      OBVIOUS
    <3>1. DOMAIN n = DOMAIN old /\ (\A k \in DOMAIN old : n[k] = old[k]) /\ "upd" \in DOMAIN old
      BY <2>1, <2>2, <2>3 DEF RecordCols
    <3> HIDE DEF n, old
    <3> QED  BY <3>1, QuietUpdate DEF Moved, Ready, SyncTables
  <2>6. StatusFor(n) = IF d = None THEN "live" ELSE "trashed"
    BY <2>2 DEF StatusFor
  <2>7. Recs(s)[i] # "absent"
    BY <2>4, StatusKinds
  <2> HIDE DEF q
  <2> QED  BY <2>4, <2>5, <2>6, <2>7 DEF q
<1>3. del # None /\ (old.del # None => del = old.del)
  BY NoneApart DEF PG!Coalesce
<1> HIDE DEF t, own, old, del, soft, back
<1>4. ASSUME own # {}, soft = PG!Ok(t(del), i), Tells(s, soft.store)
      PROVE  Fits("SoftDeleteRecord", i, s, soft)
  <2>1. RecordSet(s, t(del), i, "trashed") /\ Recs(s)[i] = StatusFor(old) /\ Recs(s)[i] # "absent"
    BY <1>2, <1>3, <1>4
  <2>2. Recs(s)[i] = "trashed" => ~ Moved(t(del))
    BY <1>2, <1>3, <1>4, <2>1 DEF StatusFor
  <2>3. Recs(s)[i] # "trashed" => Moved(t(del))
    BY <1>4, <2>1, StatusDomain, PGAnswers DEF Tells, SameView5, SameRecs, RecordSet
  <2>4. Accepts("SoftDeleteRecord", i, s, t(del)) /\ Known(t(del))
    BY <2>1, <2>2, <2>3 DEF Accepts, RecordSet, RecordMeets, SetsRec
  <2> QED  BY <1>4, <2>4, AcceptedFits
<1>5. ASSUME own # {}, back = PG!Ok(t(None), i), Tells(s, back.store)
      PROVE  Fits("RestoreRecord", i, s, back)
  <2>1. RecordSet(s, t(None), i, "live") /\ Recs(s)[i] = StatusFor(old) /\ Recs(s)[i] # "absent"
    BY <1>2, <1>5
  <2>2. Recs(t(None))[i] = "live"
    BY <2>1, StatusDomain DEF RecordSet
  <2>3. Recs(s)[i] # "live" => Moved(t(None))
    BY <1>5, <2>2, PGAnswers DEF Tells, SameView5, SameRecs
  <2>4. RecordMeets("RestoreRecord", i, s, t(None))
    BY <2>1, <1>2, <1>5, <2>3 DEF RecordMeets, RecordSet, SetsRec, StatusFor
  <2> QED  BY <1>5, <2>1, <2>4, AcceptedFits DEF Accepts, RecordSet
<1> QED  BY <1>1, <1>4, <1>5, RefusedFits DEF soft, back

LEMMA KidsFiltered ==
    ASSUME NEW tab, NEW rows, NEW ids, NEW gone, NEW left,
           \A f : f \in left <=> f \in rows /\ f.rec \notin gone
    PROVE  \A c : c \in KidNames(tab, left, ids \ gone)
                    <=> c \in KidNames(tab, rows, ids) /\ c.rec \notin gone
<1> DEFINE name(d) == [tab |-> tab, rec |-> d.rec, name |-> d.name]
<1>1. \A d : name(d).rec = d.rec
  OBVIOUS
<1>2. KidNames(tab, rows, ids) = {name(d) : d \in {e \in rows : e.rec \in ids}}
  BY DEF KidNames
<1>3. KidNames(tab, left, ids \ gone) = {name(d) : d \in {e \in left : e.rec \in ids \ gone}}
  BY DEF KidNames
<1> HIDE DEF name
<1> QED  BY <1>1, <1>2, <1>3

LEMMA DeleteRecordRowsFacts ==
    ASSUME NEW s, Ready(s), NEW rows \in SUBSET OwnRows(s, "records")
    PROVE  RecordsGone(s, PG!DeleteRecordRows(s, Me, rows), {r.id : r \in rows})
<1> DEFINE gone == {r.id : r \in rows}
           s1 == PG!DeleteRows(s, Me, "records", rows)
           t == PG!DeleteRecordRows(s, Me, rows)
<1>1. Removes(s, s1, "records", rows)
  BY PGDeleteRows DEF Ready, Wf, Tables, OwnedTables
<1>2. t = [s1 EXCEPT !.figures = {f \in @ : f.rec \notin gone}, !.dataFiles = {d \in @ : d.rec \notin gone}]
  BY DEF PG!DeleteRecordRows
<1> HIDE DEF s1, t, gone
<1>3. /\ t.figures = {f \in s1.figures : f.rec \notin gone}
      /\ t.dataFiles = {f \in s1.dataFiles : f.rec \notin gone}
      /\ \A k \in Tables \ {"figures", "dataFiles"} : t[k] = s1[k]
  BY <1>1, <1>2, StoreDomain DEF Removes, Alters, IsStore, Tables, ChildTables
<1>4. /\ t.records = s.records \ rows /\ t.sessions = s.sessions /\ t.items = s.items
      /\ t.projects = s.projects /\ t.devices = s.devices /\ t.paths = s.paths
      /\ t.templates = s.templates
      /\ t.figures = {f \in s.figures : f.rec \notin gone}
      /\ t.dataFiles = {f \in s.dataFiles : f.rec \notin gone}
  BY <1>1, <1>3 DEF Removes, Alters, Tables, OwnedTables, ChildTables
<1>5. OwnRows(t, "records") = {r \in OwnRows(s, "records") : r.id \notin gone}
  BY <1>4 DEF Ready, Wf, Unique, RecordsUnique, OwnRows, gone
<1>6. OwnIdsIn(t, "records") = OwnIdsIn(s, "records") \ gone
  BY <1>5 DEF OwnIdsIn
<1>7. Known(t)
  BY <1>4, <1>6, SameTables DEF Ready, Known
<1>8. ChildNames(t) = {c \in ChildNames(s) : c.rec \notin gone}
  <2> DEFINE ids == OwnIdsIn(s, "records")
  <2>1. ChildNames(s) = KidNames("figures", s.figures, ids) \cup KidNames("dataFiles", s.dataFiles, ids)
    BY KidsRead
  <2>2. ChildNames(t) = KidNames("figures", t.figures, ids \ gone)
                           \cup KidNames("dataFiles", t.dataFiles, ids \ gone)
    BY <1>6, KidsRead
  <2> HIDE DEF ids
  <2>3. /\ \A f : f \in t.figures <=> f \in s.figures /\ f.rec \notin gone
        /\ \A f : f \in t.dataFiles <=> f \in s.dataFiles /\ f.rec \notin gone
    BY <1>4
  <2>4. \A c : c \in KidNames("figures", t.figures, ids \ gone)
                 <=> c \in KidNames("figures", s.figures, ids) /\ c.rec \notin gone
    BY <2>3, KidsFiltered
  <2>5. \A c : c \in KidNames("dataFiles", t.dataFiles, ids \ gone)
                 <=> c \in KidNames("dataFiles", s.dataFiles, ids) /\ c.rec \notin gone
    BY <2>3, KidsFiltered
  <2> QED  BY <2>1, <2>2, <2>4, <2>5
<1>9. Recs(t) = [i \in Ids |-> IF i \in gone THEN "absent" ELSE Recs(s)[i]]
  <2> DEFINE own == OwnRows(s, "records")
             left == OwnRows(t, "records")
  <2>1. left = {r \in own : r.id \notin gone}
    BY <1>5
  <2> HIDE DEF own, left
  <2> QED  BY <2>1 DEF Recs, Stat, own, left, StatusOf
<1> QED  BY <1>4, SameTables, <1>7, <1>8, <1>9 DEF RecordsGone, t, gone

LEMMA FitsDeleteRecord ==
    ASSUME NEW s, Ready(s), NEW i \in Ids, Tells(s, PG!DeleteRecord(s, Me, i).store)
    PROVE  Fits("DeleteRecord", i, s, PG!DeleteRecord(s, Me, i))
<1> DEFINE own == PG!OwnRecord(s, Me, i)
           t == PG!DeleteRecordRows(s, Me, own)
           r == PG!DeleteRecord(s, Me, i)
<1>1. r = PG!Err(s, "not_found") \/ (own # {} /\ r = PG!Ok(t, i))
  BY DEF PG!DeleteRecord
<1>2. ASSUME own # {}, r = PG!Ok(t, i)
      PROVE  Fits("DeleteRecord", i, s, r)
  <2>1. own \in SUBSET OwnRows(s, "records") /\ {q.id : q \in own} = {i}
    BY <1>2 DEF PG!OwnRecord, OwnRows
  <2>2. RecordsGone(s, t, {i})
    <3> HIDE DEF own
    <3> QED  BY <2>1, DeleteRecordRowsFacts
  <2> HIDE DEF t
  <2>3. Recs(s)[i] # "absent"
    BY <1>2, AbsentIds, OwnIdsExist
  <2>4. Recs(t) = [Recs(s) EXCEPT ![i] = "absent"]
    BY <2>2 DEF RecordsGone, Recs, Stat
  <2>5. Moved(t)
    BY <2>3, <2>4, StatusDomain, <1>2, PGAnswers DEF SameRecs, Tells, SameView5
  <2>6. RecordMeets("DeleteRecord", i, s, t)
    BY <2>2, <2>3, <2>4, <2>5 DEF RecordMeets, RecordsGone, SetsRec
  <2> QED  BY <1>2, <2>2, <2>6, AcceptedFits DEF Accepts, RecordsGone
<1> HIDE DEF r, t
<1> QED  BY <1>1, <1>2, RefusedFits DEF r

LEMMA NothingDeleted ==
    ASSUME NEW s, Counting(s)
    PROVE  PG!DeleteRecordRows(s, Me, {}).fired[Me] = s.fired[Me]
<1> DEFINE q == [s EXCEPT !.records = @ \ {}]
           n == PG!Cardinality({})
           s1 == PG!bumpSyncVersion(q, Me, n)
<1>1. PG!DeleteRows(s, Me, "records", {}) = s1
  BY DEF PG!DeleteRows, PG!Bump
<1>2. n = 0
  BY SameOperators, FS_EmptySet
<1>3. q.fired = s.fired /\ "fired" \in DOMAIN q
  BY StoreDomain DEF Counting, IsStore, Tables, OwnedTables
<1> HIDE DEF n, q
<1>4. s1.fired[Me] = s.fired[Me]
  BY <1>2, <1>3, AccountsInUsers DEF Counting, PG!bumpSyncVersion
<1> HIDE DEF s1
<1> QED  BY <1>4, <1>1 DEF PG!DeleteRecordRows

LEMMA FitsPurgeDeletedRecords ==
    ASSUME NEW s, Ready(s), NEW i, Tells(s, PG!PurgeDeletedRecords(s, Me).store)
    PROVE  Fits("PurgeDeletedRecords", i, s, PG!PurgeDeletedRecords(s, Me))
<1> DEFINE rows == {r \in s.records : r.user = Me /\ r.del # None}
           gone == {r.id : r \in rows}
           t == PG!DeleteRecordRows(s, Me, rows)
           trash == {k \in Ids : Recs(s)[k] = "trashed"}
<1>1. PG!PurgeDeletedRecords(s, Me) = PG!Ok(t, gone)
  BY DEF PG!PurgeDeletedRecords
<1>2. rows \in SUBSET OwnRows(s, "records")
  BY DEF OwnRows
<1>3. gone = trash
  BY StatusRead DEF Ready, Wf, Unique, RecordsUnique, Known, OwnIdsIn, Recs, OwnRows
<1>4. RecordsGone(s, t, gone)
  <2> HIDE DEF rows
  <2> QED  BY <1>2, DeleteRecordRowsFacts
<1>5. gone = {} => ~ Moved(t)
  <2> SUFFICES ASSUME gone = {}
               PROVE  ~ Moved(t)
    OBVIOUS
  <2>1. rows = {}
    OBVIOUS
  <2>2. t.fired[Me] = s.fired[Me]
    <3> HIDE DEF rows
    <3> QED  BY <2>1, NothingDeleted DEF Ready
  <2> HIDE DEF t
  <2> QED  BY <2>2 DEF Moved, Ready
<1> HIDE DEF t, gone
<1>6. gone # {} => Moved(t)
  BY <1>3, <1>4, <1>1, PGAnswers DEF RecordsGone, Tells, SameView5, SameRecs
<1>7. Accepts("PurgeDeletedRecords", i, s, t) /\ Known(t)
  BY <1>4, <1>3, <1>5, <1>6 DEF Accepts, RecordsGone, PurgeMeets
<1> QED  BY <1>1, <1>7, AcceptedFits

---------------------------------------------------------------------------
(* Children of one record. *)

LEMMA KidsOfTables ==
    ASSUME NEW s, NEW c
    PROVE  c \in ChildNames(s) <=> \E tab \in ChildTables : \E f \in s[tab] :
              f.rec \in OwnIdsIn(s, "records") /\ c = KidName(tab, f)
BY KidsRead DEF KidNames, KidName, ChildTables

LEMMA KidNameRec == \A tab, f : KidName(tab, f).rec = f.rec
BY DEF KidName

\* Only children of i differ.
LEMMA OthersKids ==
    ASSUME NEW s, NEW t, t.records = s.records, NEW i,
           \A tab \in ChildTables : \A f : f.rec # i => (f \in t[tab] <=> f \in s[tab])
    PROVE  KidsOf(s, t, i)
BY SameTables, KidNameRec, KidsOfTables DEF KidsOf

LEMMA AtMostOneOf ==
    ASSUME NEW S, NEW x, S \subseteq {x}
    PROVE  AtMostOne(S)
<1>1. IsFiniteSet({x}) /\ Cardinality({x}) = 1
  BY FS_Singleton
<1> QED  BY <1>1, FS_Subset DEF AtMostOne

LEMMA ChildTablesOnly ==
    ASSUME NEW s, Known(s), NEW t, Alters(s, t, ChildTables)
    PROVE  /\ SameRecs(s, t) /\ SameChats(s, t) /\ SameItems(s, t) /\ SameEntries(s, t) /\ Known(t)
           /\ t.records = s.records
BY SameTables DEF Alters, Tables, OwnedTables, ChildTables, Known

\* One child of i, added, dropped or replaced by another of i.
LEMMA OneChildChanged ==
    ASSUME NEW s, Known(s), NEW t, NEW tab \in ChildTables, Alters(s, t, {tab}), NEW i, NEW n, NEW m,
           \A f \in t[tab] : f \in s[tab] \/ (f.rec = i /\ f.name = n),
           \A f \in s[tab] : f \in t[tab] \/ (f.rec = i /\ f.name = m)
    PROVE  /\ KidsOf(s, t, i)
           /\ AtMostOne(ChildNames(t) \ ChildNames(s)) /\ AtMostOne(ChildNames(s) \ ChildNames(t))
           /\ SameRecs(s, t) /\ SameChats(s, t) /\ SameItems(s, t) /\ SameEntries(s, t) /\ Known(t)
<1>1. /\ SameRecs(s, t) /\ SameChats(s, t) /\ SameItems(s, t) /\ SameEntries(s, t) /\ Known(t)
      /\ t.records = s.records
  BY ChildTablesOnly DEF Alters
<1>2. \A k \in ChildTables : k # tab => t[k] = s[k]
  BY DEF Alters, Tables
<1>3. KidsOf(s, t, i)
  BY <1>1, <1>2, OthersKids
<1>4. OwnIdsIn(t, "records") = OwnIdsIn(s, "records")
  BY <1>1, SameTables
<1> DEFINE x == [tab |-> tab, rec |-> i, name |-> n]
           y == [tab |-> tab, rec |-> i, name |-> m]
<1>5. \A f : /\ f.rec = i /\ f.name = n => KidName(tab, f) = x
             /\ f.rec = i /\ f.name = m => KidName(tab, f) = y
  BY DEF KidName
<1> HIDE DEF x, y
<1>6. \A c : c \in ChildNames(t) /\ c \notin ChildNames(s) => c = x
  BY <1>2, <1>4, <1>5, KidsOfTables
<1>7. \A c : c \in ChildNames(s) /\ c \notin ChildNames(t) => c = y
  BY <1>2, <1>4, <1>5, KidsOfTables
<1> QED  BY <1>1, <1>3, <1>6, <1>7, AtMostOneOf

LEMMA ChildFits ==
    ASSUME NEW s, Known(s), NEW t, NEW tab \in ChildTables, Alters(s, t, {tab}), NEW i \in Ids, NEW n, NEW m,
           \A f \in t[tab] : f \in s[tab] \/ (f.rec = i /\ f.name = n),
           \A f \in s[tab] : f \in t[tab] \/ (f.rec = i /\ f.name = m),
           PG!recordIDExists(s, Me, i), NEW op \in ChildOps, NEW v, Tells(s, t)
    PROVE  Fits(op, i, s, PG!Ok(t, v))
<1>1. /\ KidsOf(s, t, i)
      /\ AtMostOne(ChildNames(t) \ ChildNames(s)) /\ AtMostOne(ChildNames(s) \ ChildNames(t))
      /\ SameRecs(s, t) /\ SameChats(s, t) /\ SameItems(s, t) /\ SameEntries(s, t) /\ Known(t)
  BY OneChildChanged
<1>2. Recs(s)[i] # "absent"
  BY AbsentIds, OwnIdsExist
<1>3. ChildMeets(op, i, s, t)
  BY <1>1, <1>2 DEF ChildMeets, Tells, SameView5
<1>4. Accepts(op, i, s, t)
  BY <1>3 DEF Accepts
<1> QED  BY <1>1, <1>4, AcceptedFits

LEMMA FitscreateChild ==
    ASSUME NEW s, Ready(s), NEW tab \in ChildTables, NEW a, a.rec \in Ids, NEW op \in ChildOps,
           Tells(s, PG!createChild(s, Me, tab, a).store)
    PROVE  Fits(op, a.rec, s, PG!createChild(s, Me, tab, a))
<1> DEFINE x == [rec |-> a.rec, name |-> a.name, meta |-> a.meta]
           t == PG!InsertRow(s, Me, tab, x)
           r == PG!createChild(s, Me, tab, a)
<1>1. \/ \E e \in {"conflict", "not_found", "foreign_key"} : r = PG!Err(s, e)
      \/ PG!recordIDExists(s, Me, a.rec) /\ r = PG!Ok(t, a.name)
  BY DEF PG!createChild
<1>2. x.rec = a.rec /\ x.name = a.name
  OBVIOUS
<1> HIDE DEF x
<1>3. Inserts(s, t, tab, {x})
  BY PGInsertRow DEF Ready, Wf, Tables
<1> HIDE DEF t
<1>4. ASSUME PG!recordIDExists(s, Me, a.rec), r = PG!Ok(t, a.name)
      PROVE  Fits(op, a.rec, s, r)
  <2>1. Tells(s, t)
    BY <1>4, PGAnswers
  <2> QED  BY <1>4, <2>1, <1>2, <1>3, ChildFits DEF Ready, Inserts
<1> HIDE DEF r
<1>5. Fits(op, a.rec, s, r)
  BY <1>1, <1>4, RefusedFits
<1> QED  BY <1>5 DEF r

LEMMA FitsupdateChild ==
    ASSUME NEW s, Ready(s), NEW tab \in ChildTables, NEW a, a.rec \in Ids, NEW op \in ChildOps,
           Tells(s, PG!updateChild(s, Me, tab, a).store)
    PROVE  Fits(op, a.rec, s, PG!updateChild(s, Me, tab, a))
<1> DEFINE found == PG!ChildAt(s, Me, tab, a.rec, a.name)
           old == CHOOSE c \in found : TRUE
           nam == PG!Coalesce(a.newName, old.name)
           met == PG!Coalesce(a.newMeta, old.meta)
           new == [old EXCEPT !.name = nam, !.meta = met]
           t == PG!UpdateRow(s, Me, tab, old, new)
           r == PG!updateChild(s, Me, tab, a)
<1>1. \/ \E e \in {"conflict", "not_found", "foreign_key"} : r = PG!Err(s, e)
      \/ found # {} /\ r = PG!Ok(t, new.name)
  BY DEF PG!updateChild
<1>2. ASSUME found # {}, r = PG!Ok(t, new.name)
      PROVE  Fits(op, a.rec, s, r)
  <2>1. old \in found
    BY <1>2
  <2> HIDE DEF old, nam, met
  <2>2. old \in s[tab] /\ DOMAIN old = ChildCols /\ old.rec = a.rec /\ PG!recordIDExists(s, Me, a.rec)
    <3>1. old.rec = a.rec /\ PG!recordIDExists(s, Me, old.rec)
      BY <2>1 DEF PG!ChildAt
    <3> QED  BY <2>1, <3>1, PGChildAt DEF Ready
  <2>3. new.rec = a.rec
    BY <2>2 DEF ChildCols
  <2> DEFINE v == new.name
  <2> HIDE DEF new, found
  <2>4. Swaps(s, t, tab, old, new)
    BY PGUpdateRow DEF Ready, Wf, Tables
  <2> HIDE DEF t
  <2>5. Tells(s, t)
    BY <1>2, PGAnswers
  <2>6. Alters(s, t, {tab}) /\ (\A f \in t[tab] : f \in s[tab] \/ (f.rec = a.rec /\ f.name = v))
        /\ \A f \in s[tab] : f \in t[tab] \/ (f.rec = a.rec /\ f.name = old.name)
    BY <2>2, <2>3, <2>4 DEF Swaps
  <2>7. r = PG!Ok(t, v)
    BY <1>2
  <2> HIDE DEF v
  <2> QED  BY <2>7, <2>2, <2>5, <2>6, ChildFits DEF Ready
<1> HIDE DEF r, t, found, new
<1>3. Fits(op, a.rec, s, r)
  BY <1>1, <1>2, RefusedFits
<1> QED  BY <1>3 DEF r

LEMMA FitsdeleteChild ==
    ASSUME NEW s, Ready(s), NEW tab \in ChildTables, NEW a, a.rec \in Ids, NEW op \in ChildOps,
           Tells(s, PG!deleteChild(s, Me, tab, a).store)
    PROVE  Fits(op, a.rec, s, PG!deleteChild(s, Me, tab, a))
<1> DEFINE found == PG!ChildAt(s, Me, tab, a.rec, a.name)
           t == PG!DeleteRows(s, Me, tab, found)
           r == PG!deleteChild(s, Me, tab, a)
<1>1. \/ \E e \in {"conflict", "not_found", "foreign_key"} : r = PG!Err(s, e)
      \/ found # {} /\ r = PG!Ok(t, a.name)
  BY DEF PG!deleteChild
<1>2. \A f \in found : f.rec = a.rec /\ f.name = a.name /\ PG!recordIDExists(s, Me, a.rec)
  BY DEF PG!ChildAt
<1> HIDE DEF found
<1>3. Removes(s, t, tab, found)
  BY PGDeleteRows DEF Ready, Wf, Tables
<1> HIDE DEF t
<1>4. ASSUME found # {}, r = PG!Ok(t, a.name)
      PROVE  Fits(op, a.rec, s, r)
  <2>1. Tells(s, t)
    BY <1>4, PGAnswers
  <2>2. PG!recordIDExists(s, Me, a.rec)
    BY <1>2, <1>4
  <2> QED  BY <1>4, <2>1, <1>2, <1>3, <2>2, ChildFits DEF Ready, Removes
<1> HIDE DEF r
<1>5. Fits(op, a.rec, s, r)
  BY <1>1, <1>4, RefusedFits
<1> QED  BY <1>5 DEF r

\* The row that a replacement writes.
LEMMA ReplacedRowFacts ==
    ASSUME NEW s, Ready(s), NEW m, NEW a, a.id \in Ids,
           \/ PG!recordIDExists(s, Me, a.id)
           \/ ~ PG!recordIDExistsForOtherUserTx(s, Me, a.id) /\ ~ PG!chatSessionIDExists(s, Me, a.id)
    PROVE  \E st \in {"live", "trashed"} : RecordSet(s, PG!replaceRecordRowTx(s, Me, m, a), a.id, st)
<1> DEFINE row == PG!recordRow(Me, a, m)
           own == PG!OwnRecord(s, Me, a.id)
           old == CHOOSE r \in own : TRUE
           del == IF a.setDel THEN row.del ELSE old.del
           new == [old EXCEPT !.proj = a.proj, !.dev = a.dev, !.body = a.body,
                      !.upd = row.upd, !.del = del]
           t == PG!replaceRecordRowTx(s, Me, m, a)
           ins == PG!InsertRow(s, Me, "records", row)
           upd == PG!UpdateTouched(s, Me, "records", old, new, m)
<1>1. t = IF own = {} THEN ins ELSE upd
  BY DEF PG!replaceRecordRowTx, PG!recordIDExists, PG!updateOwn, PG!Ok
<1>2. ASSUME own = {}
      PROVE  \E st \in {"live", "trashed"} : RecordSet(s, ins, a.id, st)
  <2>1. \A r \in s.records : r.id # a.id
    BY <1>2 DEF PG!recordIDExists, PG!recordIDExistsForOtherUserTx, PG!OwnRecord
  <2>2. row.id = a.id /\ row.user = Me
    BY PGRecordRow
  <2> HIDE DEF row
  <2>3. Inserts(s, ins, "records", {row})
    BY PGInsertRow DEF Ready, Wf, Tables, OwnedTables
  <2> HIDE DEF ins
  <2>4. Alters(s, ins, {"records"})
    BY <2>3 DEF Inserts
  <2>5. RecordSet(s, ins, row.id, StatusFor(row))
    BY <2>1, <2>2, <2>3, InsertPuts, <2>4, RecordFacts
  <2> QED  BY <2>2, <2>5, StatusKinds
<1>3. ASSUME own # {}
      PROVE  \E st \in {"live", "trashed"} : RecordSet(s, upd, a.id, st)
  <2>1. DOMAIN old = RecordCols
    BY <1>3, PGOwnRecord DEF Ready
  <2>2. DOMAIN new = RecordCols /\ new.id = old.id /\ new.user = old.user
    <3> HIDE DEF old, row, del
    <3> QED  BY <2>1 DEF RecordCols
  <2>3. RecordSet(s, upd, a.id, StatusFor(new))
    <3> HIDE DEF new
    <3> QED  BY <1>3, <2>2, RecordUpdateFacts
  <2> HIDE DEF upd, new
  <2> QED  BY <2>3, StatusKinds
<1> HIDE DEF ins, upd, t, own
<1> QED  BY <1>1, <1>2, <1>3 DEF t

LEMMA ReplacedRowAlters ==
    ASSUME NEW s, Wf(s), NEW m, NEW a
    PROVE  Alters(s, PG!replaceRecordRowTx(s, Me, m, a), {"records"})
<1> DEFINE row == PG!recordRow(Me, a, m)
           own == PG!OwnRecord(s, Me, a.id)
           old == CHOOSE r \in own : TRUE
           del == IF a.setDel THEN row.del ELSE old.del
           new == [old EXCEPT !.proj = a.proj, !.dev = a.dev, !.body = a.body,
                      !.upd = row.upd, !.del = del]
           t == PG!replaceRecordRowTx(s, Me, m, a)
           ins == PG!InsertRow(s, Me, "records", row)
           upd == PG!UpdateTouched(s, Me, "records", old, new, m)
<1>1. t = IF own = {} THEN ins ELSE upd
  BY DEF PG!replaceRecordRowTx, PG!recordIDExists, PG!updateOwn, PG!Ok
<1> HIDE DEF row, own, old, new
<1>2. Alters(s, ins, {"records"})
  BY PGInsertRow DEF Inserts, Wf, Tables, OwnedTables
<1>3. Alters(s, upd, {"records"})
  BY PGUpdateTouched DEF Updates, Wf, Tables, OwnedTables
<1> HIDE DEF ins, upd, t
<1> QED  BY <1>1, <1>2, <1>3 DEF t

LEMMA ChildRowsRec == \A id, children : \A f \in ChildRows(id, children) : f.rec = id
BY DEF ChildRows

LEMMA FitsReplaceRecordChildren ==
    ASSUME NEW s, Ready(s), NEW m, NEW a, a.id \in Ids
    PROVE  Fits("ReplaceRecordChildren", a.id, s, PG!ReplaceRecordChildren(s, Me, m, a))
<1> DEFINE s1 == PG!replaceRecordRowTx(s, Me, m, a)
           fs == {f \in s.figures : f.rec = a.id}
           ds == {d \in s.dataFiles : d.rec = a.id}
           s2 == PG!DeleteRows(s1, Me, "figures", fs)
           s3 == PG!DeleteRows(s2, Me, "dataFiles", ds)
           s4 == PG!insertChildrenTx(s3, Me, "figures", a.id, a.figures)
           s5 == PG!insertChildrenTx(s4, Me, "dataFiles", a.id, a.dataFiles)
           fresh == \/ PG!recordIDExists(s, Me, a.id)
                    \/ /\ ~ PG!recordIDExistsForOtherUserTx(s, Me, a.id)
                       /\ ~ PG!chatSessionIDExists(s, Me, a.id)
           r == PG!ReplaceRecordChildren(s, Me, m, a)
<1>1. \/ \E e \in {"conflict", "not_found", "foreign_key"} : r = PG!Err(s, e)
      \/ fresh /\ r = PG!Ok(s5, a.id)
  BY DEF PG!ReplaceRecordChildren
<1>2. ASSUME fresh, r = PG!Ok(s5, a.id)
      PROVE  Fits("ReplaceRecordChildren", a.id, s, r)
  <2>1. PICK st \in {"live", "trashed"} : RecordSet(s, s1, a.id, st)
    BY <1>2, ReplacedRowFacts
  <2>2. Alters(s, s1, {"records"})
    BY ReplacedRowAlters DEF Ready
  <2> HIDE DEF s1, fs, ds
  <2>3. Removes(s1, s2, "figures", fs)
    BY <2>2, PGDeleteRows DEF Alters, Tables, ChildTables
  <2> HIDE DEF s2
  <2>4. Removes(s2, s3, "dataFiles", ds)
    <3>1. IsStore(s2)
      BY <2>3 DEF Removes, Alters
    <3> QED  BY <3>1, PGDeleteRows DEF Tables, ChildTables
  <2> HIDE DEF s3
  <2>5. Inserts(s3, s4, "figures", ChildRows(a.id, a.figures))
    BY <2>4, PGInsertChildren DEF Removes, Alters, ChildTables
  <2> HIDE DEF s4
  <2>6. Inserts(s4, s5, "dataFiles", ChildRows(a.id, a.dataFiles))
    <3>1. IsStore(s4)
      BY <2>5 DEF Inserts, Alters
    <3> QED  BY <3>1, PGInsertChildren DEF ChildTables
  <2> HIDE DEF s5
  <2>7. /\ Alters(s1, s5, ChildTables)
        /\ s5.figures = (s1.figures \ fs) \cup ChildRows(a.id, a.figures)
        /\ s5.dataFiles = (s1.dataFiles \ ds) \cup ChildRows(a.id, a.dataFiles)
    BY <2>3, <2>4, <2>5, <2>6 DEF Removes, Inserts, Alters, Tables, OwnedTables, ChildTables
  <2>8. /\ SameRecs(s1, s5) /\ SameChats(s1, s5) /\ SameItems(s1, s5) /\ SameEntries(s1, s5)
        /\ Known(s5) /\ s5.records = s1.records
    BY <2>1, <2>7, ChildTablesOnly DEF RecordSet
  <2>9. KidsOf(s1, s5, a.id)
    BY <2>7, ChildRowsRec, <2>8, OthersKids DEF fs, ds, ChildTables
  <2>10. Chats_(s)[a.id] = "absent"
    <3>1. CASE ~ PG!chatSessionIDExists(s, Me, a.id)
      BY <3>1, AbsentIds, OwnIdsExist
    <3>2. CASE PG!recordIDExists(s, Me, a.id)
      BY <3>2, AbsentIds DEF Ready, Wf, Refs, Apart, PG!recordIDExists, PG!OwnRecord, OwnIdsIn,
         OwnRows
    <3> QED  BY <1>2, <3>1, <3>2
  <2>11. RecordMeets("ReplaceRecordChildren", a.id, s, s5)
    <3>1. SameChats(s, s5) /\ SameItems(s, s5) /\ SameEntries(s, s5)
      BY <2>1, <2>8 DEF RecordSet, SameChats, SameItems, SameEntries
    <3>2. SetsRec(s, s5, a.id, {"live", "trashed"})
      BY <2>1, <2>8 DEF RecordSet, SameRecs, SetsRec
    <3>3. KidsOf(s, s5, a.id)
      BY <2>1, <2>9 DEF RecordSet, SameKids, KidsOf
    <3> QED  BY <2>10, <3>1, <3>2, <3>3 DEF RecordMeets
  <2> QED  BY <1>2, <2>8, <2>11, AcceptedFits DEF Accepts
<1> HIDE DEF r, s5, fresh
<1> QED  BY <1>1, <1>2, RefusedFits DEF r

---------------------------------------------------------------------------
(* Chats. *)

LEMMA SessionFacts ==
    ASSUME NEW s, Ready(s), NEW t, Alters(s, t, {"sessions"}), NEW x, Puts(s, t, "sessions", x),
           x.id \in OwnIdsIn(s, "sessions") \/ \A c \in s.sessions : c.id # x.id, x.id \in Ids
    PROVE  SessionSet(s, t, x.id, StatusFor(x))
<1>1. SameRecs(s, t) /\ SameItems(s, t) /\ SameEntries(s, t) /\ SameKids(s, t)
  BY SessionsOnly DEF Ready
<1>2. Chats_(t) = [Chats_(s) EXCEPT ![x.id] = StatusFor(x)]
  BY ChatPut
<1>3. OwnIdsIn(t, "sessions") = OwnIdsIn(s, "sessions") \cup {x.id}
  BY PutIds
<1>4. t.records = s.records
  BY DEF Alters, Tables, OwnedTables
<1>5. Known(t)
  BY <1>3, <1>4, SameTables DEF Ready, Known
<1> QED  BY <1>1, <1>2, <1>5 DEF SessionSet

\* An UPDATE of the caller's chat.
LEMMA SessionUpdateFacts ==
    ASSUME NEW s, Ready(s), NEW m, NEW old \in s.sessions, old.user = Me, NEW new,
           DOMAIN new = SessionCols, new.id = old.id, new.user = old.user
    PROVE  /\ SessionSet(s, PG!UpdateTouched(s, Me, "sessions", old, new, m), old.id, StatusFor(new))
           /\ Chats_(s)[old.id] = StatusFor(old) /\ old.id \in Ids /\ Recs(s)[old.id] = "absent"
           /\ Alters(s, PG!UpdateTouched(s, Me, "sessions", old, new, m), {"sessions"})
<1> DEFINE t == PG!UpdateTouched(s, Me, "sessions", old, new, m)
<1>1. Updates(s, t, "sessions", old, new)
  BY PGUpdateTouched DEF Ready, Wf, Tables, OwnedTables
<1> HIDE DEF t
<1>2. old.id \in OwnIdsIn(s, "sessions") /\ old.id \in Ids
  BY DEF OwnIdsIn, OwnRows, Ready, Known
<1>3. PICK x : Puts(s, t, "sessions", x) /\ x.id = old.id /\ StatusFor(x) = StatusFor(new)
  BY <1>1, UpdatePuts DEF SessionCols, SyncTables, Ready, Becomes
<1>4. Alters(s, t, {"sessions"})
  BY <1>1 DEF Updates
<1>5. Chats_(s)[old.id] = StatusFor(old)
  BY <1>2, StatusOfRow DEF OwnRows, Ready, Wf, Unique, SessionsUnique, Chats_
<1>6. Recs(s)[old.id] = "absent"
  BY <1>2, AbsentIds DEF Ready, Wf, Refs, Apart, OwnIdsIn, OwnRows
<1> QED  BY <1>2, <1>4, <1>3, SessionFacts, <1>5, <1>6 DEF t

LEMMA FitsSoftDeleteChatSession ==
    ASSUME NEW s, Ready(s), NEW m \in Nat, NEW i \in Ids, Tells(s, PG!SoftDeleteChatSession(s, Me, m, i).store)
    PROVE  Fits("SoftDeleteChatSession", i, s, PG!SoftDeleteChatSession(s, Me, m, i))
<1> DEFINE own == PG!OwnSession(s, Me, i)
           old == CHOOSE c \in own : TRUE
           del == PG!Coalesce(old.del, m)
           new == [old EXCEPT !.del = del]
           t == PG!UpdateTouched(s, Me, "sessions", old, new, m)
           r == PG!SoftDeleteChatSession(s, Me, m, i)
<1>1. r = PG!Err(s, "not_found") \/ (own # {} /\ r = PG!Ok(t, i))
  BY DEF PG!SoftDeleteChatSession, PG!updateOwn
<1>2. ASSUME own # {}, r = PG!Ok(t, i)
      PROVE  Fits("SoftDeleteChatSession", i, s, r)
  <2>1. old \in s.sessions /\ old.user = Me /\ old.id = i
    BY <1>2 DEF PG!OwnSession
  <2>2. DOMAIN old = SessionCols
    BY <2>1 DEF Ready, Wf, RowsTyped
  <2>3. del # None /\ (old.del # None => del = old.del)
    BY NoneApart DEF PG!Coalesce
  <2> HIDE DEF old, del
  <2>4. DOMAIN new = SessionCols /\ new.id = old.id /\ new.user = old.user /\ new.del = del
    BY <2>2 DEF SessionCols
  <2>5. old.del # None => \A k \in DOMAIN old : new[k] = old[k]
    BY <2>2, <2>3 DEF SessionCols
  <2> HIDE DEF new
  <2>6. SessionSet(s, t, i, "trashed") /\ Chats_(s)[i] = StatusFor(old)
    BY <2>1, <2>3, <2>4, SessionUpdateFacts DEF StatusFor
  <2>7. old.del # None => ~ Moved(t)
    BY <2>2, <2>4, <2>5, QuietUpdate DEF SessionCols, Ready, SyncTables, Moved
  <2> HIDE DEF t
  <2>8. Chats_(s)[i] # "trashed" => Moved(t)
    BY <2>6, StatusDomain, <1>2, PGAnswers DEF SessionSet, Tells, SameView5, SameChats
  <2>9. ChatMeets("SoftDeleteChatSession", i, s, t)
    BY <2>6, <2>7, <2>8 DEF ChatMeets, SessionSet, SetsChat, StatusFor
  <2> QED  BY <1>2, <2>6, <2>9, AcceptedFits DEF Accepts, SessionSet
<1> HIDE DEF r, t, own
<1> QED  BY <1>1, <1>2, RefusedFits DEF r

LEMMA FitsRestoreChatSession ==
    ASSUME NEW s, Ready(s), NEW m \in Nat, NEW i \in Ids, Tells(s, PG!RestoreChatSession(s, Me, m, i).store)
    PROVE  Fits("RestoreChatSession", i, s, PG!RestoreChatSession(s, Me, m, i))
<1> DEFINE gone == {c \in PG!OwnSession(s, Me, i) : c.del # None}
           old == CHOOSE c \in gone : TRUE
           new == [old EXCEPT !.del = None]
           t == PG!UpdateTouched(s, Me, "sessions", old, new, m)
           r == PG!RestoreChatSession(s, Me, m, i)
<1>1. r = PG!Err(s, "not_found") \/ (gone # {} /\ r = PG!Ok(t, i))
  BY DEF PG!RestoreChatSession, PG!updateOwn
<1>2. ASSUME gone # {}, r = PG!Ok(t, i)
      PROVE  Fits("RestoreChatSession", i, s, r)
  <2>1. old \in s.sessions /\ old.user = Me /\ old.id = i /\ old.del # None
    BY <1>2 DEF PG!OwnSession
  <2>2. DOMAIN old = SessionCols
    BY <2>1 DEF Ready, Wf, RowsTyped
  <2> HIDE DEF old
  <2>3. DOMAIN new = SessionCols /\ new.id = old.id /\ new.user = old.user /\ new.del = None
    BY <2>2 DEF SessionCols
  <2> HIDE DEF new
  <2>4. SessionSet(s, t, i, "live") /\ Chats_(s)[i] = "trashed"
    BY <2>1, <2>3, SessionUpdateFacts DEF StatusFor
  <2> HIDE DEF t
  <2>5. Moved(t)
    <3> QED  BY <1>2, <2>4, StatusDomain, PGAnswers DEF Tells, SameView5, SameChats, SessionSet
  <2>6. Accepts("RestoreChatSession", i, s, t) /\ Known(t)
    BY <2>4, <2>5 DEF Accepts, SessionSet, ChatMeets, SetsChat
  <2> QED  BY <1>2, <2>6, AcceptedFits
<1> HIDE DEF r, t, gone
<1> QED  BY <1>1, <1>2, RefusedFits DEF r

LEMMA FitsDeleteChatSession ==
    ASSUME NEW s, Ready(s), NEW i \in Ids, Tells(s, PG!DeleteChatSession(s, Me, i).store)
    PROVE  Fits("DeleteChatSession", i, s, PG!DeleteChatSession(s, Me, i))
<1> DEFINE own == PG!OwnSession(s, Me, i)
           s1 == PG!DeleteRows(s, Me, "sessions", own)
           its == s1.items \ PG!ItemsOf(s, i)
           t == [s1 EXCEPT !["items"] = its]
           r == PG!DeleteChatSession(s, Me, i)
<1>1. r = PG!Err(s, "not_found") \/ (own # {} /\ r = PG!Ok(t, i))
  BY DEF PG!DeleteChatSession
<1>2. ASSUME own # {}, r = PG!Ok(t, i)
      PROVE  Fits("DeleteChatSession", i, s, r)
  <2>1. OwnRows(s, "sessions") \ own = {c \in OwnRows(s, "sessions") : c.id # i}
    BY DEF PG!OwnSession, OwnRows
  <2>2. Chats_(s)[i] # "absent"
    BY <1>2, AbsentIds, OwnIdsExist
  <2> HIDE DEF own
  <2>3. Removes(s, s1, "sessions", own)
    BY PGDeleteRows DEF Ready, Wf, Tables, OwnedTables
  <2>4. \A x : x \in its <=> x \in s1.items /\ ~ (x \in s.items /\ x.sess = i)
    BY DEF PG!ItemsOf
  <2> HIDE DEF s1, its
  <2>5. t.items = its /\ \A k \in Tables \ {"items"} : t[k] = s1[k]
    BY <2>3, StoreDomain DEF Removes, Alters, IsStore, Tables
  <2> HIDE DEF t
  <2>6. /\ t.records = s.records /\ t.projects = s.projects /\ t.devices = s.devices
        /\ t.paths = s.paths /\ t.templates = s.templates /\ t.figures = s.figures
        /\ t.dataFiles = s.dataFiles /\ t.sessions = s.sessions \ own
        /\ \A x : x \in t.items <=> x \in s.items /\ x.sess # i
    BY <2>3, <2>4, <2>5 DEF Removes, Alters, Tables, OwnedTables, ChildTables
  <2>7. Drops(s, t, "sessions", i)
    BY <2>1, <2>6 DEF Drops, OwnRows
  <2>8. Chats_(t) = [Chats_(s) EXCEPT ![i] = "absent"] /\ OwnIdsIn(t, "sessions") = OwnIdsIn(s, "sessions") \ {i}
    BY <2>7, ChatDrop, DropIds
  <2>9. Known(t)
    BY <2>6, <2>8, SameTables DEF Ready, Known
  <2>10. ItemNames(t) = ItemNames(s) \ {x \in ItemNames(s) : x.sess = i}
    <3> DEFINE name(x) == [sess |-> x.sess, ord |-> x.ord]
    <3>1. \A x : name(x).sess = x.sess
      OBVIOUS
    <3>2. /\ ItemNames(s) = {name(x) : x \in {j \in s.items : j.sess \in OwnIdsIn(s, "sessions")}}
          /\ ItemNames(t) = {name(x) : x \in {j \in t.items : j.sess \in OwnIdsIn(t, "sessions")}}
      BY ItemsRead
    <3> HIDE DEF name
    <3> QED  BY <2>6, <2>8, <3>1, <3>2
  <2>11. Moved(t)
    BY <2>2, <2>8, StatusDomain, <1>2, PGAnswers DEF SameChats, Tells, SameView5
  <2>12. ChatMeets("DeleteChatSession", i, s, t)
    BY <2>2, <2>6, SameTables, <2>8, <2>10, <2>11 DEF ChatMeets, SetsChat
  <2> QED  BY <1>2, <2>9, <2>12, AcceptedFits DEF Accepts
<1> HIDE DEF r, t, own
<1> QED  BY <1>1, <1>2, RefusedFits DEF r

---------------------------------------------------------------------------
(* Items of one chat. *)

LEMMA ItemNameSess == \A x : ItemName(x).sess = x.sess
BY DEF ItemName

LEMMA ItemsOfTable ==
    ASSUME NEW s, NEW c
    PROVE  c \in ItemNames(s) <=> \E x \in s.items : x.sess \in OwnIdsIn(s, "sessions") /\ c = ItemName(x)
BY ItemsRead DEF ItemName

\* Only items of i differ.
LEMMA OthersItems ==
    ASSUME NEW s, NEW t, OwnIdsIn(t, "sessions") = OwnIdsIn(s, "sessions"), NEW i,
           \A x : x.sess # i => (x \in t.items <=> x \in s.items)
    PROVE  ItemsOfChat(s, t, i)
BY ItemNameSess, ItemsOfTable DEF ItemsOfChat

LEMMA ItemsOnly ==
    ASSUME NEW s, Known(s), NEW t, Alters(s, t, {"items"})
    PROVE  /\ SameRecs(s, t) /\ SameChats(s, t) /\ SameKids(s, t) /\ SameEntries(s, t) /\ Known(t)
           /\ OwnIdsIn(t, "sessions") = OwnIdsIn(s, "sessions")
BY SameTables DEF Alters, Tables, OwnedTables, ChildTables, Known

LEMMA ItemRowsSess == \A id, items : \A x \in ItemRows(id, items) : x.sess = id
BY DEF ItemRows

\* INSERT of a list of items: all or none.
LEMMA InsertItemsFacts ==
    ASSUME NEW s, IsStore(s), NEW id, NEW items
    PROVE  \/ PG!insertChatItemsTx(s, Me, id, items) = PG!Err(s, "conflict")
           \/ \E t : /\ PG!insertChatItemsTx(s, Me, id, items) = PG!Ok(t, id)
                     /\ Inserts(s, t, "items", ItemRows(id, items))
<1> DEFINE q == PG!insertChatItemsTx(s, Me, id, items)
           rows == ItemRows(id, items)
           t == PG!bumpSyncVersion([s EXCEPT !.items = s.items \cup rows], Me, Len(items))
<1>1. q = PG!Err(s, "conflict") \/ q = PG!Ok(t, id)
  BY DEF PG!insertChatItemsTx, ItemRows
<1>2. Inserts(s, t, "items", rows)
  <2> HIDE DEF rows
  <2> QED  BY StoreDomain DEF IsStore, Inserts, Alters, PG!bumpSyncVersion, Tables
<1> HIDE DEF q, t, rows
<1> QED  BY <1>1, <1>2 DEF q, rows

\* Items of i are added.
LEMMA ItemsAdded ==
    ASSUME NEW s, Known(s), NEW t, NEW i, NEW items, Inserts(s, t, "items", ItemRows(i, items))
    PROVE  /\ SameRecs(s, t) /\ SameChats(s, t) /\ SameKids(s, t) /\ SameEntries(s, t) /\ Known(t)
           /\ ItemsOfChat(s, t, i) /\ ItemNames(s) \subseteq ItemNames(t)
BY ItemsOnly, ItemRowsSess, OthersItems, ItemsOfTable DEF Inserts

\* The items of i are deleted and others added.
LEMMA ItemsReplaced ==
    ASSUME NEW s, Known(s), IsStore(s), NEW i, NEW old, \A x : x \in old <=> x \in s.items /\ x.sess = i, NEW items,
           NEW t, Inserts(PG!DeleteRows(s, Me, "items", old), t, "items", ItemRows(i, items))
    PROVE  /\ SameRecs(s, t) /\ SameChats(s, t) /\ SameKids(s, t) /\ SameEntries(s, t) /\ Known(t)
           /\ ItemsOfChat(s, t, i)
<1> DEFINE d == PG!DeleteRows(s, Me, "items", old)
<1>1. Removes(s, d, "items", old)
  BY PGDeleteRows DEF Tables
<1>2. Inserts(d, t, "items", ItemRows(i, items))
  OBVIOUS
<1> HIDE DEF d
<1>3. Alters(s, t, {"items"}) /\ t.items = (s.items \ old) \cup ItemRows(i, items)
  BY <1>1, <1>2 DEF Removes, Inserts, Alters
<1>4. /\ SameRecs(s, t) /\ SameChats(s, t) /\ SameKids(s, t) /\ SameEntries(s, t) /\ Known(t)
      /\ OwnIdsIn(t, "sessions") = OwnIdsIn(s, "sessions")
  BY <1>3, ItemsOnly
<1> QED  BY <1>4, <1>3, ItemRowsSess, OthersItems

LEMMA FitsAddItems ==
    ASSUME NEW s, Ready(s), NEW a, a.id \in Ids
    PROVE  /\ Tells(s, PG!CreateChatItem(s, Me, a).store) =>
                 Fits("CreateChatItem", a.id, s, PG!CreateChatItem(s, Me, a))
           /\ Tells(s, PG!AppendChatItems(s, Me, a).store) =>
                 Fits("AppendChatItems", a.id, s, PG!AppendChatItems(s, Me, a))
<1> DEFINE q == PG!insertChatItemsTx(s, Me, a.id, a.items)
           there == PG!chatSessionIDExists(s, Me, a.id)
           r == IF there THEN q ELSE PG!Err(s, "not_found")
<1>1. PG!CreateChatItem(s, Me, a) = r /\ PG!AppendChatItems(s, Me, a) = r
  BY DEF PG!CreateChatItem, PG!AppendChatItems
<1>2. ASSUME there, NEW t, q = PG!Ok(t, a.id), Inserts(s, t, "items", ItemRows(a.id, a.items)),
             NEW op \in {"CreateChatItem", "AppendChatItems"}, Tells(s, q.store)
      PROVE  Fits(op, a.id, s, q)
  <2>1. Known(s)
    BY DEF Ready
  <2>2. /\ SameRecs(s, t) /\ SameChats(s, t) /\ SameKids(s, t) /\ SameEntries(s, t) /\ Known(t)
        /\ ItemsOfChat(s, t, a.id) /\ ItemNames(s) \subseteq ItemNames(t)
    BY <1>2, <2>1, ItemsAdded
  <2>3. Chats_(s)[a.id] # "absent"
    BY <1>2, AbsentIds, OwnIdsExist
  <2>4. ChatMeets(op, a.id, s, t)
    BY <2>2, <1>2, PGAnswers, <2>3 DEF ChatMeets, Tells, SameView5
  <2> QED  BY <1>2, <2>2, <2>4, AcceptedFits DEF Accepts
<1>3. q = PG!Err(s, "conflict") \/ \E t : q = PG!Ok(t, a.id) /\ Inserts(s, t, "items", ItemRows(a.id, a.items))
  BY InsertItemsFacts DEF Ready, Wf
<1> HIDE DEF q, there
<1>4. ASSUME NEW op \in {"CreateChatItem", "AppendChatItems"}, Tells(s, r.store)
      PROVE  Fits(op, a.id, s, r)
  BY <1>2, <1>3, <1>4, RefusedFits
<1> QED  BY <1>1, <1>4

LEMMA RollbackKinds ==
    ASSUME NEW s, NEW t, NEW q, NEW v
    PROVE  /\ PG!Rollback(s, PG!Err(q, "conflict")) = PG!Err(s, "conflict")
           /\ PG!Rollback(s, PG!Ok(t, v)) = PG!Ok(t, v)
           /\ \A w : /\ PG!Rollback(s, [PG!Err(q, "conflict") EXCEPT !.val = w]) = PG!Err(s, "conflict")
                     /\ PG!Rollback(s, [PG!Ok(t, v) EXCEPT !.val = w]) = PG!Ok(t, w)
BY NoneApart DEF PG!Rollback, PG!Ok, PG!Err

LEMMA FitsReplaceChatItems ==
    ASSUME NEW s, Ready(s), NEW a, a.id \in Ids, Tells(s, PG!ReplaceChatItems(s, Me, a).store)
    PROVE  Fits("ReplaceChatItems", a.id, s, PG!ReplaceChatItems(s, Me, a))
<1> DEFINE old == PG!ItemsOf(s, a.id)
           d == PG!DeleteRows(s, Me, "items", old)
           q == PG!insertChatItemsTx(d, Me, a.id, a.items)
           there == PG!chatSessionIDExists(s, Me, a.id)
           r == PG!ReplaceChatItems(s, Me, a)
<1>1. r = IF there THEN PG!Rollback(s, q) ELSE PG!Err(s, "not_found")
  BY DEF PG!ReplaceChatItems
<1>2. IsStore(s) /\ Known(s)
  BY DEF Ready, Wf
<1>3. \A x : x \in old <=> x \in s.items /\ x.sess = a.id
  BY DEF PG!ItemsOf
<1> HIDE DEF old
<1>4. IsStore(d)
  BY <1>2, PGDeleteRows DEF Removes, Alters, Tables
<1>5. ASSUME there, NEW t, r = PG!Ok(t, a.id), Inserts(d, t, "items", ItemRows(a.id, a.items))
      PROVE  Fits("ReplaceChatItems", a.id, s, r)
  <2>1. /\ SameRecs(s, t) /\ SameChats(s, t) /\ SameKids(s, t) /\ SameEntries(s, t) /\ Known(t)
        /\ ItemsOfChat(s, t, a.id)
    BY <1>2, <1>3, <1>5, ItemsReplaced
  <2>2. Chats_(s)[a.id] # "absent"
    BY <1>5, AbsentIds, OwnIdsExist
  <2>3. ChatMeets("ReplaceChatItems", a.id, s, t)
    BY <2>1, <1>5, PGAnswers, <2>2 DEF ChatMeets, Tells, SameView5
  <2> QED  BY <1>5, <2>1, <2>3, AcceptedFits DEF Accepts
<1> HIDE DEF d
<1>6. q = PG!Err(d, "conflict") \/ \E t : q = PG!Ok(t, a.id) /\ Inserts(d, t, "items", ItemRows(a.id, a.items))
  BY <1>4, InsertItemsFacts
<1> HIDE DEF q, there, r
<1> QED  BY <1>1, <1>5, <1>6, RollbackKinds, RefusedFits DEF r

---------------------------------------------------------------------------
(* Upserts of chats. *)

LEMMA UpsertFacts ==
    ASSUME NEW s, Ready(s), NEW m, NEW a, a.id \in Ids
    PROVE  \/ \E e \in {"conflict", "not_found", "foreign_key"} : PG!upsertChatSession(s, Me, m, a) = PG!Err(s, e)
           \/ \E t, v : UpsertMade(s, PG!upsertChatSession(s, Me, m, a), t, v)
<1> DEFINE same == {c \in s.sessions : c.user = Me /\ c.src = a.src}
           row == PG!sessionRow(Me, a, m)
           old == CHOOSE c \in same : TRUE
           prj == PG!Coalesce(row.proj, old.proj)
           cwd == PG!Coalesce(row.cwd, old.cwd)
           tit == PG!Coalesce(row.title, old.title)
           sta == PG!Lesser(old.start, row.start)
           las == PG!Greater(old.last, row.last)
           del == IF a.clearDel THEN None ELSE row.del
           new == [old EXCEPT !.dev = row.dev, !.proj = prj, !.cwd = cwd, !.title = tit,
                      !.start = sta, !.last = las, !.orig = row.orig, !.upd = row.upd, !.del = del]
           ins == PG!InsertRow(s, Me, "sessions", row)
           upd == PG!UpdateTouched(s, Me, "sessions", old, new, m)
           v == [id |-> a.id, created |-> TRUE]
           w == [id |-> old.id, created |-> FALSE]
           up == PG!upsertChatSession(s, Me, m, a)
<1>1. \/ \E e \in {"conflict", "not_found", "foreign_key"} : up = PG!Err(s, e)
      \/ /\ same = {} /\ ~ PG!recordIDExists(s, Me, a.id) /\ \A c \in s.sessions : c.id # a.id
         /\ up = PG!Ok(ins, v)
      \/ same # {} /\ up = PG!Ok(upd, w)
  BY DEF PG!upsertChatSession, PG!updateOwn
<1>2. ASSUME ~ PG!recordIDExists(s, Me, a.id), \A c \in s.sessions : c.id # a.id, up = PG!Ok(ins, v)
      PROVE  UpsertMade(s, up, ins, v)
  <2>1. row.id = a.id /\ row.user = Me /\ v.id = a.id
    BY PGSessionRow
  <2> HIDE DEF row, v, up
  <2>2. Inserts(s, ins, "sessions", {row})
    BY PGInsertRow DEF Ready, Wf, Tables, OwnedTables
  <2> HIDE DEF ins
  <2>3. Alters(s, ins, {"sessions"})
    BY <2>2 DEF Inserts
  <2>4. SessionSet(s, ins, row.id, StatusFor(row))
    BY <1>2, <2>1, <2>2, InsertPuts, <2>3, SessionFacts
  <2> QED  BY <1>2, <2>1, <2>3, <2>4, AbsentIds, OwnIdsExist, StatusKinds DEF UpsertMade
<1>3. ASSUME same # {}, up = PG!Ok(upd, w)
      PROVE  UpsertMade(s, up, upd, w)
  <2>1. old \in s.sessions /\ old.user = Me
    BY <1>3
  <2>2. DOMAIN old = SessionCols
    BY <2>1 DEF Ready, Wf, RowsTyped
  <2>3. w.id = old.id
    OBVIOUS
  <2> HIDE DEF old, row, prj, cwd, tit, sta, las, del
  <2>4. DOMAIN new = SessionCols /\ new.id = old.id /\ new.user = old.user
    BY <2>2 DEF SessionCols
  <2> HIDE DEF new, w, up
  <2>5. /\ SessionSet(s, upd, old.id, StatusFor(new)) /\ old.id \in Ids /\ Recs(s)[old.id] = "absent"
        /\ Alters(s, upd, {"sessions"})
    BY <2>1, <2>4, SessionUpdateFacts
  <2> HIDE DEF upd
  <2> QED  BY <1>3, <2>3, <2>5, StatusKinds DEF UpsertMade
<1> HIDE DEF up, ins, upd, v, w, same
<1> QED  BY <1>1, <1>2, <1>3 DEF up

LEMMA FitsUpsertChatSession ==
    ASSUME NEW s, Ready(s), NEW m, NEW a, a.id \in Ids
    PROVE  Fits("UpsertChatSession", StoredId(PG!UpsertChatSession(s, Me, m, a), a), s,
                PG!UpsertChatSession(s, Me, m, a))
<1> DEFINE up == PG!upsertChatSession(s, Me, m, a)
           i == StoredId(up, a)
<1>1. PG!UpsertChatSession(s, Me, m, a) = up
  BY DEF PG!UpsertChatSession
<1>2. \/ \E e \in {"conflict", "not_found", "foreign_key"} : up = PG!Err(s, e)
      \/ \E t, v : UpsertMade(s, up, t, v)
  BY UpsertFacts
<1> HIDE DEF up
<1>3. ASSUME NEW t, NEW v, UpsertMade(s, up, t, v)
      PROVE  Fits("UpsertChatSession", i, s, up)
  <2>1. up = PG!Ok(t, v) /\ v.id \in Ids /\ Recs(s)[v.id] = "absent"
    BY <1>3 DEF UpsertMade
  <2>2. i = v.id
    BY <2>1 DEF StoredId, PG!Ok
  <2>3. PICK st \in {"live", "trashed"} : SessionSet(s, t, v.id, st)
    BY <1>3 DEF UpsertMade
  <2>4. ChatMeets("UpsertChatSession", v.id, s, t)
    BY <2>1, <2>3 DEF ChatMeets, SessionSet, SetsChat, SameItems, ItemsOfChat
  <2>5. Accepts("UpsertChatSession", v.id, s, t) /\ Known(t)
    BY <2>1, <2>3, <2>4 DEF Accepts, SessionSet
  <2> HIDE DEF i
  <2> QED  BY <2>1, <2>2, <2>5, AcceptedFits
<1> QED  BY <1>1, <1>2, <1>3, RefusedFits

LEMMA FitsUpsertChatSessionWithItems ==
    ASSUME NEW s, Ready(s), NEW m, NEW a, a.id \in Ids
    PROVE  Fits("UpsertChatSessionWithItems", StoredId(PG!UpsertChatSessionWithItems(s, Me, m, a), a), s,
                PG!UpsertChatSessionWithItems(s, Me, m, a))
<1> DEFINE up == PG!upsertChatSession(s, Me, m, a)
           id == up.val.id
           old == PG!ItemsOf(s, id)
           d == PG!DeleteRows(up.store, Me, "items", old)
           ins == PG!insertChatItemsTx(d, Me, id, a.items)
           r == PG!UpsertChatSessionWithItems(s, Me, m, a)
           i == StoredId(r, a)
<1>1. r = IF up.err # None THEN up ELSE PG!Rollback(s, [ins EXCEPT !.val = up.val])
  BY DEF PG!UpsertChatSessionWithItems
<1>2. \/ \E e \in {"conflict", "not_found", "foreign_key"} : up = PG!Err(s, e)
      \/ \E t, v : UpsertMade(s, up, t, v)
  BY UpsertFacts
<1>3. \A x : x \in old <=> x \in s.items /\ x.sess = id
  BY DEF PG!ItemsOf
<1> HIDE DEF up, old
<1>4. ASSUME NEW t, NEW v, UpsertMade(s, up, t, v)
      PROVE  Fits("UpsertChatSessionWithItems", i, s, r)
  <2>1. up = PG!Ok(t, v) /\ v.id \in Ids /\ Recs(s)[v.id] = "absent" /\ Alters(s, t, {"sessions"})
    BY <1>4 DEF UpsertMade
  <2>2. up.store = t /\ up.err = None /\ up.val = v
    BY <2>1 DEF PG!Ok
  <2>3. PICK st \in {"live", "trashed"} : SessionSet(s, t, v.id, st)
    BY <1>4 DEF UpsertMade
  <2>4. t.items = s.items /\ IsStore(t)
    BY <2>1 DEF Alters, Tables
  <2>5. id = v.id
    BY <2>2
  <2> HIDE DEF id
  <2>6. IsStore(d)
    BY <2>2, <2>4, PGDeleteRows DEF Removes, Alters, Tables
  <2>7. ins = PG!Err(d, "conflict") \/ \E k : ins = PG!Ok(k, id) /\ Inserts(d, k, "items", ItemRows(id, a.items))
    <3> HIDE DEF d
    <3> QED  BY <2>6, InsertItemsFacts
  <2>8. r = PG!Rollback(s, [ins EXCEPT !.val = v])
    BY <1>1, <2>2
  <2> HIDE DEF ins, r
  <2>9. CASE ins = PG!Err(d, "conflict")
    <3>1. r = PG!Err(s, "conflict")
      BY <2>8, <2>9, RollbackKinds
    <3> HIDE DEF i
    <3> QED  BY <3>1, RefusedFits
  <2>10. ASSUME NEW k, ins = PG!Ok(k, id), Inserts(d, k, "items", ItemRows(id, a.items))
         PROVE  Fits("UpsertChatSessionWithItems", i, s, r)
    <3>1. r = PG!Ok(k, v)
      BY NoneApart, <2>8, <2>10 DEF PG!Rollback, PG!Ok
    <3>2. i = v.id
      BY <3>1 DEF StoredId, PG!Ok
    <3> HIDE DEF i
    <3>3. /\ SameRecs(t, k) /\ SameChats(t, k) /\ SameKids(t, k) /\ SameEntries(t, k) /\ Known(k)
          /\ ItemsOfChat(t, k, v.id)
      <4>1. \A x : x \in old <=> x \in t.items /\ x.sess = v.id
        BY <1>3, <2>4, <2>5
      <4>2. Inserts(PG!DeleteRows(t, Me, "items", old), k, "items", ItemRows(v.id, a.items))
        BY <2>2, <2>5, <2>10
      <4> HIDE DEF d
      <4> QED  BY <2>3, <2>4, <4>1, <4>2, ItemsReplaced DEF SessionSet
    <3>4. SameRecs(s, k) /\ SameKids(s, k) /\ SameEntries(s, k)
      BY <2>3, <3>3 DEF SessionSet, SameRecs, SameKids, SameEntries
    <3>5. SetsChat(s, k, v.id, {"live", "trashed"}) /\ ItemsOfChat(s, k, v.id)
      BY <2>3, <3>3 DEF SessionSet, SameChats, SameItems, SetsChat, ItemsOfChat
    <3>6. Accepts("UpsertChatSessionWithItems", v.id, s, k)
      BY <2>1, <3>4, <3>5 DEF Accepts, ChatMeets
    <3> QED  BY <3>1, <3>2, <3>3, <3>6, AcceptedFits
  <2> QED  BY <2>7, <2>9, <2>10
<1>5. ASSUME NEW e \in {"conflict", "not_found", "foreign_key"}, up = PG!Err(s, e)
      PROVE  Fits("UpsertChatSessionWithItems", i, s, r)
  <2>1. r = PG!Err(s, e)
    BY <1>1, <1>5, PGAnswers, NoneApart
  <2> HIDE DEF r, i
  <2> QED  BY <2>1, RefusedFits
<1> HIDE DEF r, i
<1> QED  BY <1>2, <1>4, <1>5 DEF r, i

---------------------------------------------------------------------------
(* Registries, paths and templates. *)

LEMMA EntriesOfTables ==
    ASSUME NEW s, NEW c
    PROVE  c \in EntryNames(s) <=> \E tab \in RegistryTables : \E e \in s[tab] : Shown(tab, e) /\ c = EntryOf(tab, e)
<1>1. c \in EntryNames(s) <=>
         \/ \E e \in OwnRows(s, "projects") : c = EntryName("projects", e.id, <<>>, 0)
         \/ \E e \in OwnRows(s, "devices") : c = EntryName("devices", e.id, <<>>, 0)
         \/ \E e \in OwnRows(s, "paths") : c = EntryName("paths", e.proj, e.path, e.dev)
         \/ \E e \in s.templates : c = EntryName("templates", e.name, <<>>, 0)
  <2> HIDE DEF EntryName
  <2> QED  BY DEF EntryNames
<1> QED  BY <1>1 DEF RegistryTables, Shown, OwnRows, EntryOf

LEMMA RegistryOnly ==
    ASSUME NEW s, Known(s), NEW t, Alters(s, t, RegistryTables)
    PROVE  SameRecs(s, t) /\ SameChats(s, t) /\ SameKids(s, t) /\ SameItems(s, t) /\ Known(t)
BY SameTables DEF Alters, Tables, OwnedTables, ChildTables, RegistryTables, Known

\* At most the entry x is new, and at most y is gone if the call deletes one.
LEMMA EntryFits ==
    ASSUME NEW s, Known(s), NEW t, Alters(s, t, RegistryTables), NEW x, NEW op \in EntryOps,
           \/ EntryNames(s) \subseteq EntryNames(t) /\ \A c \in EntryNames(t) : c \in EntryNames(s) \/ c = x
           \/ /\ op = "DeleteTemplate" /\ EntryNames(t) \subseteq EntryNames(s)
              /\ \A c \in EntryNames(s) : c \in EntryNames(t) \/ c = x,
           Tells(s, t), NEW i, NEW v
    PROVE  Fits(op, i, s, PG!Ok(t, v))
BY RegistryOnly, AtMostOneOf, AcceptedFits DEF Tells, SameView5, EntryMeets, Accepts

LEMMA EntryInserts ==
    ASSUME NEW s, Known(s), NEW tab \in RegistryTables, NEW x, NEW t, Inserts(s, t, tab, {x}),
           NEW op \in EntryOps, Tells(s, t), NEW i, NEW v
    PROVE  Fits(op, i, s, PG!Ok(t, v))
<1>1. Alters(s, t, RegistryTables) /\ t[tab] = s[tab] \cup {x}
  BY DEF Inserts, Alters
<1>2. \A k \in RegistryTables : k # tab => t[k] = s[k]
  BY DEF Inserts, Alters, RegistryTables, Tables, OwnedTables
<1> DEFINE n == EntryOf(tab, x)
<1>3. \A c : c \in EntryNames(s) => c \in EntryNames(t)
  BY <1>1, <1>2, EntriesOfTables
<1>4. \A c : c \in EntryNames(t) => c \in EntryNames(s) \/ c = n
  BY <1>1, <1>2, EntriesOfTables
<1> HIDE DEF n
<1> QED  BY <1>1, <1>3, <1>4, EntryFits

\* An UPDATE that keeps what names the row.
LEMMA EntryUpdates ==
    ASSUME NEW s, Known(s), NEW tab \in RegistryTables, NEW old \in s[tab], NEW new, NEW m, IsStore(s),
           \A x : Stamped(new, x) => EntryOf(tab, x) = EntryOf(tab, old) /\ (Shown(tab, x) <=> Shown(tab, old)),
           NEW op \in EntryOps, Tells(s, PG!UpdateTouched(s, Me, tab, old, new, m)), NEW i, NEW v
    PROVE  Fits(op, i, s, PG!Ok(PG!UpdateTouched(s, Me, tab, old, new, m), v))
<1> DEFINE t == PG!UpdateTouched(s, Me, tab, old, new, m)
<1>1. tab \in Tables
  BY DEF RegistryTables, Tables, OwnedTables
<1>2. Updates(s, t, tab, old, new)
  BY <1>1, PGUpdateTouched
<1>3. Tells(s, t)
  OBVIOUS
<1> HIDE DEF t
<1>4. PICK x, gone : /\ Stamped(new, x) /\ old \in gone /\ gone \subseteq {old, new}
                     /\ t[tab] = (s[tab] \ gone) \cup {x}
  BY <1>2 DEF Updates
<1>5. Stamped(new, new)
  BY DEF Stamped
<1> DEFINE n == EntryOf(tab, old)
           shown == Shown(tab, old)
<1>6. Alters(s, t, RegistryTables) /\ \A k \in RegistryTables : k # tab => t[k] = s[k]
  BY <1>2 DEF Updates, Alters, RegistryTables, Tables, OwnedTables
<1>7. \A c : (\E e \in t[tab] : Shown(tab, e) /\ c = EntryOf(tab, e))
               <=> \E e \in s[tab] : Shown(tab, e) /\ c = EntryOf(tab, e)
  BY <1>4, <1>5
<1>8. EntryNames(s) \subseteq EntryNames(t) /\ \A c \in EntryNames(t) : c \in EntryNames(s) \/ c = n
  BY <1>6, <1>7, EntriesOfTables
<1> HIDE DEF n
<1> QED  BY <1>3, <1>6, <1>8, EntryFits DEF t

LEMMA NothingFits ==
    ASSUME NEW s, Ready(s), NEW op \in EntryOps, NEW i, NEW v
    PROVE  Fits(op, i, s, PG!Ok(s, v))
BY SameStore, EntryFits DEF Ready, Wf, Alters, Tells

LEMMA FitscreateEntry ==
    ASSUME NEW s, Ready(s), NEW tab \in EntryTables, NEW m, NEW a, NEW op \in EntryOps, NEW i,
           Tells(s, PG!createEntry(s, Me, tab, m, a).store)
    PROVE  /\ Fits(op, i, s, PG!createEntry(s, Me, tab, m, a))
           /\ PG!OwnEntry(s, Me, tab, a.id) = {} => Fits(op, i, s, [PG!createEntry(s, Me, tab, m, a) EXCEPT !.val = TRUE])
<1> DEFINE x == [id |-> a.id, user |-> Me, upd |-> PG!Coalesce(a.upd, m), arch |-> a.arch]
           t == PG!InsertRow(s, Me, tab, x)
           r == PG!createEntry(s, Me, tab, m, a)
           own == PG!OwnEntry(s, Me, tab, a.id)
<1>1. (own # {} => r = PG!Err(s, "conflict")) /\ (own = {} => r = PG!Ok(t, a.id))
  BY DEF PG!createEntry
<1> HIDE DEF x
<1>2. Inserts(s, t, tab, {x})
  BY PGInsertRow DEF Ready, Wf, Tables, OwnedTables, EntryTables
<1> HIDE DEF t
<1>3. ASSUME own = {}, r = PG!Ok(t, a.id)
      PROVE  Fits(op, i, s, r) /\ Fits(op, i, s, [r EXCEPT !.val = TRUE])
  <2>1. Tells(s, t)
    BY <1>3, PGAnswers
  <2>2. \A v : Fits(op, i, s, PG!Ok(t, v))
    BY <1>2, <2>1, EntryInserts DEF EntryTables, RegistryTables, Ready
  <2>3. [r EXCEPT !.val = TRUE] = PG!Ok(t, TRUE)
    <3> DEFINE v == a.id
               w == TRUE
    <3>1. r = PG!Ok(t, v)
      BY <1>3
    <3> HIDE DEF r, v, w
    <3>2. [r EXCEPT !.val = w] = PG!Ok(t, w)
      BY <3>1 DEF PG!Ok
    <3> QED  BY <3>2 DEF w
  <2> HIDE DEF r
  <2> QED  BY <1>3, <2>2, <2>3
<1> HIDE DEF r, own
<1> QED  BY <1>1, <1>3, RefusedFits DEF r, own

LEMMA EntryKept ==
    ASSUME NEW tab \in EntryTables, NEW old, NEW new, {"id", "user"} \subseteq DOMAIN new,
           new.id = old.id, new.user = old.user, NEW x, Stamped(new, x)
    PROVE  EntryOf(tab, x) = EntryOf(tab, old) /\ (Shown(tab, x) <=> Shown(tab, old))
BY StampedKeeps DEF EntryTables, EntryOf, Shown

LEMMA FitssetArchivedAt ==
    ASSUME NEW s, Ready(s), NEW tab \in EntryTables, NEW m, NEW id, NEW arch, NEW op \in EntryOps, NEW i,
           Tells(s, PG!setArchivedAt(s, Me, tab, m, id, arch).store)
    PROVE  Fits(op, i, s, PG!setArchivedAt(s, Me, tab, m, id, arch))
<1> DEFINE own == PG!OwnEntry(s, Me, tab, id)
           old == CHOOSE e \in own : TRUE
           new == [old EXCEPT !.arch = arch]
           t == PG!UpdateTouched(s, Me, tab, old, new, m)
           r == PG!setArchivedAt(s, Me, tab, m, id, arch)
<1>1. r = PG!Err(s, "not_found") \/ (own # {} /\ r = PG!Ok(t, id))
  BY DEF PG!setArchivedAt, PG!updateOwn
<1>2. ASSUME own # {}, r = PG!Ok(t, id)
      PROVE  Fits(op, i, s, r)
  <2>1. old \in s[tab]
    BY <1>2 DEF PG!OwnEntry
  <2>2. DOMAIN old = EntryCols
    BY <2>1 DEF Ready, Wf, RowsTyped, EntryTables
  <2> HIDE DEF old
  <2>3. {"id", "user"} \subseteq DOMAIN new /\ new.id = old.id /\ new.user = old.user
    BY <2>2 DEF EntryCols
  <2> HIDE DEF new
  <2>4. tab \in RegistryTables /\ Known(s) /\ IsStore(s)
    BY DEF EntryTables, RegistryTables, Ready, Wf
  <2>5. Tells(s, t)
    BY <1>2, PGAnswers
  <2>6. Fits(op, i, s, PG!Ok(t, id))
    BY <2>1, <2>3, EntryKept, <2>4, <2>5, EntryUpdates
  <2> QED  BY <1>2, <2>6
<1> HIDE DEF r, t, own
<1>3. Fits(op, i, s, r)
  BY <1>1, <1>2, RefusedFits
<1> QED  BY <1>3 DEF r

LEMMA FitsupsertEntryForImport ==
    ASSUME NEW s, Ready(s), NEW tab \in EntryTables, NEW m, NEW a, NEW op \in EntryOps, NEW i,
           Tells(s, PG!upsertEntryForImport(s, Me, tab, m, a).store)
    PROVE  Fits(op, i, s, PG!upsertEntryForImport(s, Me, tab, m, a))
<1> DEFINE own == PG!OwnEntry(s, Me, tab, a.id)
           old == CHOOSE e \in own : TRUE
           new == [old EXCEPT !.upd = a.upd, !.arch = a.arch]
           t == PG!UpdateTouched(s, Me, tab, old, new, m)
           r == PG!upsertEntryForImport(s, Me, tab, m, a)
           c == PG!createEntry(s, Me, tab, m, a)
           d == [c EXCEPT !.val = TRUE]
<1>1. \/ own = {} /\ r = d
      \/ r = PG!Ok(s, FALSE)
      \/ own # {} /\ r = PG!Ok(t, TRUE)
  BY DEF PG!upsertEntryForImport, PG!updateOwn
<1>2. ASSUME own # {}, r = PG!Ok(t, TRUE)
      PROVE  Fits(op, i, s, r)
  <2>1. old \in s[tab]
    BY <1>2 DEF PG!OwnEntry
  <2>2. DOMAIN old = EntryCols
    BY <2>1 DEF Ready, Wf, RowsTyped, EntryTables
  <2> HIDE DEF old
  <2>3. {"id", "user"} \subseteq DOMAIN new /\ new.id = old.id /\ new.user = old.user
    BY <2>2 DEF EntryCols
  <2> HIDE DEF new
  <2>4. tab \in RegistryTables /\ Known(s) /\ IsStore(s)
    BY DEF EntryTables, RegistryTables, Ready, Wf
  <2>5. Tells(s, t)
    <3>1. Tells(s, r.store)
      OBVIOUS
    <3> HIDE DEF r, t
    <3> QED  BY <1>2, <3>1, PGAnswers
  <2>6. Fits(op, i, s, PG!Ok(t, TRUE))
    BY <2>1, <2>3, EntryKept, <2>4, <2>5, EntryUpdates
  <2> QED  BY <1>2, <2>6
<1>3. ASSUME own = {}, r = d
      PROVE  Fits(op, i, s, r)
  <2>1. c.store = r.store
    BY PGcreateEntry, <1>3 DEF Ready, EntryTables
  <2>2. Tells(s, c.store)
    BY <2>1
  <2> HIDE DEF r
  <2> QED  BY <1>3, <2>2, FitscreateEntry
<1> HIDE DEF r, t, own, d
<1>4. Fits(op, i, s, r)
  BY <1>1, <1>2, <1>3, NothingFits
<1> QED  BY <1>4 DEF r

LEMMA FitsUpsertProjectPath ==
    ASSUME NEW s, Ready(s), NEW m, NEW a, NEW i, Tells(s, PG!UpsertProjectPath(s, Me, m, a).store)
    PROVE  Fits("UpsertProjectPath", i, s, PG!UpsertProjectPath(s, Me, m, a))
<1> DEFINE x == [user |-> Me, proj |-> a.proj, path |-> a.path, dev |-> a.dev,
                 upd |-> PG!Coalesce(a.upd, m)]
           t == PG!InsertRow(s, Me, "paths", x)
           r == PG!UpsertProjectPath(s, Me, m, a)
<1>1. r = PG!Ok(s, FALSE) \/ r = PG!Err(s, "foreign_key") \/ r = PG!Ok(t, TRUE)
  BY DEF PG!UpsertProjectPath
<1> HIDE DEF x
<1>2. Inserts(s, t, "paths", {x})
  BY PGInsertRow DEF Ready, Wf, Tables, OwnedTables
<1> HIDE DEF t
<1>3. r = PG!Ok(t, TRUE) => Tells(s, t)
  <2> DEFINE v == TRUE
  <2>1. Tells(s, r.store)
    OBVIOUS
  <2> HIDE DEF r, v
  <2>2. r = PG!Ok(t, v) => Tells(s, t)
    BY <2>1, PGAnswers
  <2> QED  BY <2>2 DEF v
<1>4. "paths" \in RegistryTables /\ "UpsertProjectPath" \in EntryOps /\ Known(s)
  BY DEF RegistryTables, EntryOps, Ready
<1> HIDE DEF r
<1>5. ASSUME r = PG!Ok(t, TRUE)
      PROVE  Fits("UpsertProjectPath", i, s, r)
  BY <1>2, <1>3, <1>4, <1>5, EntryInserts
<1> QED  BY <1>1, <1>4, <1>5, NothingFits, RefusedFits DEF r

LEMMA FitsTemplates ==
    ASSUME NEW s, Ready(s), NEW m, NEW a, NEW name, NEW i
    PROVE  /\ Tells(s, PG!CreateTemplate(s, Me, m, a).store) =>
                 Fits("CreateTemplate", i, s, PG!CreateTemplate(s, Me, m, a))
           /\ Tells(s, PG!UpdateTemplate(s, Me, m, a).store) =>
                 Fits("UpdateTemplate", i, s, PG!UpdateTemplate(s, Me, m, a))
           /\ Tells(s, PG!DeleteTemplate(s, Me, name).store) =>
                 Fits("DeleteTemplate", i, s, PG!DeleteTemplate(s, Me, name))
<1>1. /\ "templates" \in RegistryTables /\ Known(s) /\ IsStore(s) /\ "templates" \in Tables
      /\ {"CreateTemplate", "UpdateTemplate", "DeleteTemplate"} \subseteq EntryOps
  BY DEF RegistryTables, EntryOps, Ready, Wf, Tables
<1>2. ASSUME Tells(s, PG!CreateTemplate(s, Me, m, a).store)
      PROVE  Fits("CreateTemplate", i, s, PG!CreateTemplate(s, Me, m, a))
  <2> DEFINE x == [name |-> a.name, html |-> a.html, upd |-> PG!Coalesce(a.upd, m)]
             t == PG!InsertRow(s, Me, "templates", x)
             r == PG!CreateTemplate(s, Me, m, a)
             v == a.name
  <2>1. r = PG!Err(s, "conflict") \/ r = PG!Ok(t, v)
    BY DEF PG!CreateTemplate
  <2> HIDE DEF x, v
  <2>2. Inserts(s, t, "templates", {x})
    BY <1>1, PGInsertRow
  <2> HIDE DEF t
  <2>3. r = PG!Ok(t, v) => Tells(s, t)
    BY <1>2, PGAnswers
  <2> HIDE DEF r
  <2>4. Fits("CreateTemplate", i, s, r)
    BY <2>1, <1>1, <2>2, <2>3, EntryInserts, RefusedFits
  <2> QED  BY <2>4 DEF r
<1>3. ASSUME Tells(s, PG!UpdateTemplate(s, Me, m, a).store)
      PROVE  Fits("UpdateTemplate", i, s, PG!UpdateTemplate(s, Me, m, a))
  <2> DEFINE found == {x \in s.templates : x.name = a.name}
             old == CHOOSE x \in found : TRUE
             upd == PG!Coalesce(a.upd, old.upd)
             new == [old EXCEPT !.html = a.html, !.upd = upd]
             t == PG!UpdateTouched(s, Me, "templates", old, new, m)
             r == PG!UpdateTemplate(s, Me, m, a)
             v == a.name
  <2>1. r = PG!Err(s, "not_found") \/ (found # {} /\ r = PG!Ok(t, v))
    BY DEF PG!UpdateTemplate, PG!updateOwn
  <2>2. ASSUME found # {}, r = PG!Ok(t, v)
        PROVE  Fits("UpdateTemplate", i, s, r)
    <3>1. old \in s["templates"]
      BY <2>2
    <3>2. DOMAIN old = TemplateCols
      BY <3>1 DEF Ready, Wf, RowsTyped
    <3> HIDE DEF old, upd, v
    <3>3. "name" \in DOMAIN new /\ new.name = old.name
      BY <3>2 DEF TemplateCols
    <3> HIDE DEF new
    <3>4. \A x : Stamped(new, x) => EntryOf("templates", x) = EntryOf("templates", old)
                                       /\ (Shown("templates", x) <=> Shown("templates", old))
      BY <3>3, StampedKeeps DEF EntryOf, Shown
    <3>5. Tells(s, t)
      BY <1>3, <2>2, PGAnswers
    <3> QED  BY <2>2, <1>1, <3>1, <3>4, <3>5, EntryUpdates
  <2> HIDE DEF r, t, found, v
  <2> QED  BY <2>1, <2>2, RefusedFits DEF r
<1>4. ASSUME Tells(s, PG!DeleteTemplate(s, Me, name).store)
      PROVE  Fits("DeleteTemplate", i, s, PG!DeleteTemplate(s, Me, name))
  <2> DEFINE found == {x \in s.templates : x.name = name}
             t == PG!DeleteRows(s, Me, "templates", found)
             r == PG!DeleteTemplate(s, Me, name)
             n == EntryName("templates", name, <<>>, 0)
  <2>1. r = PG!Err(s, "not_found") \/ r = PG!Ok(t, name)
    BY DEF PG!DeleteTemplate
  <2>2. \A x \in found : EntryOf("templates", x) = n
    BY DEF EntryOf
  <2> HIDE DEF found, n
  <2>3. Removes(s, t, "templates", found)
    BY <1>1, PGDeleteRows
  <2> HIDE DEF t
  <2>4. /\ Alters(s, t, RegistryTables) /\ t["templates"] = s["templates"] \ found
        /\ \A k \in RegistryTables : k # "templates" => t[k] = s[k]
    BY <2>3 DEF Removes, Alters, RegistryTables, Tables, OwnedTables
  <2>5. \A c : c \in EntryNames(t) => c \in EntryNames(s)
    BY <2>4, EntriesOfTables
  <2>6. \A c : c \in EntryNames(s) => c \in EntryNames(t) \/ c = n
    BY <2>2, <2>4, EntriesOfTables
  <2>7. r = PG!Ok(t, name) => Tells(s, t)
    BY <1>4, PGAnswers
  <2> HIDE DEF r
  <2>8. Fits("DeleteTemplate", i, s, r)
    BY <2>1, <1>1, <2>4, <2>5, <2>6, <2>7, EntryFits, RefusedFits
  <2> QED  BY <2>8 DEF r
<1> QED  BY <1>2, <1>3, <1>4

\* Backfill fills in projects: IDs, owners and tombstones stay.
LEMMA FitsBackfillChatProjects ==
    ASSUME NEW s, Ready(s), NEW m, NEW i
    PROVE  Fits("BackfillChatProjects", i, s, PG!BackfillChatProjects(s, Me, m))
<1> DEFINE open == {c \in s.sessions : c.user = Me /\ c.proj = None /\ PG!PathsOf(s, c) # {}}
           F == [c \in open |-> [c EXCEPT !.proj = PG!longestPathProject(s, c), !.upd = m]]
           new == (s.sessions \ open) \cup {F[c] : c \in open}
           n == PG!Cardinality(open)
           t == PG!bumpSyncVersion([s EXCEPT !.sessions = new], Me, n)
           r == PG!BackfillChatProjects(s, Me, m)
<1>1. r = PG!Ok(t, n)
  <2> DEFINE rows == {[c EXCEPT !.proj = PG!longestPathProject(s, c), !.upd = m] : c \in open}
             q == PG!bumpSyncVersion([s EXCEPT !.sessions = (s.sessions \ open) \cup rows], Me, n)
  <2>1. rows = {F[c] : c \in open}
    OBVIOUS
  <2>2. r = PG!Ok(q, n)
    BY DEF PG!BackfillChatProjects
  <2> HIDE DEF r, rows, open, F, n
  <2> QED  BY <2>1, <2>2
<1>2. ASSUME NEW c \in open
      PROVE  F[c].id = c.id /\ F[c].user = c.user /\ F[c].del = c.del
  BY DEF Ready, Wf, RowsTyped, SessionCols
<1>3. open \subseteq s.sessions
  OBVIOUS
<1> HIDE DEF open, F, n
<1>4. \A x : (\E c \in new : c.user = x.user /\ c.id = x.id /\ c.del = x.del)
               <=> \E c \in s.sessions : c.user = x.user /\ c.id = x.id /\ c.del = x.del
  <2>1. \A c \in new : \E d \in s.sessions : d.user = c.user /\ d.id = c.id /\ d.del = c.del
    BY <1>2, <1>3
  <2>2. \A c \in s.sessions : \E d \in new : d.user = c.user /\ d.id = c.id /\ d.del = c.del
    BY <1>2, <1>3
  <2> HIDE DEF new
  <2> QED  BY <2>1, <2>2
<1> HIDE DEF new
<1>5. Alters(s, t, {"sessions"}) /\ t.sessions = new
  BY StoreDomain DEF Ready, Wf, IsStore, Alters, PG!bumpSyncVersion, Tables, OwnedTables
<1> HIDE DEF t
<1>6. /\ \A c \in OwnRows(t, "sessions") : \E d \in OwnRows(s, "sessions") : d.id = c.id /\ d.del = c.del
      /\ \A c \in OwnRows(s, "sessions") : \E d \in OwnRows(t, "sessions") : d.id = c.id /\ d.del = c.del
  BY <1>4, <1>5 DEF OwnRows
<1>7. SameChats(s, t) /\ OwnIdsIn(t, "sessions") = OwnIdsIn(s, "sessions")
  <2> DEFINE a == OwnRows(s, "sessions")
             b == OwnRows(t, "sessions")
  <2> HIDE DEF a, b
  <2>1. \A k : /\ (\A c \in b : c.id # k) <=> \A c \in a : c.id # k
               /\ (\E c \in b : c.id = k /\ c.del = None) <=> \E c \in a : c.id = k /\ c.del = None
    BY <1>6 DEF a, b
  <2>2. SameChats(s, t)
    BY <2>1 DEF SameChats, Chats_, Stat, a, b, StatusOf
  <2> QED  BY <2>2, <2>1 DEF OwnIdsIn, a, b
<1>8. /\ t.records = s.records /\ t.items = s.items /\ t.projects = s.projects /\ t.devices = s.devices
      /\ t.paths = s.paths /\ t.templates = s.templates
      /\ t.figures = s.figures /\ t.dataFiles = s.dataFiles
  BY <1>5 DEF Alters, Tables, OwnedTables, ChildTables
<1>9. SameView5(s, t) /\ Known(t)
  BY <1>7, <1>8, SameTables DEF SameView5, Ready, Known
<1>10. Accepts("BackfillChatProjects", i, s, t)
  BY <1>9 DEF Accepts
<1> HIDE DEF r
<1> QED  BY <1>1, <1>9, <1>10, AcceptedFits DEF r

LEMMA CloudCardinality == \A x : CloudContract!Cardinality(x) = Cardinality(x)
BY Zenon DEF CloudContract!Cardinality, Cardinality

LEMMA CloudRecordStep ==
    ASSUME NEW op, NEW i, call'.op = op, call'.id = i, ~ Refused(reply'.pg), i \in Ids, RecordMeets(op, i, pg, pg')
    PROVE  CloudContract!Next
<1> USE DEF Recs, Chats_, Stat, Moved, SameRecs, SameChats, SameKids, SameItems, SameEntries,
            SetsRec, SetsChat, KidsOf, ItemsOfChat, CloudContract!Op, CloudContract!SetRecord, CloudContract!SetChat,
            CloudContract!ChildrenOf, CloudContract!ItemsOf
<1>1. RecordMeets(op, i, pg, pg')
  OBVIOUS
<1>2. CASE op = "CreateRecord"
  BY <1>1, <1>2 DEF RecordMeets, CloudContract!CreateRecord, CloudContract!Next
<1>3. CASE op = "UpdateRecord"
  BY <1>1, <1>3 DEF RecordMeets, CloudContract!UpdateRecord, CloudContract!Next
<1>4. CASE op = "SoftDeleteRecord"
  <2>1. CloudContract!SoftDeleteRecord(i)
    BY <1>1, <1>4 DEF RecordMeets, CloudContract!SoftDeleteRecord
  <2> QED  BY <2>1 DEF CloudContract!Next
<1>5. CASE op = "RestoreRecord"
  <2>1. CloudContract!RestoreRecord(i)
    BY <1>1, <1>5 DEF RecordMeets, CloudContract!RestoreRecord
  <2> QED  BY <2>1 DEF CloudContract!Next
<1>6. CASE op = "DeleteRecord"
  BY <1>1, <1>6 DEF RecordMeets, CloudContract!DeleteRecord, CloudContract!Next
<1>7. CASE op = "ReplaceRecordChildren"
  BY <1>1, <1>7 DEF RecordMeets, CloudContract!ReplaceRecordChildren, CloudContract!Next
<1> QED  BY <1>1, <1>2, <1>3, <1>4, <1>5, <1>6, <1>7 DEF RecordMeets

LEMMA CloudChatStep ==
    ASSUME NEW op, NEW i, call'.op = op, call'.id = i, ~ Refused(reply'.pg), i \in Ids, ChatMeets(op, i, pg, pg')
    PROVE  CloudContract!Next
<1> USE DEF Recs, Chats_, Stat, Moved, SameRecs, SameChats, SameKids, SameItems, SameEntries,
            SetsRec, SetsChat, KidsOf, ItemsOfChat, CloudContract!Op, CloudContract!SetRecord, CloudContract!SetChat,
            CloudContract!ChildrenOf, CloudContract!ItemsOf
<1>1. ChatMeets(op, i, pg, pg')
  OBVIOUS
<1>2. CASE op = "UpsertChatSession" \/ op = "UpsertChatSessionWithItems"
  BY <1>1, <1>2 DEF ChatMeets, CloudContract!UpsertChat, CloudContract!Next
<1>3. CASE op = "SoftDeleteChatSession"
  <2>1. CloudContract!SoftDeleteChatSession(i)
    BY <1>1, <1>3 DEF ChatMeets, CloudContract!SoftDeleteChatSession
  <2> QED  BY <2>1 DEF CloudContract!Next
<1>4. CASE op = "RestoreChatSession"
  BY <1>1, <1>4 DEF ChatMeets, CloudContract!RestoreChatSession, CloudContract!Next
<1>5. CASE op = "DeleteChatSession"
  BY <1>1, <1>5 DEF ChatMeets, CloudContract!DeleteChatSession, CloudContract!Next
<1>6. CASE op = "CreateChatItem" \/ op = "AppendChatItems"
  BY <1>1, <1>6 DEF ChatMeets, CloudContract!AppendItems, CloudContract!Next
<1>7. CASE op = "ReplaceChatItems"
  BY <1>1, <1>7 DEF ChatMeets, CloudContract!ReplaceChatItems, CloudContract!Next
<1> QED  BY <1>1, <1>2, <1>3, <1>4, <1>5, <1>6, <1>7 DEF ChatMeets

LEMMA CloudStep ==
    ASSUME ~ Refused(reply'.pg), Accepts(call'.op, call'.id, pg, pg')
    PROVE  CloudContract!Next
<1> DEFINE op == call'.op
           i == call'.id
<1> USE DEF Recs, Chats_, Stat, Moved, SameRecs, SameChats, SameKids, SameItems, SameEntries,
            KidsOf, AtMostOne, CloudContract!Op, CloudContract!ChildrenOf
<1>1. ASSUME i \in Ids, RecordMeets(op, i, pg, pg') \/ ChatMeets(op, i, pg, pg')
      PROVE  CloudContract!Next
  BY <1>1, CloudRecordStep, CloudChatStep
<1>2. ASSUME i \in Ids, ChildMeets(op, i, pg, pg')
      PROVE  CloudContract!Next
  BY <1>2, CloudCardinality DEF ChildMeets, ChildOps, CloudContract!ChangeChild, CloudContract!Next
<1>3. ASSUME op = "PurgeDeletedRecords", PurgeMeets(pg, pg')
      PROVE  CloudContract!Next
  BY <1>3 DEF PurgeMeets, CloudContract!PurgeDeletedRecords, CloudContract!Next
<1>4. ASSUME EntryMeets(op, pg, pg')
      PROVE  CloudContract!Next
  BY <1>4, CloudCardinality DEF EntryMeets, EntryOps, CloudContract!ChangeEntry, CloudContract!Next
<1>5. ASSUME op = "BackfillChatProjects", SameView5(pg, pg')
      PROVE  CloudContract!Next
  BY <1>5 DEF SameView5, CloudContract!BackfillChatProjects, CloudContract!content,
     CloudContract!Next
<1> QED  BY <1>1, <1>2, <1>3, <1>4, <1>5 DEF Accepts

LEMMA CloudRefuses ==
    ASSUME Refused(reply'.pg), Refuses(pg, pg')
    PROVE  CloudContract!Next
<1>1. CloudContract!Refuse
  BY DEF Refuses, SameView5, Recs, Chats_, Stat, Moved, SameRecs, SameChats, SameKids, SameItems,
         SameEntries, CloudContract!Refuse, CloudContract!content
<1> QED  BY <1>1 DEF CloudContract!Next

---------------------------------------------------------------------------
(* A call moves the version if what the caller can see of the store changed. *)

LEMMA StatSame ==
    ASSUME NEW a, NEW b,
           \A c \in a : \E d \in b : d.id = c.id /\ d.del = c.del,
           \A c \in b : \E d \in a : d.id = c.id /\ d.del = c.del
    PROVE  Stat(a) = Stat(b) /\ {c.id : c \in a} = {c.id : c \in b}
BY DEF StatusOf, Stat

\* Each table shows the caller's rows, up to updated_at.
LEMMA OwnShown ==
    ASSUME NEW s, NEW t, Wf(s), Wf(t), SameView(s, t), NEW tab \in SyncTables, NEW r \in OwnRows(s, tab)
    PROVE  \E q \in OwnRows(t, tab) : q.id = r.id /\ q.del = r.del
<1>1. \A q \in s[tab] \cup t[tab] :
         Columns(q).id = q.id /\ Columns(q).user = q.user /\ Columns(q).del = q.del
  BY ColumnsKeep DEF SyncTables, Wf, RowsTyped, RecordCols, SessionCols
<1>2. r \in s[tab] /\ r.user = Me
  BY DEF OwnRows
<1>3. {Columns(q) : q \in t[tab]} = {Columns(q) : q \in s[tab]}
  BY DEF SameView, ViewOf, SyncTables, Tables, OwnedTables
<1>4. PICK q \in t[tab] : Columns(q) = Columns(r)
  BY <1>2, <1>3
<1> QED  BY <1>4, <1>1, <1>2 DEF OwnRows

\* The columns that name an entry are shown.
LEMMA EntryShown ==
    ASSUME NEW s, Wf(s), NEW tab \in RegistryTables, NEW e \in s[tab]
    PROVE  EntryOf(tab, Columns(e)) = EntryOf(tab, e) /\ (Shown(tab, Columns(e)) <=> Shown(tab, e))
BY ColumnsKeep DEF Wf, RowsTyped, PathCols, EntryOf, Shown, TemplateCols, EntryCols, RegistryTables

LEMMA EntriesShown ==
    ASSUME NEW s, NEW t, Wf(s), Wf(t), SameView(s, t), NEW c \in EntryNames(s)
    PROVE  c \in EntryNames(t)
<1>1. PICK tab \in RegistryTables : \E e \in s[tab] : Shown(tab, e) /\ c = EntryOf(tab, e)
  BY EntriesOfTables
<1>2. PICK e \in s[tab] : Shown(tab, e) /\ c = EntryOf(tab, e)
  BY <1>1
<1>3. {Columns(q) : q \in t[tab]} = {Columns(q) : q \in s[tab]}
  BY DEF SameView, ViewOf, RegistryTables, Tables, OwnedTables
<1>4. PICK f \in t[tab] : Columns(f) = Columns(e)
  BY <1>3
<1> QED  BY <1>2, <1>4, EntryShown, EntriesOfTables

LEMMA ViewShows ==
    ASSUME NEW s, NEW t, Wf(s), Wf(t), SameView(s, t)
    PROVE  SameView5(s, t)
<1>1. SameView(t, s)
  BY DEF SameView
<1>2. \A tab \in SyncTables :
         Stat(OwnRows(t, tab)) = Stat(OwnRows(s, tab)) /\ OwnIdsIn(t, tab) = OwnIdsIn(s, tab)
  <2> SUFFICES ASSUME NEW tab \in SyncTables
               PROVE  /\ Stat(OwnRows(t, tab)) = Stat(OwnRows(s, tab))
                      /\ OwnIdsIn(t, tab) = OwnIdsIn(s, tab)
    OBVIOUS
  <2> DEFINE a == OwnRows(s, tab)
             b == OwnRows(t, tab)
  <2>1. /\ \A c \in a : \E d \in b : d.id = c.id /\ d.del = c.del
        /\ \A c \in b : \E d \in a : d.id = c.id /\ d.del = c.del
    BY <1>1, OwnShown
  <2> HIDE DEF a, b
  <2> QED  BY <2>1, StatSame DEF a, b, OwnIdsIn
<1>3. SameRecs(s, t) /\ SameChats(s, t)
  BY <1>2 DEF SyncTables, SameRecs, SameChats, Recs, Chats_
<1>4. t.items = s.items
  BY DEF SameView, ViewOf, Tables
<1>5. SameKids(s, t) /\ SameItems(s, t)
  BY <1>2, ChildView, <1>4, SameTables DEF SyncTables, SameView, ChildTables, Tables
<1>6. SameEntries(s, t)
  BY <1>1, EntriesShown DEF SameEntries
<1> QED  BY <1>3, <1>5, <1>6 DEF SameView5

LEMMA ToldTells ==
    ASSUME NEW s, NEW t, Wf(s), Wf(t), s.fired[Me] = 0, PGTold(s, t, Me)
    PROVE  Tells(s, t)
BY AccountsInUsers, ViewShows DEF PGTold, Told, Counting, Tells, Moved

---------------------------------------------------------------------------
(* Every call of the caller, and every write of the other account, is a step *)
(* of the contract.                                                          *)

LEMMA SameWhileUnfired ==
    ASSUME NEW s, IsStore(s), FiniteTables(s)
    PROVE  SameView5(Unfired(s), s) /\ (Known(s) => Known(Unfired(s)))
<1> DEFINE t == Unfired(s)
<1>1. \A tab \in Tables : t[tab] = s[tab]
  BY UnfiredCounting
<1> HIDE DEF t
<1>2. SameView5(t, s) /\ (Known(s) => Known(t))
  BY <1>1, SameTables DEF SameView5, Known, Tables, OwnedTables, ChildTables
<1> QED  BY <1>2 DEF t

LEMMA SameMeets ==
    ASSUME NEW s, NEW q, SameView5(s, q), NEW t, NEW op, NEW i
    PROVE  (Accepts(op, i, s, t) => Accepts(op, i, q, t)) /\ (Refuses(s, t) => Refuses(q, t))
<1>1. /\ Recs(q) = Recs(s) /\ Chats_(q) = Chats_(s) /\ ChildNames(q) = ChildNames(s)
      /\ ItemNames(q) = ItemNames(s) /\ EntryNames(q) = EntryNames(s)
  BY DEF SameView5, SameRecs, SameChats, SameKids, SameItems, SameEntries
<1>2. /\ SameRecs(s, t) <=> SameRecs(q, t)
      /\ SameChats(s, t) <=> SameChats(q, t)
      /\ SameKids(s, t) <=> SameKids(q, t)
      /\ SameItems(s, t) <=> SameItems(q, t)
      /\ SameEntries(s, t) <=> SameEntries(q, t)
      /\ KidsOf(s, t, i) <=> KidsOf(q, t, i)
      /\ ItemsOfChat(s, t, i) <=> ItemsOfChat(q, t, i)
      /\ \A sts : SetsRec(s, t, i, sts) <=> SetsRec(q, t, i, sts)
      /\ \A sts : SetsChat(s, t, i, sts) <=> SetsChat(q, t, i, sts)
  BY <1>1, Zenon DEF SameRecs, SameChats, SameKids, SameItems, SameEntries, KidsOf, ItemsOfChat, SetsRec, SetsChat
<1>3. RecordMeets(op, i, s, t) => RecordMeets(op, i, q, t)
  BY <1>1, <1>2 DEF RecordMeets
<1>4. ChildMeets(op, i, s, t) => ChildMeets(op, i, q, t)
  BY <1>1, <1>2 DEF ChildMeets
<1>5. ChatMeets(op, i, s, t) => ChatMeets(op, i, q, t)
  BY <1>1, <1>2 DEF ChatMeets
<1>6. PurgeMeets(s, t) => PurgeMeets(q, t)
  BY <1>1, <1>2 DEF PurgeMeets
<1>7. EntryMeets(op, s, t) => EntryMeets(op, q, t)
  BY <1>1, <1>2 DEF EntryMeets
<1>8. SameView5(s, t) => SameView5(q, t)
  BY <1>2 DEF SameView5
<1> QED  BY <1>3, <1>4, <1>5, <1>6, <1>7, <1>8 DEF Accepts, Refuses

LEMMA CallMeets ==
    ASSUME SInv, NEW op, NEW id, NEW upd, NEW onSQ, NEW onPG, CallAt(op, id, upd, onSQ, onPG),
           Fits(op, id, Unfired(pg), onPG)
    PROVE  MeetsContract
<1>1. /\ pg' = onPG.store /\ call'.op = op /\ call'.id = id
      /\ reply'.pg = Answer(onPG)
  BY DEF CallAt
<1>2. reply'.pg.err = onPG.err
  BY <1>1 DEF Answer
<1>3. SameView5(Unfired(pg), pg)
  BY SameWhileUnfired DEF SInv, IInv, Wf
<1>4. Known(pg')
  BY <1>1 DEF Fits
<1>5. CASE onPG.err = None
  <2>1. Accepts(call'.op, call'.id, pg, pg')
    BY <1>1, <1>3, <1>5, SameMeets DEF Fits, Meets
  <2> QED  BY <1>4, <2>1, <1>2, <1>5, CloudStep DEF MeetsContract, Refused
<1>6. CASE onPG.err # None
  <2>1. Refuses(pg, pg')
    BY <1>3, <1>1, <1>6, SameMeets DEF Fits, Meets
  <2> QED  BY <1>4, <2>1, <1>2, <1>6, CloudRefuses DEF MeetsContract, Refused
<1> QED  BY <1>5, <1>6

\* What a call may rely on.
LEMMA CallReady ==
    ASSUME SInv, Known(pg), Records \/ Children \/ Chats \/ Registry
    PROVE  /\ Ready(Unfired(pg)) /\ now \in Nat /\ Tells(Unfired(pg), pg')
           /\ \A op, id, upd, onSQ, onPG : CallAt(op, id, upd, onSQ, onPG) => pg' = onPG.store
<1>1. now \in Nat /\ Me \in Users /\ Counting(Unfired(pg)) /\ Wf(Unfired(pg))
  BY SInvFacts
<1>2. Unfired(pg).fired[Me] = 0 /\ Known(Unfired(pg))
  BY <1>1, UnfiredCounting, SameWhileUnfired DEF SInv, IInv, Wf
<1>3. StepSeen(Me)
  BY RecordsSeen, ChildrenSeen, ChatsSeen, RegistrySeen
<1>4. Kept
  BY RecordsKeep, ChildrenKeep, ChatsKeep, RegistryKeep DEF SInv
<1>5. Wf(pg')
  BY <1>4 DEF Kept, IInv
<1>6. Tells(Unfired(pg), pg')
  BY <1>1, <1>2, <1>3, <1>5, ToldTells DEF StepSeen, PGSeen
<1> QED  BY <1>1, <1>2, <1>6 DEF Ready, CallAt

LEMMA NamesKnown == {"r1", "r2", "c1", "c2", "x", "y"} \subseteq Ids
BY DEF Ids, Mine, Foreign

LEMMA RecordIds ==
    ASSUME NEW ids, NEW a \in RecordInputs(ids)
    PROVE  a.id \in ids
BY DEF RecordInputs

LEMMA ChildIds ==
    ASSUME NEW recs, NEW a \in ChildInputs(recs)
    PROVE  a.rec \in recs
BY DEF ChildInputs

LEMMA ReplacementIds == \A a \in Replacements : a.id \in Ids
<1> DEFINE row(i, p, u, d, f, g) ==
               [id |-> i, proj |-> p, dev |-> 1, body |-> None, upd |-> u, setDel |-> d,
                del |-> None, figures |-> f, dataFiles |-> g]
<1>1. \A a \in Replacements : \E i \in {"r1", "r2", "c1", "x"} : \E p, u, d, f, g : a = row(i, p, u, d, f, g)
  <2> HIDE DEF row
  <2> QED  BY DEF Replacements, row
<1>2. \A i, p, u, d, f, g : row(i, p, u, d, f, g).id = i
  OBVIOUS
<1> HIDE DEF row
<1> SUFFICES ASSUME NEW a \in Replacements
             PROVE  a.id \in Ids
  OBVIOUS
<1>3. PICK i \in {"r1", "r2", "c1", "x"} : \E p, u, d, f, g : a = row(i, p, u, d, f, g)
  BY <1>1
<1>4. a.id = i
  BY <1>2, <1>3
<1> QED  BY <1>4, NamesKnown

LEMMA ChatInputIds ==
    /\ \A a \in ChatInputs \cup ChatWithItemsInputs : a.id \in Ids
    /\ \A a \in ItemInputs : a.id \in Ids /\ [a EXCEPT !.items = <<@[1]>>].id = a.id
<1>1. \A i, c, p, k, u, d, its : ChatInput(i, c, p, k, u, d, its).id = i
  BY DEF ChatInput
<1>2. \A a \in ChatInputs : \E i \in Ids : \E c, p, k, u, d, its : a = ChatInput(i, c, p, k, u, d, its)
  BY NamesKnown DEF ChatInputs, ChatIds
<1>3. \A a \in ChatWithItemsInputs : \E i \in Ids : \E c, p, k, u, d, its : a = ChatInput(i, c, p, k, u, d, its)
  BY NamesKnown DEF ChatWithItemsInputs, ChatIds
<1>4. \A a \in ChatInputs \cup ChatWithItemsInputs : a.id \in Ids
  <2> SUFFICES ASSUME NEW a \in ChatInputs \cup ChatWithItemsInputs
               PROVE  a.id \in Ids
    OBVIOUS
  <2>1. PICK i \in Ids : \E c, p, k, u, d, its : a = ChatInput(i, c, p, k, u, d, its)
    BY <1>2, <1>3
  <2> QED  BY <1>1, <2>1
<1>5. \A a \in ItemInputs : \E i \in Ids : \E its : a = [id |-> i, items |-> its]
  BY NamesKnown DEF ItemInputs
<1>6. \A i, its : /\ [id |-> i, items |-> its].id = i
                  /\ [[id |-> i, items |-> its] EXCEPT !.items = <<@[1]>>].id = i
  OBVIOUS
<1>7. \A a \in ItemInputs : a.id \in Ids /\ [a EXCEPT !.items = <<@[1]>>].id = a.id
  <2> SUFFICES ASSUME NEW a \in ItemInputs
               PROVE  a.id \in Ids /\ [a EXCEPT !.items = <<@[1]>>].id = a.id
    OBVIOUS
  <2>1. PICK i \in Ids : \E its : a = [id |-> i, items |-> its]
    BY <1>5
  <2>2. PICK its : a = [id |-> i, items |-> its]
    BY <2>1
  <2> QED  BY <1>6, <2>2, Zenon
<1> QED  BY <1>4, <1>7

LEMMA RecordsMeetContract ==
    ASSUME SInv, Known(pg), Records
    PROVE  MeetsContract
<1> DEFINE S == Unfired(sq)
           G == Unfired(pg)
<1>1. /\ Ready(G) /\ now \in Nat /\ Tells(G, pg')
      /\ \A op, id, upd, onSQ, onPG : CallAt(op, id, upd, onSQ, onPG) => pg' = onPG.store
  BY CallReady
<1>2. ASSUME NEW a, a.id \in Ids,
             CallAt("CreateRecord", a.id, a.upd, SQ!CreateRecord(S, now, a), PG!CreateRecord(G, Me, now, a))
      PROVE  MeetsContract
  BY <1>1, <1>2, CallMeets, FitsCreateRecord
<1>3. ASSUME NEW a, a.id \in Ids,
             CallAt("UpdateRecord", a.id, a.upd, SQ!UpdateRecord(S, now, a), PG!UpdateRecord(G, Me, now, a))
      PROVE  MeetsContract
  BY <1>1, <1>3, CallMeets, FitsUpdateRecord
<1>4. ASSUME NEW i \in Ids,
             \/ Call("SoftDeleteRecord", i, SQ!SoftDeleteRecord(S, now, i), PG!SoftDeleteRecord(G, Me, now, i))
             \/ Call("RestoreRecord", i, SQ!RestoreRecord(S, now, i), PG!RestoreRecord(G, Me, now, i))
      PROVE  MeetsContract
  BY <1>1, <1>4, CallMeets, FitsRecordTombstones DEF Call
<1>5. ASSUME NEW i \in Ids, Call("DeleteRecord", i, SQ!DeleteRecord(S, i), PG!DeleteRecord(G, Me, i))
      PROVE  MeetsContract
  BY <1>1, <1>5, CallMeets, FitsDeleteRecord DEF Call
<1>6. ASSUME Call("PurgeDeletedRecords", None, SQ!PurgeDeletedRecords(S), PG!PurgeDeletedRecords(G, Me))
      PROVE  MeetsContract
  BY <1>1, <1>6, CallMeets, FitsPurgeDeletedRecords DEF Call
<1>7. \A a \in RecordInputs({"r2", "c1", "x"}) \cup RecordInputs({"r1", "r2", "x"}) : a.id \in Ids
  BY RecordIds, NamesKnown
<1>8. \A i \in {"r1", "r2", "x"} : i \in Ids
  BY NamesKnown
<1> HIDE DEF S, G
<1> QED  BY <1>2, <1>3, <1>4, <1>5, <1>6, <1>7, <1>8 DEF Records, S, G

LEMMA ChildrenMeetContract ==
    ASSUME SInv, Known(pg), Children
    PROVE  MeetsContract
<1> DEFINE S == Unfired(sq)
           G == Unfired(pg)
<1>1. /\ Ready(G) /\ now \in Nat /\ Tells(G, pg')
      /\ \A op, id, upd, onSQ, onPG : CallAt(op, id, upd, onSQ, onPG) => pg' = onPG.store
  BY CallReady
<1>2. ASSUME NEW tab \in ChildTables, NEW op \in ChildOps, NEW a, a.rec \in Ids, NEW onSQ,
             \/ Call(op, a.rec, onSQ, PG!createChild(G, Me, tab, a))
             \/ Call(op, a.rec, onSQ, PG!updateChild(G, Me, tab, a))
             \/ Call(op, a.rec, onSQ, PG!deleteChild(G, Me, tab, a))
      PROVE  MeetsContract
  BY <1>1, <1>2, CallMeets, FitscreateChild, FitsupdateChild, FitsdeleteChild DEF Call
<1>3. "figures" \in ChildTables /\ "dataFiles" \in ChildTables
  BY DEF ChildTables
<1>4. ASSUME NEW a, a.rec \in Ids,
             \/ Call("CreateRecordFigure", a.rec, SQ!CreateRecordFigure(S, a), PG!CreateRecordFigure(G, Me, a))
             \/ Call("UpdateRecordFigure", a.rec, SQ!UpdateRecordFigure(S, a), PG!UpdateRecordFigure(G, Me, a))
             \/ Call("DeleteRecordFigure", a.rec, SQ!DeleteRecordFigure(S, a), PG!DeleteRecordFigure(G, Me, a))
             \/ Call("CreateRecordDataFile", a.rec, SQ!CreateRecordDataFile(S, a), PG!CreateRecordDataFile(G, Me, a))
             \/ Call("UpdateRecordDataFile", a.rec, SQ!UpdateRecordDataFile(S, a), PG!UpdateRecordDataFile(G, Me, a))
             \/ Call("DeleteRecordDataFile", a.rec, SQ!DeleteRecordDataFile(S, a), PG!DeleteRecordDataFile(G, Me, a))
      PROVE  MeetsContract
  BY <1>4, <1>2, <1>3 DEF ChildOps, PG!CreateRecordFigure, PG!UpdateRecordFigure,
     PG!DeleteRecordFigure, PG!CreateRecordDataFile, PG!UpdateRecordDataFile,
     PG!DeleteRecordDataFile
<1>5. ASSUME NEW a, a.id \in Ids,
             CallAt("ReplaceRecordChildren", a.id, a.upd, SQ!ReplaceRecordChildren(S, now, a),
                    PG!ReplaceRecordChildren(G, Me, now, a))
      PROVE  MeetsContract
  BY <1>1, <1>5, CallMeets, FitsReplaceRecordChildren
<1>6. ASSUME Call("DeleteRecord", "r1", SQ!DeleteRecord(S, "r1"), PG!DeleteRecord(G, Me, "r1"))
      PROVE  MeetsContract
  BY <1>1, <1>6, NamesKnown, CallMeets, FitsDeleteRecord DEF Call
<1>7. \A a \in ChildInputs({"r1", "r2", "x"}) : a.rec \in Ids
  BY ChildIds, NamesKnown
<1> HIDE DEF S, G
<1> QED  BY <1>4, <1>5, <1>6, <1>7, ReplacementIds DEF Children, S, G

LEMMA ChatsMeetContract ==
    ASSUME SInv, Known(pg), Chats
    PROVE  MeetsContract
<1> DEFINE S == Unfired(sq)
           G == Unfired(pg)
<1>1. /\ Ready(G) /\ now \in Nat /\ Tells(G, pg')
      /\ \A op, id, upd, onSQ, onPG : CallAt(op, id, upd, onSQ, onPG) => pg' = onPG.store
  BY CallReady
<1>2. ASSUME NEW a, a.id \in Ids,
             \/ CallAt("UpsertChatSession", StoredId(PG!UpsertChatSession(G, Me, now, a), a), a.upd,
                       SQ!UpsertChatSession(S, now, a), PG!UpsertChatSession(G, Me, now, a))
             \/ CallAt("UpsertChatSessionWithItems",
                       StoredId(PG!UpsertChatSessionWithItems(G, Me, now, a), a), a.upd,
                       SQ!UpsertChatSessionWithItems(S, now, a), PG!UpsertChatSessionWithItems(G, Me, now, a))
      PROVE  MeetsContract
  BY <1>1, <1>2, CallMeets, FitsUpsertChatSession, FitsUpsertChatSessionWithItems
<1>3. ASSUME NEW i \in Ids,
             \/ Call("SoftDeleteChatSession", i, SQ!SoftDeleteChatSession(S, now, i),
                     PG!SoftDeleteChatSession(G, Me, now, i))
             \/ Call("RestoreChatSession", i, SQ!RestoreChatSession(S, now, i),
                     PG!RestoreChatSession(G, Me, now, i))
             \/ Call("DeleteChatSession", i, SQ!DeleteChatSession(S, i), PG!DeleteChatSession(G, Me, i))
      PROVE  MeetsContract
  BY <1>1, <1>3, CallMeets, FitsSoftDeleteChatSession, FitsRestoreChatSession, FitsDeleteChatSession DEF Call
<1>4. ASSUME NEW b, b.id \in Ids, NEW onSQ,
             \/ Call("CreateChatItem", b.id, onSQ, PG!CreateChatItem(G, Me, b))
             \/ Call("AppendChatItems", b.id, onSQ, PG!AppendChatItems(G, Me, b))
             \/ Call("ReplaceChatItems", b.id, onSQ, PG!ReplaceChatItems(G, Me, b))
      PROVE  MeetsContract
  BY <1>1, <1>4, CallMeets, FitsAddItems, FitsReplaceChatItems DEF Call
<1>5. ASSUME NEW a \in ItemInputs,
             \/ Call("CreateChatItem", a.id, SQ!CreateChatItem(S, [a EXCEPT !.items = <<@[1]>>]),
                     PG!CreateChatItem(G, Me, [a EXCEPT !.items = <<@[1]>>]))
             \/ Call("AppendChatItems", a.id, SQ!AppendChatItems(S, a), PG!AppendChatItems(G, Me, a))
             \/ Call("ReplaceChatItems", a.id, SQ!ReplaceChatItems(S, a), PG!ReplaceChatItems(G, Me, a))
      PROVE  MeetsContract
  <2> DEFINE b == [a EXCEPT !.items = <<@[1]>>]
  <2>1. a.id \in Ids /\ b.id = a.id
    BY ChatInputIds
  <2> HIDE DEF b
  <2> QED  BY <1>4, <2>1, <1>5 DEF b
<1>6. /\ \A a \in {b \in ChatInputs : IdFits(sq, b)} : a.id \in Ids
      /\ \A a \in {b \in ChatWithItemsInputs : IdFits(sq, b)} : a.id \in Ids
      /\ \A i \in {"c1", "c2", "y"} : i \in Ids
  BY ChatInputIds, NamesKnown
<1> HIDE DEF S, G
<1> QED  BY <1>2, <1>3, <1>5, <1>6 DEF Chats, S, G

LEMMA RegistryMeetsContract ==
    ASSUME SInv, Known(pg), Registry
    PROVE  MeetsContract
<1> DEFINE S == Unfired(sq)
           G == Unfired(pg)
<1>1. /\ Ready(G) /\ now \in Nat /\ Tells(G, pg')
      /\ \A op, id, upd, onSQ, onPG : CallAt(op, id, upd, onSQ, onPG) => pg' = onPG.store
  BY CallReady
<1>2. ASSUME NEW tab \in EntryTables, NEW op \in EntryOps, NEW i, NEW a, NEW id, NEW arch, NEW onSQ,
             \/ Call(op, i, onSQ, PG!createEntry(G, Me, tab, now, a))
             \/ Call(op, i, onSQ, PG!upsertEntryForImport(G, Me, tab, now, a))
             \/ Call(op, i, onSQ, PG!setArchivedAt(G, Me, tab, now, id, arch))
      PROVE  MeetsContract
  <2> HIDE DEF S, G
  <2>1. CASE Call(op, i, onSQ, PG!createEntry(G, Me, tab, now, a))
    <3>1. Fits(op, i, G, PG!createEntry(G, Me, tab, now, a))
      BY <1>1, <2>1, FitscreateEntry DEF Call
    <3> QED  BY <2>1, <3>1, CallMeets DEF Call, G
  <2>2. CASE Call(op, i, onSQ, PG!upsertEntryForImport(G, Me, tab, now, a))
    BY <1>1, <2>2, FitsupsertEntryForImport, CallMeets DEF Call, G
  <2>3. CASE Call(op, i, onSQ, PG!setArchivedAt(G, Me, tab, now, id, arch))
    BY <1>1, <2>3, FitssetArchivedAt, CallMeets DEF Call, G
  <2> QED  BY <1>2, <2>1, <2>2, <2>3 DEF G
<1>3. /\ "projects" \in EntryTables /\ "devices" \in EntryTables /\ "CreateEntry" \in EntryOps
      /\ "ImportEntry" \in EntryOps /\ "ArchiveEntry" \in EntryOps
  BY DEF EntryTables, EntryOps
<1>4. ASSUME NEW i, NEW a,
             \/ Call("CreateEntry", i, SQ!CreateProject(S, now, a), PG!CreateProject(G, Me, now, a))
             \/ Call("CreateEntry", i, SQ!CreateDevice(S, now, a), PG!CreateDevice(G, Me, now, a))
             \/ Call("ImportEntry", i, SQ!UpsertProjectForImport(S, now, a), PG!UpsertProjectForImport(G, Me, now, a))
             \/ Call("ImportEntry", i, SQ!UpsertDeviceForImport(S, now, a), PG!UpsertDeviceForImport(G, Me, now, a))
      PROVE  MeetsContract
  BY <1>2, <1>3, <1>4
     DEF PG!CreateProject, PG!CreateDevice, PG!UpsertProjectForImport, PG!UpsertDeviceForImport
<1>5. ASSUME NEW i, NEW id,
             \/ Call("ArchiveEntry", i, SQ!ArchiveProject(S, now, id), PG!ArchiveProject(G, Me, now, id))
             \/ Call("ArchiveEntry", i, SQ!RestoreProject(S, now, id), PG!RestoreProject(G, Me, now, id))
             \/ Call("ArchiveEntry", i, SQ!ArchiveDevice(S, now, id), PG!ArchiveDevice(G, Me, now, id))
             \/ Call("ArchiveEntry", i, SQ!RestoreDevice(S, now, id), PG!RestoreDevice(G, Me, now, id))
      PROVE  MeetsContract
  BY <1>2, <1>3, <1>5 DEF PG!ArchiveProject, PG!RestoreProject, PG!ArchiveDevice, PG!RestoreDevice
<1>6. ASSUME NEW i, NEW a,
             \/ Call("UpsertProjectPath", i, SQ!UpsertProjectPath(S, now, a), PG!UpsertProjectPath(G, Me, now, a))
             \/ Call("BackfillChatProjects", i, SQ!BackfillChatProjects(S, now), PG!BackfillChatProjects(G, Me, now))
      PROVE  MeetsContract
  BY <1>1, <1>6, CallMeets, FitsUpsertProjectPath, FitsBackfillChatProjects DEF Call
<1>7. ASSUME NEW i, NEW a,
             \/ Call("CreateTemplate", i, SQ!CreateTemplate(S, now, a), PG!CreateTemplate(G, Me, now, a))
             \/ Call("UpdateTemplate", i, SQ!UpdateTemplate(S, now, a), PG!UpdateTemplate(G, Me, now, a))
             \/ Call("DeleteTemplate", i, SQ!DeleteTemplate(S, a.name), PG!DeleteTemplate(G, Me, a.name))
      PROVE  MeetsContract
  BY <1>1, <1>7, CallMeets, FitsTemplates DEF Call
<1> HIDE DEF S, G
<1> QED  BY <1>4, <1>5, <1>6, <1>7 DEF Registry, S, G

\* The other account's writes show the caller new templates at most.
LEMMA AnotherUserMeetsContract ==
    ASSUME SInv, Known(pg), AnotherUser
    PROVE  MeetsContract
<1>1. StepSeen(Other) /\ Untouched(pg, pg', Other) /\ Me # Other
  BY AnotherUserSeen, AccountsAssumption
<1>2. /\ \A tab \in OwnedTables : OwnRows(pg', tab) = OwnRows(pg, tab)
      /\ \A tab \in ChildTables : ChildrenOf(pg', tab, Me) = ChildrenOf(pg, tab, Me)
      /\ ItemsSeenBy(pg', Me) = ItemsSeenBy(pg, Me)
  BY <1>1 DEF Untouched, UserRows, OwnRows
<1>3. /\ Recs(pg') = Recs(pg) /\ Chats_(pg') = Chats_(pg)
      /\ OwnIdsIn(pg', "records") = OwnIdsIn(pg, "records")
      /\ OwnIdsIn(pg', "sessions") = OwnIdsIn(pg, "sessions")
  BY <1>2 DEF OwnedTables, Recs, Chats_, OwnIdsIn
<1>4. ChildNames(pg') = ChildNames(pg) /\ ItemNames(pg') = ItemNames(pg)
  <2>1. \A s : {j \in s.items : j.sess \in OwnIdsIn(s, "sessions")} = ItemsSeenBy(s, Me)
    BY DEF ItemsSeenBy, OwnIdsIn, OwnRows
  <2>2. /\ KidNames("figures", pg'.figures, OwnIdsIn(pg', "records"))
              = KidNames("figures", pg.figures, OwnIdsIn(pg, "records"))
        /\ KidNames("dataFiles", pg'.dataFiles, OwnIdsIn(pg', "records"))
              = KidNames("dataFiles", pg.dataFiles, OwnIdsIn(pg, "records"))
    BY <1>2 DEF ChildTables, KidNames, ChildrenOf, OwnIdsIn, OwnRows
  <2>3. ItemNames(pg') = ItemNames(pg)
    BY <1>2, <2>1, ItemsRead
  <2> QED  BY <2>2, KidsRead, <2>3
<1>5. EntryNames(pg') # EntryNames(pg) => pg'.fired[Me] > 0
  <2>1. Counting(pg') /\ IsStore(pg) /\ FiniteTables(pg)
    BY <1>1 DEF StepSeen, PGSeen, PGTold, Told, SInv, IInv, Wf
  <2>2. /\ Unfired(pg).fired[Me] = 0 /\ \A tab \in Tables : Unfired(pg)[tab] = pg[tab]
        /\ pg'.fired[Me] \in Nat
    BY <2>1, UnfiredCounting, AccountsInUsers DEF Counting
  <2>3. pg'.fired[Me] = 0 => {Columns(x) : x \in pg'.templates} = {Columns(x) : x \in pg.templates}
    BY <1>1, <2>2, AccountsInUsers DEF StepSeen, PGSeen, PGTold, Told, ViewOf, Tables
  <2>4. Wf(pg) /\ Wf(pg')
    BY FiniteKept DEF SInv, IInv, Next
  <2>5. ASSUME pg'.fired[Me] = 0, NEW c
        PROVE  c \in EntryNames(pg') <=> c \in EntryNames(pg)
    <3>1. /\ \A x \in pg.templates : \E y \in pg'.templates : Columns(y) = Columns(x)
          /\ \A x \in pg'.templates : \E y \in pg.templates : Columns(y) = Columns(x)
      BY <2>3, <2>5
    <3>2. /\ \A x \in pg.templates : Columns(x).name = x.name
          /\ \A x \in pg'.templates : Columns(x).name = x.name
      BY <2>4, ColumnsKeep DEF Wf, RowsTyped, TemplateCols
    <3>3. (\E x \in pg'.templates : c = EntryName("templates", x.name, <<>>, 0))
             <=> \E x \in pg.templates : c = EntryName("templates", x.name, <<>>, 0)
      <4> HIDE DEF EntryName
      <4> QED  BY <3>1, <3>2
    <3> HIDE DEF EntryName
    <3> QED  BY <1>2, <3>3 DEF EntryNames, OwnedTables
  <2>6. pg'.fired[Me] = 0 => EntryNames(pg') = EntryNames(pg)
    BY <2>5, Zenon
  <2> QED  BY <2>6, <2>2
<1>6. call'.op = "AnotherUser"
  BY DEF AnotherUser
<1>7. {e \in EntryNames(pg') : e.tab # "templates"} = {e \in EntryNames(pg) : e.tab # "templates"}
  BY <1>2, EntriesOfTables DEF EntryOf, EntryName, RegistryTables, Shown, OwnRows, OwnedTables
<1>8. CloudContract!AnotherUser
  BY <1>3, <1>4, <1>5, <1>6, <1>7 DEF CloudContract!AnotherUser, Recs, Chats_, Stat
<1>9. CloudContract!Next
  BY <1>8 DEF CloudContract!Next
<1>10. Known(pg')
  BY <1>3 DEF Known
<1> QED  BY <1>9, <1>10 DEF MeetsContract

LEMMA ContractInit ==
    ASSUME Wf(pg), Known(pg)
    PROVE  CloudContract!Init
<1>1. Recs(pg) \in [Ids -> CloudContract!Status] /\ Chats_(pg) \in [Ids -> CloudContract!Status]
  BY DEF Recs, Chats_, Stat, StatusOf, CloudContract!Status
<1>2. \A i \in Ids : Recs(pg)[i] = "absent" \/ Chats_(pg)[i] = "absent"
  BY StatusRead DEF Recs, Chats_, OwnRows, Wf, Refs, Apart
<1>3. \A c \in ChildNames(pg) : Recs(pg)[c.rec] # "absent"
  BY KidsRead, StatusRead DEF KidNames, Known, Recs, OwnIdsIn
<1>4. \A x \in ItemNames(pg) : Chats_(pg)[x.sess] # "absent"
  BY ItemsRead, StatusRead DEF Known, Chats_, OwnIdsIn
<1> QED  BY <1>1, <1>2, <1>3, <1>4 DEF CloudContract!Init, Recs, Chats_, Stat

LEMMA KnownInit == Init => Known(pg)
<1> SUFFICES ASSUME Init
             PROVE  Known(pg)
  OBVIOUS
<1> DEFINE s == Prepared(Me, "r1", "c1", "s1")
           t == Prepared(Other, "x", "y", "s1")
<1>1. Wf(s) /\ (\A r \in s.records : r.id = "r1") /\ \A c \in s.sessions : c.id = "c1"
  BY PreparedWf
<1>2. Wf(t) /\ (\A r \in t.records : r.id = "x") /\ \A c \in t.sessions : c.id = "y"
  BY PreparedWf
<1>3. pg = Merge(s, t)
  BY DEF Init
<1> HIDE DEF s, t
<1>4. pg.records = s.records \cup t.records /\ pg.sessions = s.sessions \cup t.sessions
  BY <1>1, <1>3, StoreDomain DEF Wf, Merge, IsStore, Tables, OwnedTables
<1> QED  BY <1>1, <1>2, <1>4, NamesKnown DEF Known, OwnIdsIn, OwnRows

\* Postgres implements the contract for one account while the other one writes
\* to the same database: every call the contract suite makes, with whatever
\* inputs the specification has, changes of the caller's records, chats,
\* children, items and entries what it names and nothing else, or is refused
\* and changes nothing, and the version moves as the contract has it.
THEOREM CloudImplementsContractHolds == Spec => CloudImplementsContract
<1> DEFINE CInv == SInv /\ Known(pg)
<1>1. Init => CInv
  BY Initial, FiniteInit, KnownInit DEF SInv
<1>2. CInv /\ [Next]_vars => CInv' /\ [CloudContract!Next]_(CloudContract!vars)
  <2> SUFFICES ASSUME CInv, [Next]_vars
               PROVE  CInv' /\ [CloudContract!Next]_(CloudContract!vars)
    OBVIOUS
  <2>1. SInv'
    BY FiniteKept
  <2>2. CASE Next
    BY <2>2, RecordsMeetContract, ChildrenMeetContract, ChatsMeetContract, RegistryMeetsContract,
       AnotherUserMeetsContract, <2>1 DEF Next, MeetsContract
  <2>3. CASE UNCHANGED vars
    BY <2>3, <2>1 DEF vars, Known, OwnIdsIn, OwnRows, CloudContract!vars, CloudContract!content
  <2> QED  BY <2>2, <2>3
<1>3. CInv => CloudContract!Init
  BY ContractInit DEF SInv, IInv
<1> HIDE DEF CInv
<1> QED  BY <1>1, <1>2, <1>3, PTL DEF Spec, CloudImplementsContract, CloudContract!Spec
=============================================================================
