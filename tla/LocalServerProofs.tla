-------------------------- MODULE LocalServerProofs --------------------------
(* LocalServer for any number of connections, records and requests.        *)
EXTENDS LocalServer, FiniteSetTheorems, WellFoundedInduction, TLAPS

(***************************************************************************)
(* The inductive invariant.                                                *)
(***************************************************************************)

\* pc records add has made up an ID, and not yet the record.
Adding == AddAt("row")

\* A request between its read and its write.
Holding(q) == In(q, "patch", "write") \/ In(q, "reorder", "write") \/ In(q, "reorder", "order")

\* It holds writeMu, and what it read of the record is still what is stored, but
\* for the columns that others may write: deleted_at, and what its reorder changed.
Current(q) ==
    /\ mu = q /\ req[q].id \in used /\ req[q].row \in Rec
    /\ Adding => cli.id # req[q].id
    /\ Exists(req[q].id) =>
          LET r == recs[req[q].id] IN
          /\ req[q].row.notes = r.notes /\ req[q].row.project = r.project
          /\ req[q].at = "write" => req[q].row.date = r.date /\ req[q].row.order = r.order

ReadIsCurrent == \A q \in Requests : Holding(q) => Current(q)

\* The ID that pc records add has made up belongs to no record, past or present.
NewIdIsFresh ==
    /\ \A id \in Ids : Exists(id) => id \in used
    /\ \A q \in Requests : req[q] # None => req[q].ids \subseteq used
    /\ Adding => /\ cli.id \in used /\ ~Exists(cli.id)
                 /\ \A q \in Requests : req[q] # None => cli.id \notin req[q].ids

\* What a purge or a gc has listed stays in the trash, or was restored in a race.
ListedIsDead == \A id \in Ids \ atRisk : ListedToPurge(id) => ~Alive(id)

\* Rows go before their files.
RowsGoFirst ==
    /\ \A q \in Requests : In(q, "purge", "remove") => \A id \in req[q].ids \ atRisk : ~Exists(id)
    /\ cli # None /\ cli.op = "gc" /\ cli.at = "dir" => ~Exists(Min(cli.ids))

\* A figure row has its record, and its file: the file comes first and goes last.
FilesStay ==
    /\ \A id \in figs : Exists(id) /\ (id \in dirs \/ id \in atRisk)
    /\ AddAt("figure") /\ Exists(cli.id) => cli.id \in dirs \/ cli.id \in atRisk
    /\ AddAt("clean") /\ Exists(cli.id) => cli.id \in atRisk

IInv ==
    /\ ServerOK /\ ReadIsCurrent /\ NewIdIsFresh /\ ListedIsDead /\ RowsGoFirst /\ FilesStay
    /\ NoLostUpdate /\ PollMissesNothing

-----------------------------------------------------------------------------
(* Numbers and keys *)

\* The least of a set of record IDs.
LEMMA MinLemma ==
    ASSUME NEW S \in SUBSET Nat, S # {}
    PROVE  Min(S) \in S /\ \A y \in S : Min(S) <= y
  <1> DEFINE R == {ss \in Nat \X Nat : ss[1] < ss[2]}
  <1>1. IsWellFoundedOn(R, Nat)
    BY NatLessThanWellFounded DEF OpToRel
  <1>2. \A x, y \in Nat : y < x => <<y, x>> \in R
    OBVIOUS
  <1> HIDE DEF R
  <1>3. PICK x \in S : \A y \in S : ~(<<y, x>> \in R)
    BY <1>1, WFMin
  <1>4. ASSUME NEW y \in S PROVE x <= y
    <2>1. x \in Nat /\ y \in Nat /\ ~(y < x)
      BY <1>2, <1>3
    <2> QED
      BY <2>1
  <1> QED
    BY <1>4 DEF Min

\* The integer key at or before a key.
LEMMA IntegerPartLemma ==
    ASSUME NEW k \in Nat
    PROVE  IntegerPart(k) \in Nat /\ IntegerPart(k) <= k /\ k < IntegerPart(k) + Unit
  <1>1. k % Unit \in Nat /\ k % Unit < Unit /\ k % Unit <= k
    BY KeyAssumption
  <1> QED
    BY <1>1, KeyAssumption DEF IntegerPart

\* fracdex.KeyBetween lies strictly between its ends, wherever there is room.
THEOREM KeyLiesBetween ==
    ASSUME NEW a \in Nat \cup {None}, NEW b \in Nat \cup {None}, KeysInOrder(a, b), KeyFits(a, b)
    PROVE  /\ KeyBetween(a, b) \in Nat
           /\ a # None => a < KeyBetween(a, b)
           /\ b # None => KeyBetween(a, b) < b
  <1>1. KeyBetween(a, b) \in Nat
    BY DEF KeyFits, generateKeyBetween
  <1>2. CASE a = None
    BY <1>1, <1>2, IntegerPartLemma, KeyAssumption DEF KeyBetween
  <1>3. CASE a # None /\ b = None
    BY <1>1, <1>3, IntegerPartLemma, KeyAssumption DEF KeyBetween
  <1>4. CASE a # None /\ b # None
    BY <1>1, <1>4, IntegerPartLemma, KeyAssumption DEF KeyBetween, KeyFits, KeysInOrder
  <1> QED
    BY <1>2, <1>3, <1>4

-----------------------------------------------------------------------------
(* Facts that the steps below share *)

LEMMA Stored ==
    ASSUME ServerOK, NEW id \in Ids, Exists(id)
    PROVE  recs[id] \in Rec /\ recs[id].upd \in Nat /\ recs[id].ver \in Nat /\ recs[id].upd <= clock
  <1>1. recs[id] \in Rec /\ recs[id].upd <= clock
    BY DEF ServerOK, Exists
  <1> QED
    BY <1>1 DEF Rec

AddSteps == {"row", "copy", "figure", "data", "undo", "clean"}

\* The fields of the command that runs.
LEMMA Commands ==
    ASSUME ServerOK, cli # None
    PROVE  /\ cli.op = "gc" => cli.ids \in SUBSET Ids /\ cli.ids # {} /\ Min(cli.ids) \in cli.ids
           /\ cli.op = "add" => cli.id \in Ids /\ cli.date \in Dates /\ cli.order \in Nat
           /\ cli.op \in {"gc", "add"}
  <1>1. CASE cli \in [op: {"add"}, at: AddSteps, id: Ids, date: Dates, order: Nat, ids: {{}}]
    BY <1>1
  <1>2. CASE cli \in [op: {"gc"}, at: {"row", "dir"}, ids: (SUBSET Ids) \ {{}}]
    <2>1. cli.op = "gc" /\ cli.ids \in SUBSET Ids /\ cli.ids # {}
      BY <1>2
    <2> QED
      BY <2>1, MinLemma, ServerAssumption
  <1> QED
    BY <1>1, <1>2 DEF ServerOK, CommandOK, AddSteps

\* The files stay as long as the command that copies them does nothing, and no
\* file goes before its record.
LEMMA FilesKept ==
    ASSUME IInv, figs' \subseteq figs, \A id \in figs' : Exists(id)', \A id \in Ids : Exists(id)' => Exists(id),
           atRisk \subseteq atRisk', dirs' \subseteq dirs, \A id \in dirs \ dirs' : id \in atRisk \/ ~Exists(id),
           cli' = cli \/ (~AddAt("figure")' /\ ~AddAt("clean")')
    PROVE  FilesStay'
  <1>1. \A id \in figs' : Exists(id) /\ (id \in dirs' \/ id \in atRisk')
    BY DEF IInv, FilesStay
  <1>2. ASSUME AddAt("figure")', Exists(cli.id)' PROVE cli'.id \in dirs' \/ cli'.id \in atRisk'
    <2>1. AddAt("figure") /\ cli' = cli
      BY <1>2 DEF AddAt
    <2>2. PICK id \in Ids : id = cli.id
      BY <2>1, Commands DEF IInv, AddAt
    <2>3. Exists(id)'
      BY <1>2, <2>1, <2>2 DEF Exists
    <2> QED
      BY <2>1, <2>2, <2>3 DEF IInv, FilesStay
  <1>3. ASSUME AddAt("clean")', Exists(cli.id)' PROVE cli'.id \in atRisk'
    <2>1. AddAt("clean") /\ cli' = cli
      BY <1>3 DEF AddAt
    <2>2. PICK id \in Ids : id = cli.id
      BY <2>1, Commands DEF IInv, AddAt
    <2>3. Exists(id)'
      BY <1>3, <2>1, <2>2 DEF Exists
    <2> QED
      BY <2>1, <2>2, <2>3 DEF IInv, FilesStay
  <1> QED
    BY <1>1, <1>2, <1>3 DEF FilesStay

\* A step of one request that changes no record, and removes no files of one.
LEMMA RequestStep ==
    ASSUME IInv, NEW q \in Requests, UNCHANGED <<recs, used, figs, cli, clock, poll, last, atRisk>>,
           dirs' \subseteq dirs, \A id \in dirs \ dirs' : id \in atRisk \/ ~Exists(id),
           DOMAIN req' = Requests, \A p \in Requests \ {q} : req'[p] = req[p],
           mu' \in Requests \cup {None}, mu \in {q, None} \/ mu' = mu,
           req'[q] # None =>
              /\ RequestOK(req'[q])
              /\ \/ req'[q].ids \subseteq Trashed /\ (In(q, "purge", "remove")' => req'[q].ids = {})
                 \/ /\ req[q] # None /\ req'[q].ids = req[q].ids /\ req'[q].op = req[q].op
                    /\ In(q, "purge", "remove")' => In(q, "purge", "remove"),
           Holding(q)' => Current(q)'
    PROVE  IInv'
  <1>1. ServerOK'
    BY DEF IInv, ServerOK, Exists, CommandOK
  <1>2. ReadIsCurrent'
    <2>1. ASSUME NEW p \in Requests, p # q, Holding(p)' PROVE Current(p)'
      <3>1. Holding(p) /\ mu = p
        BY <2>1 DEF IInv, ReadIsCurrent, Holding, In, Current
      <3>2. mu' = mu
        BY <2>1, <3>1, ServerAssumption
      <3> QED
        BY <2>1, <3>1, <3>2 DEF IInv, ReadIsCurrent, Current, Exists, Adding, AddAt
    <2> QED
      BY <2>1 DEF ReadIsCurrent
  <1>3. Trashed \subseteq used /\ (Adding => cli.id \notin Trashed) /\ \A id \in Trashed : ~Alive(id)
    BY DEF IInv, NewIdIsFresh, Trashed, Exists, Alive
  <1>4. NewIdIsFresh'
    <2>1. req'[q] # None => req'[q].ids \subseteq used /\ (Adding => cli.id \notin req'[q].ids)
      BY <1>3 DEF IInv, NewIdIsFresh
    <2> QED
      BY <2>1 DEF IInv, NewIdIsFresh, Exists, Adding, AddAt
  <1>5. ListedIsDead'
    <2>1. ASSUME NEW id \in Ids \ atRisk, req'[q] # None, req'[q].op = "purge", id \in req'[q].ids PROVE ~Alive(id)
      BY <1>3, <2>1 DEF IInv, ListedIsDead, ListedToPurge
    <2>2. ASSUME NEW id \in Ids \ atRisk, ListedToPurge(id)' PROVE ~Alive(id)
      BY <2>1, <2>2 DEF IInv, ListedIsDead, ListedToPurge
    <2> QED
      BY <2>2 DEF ListedIsDead, Alive, Exists
  <1>6. RowsGoFirst'
    <2>1. ASSUME NEW p \in Requests, In(p, "purge", "remove")', NEW id \in req'[p].ids \ atRisk PROVE ~Exists(id)
      <3>1. CASE p = q
        BY <2>1, <3>1 DEF IInv, RowsGoFirst, In
      <3>2. CASE p # q
        BY <2>1, <3>2 DEF IInv, RowsGoFirst, In
      <3> QED
        BY <3>1, <3>2
    <2> QED
      BY <2>1 DEF IInv, RowsGoFirst, Exists
  <1>8. FilesStay'
    <2>1. \A id : Exists(id)' <=> Exists(id)
      BY DEF Exists
    <2> QED
      BY <2>1, FilesKept DEF IInv, FilesStay
  <1>7. NoLostUpdate' /\ PollMissesNothing'
    BY DEF IInv, NoLostUpdate, PollMissesNothing, Exists
  <1> QED
    BY <1>1, <1>2, <1>4, <1>5, <1>6, <1>7, <1>8 DEF IInv

\* A write to one row; the request that makes it responds.
LEMMA WriteStep ==
    ASSUME IInv, NEW id \in Ids, Exists(id), NEW r \in Rec, NEW ack \in Rec,
           recs' = [recs EXCEPT ![id] = r], last' = [last EXCEPT ![id] = ack],
           r.upd = clock, \A f \in {"date", "order", "notes", "project", "del"} : r[f] = ack[f],
           UNCHANGED <<used, figs, dirs, cli, clock, poll>>,
           DOMAIN req' = Requests, \A p \in Requests : req'[p] = req[p] \/ req'[p] = None,
           mu' \in Requests \cup {None}, \A p \in Requests : req'[p] # None /\ mu = p => mu' = p,
           \/ \A p \in Requests : mu = p => req'[p] = None
           \/ \A f \in {"date", "order", "notes", "project"} : r[f] = recs[id][f],
           atRisk \subseteq atRisk', atRisk' \subseteq Ids,
           r.del \/ ~recs[id].del \/ ~ListedToPurge(id) \/ id \in atRisk'
    PROVE  IInv'
  <1>1. /\ recs' \in [Ids -> Rec \cup {None}] /\ last' \in [Ids -> Rec \cup {None}]
        /\ \A x \in Ids : /\ recs'[x] = IF x = id THEN r ELSE recs[x]
                          /\ last'[x] = IF x = id THEN ack ELSE last[x]
    BY DEF IInv, ServerOK
  <1>2. r # None /\ ack # None
    BY ServerAssumption
  <1>3. \A x \in Ids : Exists(x)' = Exists(x)
    BY <1>1, <1>2 DEF Exists
  <1>4. ServerOK'
    <2>1. clock \in Nat /\ \A x \in Ids : Exists(x)' => recs'[x].upd <= clock'
      BY <1>1, <1>3 DEF IInv, ServerOK
    <2>2. \A p \in Requests : req'[p] # None => RequestOK(req'[p])
      BY DEF IInv, ServerOK
    <2> QED
      BY <1>1, <2>1, <2>2 DEF IInv, ServerOK, CommandOK
  <1>5. ReadIsCurrent'
    <2>1. ASSUME NEW p \in Requests, Holding(p)' PROVE Current(p)'
      <3>1. req'[p] = req[p] /\ req'[p] # None /\ Holding(p) /\ Current(p)
        BY <2>1 DEF IInv, ReadIsCurrent, Holding, In
      <3>2. mu = p /\ mu' = p
        BY <3>1 DEF Current
      <3>3. \A f \in {"date", "order", "notes", "project"} : r[f] = recs[id][f]
        BY <3>1, <3>2
      <3>4. PICK x \in Ids : x = req[p].id
        BY <3>1 DEF IInv, ServerOK, RequestOK, Holding, In
      <3>5. \A f \in {"date", "order", "notes", "project"} : recs'[x][f] = recs[x][f]
        BY <1>1, <3>3
      <3>6. Exists(x)' = Exists(x)
        BY <1>3
      <3>7. recs'[x].notes = recs[x].notes /\ recs'[x].project = recs[x].project /\ recs'[x].date = recs[x].date /\ recs'[x].order = recs[x].order
        BY <3>5
      <3> QED
        BY <3>1, <3>2, <3>4, <3>6, <3>7 DEF Current, Adding, AddAt, Exists
    <2> QED
      BY <2>1 DEF ReadIsCurrent
  <1>6. NewIdIsFresh'
    <2>1. Adding => cli.id \in Ids
      BY DEF IInv, ServerOK, CommandOK, Adding, AddAt
    <2> QED
      BY <1>3, <2>1 DEF IInv, NewIdIsFresh, Adding, AddAt
  <1>7. ListedIsDead'
    <2>1. \A x : ListedToPurge(x)' => ListedToPurge(x)
      BY DEF ListedToPurge
    <2>2. ASSUME NEW x \in Ids \ atRisk', ListedToPurge(x) PROVE ~Alive(x)'
      <3>1. CASE x = id
        BY <1>1, <2>2, <3>1 DEF IInv, ListedIsDead, Alive
      <3>2. CASE x # id
        BY <1>1, <2>2, <3>2 DEF IInv, ListedIsDead, Alive, Exists
      <3> QED
        BY <3>1, <3>2
    <2> QED
      BY <2>1, <2>2 DEF ListedIsDead
  <1>8. RowsGoFirst'
    <2>1. \A p \in Requests : In(p, "purge", "remove")' => In(p, "purge", "remove") /\ req'[p] = req[p] /\ req[p].ids \subseteq Ids
      BY DEF In, IInv, ServerOK, RequestOK
    <2>2. ASSUME cli # None, cli.op = "gc", cli.at = "dir" PROVE ~Exists(Min(cli.ids))'
      <3>1. PICK x \in Ids : x = Min(cli.ids)
        BY <2>2, Commands DEF IInv
      <3> QED
        BY <1>3, <2>2, <3>1 DEF IInv, RowsGoFirst, Exists
    <2> QED
      BY <1>3, <2>1, <2>2 DEF IInv, RowsGoFirst
  <1>9. FilesStay'
    <2>1. \A x \in figs' : Exists(x)'
      BY <1>3 DEF IInv, FilesStay, ServerOK
    <2> QED
      BY <1>3, <2>1, FilesKept
  <1>10. NoLostUpdate'
    BY ZenonT(60), <1>1, <1>2, <1>3 DEF IInv, NoLostUpdate
  <1>11. PollMissesNothing'
    <2>1. poll # None => poll.since \in 0..clock
      BY DEF IInv, ServerOK
    <2> QED
      BY <1>1, <1>3, <2>1 DEF IInv, ServerOK, PollMissesNothing
  <1> QED
    BY <1>4, <1>5, <1>6, <1>7, <1>8, <1>9, <1>10, <1>11 DEF IInv

\* Rows are deleted: nobody reads them any more, and their files follow.
LEMMA DeleteStep ==
    ASSUME IInv, NEW ids \in SUBSET Ids, DeleteRows(ids), UNCHANGED <<used, dirs, clock, poll, atRisk, mu>>, FilesStay',
           DOMAIN req' = Requests, \A p \in Requests : req'[p] # None => RequestOK(req'[p]),
           \A p \in Requests : /\ (req'[p] # None => req[p] # None)
                               /\ Holding(p)' => req'[p] = req[p]
                               /\ req[p] # None => req'[p].op = req[p].op /\ req'[p].ids = req[p].ids
                               /\ In(p, "purge", "remove")' =>
                                     In(p, "purge", "remove") \/ \A id \in req'[p].ids \ atRisk : ~Exists(id)',
           CommandOK', ~Adding' \/ cli' = cli,
           cli' # None /\ cli'.op = "gc" => /\ cli # None /\ cli.op = "gc" /\ cli'.ids = cli.ids
                                            /\ cli'.at = "dir" => cli.at = "dir" \/ Min(cli.ids) \in ids
    PROVE  IInv'
  <1>1. /\ recs' = [id \in Ids |-> IF id \in ids THEN None ELSE recs[id]]
        /\ last' = [id \in Ids |-> IF id \in ids THEN None ELSE last[id]]
        /\ figs' = figs \ ids
    BY DEF DeleteRows
  <1>2. /\ recs' \in [Ids -> Rec \cup {None}] /\ last' \in [Ids -> Rec \cup {None}]
        /\ \A x \in Ids : /\ recs'[x] = IF x \in ids THEN None ELSE recs[x]
                          /\ last'[x] = IF x \in ids THEN None ELSE last[x]
    BY <1>1 DEF IInv, ServerOK
  <1>3. \A x \in Ids : Exists(x)' => Exists(x) /\ recs'[x] = recs[x] /\ x \notin ids
    BY <1>2 DEF Exists
  <1>4. ServerOK'
    BY <1>1, <1>2, <1>3 DEF IInv, ServerOK
  <1>5. ReadIsCurrent'
    <2>1. ASSUME NEW p \in Requests, Holding(p)' PROVE Current(p)'
      <3>1. req'[p] = req[p] /\ Holding(p) /\ Current(p)
        BY <2>1 DEF IInv, ReadIsCurrent, Holding, In
      <3>2. req[p].id \in Ids
        BY <3>1 DEF IInv, ServerOK, RequestOK, Holding, In
      <3>3. Adding' => Adding /\ cli' = cli
        BY DEF Adding, AddAt
      <3> QED
        BY <1>3, <3>1, <3>2, <3>3 DEF Current
    <2> QED
      BY <2>1 DEF ReadIsCurrent
  <1>6. NewIdIsFresh'
    <2>1. Adding' => Adding /\ cli' = cli /\ cli.id \in Ids
      BY DEF IInv, ServerOK, CommandOK, Adding, AddAt
    <2> QED
      BY <1>3, <2>1 DEF IInv, NewIdIsFresh
  <1>7. ListedIsDead'
    <2>1. \A x : ListedToPurge(x)' => ListedToPurge(x)
      BY DEF ListedToPurge
    <2> QED
      BY <1>3, <2>1 DEF IInv, ListedIsDead, Alive
  <1>8. RowsGoFirst'
    <2>1. ASSUME NEW p \in Requests, In(p, "purge", "remove")', NEW id \in req'[p].ids \ atRisk' PROVE ~Exists(id)'
      <3>1. CASE In(p, "purge", "remove")
        <4>1. id \in Ids /\ ~Exists(id)
          BY <2>1, <3>1 DEF IInv, RowsGoFirst, ServerOK, RequestOK, In
        <4> QED
          BY <1>3, <4>1
      <3> QED
        BY <2>1, <3>1
    <2>2. ASSUME cli' # None, cli'.op = "gc", cli'.at = "dir" PROVE ~Exists(Min(cli.ids))'
      <3>1. PICK x \in Ids : x = Min(cli.ids)
        BY <2>2, Commands DEF IInv
      <3>2. Min(cli'.ids) = x
        BY <2>2, <3>1
      <3>3. ~Exists(x)'
        BY <1>2, <1>3, <2>2, <3>1 DEF IInv, RowsGoFirst, Exists
      <3> QED
        BY <3>2, <3>3 DEF Exists
    <2> QED
      BY <2>1, <2>2 DEF RowsGoFirst
  <1>10. NoLostUpdate'
    BY <1>2, <1>3 DEF IInv, NoLostUpdate, Exists
  <1>11. PollMissesNothing'
    BY <1>3 DEF IInv, PollMissesNothing
  <1> QED
    BY <1>4, <1>5, <1>6, <1>7, <1>8, <1>10, <1>11 DEF IInv

\* Nor do they keep a figure row.
LEMMA DeletedFiles ==
    ASSUME IInv, NEW ids \in SUBSET Ids, DeleteRows(ids), UNCHANGED <<dirs, atRisk>>,
           cli' = cli \/ (~AddAt("figure")' /\ ~AddAt("clean")')
    PROVE  FilesStay'
  <1>1. \A x \in Ids : recs'[x] = IF x \in ids THEN None ELSE recs[x]
    BY DEF DeleteRows
  <1>2. figs' = figs \ ids /\ figs \subseteq Ids
    BY DEF DeleteRows, IInv, ServerOK
  <1>3. \A x \in Ids : Exists(x)' => Exists(x)
    BY <1>1 DEF Exists
  <1>4. \A x \in figs' : Exists(x)'
    BY <1>1, <1>2 DEF Exists, IInv, FilesStay
  <1> QED
    BY <1>2, <1>3, <1>4, FilesKept

-----------------------------------------------------------------------------
(* Requests *)

\* A request goes on: its handler moves, reads a row, or lists IDs.
Move(r, at) == [r EXCEPT !.at = at]
Read(r, at, row) == [r EXCEPT !.at = at, !.row = row]
List(r, ids, at) == [r EXCEPT !.ids = ids, !.at = at]

LEMMA Moved ==
    ASSUME NEW r, RequestOK(r), NEW at
    PROVE  /\ RequestOK(Move(r, at)) /\ Move(r, at).at = at
           /\ Move(r, at).op = r.op /\ Move(r, at).id = r.id /\ Move(r, at).arg = r.arg
           /\ Move(r, at).row = r.row /\ Move(r, at).ids = r.ids
  BY DEF RequestOK, Move

LEMMA HasRead ==
    ASSUME NEW r, RequestOK(r), NEW at, NEW row
    PROVE  /\ RequestOK(Read(r, at, row)) /\ Read(r, at, row).at = at /\ Read(r, at, row).row = row
           /\ Read(r, at, row).op = r.op /\ Read(r, at, row).id = r.id /\ Read(r, at, row).arg = r.arg
           /\ Read(r, at, row).ids = r.ids
  BY DEF RequestOK, Read

LEMMA HasListed ==
    ASSUME NEW r, RequestOK(r), NEW at, NEW ids \in SUBSET Ids
    PROVE  /\ RequestOK(List(r, ids, at)) /\ List(r, ids, at).at = at /\ List(r, ids, at).ids = ids
           /\ List(r, ids, at).op = r.op /\ List(r, ids, at).id = r.id /\ List(r, ids, at).arg = r.arg
           /\ List(r, ids, at).row = r.row
  BY DEF RequestOK, List

LEMMA ReceiveStep ==
    ASSUME IInv, NEW q \in Requests, Receive(q)
    PROVE  IInv'
  <1>1. DOMAIN req' = Requests /\ \A p \in Requests \ {q} : req'[p] = req[p]
    BY DEF Receive, IInv, ServerOK
  <1>2. \E op, id, arg : req'[q] = Request(op, id, arg) /\ RequestOK(Request(op, id, arg))
    <2>1. ASSUME NEW id \in Ids, NEW field \in {"notes", "project"}, NEW v \in Values
          PROVE  RequestOK(Request("patch", id, [field |-> field, value |-> v]))
      BY DEF RequestOK, Request
    <2>2. ASSUME NEW id \in Ids, NEW date \in Dates, NEW kind \in Kinds, NEW ref \in Ids
          PROVE  RequestOK(Request("reorder", id, [date |-> date, kind |-> kind, ref |-> ref, inOrder |-> TRUE]))
      BY DEF RequestOK, Request
    <2>3. ASSUME NEW id \in Ids, NEW op \in {"delete", "restore"} PROVE RequestOK(Request(op, id, None))
      <3>1. op # "patch" /\ op # "reorder"
        OBVIOUS
      <3>2. Request(op, id, None).op = op /\ Request(op, id, None).id = id /\ Request(op, id, None).ids = {}
        BY DEF Request
      <3>3. DOMAIN Request(op, id, None) = {"op", "id", "arg", "at", "row", "ids", "day"}
        BY DEF Request
      <3> QED
        BY <3>1, <3>2, <3>3 DEF RequestOK
    <2>0. RequestOK(Request("purge", None, None))
      BY DEF RequestOK, Request
    <2>4. DOMAIN req = Requests
      BY DEF IInv, ServerOK
    <2>5. CASE \E id \in Ids, field \in {"notes", "project"}, v \in Values :
                  req' = [req EXCEPT ![q] = Request("patch", id, [field |-> field, value |-> v])]
      BY <2>1, <2>4, <2>5
    <2>6. CASE \E id \in Ids, date \in Dates, kind \in Kinds, ref \in Ids :
                  req' = [req EXCEPT ![q] = Request("reorder", id, [date |-> date, kind |-> kind, ref |-> ref, inOrder |-> TRUE])]
      BY <2>2, <2>4, <2>6
    <2>7. CASE \E id \in Ids, op \in {"delete", "restore"} : req' = [req EXCEPT ![q] = Request(op, id, None)]
      BY <2>3, <2>4, <2>7
    <2>8. CASE req' = [req EXCEPT ![q] = Request("purge", None, None)]
      BY <2>0, <2>4, <2>8
    <2>9. \/ \E id \in Ids, field \in {"notes", "project"}, v \in Values :
                req' = [req EXCEPT ![q] = Request("patch", id, [field |-> field, value |-> v])]
          \/ \E id \in Ids, date \in Dates, kind \in Kinds, ref \in Ids :
                req' = [req EXCEPT ![q] = Request("reorder", id, [date |-> date, kind |-> kind, ref |-> ref, inOrder |-> TRUE])]
          \/ \E id \in Ids, op \in {"delete", "restore"} : req' = [req EXCEPT ![q] = Request(op, id, None)]
          \/ req' = [req EXCEPT ![q] = Request("purge", None, None)]
      BY ZenonT(30) DEF Receive
    <2> QED
      BY <2>5, <2>6, <2>7, <2>8, <2>9
  <1>3. RequestOK(req'[q]) /\ req'[q].ids = {} /\ req'[q].at = "begin"
    BY <1>2 DEF Request
  <1>4. ~Holding(q)' /\ ~In(q, "purge", "remove")'
    BY <1>3 DEF Holding, In
  <1>5. UNCHANGED <<recs, used, figs, dirs, cli, clock, poll, last, atRisk, mu>>
    BY DEF Receive, clients
  <1>6. mu \in Requests \cup {None}
    BY DEF IInv, ServerOK
  <1> QED
    BY <1>1, <1>3, <1>4, <1>5, <1>6, RequestStep

\* What the request at hand has.
LEMMA InProgress ==
    ASSUME IInv, NEW q \in Requests, req[q] # None
    PROVE  RequestOK(req[q]) /\ q # None /\ mu \in Requests \cup {None} /\ DOMAIN req = Requests
  BY ServerAssumption DEF IInv, ServerOK

LEMMA ReadStep ==
    ASSUME IInv, NEW q \in Requests, readForUpdate(q)
    PROVE  IInv'
  <1> DEFINE at == IF Alive(req[q].id) THEN "write" ELSE "fail"
             row == recs[req[q].id]
  <1>1. req[q] # None /\ req[q].op \in {"patch", "reorder"} /\ mu = None /\ mu' = q /\ req[q].at = "begin"
    BY DEF readForUpdate, In, lockWriteMu
  <1>2. UNCHANGED <<recs, used, figs, dirs, cli, clock, poll, last, atRisk>>
    BY DEF readForUpdate, NoWrite
  <1>3. RequestOK(req[q]) /\ q # None /\ DOMAIN req = Requests
    BY <1>1, InProgress
  <1>4. PICK id \in Ids : id = req[q].id
    BY <1>1, <1>3 DEF RequestOK
  <1>5. req' = [req EXCEPT ![q] = Read(req[q], at, row)]
    BY <1>3 DEF readForUpdate, Read
  <1> HIDE DEF at, row
  <1>6. DOMAIN req' = Requests /\ (\A p \in Requests \ {q} : req'[p] = req[p]) /\ req'[q] = Read(req[q], at, row)
    BY <1>3, <1>5
  <1>7. /\ RequestOK(req'[q]) /\ req'[q].at = at /\ req'[q].row = row
        /\ req'[q].op = req[q].op /\ req'[q].id = id /\ req'[q].ids = req[q].ids
    BY <1>3, <1>4, <1>6, HasRead
  <1>8. ~In(q, "purge", "remove")'
    BY <1>1, <1>7 DEF In
  <1>9. Holding(q)' => Current(q)'
    <2>1. SUFFICES ASSUME Holding(q)' PROVE Current(q)'
      OBVIOUS
    <2>2. at = "write" /\ Alive(id) /\ row = recs[id]
      BY <1>4, <1>7, <2>1 DEF at, row, Holding, In
    <2>3. recs[id] \in Rec /\ id \in used
      BY <2>2, Stored DEF IInv, NewIdIsFresh, Alive
    <2>4. Adding => cli.id # id
      BY <2>2 DEF IInv, NewIdIsFresh, Alive
    <2> QED
      BY <1>1, <1>2, <1>7, <2>2, <2>3, <2>4 DEF Current, Adding, AddAt, Exists
  <1> QED
    BY <1>1, <1>2, <1>6, <1>7, <1>8, <1>9, RequestStep

\* The handler ends without a write.
LEMMA RespondStep ==
    ASSUME IInv, NEW q \in Requests, Respond(q), Unlock(q) \/ UNCHANGED mu,
           UNCHANGED <<recs, used, figs, cli, clock, poll, last, atRisk>>,
           dirs' \subseteq dirs, \A id \in dirs \ dirs' : id \in atRisk \/ ~Exists(id)
    PROVE  IInv'
  <1>1. DOMAIN req = Requests /\ mu \in Requests \cup {None}
    BY DEF IInv, ServerOK
  <1>2. DOMAIN req' = Requests /\ req'[q] = None /\ \A p \in Requests \ {q} : req'[p] = req[p]
    BY <1>1 DEF Respond
  <1>3. mu' \in Requests \cup {None} /\ (mu \in {q, None} \/ mu' = mu)
    BY <1>1 DEF Unlock
  <1>4. ~Holding(q)'
    BY <1>2 DEF Holding, In
  <1> QED
    BY <1>2, <1>3, <1>4, RequestStep

LEMMA NotFoundStep ==
    ASSUME IInv, NEW q \in Requests, notFound(q)
    PROVE  IInv'
  BY RespondStep DEF notFound, NoWrite

\* placeRecord: the new date and key, in the row and in the request.
Place(r, date, order, day, inOrder) ==
    [r EXCEPT !.at = "order", !.day = day, !.row = [r.row EXCEPT !.date = date, !.order = order],
              !.arg = [r.arg EXCEPT !.inOrder = inOrder]]

LEMMA HasPlaced ==
    ASSUME NEW r, RequestOK(r), r.op = "reorder", r.row \in Rec,
           NEW date \in Dates, NEW order \in Nat, NEW day, NEW inOrder \in BOOLEAN
    PROVE  LET n == Place(r, date, order, day, inOrder) IN
           /\ RequestOK(n) /\ n.at = "order" /\ n.op = "reorder" /\ n.id = r.id /\ n.ids = r.ids
           /\ n.row \in Rec /\ n.row.notes = r.row.notes /\ n.row.project = r.row.project
  <1> DEFINE n == Place(r, date, order, day, inOrder)
             a == [r.arg EXCEPT !.inOrder = inOrder]
             w == [r.row EXCEPT !.date = date, !.order = order]
  <1>1. a \in [date: Dates, kind: Kinds, ref: Ids, inOrder: BOOLEAN]
    BY DEF RequestOK
  <1>2. w \in Rec /\ w.notes = r.row.notes /\ w.project = r.row.project
    BY DEF Rec
  <1>3. /\ n.op = r.op /\ n.id = r.id /\ n.ids = r.ids /\ n.at = "order" /\ n.arg = a /\ n.row = w
        /\ DOMAIN n = {"op", "id", "arg", "at", "row", "ids", "day"}
    BY DEF Place, RequestOK
  <1> HIDE DEF n, a, w
  <1>4. RequestOK(n)
    BY <1>1, <1>3 DEF RequestOK
  <1> QED
    BY <1>2, <1>3, <1>4 DEF n

\* What the mutex gives to a handler that has read its record.
LEMMA Held ==
    ASSUME IInv, NEW q \in Requests, Holding(q)
    PROVE  /\ mu = q /\ q # None /\ RequestOK(req[q]) /\ req[q].id \in Ids /\ req[q].row \in Rec
           /\ Current(q) /\ DOMAIN req = Requests
  <1>1. Current(q) /\ RequestOK(req[q]) /\ DOMAIN req = Requests /\ q # None
    BY ServerAssumption DEF IInv, ReadIsCurrent, ServerOK, Holding, In
  <1> QED
    BY <1>1 DEF Current, RequestOK, Holding, In

LEMMA PlaceStep ==
    ASSUME IInv, NEW q \in Requests, placeRecord(q)
    PROVE  IInv'
  <1> DEFINE arg == req[q].arg
             siblings == siblingsOf(arg.date, req[q].id)
             ends == Around(siblings, arg.kind, arg.ref)
             found == ReferenceFound(siblings, arg.kind, arg.ref)
             key == generateKeyBetween(ends[1], ends[2])
             inOrder == KeysInOrder(ends[1], ends[2])
  <1>1. Holding(q) /\ req[q] # None /\ req[q].op = "reorder" /\ req[q].at = "write"
    BY DEF placeRecord, Holding, In
  <1>2. /\ mu = q /\ q # None /\ RequestOK(req[q]) /\ req[q].id \in Ids /\ req[q].row \in Rec
        /\ Current(q) /\ DOMAIN req = Requests
    BY <1>1, Held
  <1>3. UNCHANGED <<recs, used, figs, dirs, cli, clock, poll, last, atRisk, mu>>
    BY DEF placeRecord, NoWrite
  <1>4. /\ found => key \in Nat
        /\ req' = [req EXCEPT ![q] = IF found THEN Place(req[q], arg.date, key, siblings, inOrder)
                                              ELSE Move(req[q], "fail")]
    <2>1. found => key \in Nat
      BY DEF placeRecord, KeyFits
    <2>2. req' = [req EXCEPT ![q] = IF found THEN Place(req[q], arg.date, key, siblings, inOrder)
                                            ELSE Move(req[q], "fail")]
      BY <1>2 DEF placeRecord, Place, Move
    <2> QED
      BY <2>1, <2>2
  <1>5. inOrder \in BOOLEAN /\ arg.date \in Dates
    BY <1>1, <1>2 DEF RequestOK, KeysInOrder
  <1> HIDE DEF arg, siblings, ends, found, key, inOrder
  <1>6. /\ DOMAIN req' = Requests /\ \A p \in Requests \ {q} : req'[p] = req[p]
        /\ req'[q] = IF found THEN Place(req[q], arg.date, key, siblings, inOrder) ELSE Move(req[q], "fail")
    BY <1>2, <1>4
  <1>7. CASE found
    <2>1. /\ RequestOK(req'[q]) /\ req'[q].at = "order" /\ req'[q].op = "reorder" /\ req'[q].id = req[q].id
          /\ req'[q].ids = req[q].ids
          /\ req'[q].row \in Rec /\ req'[q].row.notes = req[q].row.notes /\ req'[q].row.project = req[q].row.project
      BY <1>1, <1>2, <1>4, <1>5, <1>6, <1>7, HasPlaced
    <2>2. Current(q)'
      BY <1>2, <1>3, <2>1 DEF Current, Adding, AddAt, Exists
    <2>3. ~In(q, "purge", "remove")'
      BY <2>1 DEF In
    <2> QED
      BY <1>1, <1>2, <1>3, <1>6, <2>1, <2>2, <2>3, RequestStep
  <1>8. CASE ~found
    <2>1. /\ RequestOK(req'[q]) /\ req'[q].at = "fail" /\ req'[q].op = "reorder" /\ req'[q].ids = req[q].ids
      BY <1>1, <1>2, <1>6, <1>8, Moved
    <2>2. ~Holding(q)' /\ ~In(q, "purge", "remove")'
      BY <2>1 DEF Holding, In
    <2> QED
      BY <1>1, <1>2, <1>3, <1>6, <2>1, <2>2, RequestStep
  <1> QED
    BY <1>7, <1>8

LEMMA CheckStep ==
    ASSUME IInv, NEW q \in Requests, checkRecord(q)
    PROVE  IInv'
  <1>1. UNCHANGED <<recs, used, figs, dirs, cli, clock, poll, last, atRisk, mu>>
    BY DEF checkRecord, NoWrite
  <1>2. req[q] # None /\ req[q].op \in {"delete", "restore"} /\ RequestOK(req[q]) /\ DOMAIN req = Requests
        /\ mu \in Requests \cup {None}
    BY InProgress DEF checkRecord, In
  <1>3. CASE Respond(q)
    BY <1>1, <1>3, RespondStep
  <1>4. CASE At(q, "write")
    <2>1. /\ DOMAIN req' = Requests /\ req'[q] = Move(req[q], "write")
          /\ \A p \in Requests \ {q} : req'[p] = req[p]
      BY <1>2, <1>4 DEF At, Move
    <2>2. RequestOK(req'[q]) /\ req'[q].op = req[q].op /\ req'[q].ids = req[q].ids
      BY <1>2, <2>1, Moved
    <2>3. ~Holding(q)' /\ ~In(q, "purge", "remove")'
      BY <1>2, <2>2 DEF Holding, In
    <2> QED
      BY <1>1, <1>2, <2>1, <2>2, <2>3, RequestStep
  <1> QED
    BY <1>3, <1>4 DEF checkRecord

LEMMA PurgeListStep ==
    ASSUME IInv, NEW q \in Requests, purgeList(q)
    PROVE  IInv'
  <1> DEFINE at == IF purgedIDs = {} THEN "remove" ELSE "delete"
  <1>1. UNCHANGED <<recs, used, figs, dirs, cli, clock, poll, last, atRisk>> /\ mu = None /\ mu' = q
    BY DEF purgeList, NoWrite, lockWriteMu
  <1>2. req[q] # None /\ req[q].op = "purge" /\ RequestOK(req[q]) /\ DOMAIN req = Requests
    BY InProgress DEF purgeList, In
  <1>3. /\ DOMAIN req' = Requests /\ req'[q] = List(req[q], purgedIDs, at)
        /\ \A p \in Requests \ {q} : req'[p] = req[p]
    BY <1>2 DEF purgeList, List
  <1>4. purgedIDs \in SUBSET Ids /\ purgedIDs = Trashed
    BY DEF purgedIDs, Trashed
  <1>5. RequestOK(req'[q]) /\ req'[q].op = "purge" /\ req'[q].ids = purgedIDs /\ req'[q].at = at
    BY <1>2, <1>3, <1>4, HasListed
  <1>6. ~Holding(q)' /\ (In(q, "purge", "remove")' => req'[q].ids = {})
    BY <1>5 DEF Holding, In
  <1> QED
    BY <1>1, <1>3, <1>4, <1>5, <1>6, RequestStep

\* The directories that a purge removes belong to no record, but for atRisk ones.
LEMMA PurgeTrashStep ==
    ASSUME IInv, NEW q \in Requests, handlePurgeTrash(q)
    PROVE  IInv'
  <1>1. dirs' = dirs \ req[q].ids
    BY DEF handlePurgeTrash
  <1>2. \A id \in dirs \ dirs' : id \in atRisk \/ ~Exists(id)
    BY <1>1 DEF handlePurgeTrash, IInv, RowsGoFirst
  <1> QED
    BY <1>1, <1>2, RespondStep DEF handlePurgeTrash, NoWrite

-----------------------------------------------------------------------------
(* Writes *)

\* The trigger of an update, and what it leaves.
LEMMA Updated ==
    ASSUME ServerOK, NEW id \in Ids, Exists(id), NEW w \in Rec
    PROVE  /\ Update(id, w) \in Rec /\ Update(id, w).upd = clock
           /\ \A f \in {"date", "order", "notes", "project", "del"} : Update(id, w)[f] = w[f]
  <1>1. clock \in Nat /\ recs[id].ver + 1 \in Nat
    BY Stored DEF ServerOK
  <1> QED
    BY <1>1 DEF Update, Rec

\* The row that a write of the columns other than deleted_at makes.
LEMMA Merged ==
    ASSUME ServerOK, NEW id \in Ids, Exists(id), NEW row \in Rec
    PROVE  /\ Merge(id, row) \in Rec /\ Merge(id, row).del = recs[id].del
           /\ Merge(id, row).date = row.date /\ Merge(id, row).order = row.order
           /\ Merge(id, row).notes = row.notes /\ Merge(id, row).project = row.project
  BY Stored DEF Merge, Rec

\* What is stored is what was acknowledged.
LEMMA Acknowledged ==
    ASSUME IInv, NEW id \in Ids, Exists(id)
    PROVE  /\ last[id] \in Rec
           /\ last[id].date = recs[id].date /\ last[id].order = recs[id].order /\ last[id].notes = recs[id].notes
           /\ last[id].project = recs[id].project /\ last[id].del = recs[id].del
  BY DEF IInv, ServerOK, NoLostUpdate

\* A handler that holds writeMu writes the row, and acknowledges what it wrote.
LEMMA LockedWriteStep ==
    ASSUME IInv, NEW q \in Requests, Holding(q), NEW id \in Ids, Exists(id), NEW w \in Rec, NEW ack \in Rec,
           w.del = recs[id].del, \A f \in {"date", "order", "notes", "project", "del"} : w[f] = ack[f],
           recs' = [recs EXCEPT ![id] = Update(id, w)], last' = [last EXCEPT ![id] = ack],
           Respond(q), Unlock(q), UNCHANGED <<used, figs, dirs, cli, clock, poll, atRisk>>
    PROVE  IInv'
  <1> DEFINE r == Update(id, w)
  <1>1. r \in Rec /\ r.upd = clock /\ \A f \in {"date", "order", "notes", "project", "del"} : r[f] = w[f]
    BY Updated DEF IInv
  <1> HIDE DEF r
  <1>2. /\ DOMAIN req' = Requests /\ \A p \in Requests : req'[p] = req[p] \/ req'[p] = None
        /\ mu' = None /\ \A p \in Requests : mu = p => req'[p] = None
    BY Held DEF Respond, Unlock
  <1>3. atRisk \subseteq atRisk' /\ atRisk' \subseteq Ids
    BY DEF IInv, ServerOK
  <1>4. r.del = recs[id].del
    BY <1>1
  <1>5. r.del \/ ~recs[id].del \/ ~ListedToPurge(id) \/ id \in atRisk'
    BY <1>4 DEF IInv, ServerOK, Exists, Rec
  <1>6. /\ \A p \in Requests : req'[p] # None /\ mu = p => mu' = p
        /\ mu' \in Requests \cup {None}
    BY <1>2
  <1>7. \A f \in {"date", "order", "notes", "project", "del"} : r[f] = ack[f]
    BY <1>1
  <1> QED
    BY <1>1, <1>2, <1>3, <1>5, <1>6, <1>7, WriteStep DEF r

\* deleted_at is written, by a handler or a command that holds no lock.
LEMMA TrashStep ==
    ASSUME IInv, NEW id \in Ids, Exists(id), NEW d \in BOOLEAN,
           SetRow(id, [recs[id] EXCEPT !.del = d], [last[id] EXCEPT !.del = d]),
           UNCHANGED <<used, dirs, cli, clock, poll, mu>>,
           DOMAIN req' = Requests, \A p \in Requests : req'[p] = req[p] \/ req'[p] = None,
           atRisk \subseteq atRisk', atRisk' \subseteq Ids,
           d \/ ~ListedToPurge(id) \/ id \in atRisk'
    PROVE  IInv'
  <1> DEFINE w == [recs[id] EXCEPT !.del = d]
             ack == [last[id] EXCEPT !.del = d]
             r == Update(id, w)
  <1>1. recs' = [recs EXCEPT ![id] = r] /\ last' = [last EXCEPT ![id] = ack] /\ UNCHANGED figs
    BY DEF SetRow
  <1>2. recs[id] \in Rec /\ last[id] \in Rec
    BY Stored, Acknowledged DEF IInv
  <1>3. /\ w \in Rec /\ ack \in Rec /\ w.del = d
        /\ w.date = recs[id].date /\ w.order = recs[id].order /\ w.notes = recs[id].notes /\ w.project = recs[id].project
        /\ ack.date = recs[id].date /\ ack.order = recs[id].order /\ ack.notes = recs[id].notes
        /\ ack.project = recs[id].project /\ ack.del = d
    BY <1>2, Acknowledged DEF Rec
  <1> HIDE DEF w, ack
  <1>4. r \in Rec /\ r.upd = clock /\ \A f \in {"date", "order", "notes", "project", "del"} : r[f] = w[f]
    BY <1>3, Updated DEF IInv
  <1> HIDE DEF r
  <1>5. \A f \in {"date", "order", "notes", "project", "del"} : r[f] = ack[f]
    BY <1>3, <1>4
  <1>6. \A f \in {"date", "order", "notes", "project"} : r[f] = recs[id][f]
    BY <1>3, <1>4
  <1>7. r.del \/ ~recs[id].del \/ ~ListedToPurge(id) \/ id \in atRisk'
    BY <1>3, <1>4
  <1>8. mu' \in Requests \cup {None} /\ \A p \in Requests : req'[p] # None /\ mu = p => mu' = p
    BY DEF IInv, ServerOK
  <1> QED
    BY <1>1, <1>3, <1>4, <1>5, <1>6, <1>7, <1>8, WriteStep

LEMMA PatchStep ==
    ASSUME IInv, NEW q \in Requests, handlePatchRecord(q)
    PROVE  IInv'
  <1> DEFINE field == req[q].arg.field
             v == req[q].arg.value
             row == req[q].row
  <1>1. Holding(q) /\ req[q] # None /\ req[q].op = "patch" /\ req[q].at = "write"
    BY DEF handlePatchRecord, Holding, In
  <1>2. /\ mu = q /\ q # None /\ RequestOK(req[q]) /\ row \in Rec /\ Current(q) /\ DOMAIN req = Requests
    BY <1>1, Held
  <1>3. PICK id \in Ids : id = req[q].id
    BY <1>1, Held
  <1>4. UNCHANGED <<used, dirs, cli, clock, poll, atRisk>> /\ Respond(q) /\ Unlock(q)
    BY DEF handlePatchRecord
  <1>5. CASE ~Exists(id)
    BY <1>3, <1>4, <1>5, RespondStep DEF handlePatchRecord, NoWrite
  <1>6. CASE Exists(id)
    <2> DEFINE w == [Merge(id, row) EXCEPT ![field] = v]
               ack == [last[id] EXCEPT ![field] = v]
    <2>1. field \in {"notes", "project"} /\ v \in Values
      BY <1>1, <1>2 DEF RequestOK
    <2>2. recs' = [recs EXCEPT ![id] = Update(id, w)] /\ last' = [last EXCEPT ![id] = ack] /\ UNCHANGED figs
      BY <1>3, <1>6 DEF handlePatchRecord, SetRow
    <2>3. /\ row.notes = recs[id].notes /\ row.project = recs[id].project
          /\ row.date = recs[id].date /\ row.order = recs[id].order
      BY <1>1, <1>2, <1>3, <1>6 DEF Current
    <2> HIDE DEF field, v, row
    <2>4. w \in Rec /\ ack \in Rec /\ w.del = recs[id].del /\ \A f \in {"date", "order", "notes", "project", "del"} : w[f] = ack[f]
      <3>1. /\ Merge(id, row) \in Rec /\ last[id] \in Rec /\ Merge(id, row).date = last[id].date
            /\ Merge(id, row).order = last[id].order /\ Merge(id, row).notes = last[id].notes
            /\ Merge(id, row).project = last[id].project /\ Merge(id, row).del = last[id].del
        BY <1>2, <1>6, <2>3, Merged, Acknowledged DEF IInv
      <3>2. Merge(id, row).del = recs[id].del
        BY <1>2, <1>6, Merged DEF IInv, row
      <3>3. CASE field = "notes"
        BY <2>1, <3>1, <3>2, <3>3 DEF Rec
      <3>4. CASE field = "project"
        BY <2>1, <3>1, <3>2, <3>4 DEF Rec
      <3> QED
        BY <2>1, <3>3, <3>4
    <2> HIDE DEF w, ack
    <2> QED
      BY <1>1, <1>4, <1>6, <2>2, <2>4, LockedWriteStep
  <1> QED
    BY <1>5, <1>6

LEMMA ReorderStep ==
    ASSUME IInv, NEW q \in Requests, handleReorderRecord(q)
    PROVE  IInv'
  <1> DEFINE row == req[q].row
  <1>1. Holding(q) /\ req[q] # None /\ req[q].op = "reorder" /\ req[q].at = "order"
    BY DEF handleReorderRecord, Holding, In
  <1>2. /\ mu = q /\ q # None /\ RequestOK(req[q]) /\ row \in Rec /\ Current(q) /\ DOMAIN req = Requests
    BY <1>1, Held
  <1>3. PICK id \in Ids : id = req[q].id
    BY <1>1, Held
  <1>4. UNCHANGED <<used, dirs, cli, clock, poll, atRisk>> /\ Respond(q) /\ Unlock(q)
    BY DEF handleReorderRecord
  <1>5. CASE ~Exists(id)
    BY <1>3, <1>4, <1>5, RespondStep DEF handleReorderRecord, NoWrite
  <1>6. CASE Exists(id)
    <2> DEFINE w == Merge(id, row)
               ack == [last[id] EXCEPT !.date = row.date, !.order = row.order]
    <2>1. recs' = [recs EXCEPT ![id] = Update(id, w)] /\ last' = [last EXCEPT ![id] = ack] /\ UNCHANGED figs
      BY <1>3, <1>6 DEF handleReorderRecord, SetRow
    <2>2. row.notes = recs[id].notes /\ row.project = recs[id].project
      BY <1>1, <1>2, <1>3, <1>6 DEF Current
    <2> HIDE DEF row
    <2>3. /\ w \in Rec /\ w.del = recs[id].del /\ w.date = row.date /\ w.order = row.order
          /\ w.notes = recs[id].notes /\ w.project = recs[id].project
      BY <1>2, <1>6, <2>2, Merged DEF IInv
    <2>4. /\ ack \in Rec /\ ack.date = row.date /\ ack.order = row.order
          /\ ack.notes = recs[id].notes /\ ack.project = recs[id].project /\ ack.del = recs[id].del
      BY <1>2, <1>6, Acknowledged DEF Rec
    <2> HIDE DEF w, ack
    <2>5. \A f \in {"date", "order", "notes", "project", "del"} : w[f] = ack[f]
      BY <2>3, <2>4
    <2> QED
      BY <1>1, <1>4, <1>6, <2>1, <2>3, <2>4, <2>5, LockedWriteStep
  <1> QED
    BY <1>5, <1>6

LEMMA DeleteRequestStep ==
    ASSUME IInv, NEW q \in Requests, handleDeleteRecord(q)
    PROVE  IInv'
  <1>1. /\ req[q] # None /\ req[q].op = "delete" /\ Respond(q)
        /\ UNCHANGED <<used, dirs, mu, cli, clock, poll>> /\ DOMAIN req = Requests
    BY InProgress DEF handleDeleteRecord, In
  <1>2. UNCHANGED atRisk
    BY DEF handleDeleteRecord, SoftDeleteRecord
  <1>3. CASE ~Exists(req[q].id)
    BY <1>1, <1>2, <1>3, RespondStep DEF handleDeleteRecord, NoWrite
  <1>4. CASE Exists(req[q].id)
    <2>1. PICK id \in Ids : id = req[q].id
      BY <1>1, InProgress DEF RequestOK
    <2>2. SetRow(id, [recs[id] EXCEPT !.del = TRUE], [last[id] EXCEPT !.del = TRUE])
      BY <1>4, <2>1 DEF handleDeleteRecord, SoftDeleteRecord
    <2>3. DOMAIN req' = Requests /\ \A p \in Requests : req'[p] = req[p] \/ req'[p] = None
      BY <1>1 DEF Respond
    <2>4. atRisk \subseteq atRisk' /\ atRisk' \subseteq Ids
      BY <1>2 DEF IInv, ServerOK
    <2> QED
      BY <1>1, <1>4, <2>1, <2>2, <2>3, <2>4, TrashStep
  <1> QED
    BY <1>3, <1>4

LEMMA RestoreRequestStep ==
    ASSUME IInv, NEW q \in Requests, handleRestoreRecord(q)
    PROVE  IInv'
  <1>1. /\ req[q] # None /\ req[q].op = "restore" /\ Respond(q)
        /\ UNCHANGED <<used, dirs, mu, cli, clock, poll>> /\ DOMAIN req = Requests
    BY InProgress DEF handleRestoreRecord, In
  <1>2. CASE ~Exists(req[q].id)
    BY <1>1, <1>2, RespondStep DEF handleRestoreRecord, NoWrite
  <1>3. CASE Exists(req[q].id)
    <2>1. PICK id \in Ids : id = req[q].id
      BY <1>1, InProgress DEF RequestOK
    <2>2. /\ SetRow(id, [recs[id] EXCEPT !.del = FALSE], [last[id] EXCEPT !.del = FALSE])
          /\ atRisk' = IF ListedToPurge(id) THEN atRisk \cup {id} ELSE atRisk
      BY <1>3, <2>1 DEF handleRestoreRecord, RestoreRecord
    <2>3. DOMAIN req' = Requests /\ \A p \in Requests : req'[p] = req[p] \/ req'[p] = None
      BY <1>1 DEF Respond
    <2>4. atRisk \subseteq atRisk' /\ atRisk' \subseteq Ids /\ (~ListedToPurge(id) \/ id \in atRisk')
      BY <2>2 DEF IInv, ServerOK
    <2> QED
      BY <1>1, <1>3, <2>1, <2>2, <2>3, <2>4, TrashStep
  <1> QED
    BY <1>2, <1>3

\* The command line deletes and restores as the handlers do.
LEMMA CliTrashStep ==
    ASSUME IInv, NEW id \in Ids, cliDelete(id) \/ cliRestore(id)
    PROVE  IInv'
  <1>1. /\ Exists(id) /\ UNCHANGED <<used, dirs, mu, req, cli, clock, poll>>
        /\ DOMAIN req = Requests /\ atRisk \subseteq Ids
    BY DEF cliDelete, cliRestore, IInv, ServerOK
  <1>2. CASE cliDelete(id)
    <2>1. /\ SetRow(id, [recs[id] EXCEPT !.del = TRUE], [last[id] EXCEPT !.del = TRUE])
          /\ UNCHANGED atRisk
      BY <1>2 DEF cliDelete, SoftDeleteRecord
    <2> QED
      BY <1>1, <2>1, TrashStep
  <1>3. CASE cliRestore(id)
    <2>1. /\ SetRow(id, [recs[id] EXCEPT !.del = FALSE], [last[id] EXCEPT !.del = FALSE])
          /\ atRisk' = IF ListedToPurge(id) THEN atRisk \cup {id} ELSE atRisk
      BY <1>3 DEF cliRestore, RestoreRecord
    <2>2. atRisk \subseteq atRisk' /\ atRisk' \subseteq Ids /\ (~ListedToPurge(id) \/ id \in atRisk')
      BY <1>1, <2>1
    <2> QED
      BY <1>1, <2>1, <2>2, TrashStep
  <1> QED
    BY <1>2, <1>3

LEMMA PurgeRowsStep ==
    ASSUME IInv, NEW q \in Requests, PurgeDeletedRecords(q)
    PROVE  IInv'
  <1>1. /\ req[q] # None /\ req[q].op = "purge" /\ req[q].at = "delete" /\ RequestOK(req[q])
        /\ DOMAIN req = Requests
        /\ DeleteRows(Trashed) /\ UNCHANGED <<used, dirs, mu, cli, clock, poll, atRisk>>
    BY InProgress DEF PurgeDeletedRecords, In
  <1>2. /\ DOMAIN req' = Requests /\ req'[q] = Move(req[q], "remove")
        /\ \A p \in Requests \ {q} : req'[p] = req[p]
    BY <1>1 DEF PurgeDeletedRecords, At, Move
  <1>3. RequestOK(req'[q]) /\ req'[q].op = "purge" /\ req'[q].ids = req[q].ids
    BY <1>1, <1>2, Moved
  <1>4. ~Holding(q)'
    BY <1>3 DEF Holding, In
  <1>5. \A id \in req[q].ids \ atRisk : ~Exists(id)'
    <2>1. SUFFICES ASSUME NEW id \in req[q].ids \ atRisk PROVE ~Exists(id)'
      OBVIOUS
    <2>2. id \in Ids /\ ~Alive(id)
      BY <1>1 DEF IInv, ListedIsDead, ListedToPurge, RequestOK
    <2> QED
      BY <1>1, <2>2 DEF DeleteRows, Trashed, Exists, Alive
  <1>6. Trashed \in SUBSET Ids
    BY DEF Trashed
  <1>7. \A p \in Requests : req'[p] # None => RequestOK(req'[p])
    BY <1>2, <1>3 DEF IInv, ServerOK
  <1>8. ASSUME NEW p \in Requests
        PROVE  /\ (req'[p] # None => req[p] # None)
               /\ Holding(p)' => req'[p] = req[p]
               /\ req[p] # None => req'[p].op = req[p].op /\ req'[p].ids = req[p].ids
               /\ In(p, "purge", "remove")' =>
                     In(p, "purge", "remove") \/ \A id \in req'[p].ids \ atRisk : ~Exists(id)'
    <2>1. CASE p = q
      BY <1>1, <1>3, <1>4, <1>5, <2>1
    <2>2. CASE p # q
      BY <1>2, <2>2 DEF In
    <2> QED
      BY <2>1, <2>2
  <1>9. CommandOK' /\ (cli' # None /\ cli'.op = "gc" => cli.at = "dir" \/ cli'.at # "dir")
    BY <1>1 DEF IInv, ServerOK, CommandOK
  <1>10. FilesStay'
    BY <1>1, <1>6, DeletedFiles
  <1> QED
    BY <1>1, <1>2, <1>6, <1>7, <1>8, <1>9, <1>10, DeleteStep

-----------------------------------------------------------------------------
(* The command line and the clients that read *)

\* A step of the command line that changes no record.
LEMMA CommandStep ==
    ASSUME IInv, UNCHANGED <<recs, last, mu, req, clock, poll>>, FilesStay',
           figs' \subseteq Ids, dirs' \subseteq Ids, atRisk \subseteq atRisk', atRisk' \subseteq Ids,
           used \subseteq used', used' \subseteq Ids, CommandOK',
           cli' # None =>
              \/ cli'.op = "add" /\ cli'.at = "row" /\ cli'.id \in used' \ used
              \/ cli'.op = "add" /\ cli'.at # "row"
              \/ /\ cli'.op = "gc" /\ cli'.at = "row"
                 /\ \A id \in cli'.ids \ atRisk : ~Alive(id)
    PROVE  IInv'
  <1>1. ServerOK'
    BY DEF IInv, ServerOK, Exists
  <1>2. ReadIsCurrent'
    <2>1. ASSUME NEW q \in Requests, Holding(q)' PROVE Current(q)'
      <3>1. Holding(q) /\ Current(q)
        BY <2>1 DEF IInv, ReadIsCurrent, Holding, In
      <3>2. Adding' => cli'.id # req[q].id
        BY <3>1 DEF Adding, AddAt, Current
      <3> QED
        BY <3>1, <3>2 DEF Current, Exists, Adding, AddAt
    <2> QED
      BY <2>1 DEF ReadIsCurrent
  <1>3. NewIdIsFresh'
    BY DEF IInv, NewIdIsFresh, Adding, AddAt, Exists
  <1>4. ListedIsDead'
    <2>1. ASSUME NEW id \in Ids \ atRisk', ListedToPurge(id)' PROVE ~Alive(id)
      BY <2>1 DEF IInv, ListedIsDead, ListedToPurge
    <2> QED
      BY <2>1 DEF ListedIsDead, Alive, Exists
  <1>5. RowsGoFirst'
    BY DEF IInv, RowsGoFirst, In, Exists
  <1>6. NoLostUpdate' /\ PollMissesNothing'
    BY DEF IInv, NoLostUpdate, PollMissesNothing, Exists
  <1> QED
    BY <1>1, <1>2, <1>3, <1>4, <1>5, <1>6 DEF IInv

LEMMA UnchangedFiles ==
    ASSUME IInv, UNCHANGED <<recs, figs, dirs, atRisk>>,
           cli' = cli \/ (~AddAt("figure")' /\ ~AddAt("clean")')
    PROVE  FilesStay'
  <1>1. \A id : Exists(id)' <=> Exists(id)
    BY DEF Exists
  <1> QED
    BY <1>1, FilesKept DEF IInv, FilesStay

LEMMA AddBegins ==
    ASSUME IInv, NEW date \in Dates, NEW kind \in Kinds, NEW ref \in Ids, computeDayOrder(date, kind, ref)
    PROVE  IInv'
  <1>1. UNCHANGED <<recs, figs, last, mu, req, clock, poll, atRisk, dirs>> /\ figs \subseteq Ids /\ dirs \subseteq Ids /\ atRisk \subseteq Ids
    BY DEF computeDayOrder, NoWrite, IInv, ServerOK
  <1>2. PICK id \in Ids, order \in Nat : /\ id \notin used /\ used' = used \cup {id}
                                       /\ cli' = [op |-> "add", at |-> "row", id |-> id, date |-> date, order |-> order, ids |-> {}]
    BY DEF computeDayOrder, KeyFits, generateKeyBetween
  <1>3. CommandOK' /\ cli'.op = "add" /\ cli'.id = id /\ cli'.at = "row"
    BY <1>2 DEF CommandOK
  <1>4. used' \subseteq Ids
    BY <1>2 DEF IInv, ServerOK
  <1>5. FilesStay'
    BY <1>1, <1>3, UnchangedFiles DEF AddAt
  <1> QED
    BY <1>1, <1>2, <1>3, <1>4, <1>5, CommandStep

\* The fields of pc records add, and what they become.
LEMMA Adds ==
    ASSUME IInv, cli # None, cli.op = "add"
    PROVE  /\ cli.id \in Ids
           /\ \A at \in AddSteps : cli' = [cli EXCEPT !.at = at] =>
                 CommandOK' /\ cli'.op = "add" /\ cli'.at = at /\ cli'.id = cli.id
  <1>1. cli \in [op: {"add"}, at: AddSteps, id: Ids, date: Dates, order: Nat, ids: {{}}]
    BY DEF IInv, ServerOK, CommandOK, AddSteps
  <1>2. ASSUME NEW at \in AddSteps, cli' = [cli EXCEPT !.at = at]
        PROVE  CommandOK' /\ cli'.op = "add" /\ cli'.at = at /\ cli'.id = cli.id
    <2>1. /\ cli' \in [op: {"add"}, at: AddSteps, id: Ids, date: Dates, order: Nat, ids: {{}}]
          /\ cli'.op = "add" /\ cli'.at = at /\ cli'.id = cli.id
      BY <1>1, <1>2
    <2> QED
      BY <2>1 DEF CommandOK, AddSteps
  <1> QED
    BY <1>1, <1>2

\* The new record has a new ID: nobody has read, listed or removed it.
LEMMA AddStep ==
    ASSUME IInv, createRecord
    PROVE  IInv'
  <1> DEFINE row == [date |-> cli.date, order |-> cli.order, notes |-> 0, project |-> 0, del |-> FALSE,
                     upd |-> clock, ver |-> 1]
  <1>1. /\ Adding /\ UNCHANGED <<used, figs, dirs, mu, req, clock, poll, atRisk>> /\ cli' = [cli EXCEPT !.at = "copy"]
        /\ recs' = [recs EXCEPT ![cli.id] = row] /\ last' = [last EXCEPT ![cli.id] = row]
    BY DEF createRecord, GoOn, Adding, AddAt
  <1>2. PICK id \in Ids : id = cli.id
    BY <1>1, Commands DEF IInv, Adding, AddAt
  <1>3. row \in Rec /\ row.upd = clock
    BY <1>1, Commands DEF IInv, ServerOK, Adding, AddAt, Rec
  <1> HIDE DEF row
  <1>15. cli # None /\ CommandOK' /\ cli'.op = "add" /\ cli'.at = "copy" /\ cli.at = "row"
    BY <1>1, Adds DEF Adding, AddAt, AddSteps
  <1>4. row # None /\ clock \in Nat
    BY <1>3, ServerAssumption DEF IInv, ServerOK
  <1>5. /\ recs' \in [Ids -> Rec \cup {None}] /\ last' \in [Ids -> Rec \cup {None}]
        /\ recs'[id] = row /\ last'[id] = row
        /\ \A x \in Ids \ {id} : recs'[x] = recs[x] /\ last'[x] = last[x]
    BY <1>1, <1>2, <1>3 DEF IInv, ServerOK
  <1>6. \A x \in Ids \ {id} : Exists(x)' = Exists(x)
    BY <1>5 DEF Exists
  <1>7. ServerOK'
    <2>1. \A x \in Ids : Exists(x)' => recs'[x].upd <= clock'
      BY <1>1, <1>3, <1>4, <1>5, <1>6 DEF IInv, ServerOK
    <2>2. used' \subseteq Ids /\ dirs' \subseteq Ids /\ atRisk' \subseteq Ids /\ CommandOK'
      BY <1>1, <1>15 DEF IInv, ServerOK
    <2> QED
      BY <1>1, <1>5, <2>1, <2>2 DEF IInv, ServerOK
  <1>8. ReadIsCurrent'
    <2>1. ASSUME NEW q \in Requests, Holding(q)' PROVE Current(q)'
      <3>1. Holding(q) /\ Current(q)
        BY <1>1, <2>1 DEF IInv, ReadIsCurrent, Holding, In
      <3>2. PICK x \in Ids \ {id} : x = req[q].id
        BY <1>1, <1>2, <3>1, Held DEF Current
      <3>3. recs'[x] = recs[x]
        BY <1>5
      <3> QED
        BY <1>1, <1>15, <3>1, <3>2, <3>3 DEF Current, Exists, Adding, AddAt
    <2> QED
      BY <2>1 DEF ReadIsCurrent
  <1>9. NewIdIsFresh'
    BY <1>1, <1>2, <1>6, <1>15 DEF IInv, NewIdIsFresh, Adding, AddAt
  <1>10. ListedIsDead'
    <2>1. ASSUME NEW x \in Ids \ atRisk, ListedToPurge(x)' PROVE ~Alive(x)'
      <3>1. ListedToPurge(x) /\ x # id
        BY <1>1, <1>2, <1>15, <2>1 DEF ListedToPurge, IInv, NewIdIsFresh
      <3> QED
        BY <1>5, <2>1, <3>1 DEF IInv, ListedIsDead, Alive, Exists
    <2> QED
      BY <1>1, <2>1 DEF ListedIsDead
  <1>11. RowsGoFirst'
    <2>1. ASSUME NEW q \in Requests, In(q, "purge", "remove")', NEW x \in req'[q].ids \ atRisk' PROVE ~Exists(x)'
      <3>1. x \in Ids \ {id} /\ ~Exists(x)
        BY <1>1, <1>2, <2>1 DEF IInv, RowsGoFirst, NewIdIsFresh, In, ServerOK, RequestOK
      <3> QED
        BY <1>6, <3>1
    <2> QED
      BY <1>15, <2>1 DEF RowsGoFirst
  <1>12. FilesStay'
    <2>1. ~Exists(id) /\ figs \subseteq Ids
      BY <1>1, <1>2 DEF IInv, NewIdIsFresh, ServerOK
    <2>2. \A x \in figs' : Exists(x)' /\ (x \in dirs' \/ x \in atRisk')
      BY <1>1, <1>6, <2>1 DEF IInv, FilesStay
    <2> QED
      BY <1>15, <2>2 DEF FilesStay, AddAt
  <1>13. NoLostUpdate'
    BY <1>4, <1>5, <1>6 DEF IInv, NoLostUpdate, Exists
  <1>14. PollMissesNothing'
    <2>1. poll # None => poll.since \in 0..clock
      BY DEF IInv, ServerOK
    <2> QED
      BY <1>1, <1>3, <1>4, <1>5, <1>6, <2>1 DEF IInv, PollMissesNothing
  <1> QED
    BY <1>7, <1>8, <1>9, <1>10, <1>11, <1>12, <1>13, <1>14 DEF IInv

\* The command goes on, or ends.
LEMMA AddGoesOn ==
    ASSUME IInv, cli # None, cli.op = "add", UNCHANGED <<recs, last, mu, req, clock, poll, used>>, FilesStay',
           figs' \subseteq Ids, dirs' \subseteq Ids, atRisk \subseteq atRisk', atRisk' \subseteq Ids,
           cli' = None \/ \E at \in AddSteps \ {"row"} : GoOn(at)
    PROVE  IInv'
  <1>1. used' \subseteq Ids
    BY DEF IInv, ServerOK
  <1>2. CASE cli' = None
    BY <1>1, <1>2, CommandStep DEF CommandOK
  <1>3. ASSUME NEW at \in AddSteps \ {"row"}, GoOn(at) PROVE IInv'
    <2>1. CommandOK' /\ cli'.op = "add" /\ cli'.at = at
      BY <1>3, Adds DEF GoOn
    <2> QED
      BY <1>1, <2>1, CommandStep
  <1> QED
    BY <1>2, <1>3

\* The file is there before its row.
LEMMA CopyStep ==
    ASSUME IInv, copyFigure
    PROVE  IInv'
  <1>1. /\ AddAt("copy") /\ GoOn("figure") /\ dirs' = dirs \cup {cli.id} /\ cli.id \in Ids
        /\ UNCHANGED <<recs, last, mu, req, clock, poll, used, figs, atRisk>>
    BY Adds DEF copyFigure, NoWrite, AddAt
  <1>2. dirs' \subseteq Ids /\ figs' \subseteq Ids /\ atRisk' \subseteq Ids
    BY <1>1 DEF IInv, ServerOK
  <1>3. cli'.id = cli.id /\ cli'.at = "figure"
    BY <1>1, Adds DEF GoOn, AddAt, AddSteps
  <1>4. FilesStay'
    BY <1>1, <1>3 DEF IInv, FilesStay, AddAt, Exists
  <1> QED
    BY <1>1, <1>2, <1>4, AddGoesOn DEF AddAt, AddSteps

LEMMA FigureStep ==
    ASSUME IInv, createRecordFigure
    PROVE  IInv'
  <1>1. /\ AddAt("figure") /\ cli.id \in Ids
        /\ UNCHANGED <<recs, last, mu, req, clock, poll, used, dirs, atRisk>>
    BY Adds DEF createRecordFigure, AddAt, clients
  <1>2. /\ figs \subseteq figs' /\ \A id \in figs' \ figs : id = cli.id /\ Exists(id)
        /\ GoOn("data") \/ GoOn("undo")
    BY DEF createRecordFigure
  <1>3. dirs' \subseteq Ids /\ figs' \subseteq Ids /\ atRisk' \subseteq Ids
    BY <1>1, <1>2 DEF IInv, ServerOK
  <1>4. cli'.at = "data" \/ cli'.at = "undo"
    BY <1>1, <1>2, Adds DEF GoOn, AddAt, AddSteps
  <1>5. FilesStay'
    BY <1>1, <1>2, <1>4 DEF IInv, FilesStay, AddAt, Exists
  <1> QED
    BY <1>1, <1>2, <1>3, <1>5, AddGoesOn DEF AddAt, AddSteps

\* Nothing is written, but the command goes on or ends.
LEMMA AddWaitsStep ==
    ASSUME IInv, copyDataFiles \/ addFails \/ cliStops
    PROVE  IInv'
  <1>1. /\ cli # None /\ UNCHANGED <<recs, last, mu, req, clock, poll, used, dirs, figs, atRisk>>
        /\ cli' = None \/ (cli.op = "add" /\ GoOn("undo"))
    BY DEF copyDataFiles, addFails, cliStops, NoWrite, AddAt
  <1>2. dirs' \subseteq Ids /\ figs' \subseteq Ids /\ atRisk' \subseteq Ids /\ used' \subseteq Ids
    BY <1>1 DEF IInv, ServerOK
  <1>3. CASE cli' = None
    <2>1. FilesStay'
      BY <1>1, <1>3, UnchangedFiles DEF AddAt
    <2> QED
      BY <1>1, <1>2, <1>3, <2>1, CommandStep DEF CommandOK
  <1>4. CASE cli.op = "add" /\ GoOn("undo")
    <2>1. cli'.at = "undo"
      BY <1>1, <1>4, Adds DEF GoOn, AddSteps
    <2>2. FilesStay'
      BY <1>1, <2>1, UnchangedFiles DEF AddAt
    <2> QED
      BY <1>1, <1>2, <1>4, <2>2, AddGoesOn DEF AddSteps
  <1> QED
    BY <1>1, <1>3, <1>4

\* The row is gone, or the record is known to lose its files.
LEMMA RollBackRowStep ==
    ASSUME IInv, rollBackRow
    PROVE  IInv'
  <1>1. /\ AddAt("undo") /\ GoOn("clean") /\ cli # None /\ cli.op = "add" /\ cli.id \in Ids
        /\ UNCHANGED <<mu, req, clock, poll, used, dirs>>
    BY Adds DEF rollBackRow, AddAt
  <1>2. /\ CommandOK' /\ cli'.op = "add" /\ cli'.at = "clean" /\ cli'.id = cli.id
    BY <1>1, Adds, ServerAssumption DEF GoOn, AddSteps
  <1>3. dirs' \subseteq Ids /\ used' \subseteq Ids
    BY <1>1 DEF IInv, ServerOK
  <1>4. CASE DeleteRows({cli.id}) /\ UNCHANGED atRisk
    <2>1. PICK id \in Ids : id = cli.id
      BY <1>1
    <2>2. /\ \A x \in Ids : recs'[x] = IF x = id THEN None ELSE recs[x]
          /\ figs' = figs \ {id} /\ figs \subseteq Ids
      BY <1>4, <2>1 DEF DeleteRows, IInv, ServerOK
    <2>3. ~Exists(id)' /\ \A x \in Ids \ {id} : Exists(x)' <=> Exists(x)
      BY <2>2 DEF Exists
    <2>4. \A x \in figs' : Exists(x)' /\ (x \in dirs' \/ x \in atRisk')
      BY <1>1, <1>4, <2>2, <2>3 DEF IInv, FilesStay
    <2>5. FilesStay'
      BY <1>2, <2>1, <2>3, <2>4 DEF FilesStay, AddAt, Exists
    <2>6. DOMAIN req' = Requests /\ \A p \in Requests : req'[p] # None => RequestOK(req'[p])
      BY <1>1 DEF IInv, ServerOK
    <2>7. ASSUME NEW p \in Requests
          PROVE  /\ (req'[p] # None => req[p] # None) /\ req'[p] = req[p]
                 /\ req[p] # None => req'[p].op = req[p].op /\ req'[p].ids = req[p].ids
                 /\ In(p, "purge", "remove")' => In(p, "purge", "remove")
      BY <1>1 DEF In
    <2>8. ~Adding' /\ cli'.op # "gc"
      BY <1>2 DEF Adding, AddAt
    <2> QED
      BY <1>1, <1>2, <1>4, <2>1, <2>5, <2>6, <2>7, <2>8, DeleteStep
  <1>5. CASE NoWrite /\ atRisk' = IF Exists(cli.id) THEN atRisk \cup {cli.id} ELSE atRisk
    <2>1. UNCHANGED <<recs, last, figs>> /\ atRisk \subseteq atRisk' /\ (Exists(cli.id) => cli.id \in atRisk')
      BY <1>5 DEF NoWrite
    <2>2. FilesStay'
      BY <1>1, <1>2, <2>1 DEF IInv, FilesStay, AddAt, Exists
    <2>3. figs' \subseteq Ids /\ atRisk' \subseteq Ids
      BY <1>1, <1>5, <2>1 DEF IInv, ServerOK
    <2> QED
      BY <1>1, <1>3, <2>1, <2>2, <2>3, AddGoesOn DEF AddSteps
  <1> QED
    BY <1>4, <1>5 DEF rollBackRow

LEMMA RollBackFilesStep ==
    ASSUME IInv, rollBackFiles
    PROVE  IInv'
  <1>1. /\ AddAt("clean") /\ cli' = None /\ cli # None /\ cli.op = "add" /\ dirs' = dirs \ {cli.id} /\ cli.id \in Ids
        /\ UNCHANGED <<recs, last, mu, req, clock, poll, used, figs, atRisk>>
    BY Adds DEF rollBackFiles, NoWrite, AddAt
  <1>2. dirs' \subseteq Ids /\ figs' \subseteq Ids /\ atRisk' \subseteq Ids
    BY <1>1 DEF IInv, ServerOK
  <1>3. FilesStay'
    BY <1>1 DEF IInv, FilesStay, AddAt, Exists
  <1> QED
    BY <1>1, <1>2, <1>3, AddGoesOn

LEMMA GCBegins ==
    ASSUME IInv, runGCAll
    PROVE  IInv'
  <1>1. /\ UNCHANGED <<recs, last, mu, req, clock, poll, atRisk, figs, dirs, used>> /\ Trashed # {}
        /\ cli' = [op |-> "gc", at |-> "row", ids |-> Trashed]
    BY DEF runGCAll, NoWrite, listRecordTrash
  <1>2. Trashed \in SUBSET Ids /\ \A id \in Trashed : ~Alive(id)
    BY DEF Trashed, Alive
  <1>3. CommandOK' /\ cli'.op = "gc" /\ cli'.at = "row" /\ cli'.ids = Trashed
    BY <1>1, <1>2 DEF CommandOK
  <1>4. used' \subseteq Ids /\ figs' \subseteq Ids /\ dirs' \subseteq Ids /\ atRisk' \subseteq Ids
    BY <1>1 DEF IInv, ServerOK
  <1>5. FilesStay'
    BY <1>1, <1>3, UnchangedFiles DEF AddAt
  <1> QED
    BY <1>1, <1>2, <1>3, <1>4, <1>5, CommandStep

\* A gc command, and what its fields become.
LEMMA Collecting ==
    ASSUME IInv, cli # None, cli.op = "gc"
    PROVE  /\ cli \in [op: {"gc"}, at: {"row", "dir"}, ids: (SUBSET Ids) \ {{}}]
           /\ \A id \in cli.ids \ atRisk : ~Alive(id)
  <1>1. cli \in [op: {"gc"}, at: {"row", "dir"}, ids: (SUBSET Ids) \ {{}}]
    BY DEF IInv, ServerOK, CommandOK
  <1> QED
    BY <1>1 DEF IInv, ListedIsDead, ListedToPurge

LEMMA GCRowStep ==
    ASSUME IInv, gcDeleteRow
    PROVE  IInv'
  <1>1. /\ cli # None /\ cli.op = "gc" /\ cli.at = "row"
        /\ UNCHANGED <<used, dirs, mu, req, clock, poll, atRisk>>
    BY DEF gcDeleteRow
  <1>2. PICK id \in Ids : id = Min(cli.ids)
    BY <1>1, Commands DEF IInv
  <1>3. used \subseteq Ids /\ figs \subseteq Ids /\ dirs \subseteq Ids /\ atRisk \subseteq Ids
    BY DEF IInv, ServerOK
  <1>4. CASE ~Exists(id)
    <2>1. cli' = None /\ UNCHANGED <<recs, last, figs>>
      BY <1>2, <1>4 DEF gcDeleteRow, NoWrite
    <2>2. FilesStay'
      BY <1>1, <2>1, UnchangedFiles DEF AddAt
    <2> QED
      BY <1>1, <1>3, <2>1, <2>2, CommandStep DEF CommandOK
  <1>5. CASE Exists(id)
    <2>1. DeleteRows({id}) /\ cli' = [cli EXCEPT !.at = "dir"]
      BY <1>2, <1>5 DEF gcDeleteRow
    <2>2. cli \in [op: {"gc"}, at: {"row", "dir"}, ids: (SUBSET Ids) \ {{}}]
      BY <1>1, Collecting
    <2>3. cli' \in [op: {"gc"}, at: {"row", "dir"}, ids: (SUBSET Ids) \ {{}}] /\ cli'.ids = cli.ids /\ cli'.op = "gc"
      BY <2>1, <2>2
    <2>4. CommandOK' /\ ~Adding'
      BY <2>3 DEF CommandOK, Adding, AddAt
    <2>5. DOMAIN req' = Requests /\ \A p \in Requests : req'[p] # None => RequestOK(req'[p])
      BY <1>1 DEF IInv, ServerOK
    <2>6. ASSUME NEW p \in Requests
          PROVE  /\ (req'[p] # None => req[p] # None) /\ req'[p] = req[p]
                 /\ req[p] # None => req'[p].op = req[p].op /\ req'[p].ids = req[p].ids
                 /\ In(p, "purge", "remove")' => In(p, "purge", "remove")
      BY <1>1 DEF In
    <2>7. FilesStay'
      BY <1>1, <1>2, <2>1, <2>3, DeletedFiles DEF AddAt
    <2> QED
      BY <1>1, <1>2, <2>1, <2>3, <2>4, <2>5, <2>6, <2>7, DeleteStep
  <1> QED
    BY <1>4, <1>5

LEMMA GCDirStep ==
    ASSUME IInv, gcDeleteDir
    PROVE  IInv'
  <1>1. /\ cli # None /\ cli.op = "gc" /\ cli.at = "dir"
        /\ UNCHANGED <<recs, last, used, mu, req, clock, poll, atRisk, figs>>
    BY DEF gcDeleteDir, NoWrite
  <1>2. PICK id \in Ids : id = Min(cli.ids)
    BY <1>1, Commands DEF IInv
  <1>3. dirs' = dirs \ {id} /\ cli' = IF cli.ids = {id} THEN None ELSE [cli EXCEPT !.at = "row", !.ids = cli.ids \ {id}]
    BY <1>2 DEF gcDeleteDir
  <1>4. /\ ~Exists(id) /\ used \subseteq Ids /\ figs \subseteq Ids /\ atRisk \subseteq Ids
        /\ dirs \subseteq Ids /\ dirs' \subseteq Ids
    BY <1>1, <1>2, <1>3 DEF IInv, RowsGoFirst, ServerOK
  <1>8. FilesStay'
    <2>1. ~AddAt("figure")' /\ ~AddAt("clean")'
      BY <1>1, <1>3 DEF AddAt
    <2>2. \A x : Exists(x)' <=> Exists(x)
      BY <1>1 DEF Exists
    <2> QED
      BY <1>1, <1>3, <1>4, <2>1, <2>2, FilesKept DEF IInv, FilesStay
  <1>5. cli \in [op: {"gc"}, at: {"row", "dir"}, ids: (SUBSET Ids) \ {{}}] /\ \A x \in cli.ids \ atRisk : ~Alive(x)
    BY <1>1, Collecting
  <1>6. CASE cli.ids = {id}
    BY <1>1, <1>3, <1>4, <1>6, <1>8, CommandStep DEF CommandOK
  <1>7. CASE cli.ids # {id}
    <2>1. cli.ids \ {id} \in (SUBSET Ids) \ {{}}
      BY <1>5, <1>7
    <2>2. /\ cli' \in [op: {"gc"}, at: {"row", "dir"}, ids: (SUBSET Ids) \ {{}}]
          /\ cli'.op = "gc" /\ cli'.at = "row" /\ cli'.ids = cli.ids \ {id}
      BY <1>3, <1>5, <1>7, <2>1
    <2>3. CommandOK' /\ \A x \in cli'.ids \ atRisk : ~Alive(x)
      BY <1>5, <2>2 DEF CommandOK
    <2> QED
      BY <1>1, <1>3, <1>4, <1>8, <2>2, <2>3, CommandStep
  <1> QED
    BY <1>6, <1>7

\* A client reads, or time goes on.
LEMMA ReaderStep ==
    ASSUME IInv, UNCHANGED <<recs, used, figs, dirs, mu, req, cli, last, atRisk>>,
           clock' \in Nat, clock <= clock',
           poll' # None => poll' \in [since: 0..clock', now: (0..clock') \cup {None}, seen: [Ids -> Nat]],
           poll' # None => \A id \in Ids : Exists(id) => poll'.seen[id] = recs[id].ver \/ recs[id].upd >= poll'.since
    PROVE  IInv'
  <1>1. \A id \in Ids : Exists(id) => recs[id].upd \in Nat /\ recs[id].upd <= clock'
    <2>1. SUFFICES ASSUME NEW id \in Ids, Exists(id) PROVE recs[id].upd \in Nat /\ recs[id].upd <= clock'
      OBVIOUS
    <2>2. recs[id].upd \in Nat /\ recs[id].upd <= clock /\ clock \in Nat
      BY <2>1, Stored DEF IInv, ServerOK
    <2> QED
      BY <2>2
  <1>2. ServerOK'
    BY <1>1 DEF IInv, ServerOK, Exists, CommandOK
  <1>3. ReadIsCurrent'
    BY DEF IInv, ReadIsCurrent, Holding, In, Current, Exists, Adding, AddAt
  <1>4. NewIdIsFresh' /\ FilesStay' /\ NoLostUpdate'
    BY DEF IInv, NewIdIsFresh, FilesStay, AddAt, NoLostUpdate, Exists, Adding
  <1>5. ListedIsDead' /\ RowsGoFirst'
    BY DEF IInv, ListedIsDead, RowsGoFirst, ListedToPurge, Alive, Exists, In
  <1>6. PollMissesNothing'
    BY DEF PollMissesNothing, Exists
  <1> QED
    BY <1>2, <1>3, <1>4, <1>5, <1>6 DEF IInv

LEMMA PagesStep ==
    ASSUME IInv, startPages \/ handleListRecords
    PROVE  IInv'
  <1>1. UNCHANGED <<recs, used, figs, dirs, mu, req, cli, clock, poll, last, atRisk>>
    BY DEF startPages, handleListRecords
  <1>2. clock' \in Nat /\ clock <= clock'
    BY <1>1 DEF IInv, ServerOK
  <1>3. poll' # None => poll' \in [since: 0..clock', now: (0..clock') \cup {None}, seen: [Ids -> Nat]]
    BY <1>1 DEF IInv, ServerOK
  <1>4. poll' # None => \A id \in Ids : Exists(id) => poll'.seen[id] = recs[id].ver \/ recs[id].upd >= poll'.since
    BY <1>1 DEF IInv, PollMissesNothing
  <1> QED
    BY <1>1, <1>2, <1>3, <1>4, ReaderStep

LEMMA PollBeginStep ==
    ASSUME IInv, pollBegin
    PROVE  IInv'
  <1>1. UNCHANGED <<recs, used, figs, dirs, mu, req, cli, clock, last, atRisk>> /\ poll # None /\ poll' = [poll EXCEPT !.now = clock]
    BY DEF pollBegin
  <1>2. clock' \in Nat /\ clock <= clock' /\ poll \in [since: 0..clock, now: (0..clock) \cup {None}, seen: [Ids -> Nat]]
    BY <1>1 DEF IInv, ServerOK
  <1>3. /\ poll' \in [since: 0..clock', now: (0..clock') \cup {None}, seen: [Ids -> Nat]]
        /\ poll'.since = poll.since /\ poll'.seen = poll.seen
    BY <1>1, <1>2
  <1>4. \A id \in Ids : Exists(id) => poll'.seen[id] = recs[id].ver \/ recs[id].upd >= poll'.since
    BY <1>1, <1>3 DEF IInv, PollMissesNothing
  <1> QED
    BY <1>1, <1>2, <1>3, <1>4, ReaderStep

\* What changed since the poller's last answer is sent; what changes from now on will be.
LEMMA PollEndStep ==
    ASSUME IInv, handleSyncChanges
    PROVE  IInv'
  <1> DEFINE seen == [id \in Ids |-> IF Exists(id) /\ ChangedWithin(recs[id], poll.since, poll.now)
                                    THEN recs[id].ver ELSE poll.seen[id]]
  <1>1. /\ UNCHANGED <<recs, used, figs, dirs, mu, req, cli, clock, last, atRisk>> /\ poll # None /\ poll.now # None
        /\ poll' = [since |-> poll.now, now |-> None, seen |-> seen]
    BY DEF handleSyncChanges
  <1>2. clock' \in Nat /\ clock <= clock' /\ poll \in [since: 0..clock, now: (0..clock) \cup {None}, seen: [Ids -> Nat]]
    BY <1>1 DEF IInv, ServerOK
  <1>3. seen \in [Ids -> Nat]
    BY <1>2, Stored DEF IInv
  <1>4. /\ poll' \in [since: 0..clock', now: (0..clock') \cup {None}, seen: [Ids -> Nat]]
        /\ poll'.since = poll.now /\ poll'.seen = seen
    BY <1>1, <1>2, <1>3
  <1>5. ASSUME NEW id \in Ids, Exists(id) PROVE seen[id] = recs[id].ver \/ recs[id].upd >= poll.now
    <2>1. recs[id].upd \in Nat /\ poll.now \in Nat /\ poll.since \in Nat
      BY <1>1, <1>2, <1>5, Stored DEF IInv
    <2>2. poll.seen[id] = recs[id].ver \/ recs[id].upd >= poll.since
      BY <1>1, <1>5 DEF IInv, PollMissesNothing
    <2> QED
      BY <1>5, <2>1, <2>2 DEF ChangedWithin
  <1> HIDE DEF seen
  <1> QED
    BY <1>1, <1>2, <1>4, <1>5, ReaderStep

LEMMA TickStep ==
    ASSUME IInv, Tick
    PROVE  IInv'
  <1>1. UNCHANGED <<recs, used, figs, dirs, mu, req, cli, poll, last, atRisk>> /\ clock' = clock + 1 /\ clock \in Nat
    BY DEF Tick, clients, IInv, ServerOK
  <1>2. clock' \in Nat /\ clock <= clock'
    BY <1>1
  <1>3. poll' # None => poll' \in [since: 0..clock', now: (0..clock') \cup {None}, seen: [Ids -> Nat]]
    <2>1. ASSUME poll # None PROVE poll' \in [since: 0..clock', now: (0..clock') \cup {None}, seen: [Ids -> Nat]]
      <3>1. poll \in [since: 0..clock, now: (0..clock) \cup {None}, seen: [Ids -> Nat]] /\ 0..clock \subseteq 0..clock'
        BY <1>1, <2>1 DEF IInv, ServerOK
      <3> QED
        BY <1>1, <3>1
    <2> QED
      BY <1>1, <2>1
  <1>4. poll' # None => \A id \in Ids : Exists(id) => poll'.seen[id] = recs[id].ver \/ recs[id].upd >= poll'.since
    BY <1>1 DEF IInv, PollMissesNothing
  <1> QED
    BY <1>1, <1>2, <1>3, <1>4, ReaderStep

-----------------------------------------------------------------------------
(* The invariant holds. *)

LEMMA InitOK ==
    ASSUME Init
    PROVE  IInv
  <1>1. /\ recs \in [Ids -> Rec \cup {None}] /\ last = recs /\ clock = 0 /\ cli = None /\ mu = None
        /\ req = [q \in Requests |-> None] /\ atRisk = {}
        /\ used = {id \in Ids : Exists(id)} /\ figs = used /\ dirs = used
    BY ServerAssumption DEF Init
  <1>2. \A id \in Ids : Exists(id) => recs[id] \in Rec /\ recs[id].upd = 0 /\ recs[id].ver \in Nat
    BY <1>1, ServerAssumption DEF Init, Exists, Rec
  <1>3. \A q \in Requests : req[q] = None
    BY <1>1
  <1>4. poll # None => poll = [since |-> 0, now |-> None, seen |-> [id \in Ids |-> IF Exists(id) THEN recs[id].ver ELSE 0]]
    BY DEF Init
  <1>5. poll # None => poll \in [since: 0..clock, now: (0..clock) \cup {None}, seen: [Ids -> Nat]]
    <2>1. [id \in Ids |-> IF Exists(id) THEN recs[id].ver ELSE 0] \in [Ids -> Nat]
      BY <1>2
    <2> QED
      BY <1>1, <1>4, <2>1
  <1>6. ServerOK
    BY <1>1, <1>2, <1>3, <1>5 DEF ServerOK, CommandOK
  <1>7. ReadIsCurrent /\ NewIdIsFresh /\ ListedIsDead /\ RowsGoFirst
    BY <1>1, <1>3 DEF ReadIsCurrent, NewIdIsFresh, ListedIsDead, RowsGoFirst, Holding, In, Adding, AddAt, ListedToPurge
  <1>8. FilesStay /\ NoLostUpdate
    BY <1>1 DEF FilesStay, AddAt, NoLostUpdate, Exists
  <1>9. PollMissesNothing
    BY <1>4 DEF PollMissesNothing
  <1> QED
    BY <1>6, <1>7, <1>8, <1>9 DEF IInv

LEMMA StepOK ==
    ASSUME IInv, [Next]_vars
    PROVE  IInv'
  <1>1. CASE \E q \in Requests : Receive(q) \/ Handle(q)
    BY <1>1, ReceiveStep, ReadStep, NotFoundStep, PatchStep, PlaceStep, ReorderStep, CheckStep, DeleteRequestStep,
       RestoreRequestStep, PurgeListStep, PurgeRowsStep, PurgeTrashStep DEF Handle
  <1>2. CASE CommandLine
    BY <1>2, CliTrashStep, AddBegins, AddStep, CopyStep, FigureStep, AddWaitsStep,
       RollBackRowStep, RollBackFilesStep, GCBegins, GCRowStep, GCDirStep DEF CommandLine
  <1>3. CASE startPages \/ handleListRecords
    BY <1>3, PagesStep
  <1>4. CASE pollBegin \/ handleSyncChanges \/ Tick
    BY <1>4, PollBeginStep, PollEndStep, TickStep
  <1>5. CASE UNCHANGED vars
    BY <1>5 DEF vars, clients, IInv, ServerOK, CommandOK, ReadIsCurrent, NewIdIsFresh, ListedIsDead, RowsGoFirst,
       FilesStay, AddAt, NoLostUpdate, PollMissesNothing, Exists, Alive, Holding, Current, Adding, In, ListedToPurge
  <1> QED
    BY <1>1, <1>2, <1>3, <1>4, <1>5 DEF Next

\* The inductive invariant holds in every reachable state, whatever handlers,
\* commands and clients do at once.
THEOREM Invariance == Spec => []IInv
  <1> QED
    BY InitOK, StepOK, PTL DEF Spec

\* handlePatchRecord, handleReorderRecord and the others: every acknowledged
\* write of a field is there until the next one to that field.
THEOREM NoLostUpdateHolds == Spec => []NoLostUpdate
  <1>1. IInv => NoLostUpdate
    BY DEF IInv
  <1> QED
    BY <1>1, Invariance, PTL

\* runAdd, purge and gc: a figure row has its figure on disk, while the command that
\* adds it runs, after it failed or was killed, and while records are purged; but for
\* a record restored after it was listed, and a roll back that kept the row.
THEOREM FigureRowHasFileHolds == Spec => []FigureRowHasFile
  <1>1. IInv => FigureRowHasFile
    BY DEF IInv, FilesStay, FigureRowHasFile
  <1> QED
    BY <1>1, Invariance, PTL

\* handleSyncChanges: a poller that sends back server_now is told of every write.
THEOREM PollMissesNothingHolds == Spec => []PollMissesNothing
  <1>1. IInv => PollMissesNothing
    BY DEF IInv
  <1> QED
    BY <1>1, Invariance, PTL

-----------------------------------------------------------------------------
(* The order of the list *)

\* What is compared: a date, a day order and an ID.
Keys == [date: Nat, order: Nat, id: Nat]

\* compareRecordsForAPI is a strict total order.
LEMMA Comparison ==
    ASSUME NEW a \in Keys, NEW b \in Keys, NEW c \in Keys
    PROVE  /\ ~compareRecordsForAPI(a, a)
           /\ a = b \/ compareRecordsForAPI(a, b) \/ compareRecordsForAPI(b, a)
           /\ compareRecordsForAPI(a, b) /\ compareRecordsForAPI(b, c) => compareRecordsForAPI(a, c)
  <1>1. /\ a.date \in Nat /\ a.order \in Nat /\ a.id \in Nat /\ b.date \in Nat /\ b.order \in Nat /\ b.id \in Nat
        /\ c.date \in Nat /\ c.order \in Nat /\ c.id \in Nat
    BY DEF Keys
  <1>2. a.date = b.date /\ a.order = b.order /\ a.id = b.id => a = b
    BY DEF Keys
  <1> QED
    BY <1>1, <1>2 DEF compareRecordsForAPI

\* A record after the cursor is one that the cursor sorts before.
LEMMA After ==
    ASSUME NEW a \in Keys, NEW c \in Keys
    PROVE  IsAfterCursor(a, c) <=> compareRecordsForAPI(c, a)
  <1>1. a.date \in Nat /\ a.order \in Nat /\ a.id \in Nat /\ c.date \in Nat /\ c.order \in Nat /\ c.id \in Nat
    BY DEF Keys
  <1> QED
    BY <1>1 DEF IsAfterCursor, compareRecordsForAPI

\* sortRecordsForAPI returns every key once, in order.
LEMMA Sorting ==
    ASSUME NEW K \in SUBSET Keys, IsFiniteSet(K)
    PROVE  LET s == sortRecordsForAPI(K) IN
           /\ s \in Seq(K) /\ Len(s) = Cardinality(K) /\ Cardinality(K) \in Nat
           /\ \A k \in K : \E i \in 1..Len(s) : s[i] = k
           /\ \A i, j \in 1..Len(s) : i < j => compareRecordsForAPI(s[i], s[j])
  <1> DEFINE n == Cardinality(K)
             Below(k) == {x \in K : ~compareRecordsForAPI(k, x)}
             rank == [k \in K |-> Cardinality(Below(k))]
             Good(s) == \A i, j \in DOMAIN s : i < j => compareRecordsForAPI(s[i], s[j])
  <1>1. n \in Nat /\ IsFiniteSet(1..n) /\ Cardinality(1..n) = n
    BY FS_CardinalityType, FS_Interval
  <1>2. ASSUME NEW k \in K PROVE IsFiniteSet(Below(k)) /\ Cardinality(Below(k)) \in 1..n /\ k \in Below(k)
    <2>1. IsFiniteSet(Below(k)) /\ Cardinality(Below(k)) <= n /\ Cardinality(Below(k)) \in Nat
      BY FS_Subset, FS_CardinalityType
    <2>2. k \in Below(k)
      BY Comparison
    <2>3. Cardinality(Below(k)) # 0
      BY <2>1, <2>2, FS_EmptySet
    <2> QED
      BY <1>1, <2>1, <2>2, <2>3
  <1>3. ASSUME NEW k \in K, NEW l \in K, compareRecordsForAPI(k, l)
        PROVE  Cardinality(Below(k)) < Cardinality(Below(l))
    <2>1. Below(k) \subseteq Below(l)
      <3>1. SUFFICES ASSUME NEW x \in K, ~compareRecordsForAPI(k, x), compareRecordsForAPI(l, x) PROVE FALSE
        OBVIOUS
      <3> QED
        BY <1>3, <3>1, Comparison
    <2>2. l \in Below(l) /\ l \notin Below(k)
      BY <1>2, <1>3
    <2>3. /\ Cardinality(Below(k)) <= Cardinality(Below(l)) /\ Cardinality(Below(l)) # Cardinality(Below(k))
          /\ Cardinality(Below(k)) \in Nat /\ Cardinality(Below(l)) \in Nat
      BY <1>2, <2>1, <2>2, FS_Subset
    <2> QED
      BY <2>3
  <1>4. rank \in Injection(K, 1..n)
    <2>1. rank \in [K -> 1..n]
      BY <1>2
    <2>2. ASSUME NEW k \in K, NEW l \in K, rank[k] = rank[l] PROVE k = l
      <3>1. Cardinality(Below(k)) = Cardinality(Below(l)) /\ Cardinality(Below(k)) \in Nat
        BY <1>2, <2>2
      <3>2. ~compareRecordsForAPI(k, l) /\ ~compareRecordsForAPI(l, k)
        <4>1. ~(Cardinality(Below(k)) < Cardinality(Below(l))) /\ ~(Cardinality(Below(l)) < Cardinality(Below(k)))
          BY <3>1
        <4> QED
          BY <1>3, <4>1
      <3> QED
        BY <3>2, Comparison
    <2> QED
      BY <2>1, <2>2 DEF Injection, IsInjective
  <1>5. rank \in Surjection(K, 1..n)
    BY <1>1, <1>4, FS_Injection
  <1>6. \E s \in [1..n -> K] : Good(s)
    <2> DEFINE t == [i \in 1..n |-> CHOOSE k \in K : rank[k] = i]
    <2>1. \A i \in 1..n : t[i] \in K /\ rank[t[i]] = i
      BY <1>5 DEF Surjection
    <2>2. t \in [1..n -> K]
      BY <2>1
    <2> HIDE DEF t
    <2>3. ASSUME NEW i \in 1..n, NEW j \in 1..n, i < j PROVE compareRecordsForAPI(t[i], t[j])
      <3>1. t[i] \in K /\ t[j] \in K /\ Cardinality(Below(t[i])) = i /\ Cardinality(Below(t[j])) = j
        BY <2>1
      <3>2. t[i] # t[j] /\ ~compareRecordsForAPI(t[j], t[i])
        <4>1. ~(j < i)
          BY <1>1, <2>3
        <4>2. ASSUME compareRecordsForAPI(t[j], t[i]) PROVE FALSE
          <5>1. Cardinality(Below(t[j])) < Cardinality(Below(t[i]))
            BY <1>3, <3>1, <4>2
          <5> QED
            BY <3>1, <4>1, <5>1
        <4>3. t[i] # t[j]
          <5>1. SUFFICES ASSUME t[i] = t[j] PROVE FALSE
            OBVIOUS
          <5>2. Cardinality(Below(t[i])) = Cardinality(Below(t[j]))
            BY <5>1
          <5>3. i = j
            BY <3>1, <5>2
          <5> QED
            BY <1>1, <2>3, <5>3
        <4> QED
          BY <4>2, <4>3
      <3> QED
        BY <3>1, <3>2, Comparison
    <2>4. Good(t)
      BY <2>2, <2>3
    <2> QED
      BY <2>2, <2>4
  <1> DEFINE s == sortRecordsForAPI(K)
  <1>7. s \in [1..n -> K] /\ Good(s)
    BY <1>6 DEF sortRecordsForAPI
  <1> HIDE DEF s
  <1>8. DOMAIN s = 1..n /\ s \in Seq(K) /\ Len(s) = n
    BY <1>1, <1>7
  <1>9. s \in Injection(1..n, K)
    <2>1. ASSUME NEW i \in 1..n, NEW j \in 1..n, s[i] = s[j] PROVE i = j
      BY <1>1, <1>7, <1>8, <2>1, Comparison
    <2> QED
      BY <1>7, <1>8, <2>1 DEF Injection, IsInjective
  <1>10. s \in Surjection(1..n, K)
    BY <1>1, <1>9, FS_Injection
  <1> QED
    BY <1>1, <1>7, <1>8, <1>10 DEF Surjection, s

\* Positions and lists for any table of records.
KeyIn(r, id) == [date |-> r[id].date, order |-> r[id].order, id |-> id]
ListedIn(r, S) == sortRecordsForAPI({KeyIn(r, id) : id \in S})

\* The list, in terms of the stored records.
LEMMA ListedNow ==
    /\ \A S : Listed(S) = ListedIn(recs, S)
    /\ \A id : Key(id) = KeyIn(recs, id)
  BY DEF Listed, ListedIn, Key, KeyIn

\* A listing: every record of the set once, in the order of the comparison.
LEMMA Listing ==
    ASSUME NEW r, NEW S \in SUBSET Ids, \A id \in S : r[id] \in Rec
    PROVE  LET s == ListedIn(r, S) IN
           /\ s \in Seq(Position) /\ Len(s) \in Nat
           /\ \A i \in 1..Len(s) : s[i] \in Position /\ s[i].id \in S /\ s[i] = KeyIn(r, s[i].id)
           /\ \A id \in S : \E i \in 1..Len(s) : s[i].id = id
           /\ \A i, j \in 1..Len(s) : i < j => compareRecordsForAPI(s[i], s[j])
           /\ \A i, j \in 1..Len(s) : compareRecordsForAPI(s[i], s[j]) => i < j
           /\ \A i, j \in 1..Len(s) : s[i].id = s[j].id => i = j
  <1> DEFINE K == {KeyIn(r, id) : id \in S}
             s == ListedIn(r, S)
  <1>1. \A id \in S : KeyIn(r, id) \in Position /\ KeyIn(r, id).id = id
    BY DEF KeyIn, Position, Rec
  <1>2. Position \subseteq Keys
    BY ServerAssumption DEF Position, Keys
  <1>3. IsFiniteSet(K)
    <2> DEFINE f == [id \in S |-> KeyIn(r, id)]
    <2>1. f \in Surjection(S, K)
      BY DEF Surjection
    <2> QED
      BY <2>1, ServerAssumption, FS_Subset, FS_Surjection
  <1>4. K \in SUBSET Position
    BY <1>1
  <1>5. /\ s \in Seq(K) /\ Len(s) \in Nat
        /\ \A k \in K : \E i \in 1..Len(s) : s[i] = k
        /\ \A i, j \in 1..Len(s) : i < j => compareRecordsForAPI(s[i], s[j])
    <2>1. K \in SUBSET Keys
      BY <1>2, <1>4
    <2> HIDE DEF K
    <2> QED
      BY <1>3, <2>1, Sorting DEF ListedIn, K
  <1> HIDE DEF s
  <1>6. \A i \in 1..Len(s) : s[i] \in K
    BY <1>5
  <1>7. \A i \in 1..Len(s) : s[i] \in Position /\ s[i] \in Keys /\ s[i].id \in S /\ s[i] = KeyIn(r, s[i].id)
    BY <1>1, <1>2, <1>6
  <1>8. s \in Seq(Position)
    BY <1>5, <1>4
  <1>9. \A id \in S : \E i \in 1..Len(s) : s[i].id = id
    BY <1>1, <1>5
  <1>10. ASSUME NEW i \in 1..Len(s), NEW j \in 1..Len(s), compareRecordsForAPI(s[i], s[j]) PROVE i < j
    BY <1>5, <1>7, <1>10, Comparison
  <1>11. ASSUME NEW i \in 1..Len(s), NEW j \in 1..Len(s), s[i].id = s[j].id PROVE i = j
    <2>1. s[i] = s[j]
      BY <1>7, <1>11
    <2> QED
      BY <1>5, <1>7, <2>1, Comparison
  <1> QED
    BY <1>5, <1>7, <1>8, <1>9, <1>10, <1>11 DEF s

\* An ID occurs once in a list of IDs, or never.
Once(g, id) == \E i \in 1..Len(g) : g[i] = id /\ \A j \in 1..Len(g) : g[j] = id => j = i
Never(g, id) == \A i \in 1..Len(g) : g[i] # id

\* What a longer list of IDs holds.
LEMMA Appended ==
    ASSUME NEW g \in Seq(Ids), NEW h \in Seq(Ids), NEW id
    PROVE  /\ Never(g, id) /\ Never(h, id) => Never(g \o h, id)
           /\ Never(g, id) /\ Once(h, id) => Once(g \o h, id)
           /\ Once(g, id) /\ Never(h, id) => Once(g \o h, id)
  <1> DEFINE c == g \o h
  <1>1. /\ c \in Seq(Ids) /\ Len(c) = Len(g) + Len(h) /\ Len(g) \in Nat /\ Len(h) \in Nat
        /\ \A i \in 1..Len(g) : c[i] = g[i]
        /\ \A i \in 1..Len(h) : c[Len(g) + i] = h[i]
    OBVIOUS
  <1>2. ASSUME NEW i \in 1..Len(c) PROVE i \in 1..Len(g) \/ \E k \in 1..Len(h) : i = Len(g) + k
    <2>1. i \in 1..Len(g) \/ (i - Len(g) \in 1..Len(h) /\ i = Len(g) + (i - Len(g)))
      BY <1>1
    <2> QED
      BY <2>1
  <1> HIDE DEF c
  <1>3. Never(g, id) /\ Never(h, id) => Never(c, id)
    BY <1>1, <1>2 DEF Never
  <1>4. ASSUME Never(g, id), Once(h, id) PROVE Once(c, id)
    <2>1. PICK k \in 1..Len(h) : h[k] = id /\ \A j \in 1..Len(h) : h[j] = id => j = k
      BY <1>4 DEF Once
    <2>2. Len(g) + k \in 1..Len(c) /\ c[Len(g) + k] = id
      BY <1>1, <2>1
    <2>3. \A j \in 1..Len(c) : c[j] = id => j = Len(g) + k
      <3>1. SUFFICES ASSUME NEW j \in 1..Len(c), c[j] = id PROVE j = Len(g) + k
        OBVIOUS
      <3>2. j \notin 1..Len(g)
        BY <1>1, <1>4, <3>1 DEF Never
      <3>3. PICK l \in 1..Len(h) : j = Len(g) + l
        BY <1>2, <3>2
      <3>4. h[l] = id
        BY <1>1, <3>1, <3>3
      <3> QED
        BY <2>1, <3>3, <3>4
    <2> QED
      BY <2>2, <2>3 DEF Once
  <1>5. ASSUME Once(g, id), Never(h, id) PROVE Once(c, id)
    <2>1. PICK k \in 1..Len(g) : g[k] = id /\ \A j \in 1..Len(g) : g[j] = id => j = k
      BY <1>5 DEF Once
    <2>2. k \in 1..Len(c) /\ c[k] = id
      BY <1>1, <2>1
    <2>3. \A j \in 1..Len(c) : c[j] = id => j = k
      <3>1. SUFFICES ASSUME NEW j \in 1..Len(c), c[j] = id PROVE j = k
        OBVIOUS
      <3>2. j \in 1..Len(g)
        BY <1>1, <1>2, <1>5, <3>1 DEF Never
      <3> QED
        BY <1>1, <2>1, <3>1, <3>2
    <2> QED
      BY <2>2, <2>3 DEF Once
  <1> QED
    BY <1>3, <1>4, <1>5 DEF c

-----------------------------------------------------------------------------
(* The client that lists records page by page *)

\* The cursor is at the record or beyond it.
Passed(c, id) == c # None /\ ~IsAfterCursor(Key(id), c)

\* Of the records that nobody touched, the pages so far hold each one up to the
\* cursor once, and none after it.
PagesInv ==
    pages # None =>
        /\ PagesOK
        /\ \A id \in pages.start \ pages.touched :
              /\ Alive(id)
              /\ IF ~pages.more \/ Passed(pages.cursor, id) THEN Once(pages.got, id) ELSE Never(pages.got, id)

\* The fields of the client that has got a page.
LEMMA NextPage ==
    ASSUME NEW p \in [got: Seq(Ids), cursor: Position \cup {None}, more: BOOLEAN,
                      start: SUBSET Ids, touched: SUBSET Ids],
           NEW got \in Seq(Ids), NEW more \in BOOLEAN, NEW cursor \in Position \cup {None}
    PROVE  LET n == [p EXCEPT !.got = got, !.more = more, !.cursor = cursor] IN
           /\ n.got = got /\ n.more = more /\ n.cursor = cursor /\ n.start = p.start /\ n.touched = p.touched
           /\ n \in [got: Seq(Ids), cursor: Position \cup {None}, more: BOOLEAN, start: SUBSET Ids, touched: SUBSET Ids]
  <1> DEFINE L == Seq(Ids)
  <1>1. p \in [got: L, cursor: Position \cup {None}, more: BOOLEAN, start: SUBSET Ids, touched: SUBSET Ids] /\ got \in L
    OBVIOUS
  <1> HIDE DEF L
  <1>2. LET n == [p EXCEPT !.got = got, !.more = more, !.cursor = cursor] IN
        /\ n.got = got /\ n.more = more /\ n.cursor = cursor /\ n.start = p.start /\ n.touched = p.touched
        /\ n \in [got: L, cursor: Position \cup {None}, more: BOOLEAN, start: SUBSET Ids, touched: SUBSET Ids]
    BY <1>1
  <1> QED
    BY <1>2 DEF L

\* handleListRecords: the page is the rest of the list, or as much of it as fits.
LEMMA ListPageStep ==
    ASSUME IInv, PagesInv, handleListRecords
    PROVE  PagesInv'
  <1> DEFINE S == {id \in Ids : Alive(id) /\ (pages.cursor = None \/ IsAfterCursor(Key(id), pages.cursor))}
             rest == Listed(S)
             more == Len(rest) > PageLimit
             page == IF more THEN SubSeq(rest, 1, PageLimit) ELSE rest
             added == [i \in DOMAIN page |-> page[i].id]
             cursor == IF more THEN Last(page) ELSE pages.cursor
  <1>1. /\ pages # None /\ pages.more /\ UNCHANGED recs
        /\ pages' = [pages EXCEPT !.got = pages.got \o added, !.more = more, !.cursor = cursor]
    BY DEF handleListRecords
  <1>2. pages \in [got: Seq(Ids), cursor: Position \cup {None}, more: BOOLEAN,
                   start: SUBSET Ids, touched: SUBSET Ids]
    BY <1>1 DEF PagesInv, PagesOK
  <1>3. \A id \in Ids : Exists(id) => recs[id] \in Rec
    BY Stored DEF IInv
  <1>4. /\ rest \in Seq(Position) /\ Len(rest) \in Nat
        /\ \A i \in 1..Len(rest) : rest[i] \in Position /\ rest[i].id \in S /\ rest[i] = Key(rest[i].id)
        /\ \A id \in S : \E i \in 1..Len(rest) : rest[i].id = id
        /\ \A i, j \in 1..Len(rest) : i < j => compareRecordsForAPI(rest[i], rest[j])
        /\ \A i, j \in 1..Len(rest) : compareRecordsForAPI(rest[i], rest[j]) => i < j
        /\ \A i, j \in 1..Len(rest) : rest[i].id = rest[j].id => i = j
    <2>1. S \in SUBSET Ids /\ \A id \in S : recs[id] \in Rec
      BY <1>3 DEF Alive
    <2> HIDE DEF S
    <2> QED
      BY <2>1, Listing, ListedNow
  <1> HIDE DEF rest
  <1> DEFINE m == IF more THEN PageLimit ELSE Len(rest)
  <1>5. /\ m \in 0..Len(rest) /\ page \in Seq(Position) /\ DOMAIN page = 1..m /\ Len(page) = m
        /\ \A i \in 1..m : page[i] = rest[i]
    BY <1>4, ServerAssumption
  <1>6. added \in Seq(Ids) /\ Len(added) = m /\ \A i \in 1..m : added[i] = rest[i].id
    <2>1. \A i \in 1..m : page[i].id \in Ids
      BY <1>4, <1>5
    <2> HIDE DEF m, page
    <2>2. added = [i \in 1..m |-> page[i].id] /\ m \in Nat
      BY <1>5
    <2> QED
      BY <1>5, <2>1, <2>2
  <1>7. more => /\ cursor = rest[PageLimit] /\ PageLimit \in 1..Len(rest) /\ cursor # None /\ cursor \in Position /\ m = PageLimit
    BY <1>4, <1>5, ServerAssumption DEF Last
  <1>8. ~more => m = Len(rest)
    OBVIOUS
  <1>9. cursor \in Position \cup {None} /\ more \in BOOLEAN
    BY <1>2, <1>7
  <1> HIDE DEF more, page, added, cursor, m
  <1>10. /\ pages'.got = pages.got \o added /\ pages'.more = more /\ pages'.cursor = cursor
         /\ pages'.start = pages.start /\ pages'.touched = pages.touched
         /\ pages' \in [got: Seq(Ids), cursor: Position \cup {None}, more: BOOLEAN, start: SUBSET Ids, touched: SUBSET Ids]
    <2>1. pages.got \in Seq(Ids) /\ pages.got \o added \in Seq(Ids)
      BY <1>2, <1>6
    <2> QED
      BY <1>1, <1>2, <1>9, <2>1, NextPage, Zenon
  <1>11. ASSUME NEW id \in pages.start \ pages.touched
         PROVE  /\ Alive(id)
                /\ IF ~more \/ Passed(cursor, id) THEN Once(pages.got \o added, id)
                   ELSE Never(pages.got \o added, id)
    <2>1. /\ Alive(id) /\ id \in Ids /\ Key(id) \in Keys
          /\ IF Passed(pages.cursor, id) THEN Once(pages.got, id) ELSE Never(pages.got, id)
      BY <1>1, <1>2, <1>3, ServerAssumption DEF PagesInv, Alive, Key, Keys, Rec
    <2>2. pages.got \in Seq(Ids)
      BY <1>2
    <2>3. CASE Passed(pages.cursor, id)
      <3>1. id \notin S
        BY <2>3 DEF Passed
      <3>2. Never(added, id)
        BY <1>4, <1>5, <1>6, <3>1 DEF Never
      <3>3. Once(pages.got \o added, id)
        BY <1>6, <2>1, <2>2, <2>3, <3>2, Appended
      <3>4. ASSUME more PROVE Passed(cursor, id)
        <4>1. pages.cursor \in Keys /\ cursor \in Keys /\ IsAfterCursor(cursor, pages.cursor)
          <5>1. pages.cursor # None /\ cursor.id \in S /\ cursor = Key(cursor.id)
            BY <1>4, <1>7, <2>3, <3>4 DEF Passed
          <5> QED
            BY <1>2, <1>7, <3>4, <5>1, ServerAssumption DEF Position, Keys
        <4>2. ~IsAfterCursor(Key(id), cursor)
          BY <2>1, <2>3, <4>1, After, Comparison DEF Passed
        <4> QED
          BY <1>7, <3>4, <4>2 DEF Passed
      <3> QED
        BY <2>1, <3>3, <3>4
    <2>4. CASE ~Passed(pages.cursor, id)
      <3>1. id \in S
        BY <2>1, <2>4 DEF Passed
      <3>2. PICK k \in 1..Len(rest) : rest[k].id = id /\ rest[k] = Key(id)
        BY <1>4, <3>1
      <3>3. CASE k <= m
        <4>1. k \in 1..m /\ added[k] = id
          BY <1>5, <1>6, <3>2, <3>3
        <4>2. \A j \in 1..m : added[j] = id => j = k
          BY <1>4, <1>5, <1>6, <3>2
        <4>3. Once(added, id)
          BY <1>6, <4>1, <4>2 DEF Once
        <4>4. Once(pages.got \o added, id)
          BY <1>6, <2>1, <2>2, <2>4, <4>3, Appended
        <4>5. ASSUME more PROVE Passed(cursor, id)
          <5>1. ~compareRecordsForAPI(cursor, Key(id))
            BY <1>4, <1>5, <1>7, <3>2, <3>3, <4>5
          <5>2. cursor \in Keys
            BY <1>7, <4>5, ServerAssumption DEF Position, Keys
          <5> QED
            BY <1>7, <2>1, <4>5, <5>1, <5>2, After DEF Passed
        <4> QED
          BY <2>1, <4>4, <4>5
      <3>4. CASE ~(k <= m)
        <4>1. Never(added, id)
          BY <1>4, <1>5, <1>6, <3>2, <3>4, SMTT(30) DEF Never
        <4>2. Never(pages.got \o added, id)
          BY <1>6, <2>1, <2>2, <2>4, <4>1, Appended
        <4>3. more
          BY <1>5, <1>8, <3>4
        <4>4. compareRecordsForAPI(cursor, Key(id))
          BY <1>4, <1>5, <1>7, <3>2, <3>4, <4>3
        <4>5. cursor \in Keys
          BY <1>7, <4>3, ServerAssumption DEF Position, Keys
        <4>6. ~Passed(cursor, id)
          BY <2>1, <4>4, <4>5, After DEF Passed
        <4> QED
          BY <2>1, <4>2, <4>3, <4>6
      <3> QED
        BY <3>3, <3>4
    <2> QED
      BY <2>3, <2>4
  <1>12. \A id : Alive(id)' = Alive(id) /\ \A c : Passed(c, id)' = Passed(c, id)
    BY <1>1 DEF Alive, Exists, Passed, Key
  <1> QED
    BY <1>10, <1>11, <1>12 DEF PagesInv, PagesOK, Passed

-----------------------------------------------------------------------------
(* The reorder just made *)

\* A key between two ends, each of which may be open.
Between(key, ends) == (ends[1] # None => ends[1] < key) /\ (ends[2] # None => key < ends[2])

\* On this day one record stands right before or right after the other.
Beside(day, id, kind, ref) ==
    LET i == CHOOSE n \in DOMAIN day : day[n].id = id
        j == CHOOSE n \in DOMAIN day : day[n].id = ref
    IN  IF kind = "before" THEN j = i + 1 ELSE i = j + 1

\* A key between those of the neighbours puts the record next to the reference.
LEMMA Adjacent ==
    ASSUME NEW r, NEW t, NEW S \in SUBSET Ids, NEW id \in Ids, id \notin S, t[id] \in Rec,
           \A x \in S : r[x] \in Rec /\ t[x] = r[x] /\ r[x].date = t[id].date,
           NEW kind \in {"before", "after"}, NEW ref, ReferenceFound(ListedIn(r, S), kind, ref),
           Between(t[id].order, Around(ListedIn(r, S), kind, ref))
    PROVE  Beside(ListedIn(t, S \cup {id}), id, kind, ref)
  <1> DEFINE D == ListedIn(r, S)
             E == ListedIn(t, S \cup {id})
             k == CHOOSE x \in Index(D, ref) : TRUE
             i == CHOOSE n \in DOMAIN E : E[n].id = id
             j == CHOOSE n \in DOMAIN E : E[n].id = ref
             K == t[id].order
  <1>1. /\ D \in Seq(Position) /\ Len(D) \in Nat
        /\ \A n \in 1..Len(D) : D[n] \in Position /\ D[n].id \in S /\ D[n] = KeyIn(r, D[n].id)
        /\ \A x \in S : \E n \in 1..Len(D) : D[n].id = x
        /\ \A n, m \in 1..Len(D) : n < m => compareRecordsForAPI(D[n], D[m])
        /\ \A n, m \in 1..Len(D) : compareRecordsForAPI(D[n], D[m]) => n < m
        /\ \A n, m \in 1..Len(D) : D[n].id = D[m].id => n = m
    BY Listing
  <1>2. /\ E \in Seq(Position) /\ Len(E) \in Nat
        /\ \A n \in 1..Len(E) : E[n] \in Position /\ E[n].id \in S \cup {id} /\ E[n] = KeyIn(t, E[n].id)
        /\ \A x \in S \cup {id} : \E n \in 1..Len(E) : E[n].id = x
        /\ \A n, m \in 1..Len(E) : n < m => compareRecordsForAPI(E[n], E[m])
        /\ \A n, m \in 1..Len(E) : compareRecordsForAPI(E[n], E[m]) => n < m
        /\ \A n, m \in 1..Len(E) : E[n].id = E[m].id => n = m
    <2>1. S \cup {id} \in SUBSET Ids /\ \A x \in S \cup {id} : t[x] \in Rec
      OBVIOUS
    <2> QED
      BY <2>1, Listing
  <1>3. /\ ReferenceFound(D, kind, ref)
        /\ Around(D, kind, ref)[1] # None => Around(D, kind, ref)[1] < K
        /\ Around(D, kind, ref)[2] # None => K < Around(D, kind, ref)[2]
    BY DEF Between
  <1>4. DOMAIN D = 1..Len(D) /\ DOMAIN E = 1..Len(E)
    BY <1>1, <1>2
  <1> HIDE DEF D, E
  <1>5. k \in 1..Len(D) /\ D[k].id = ref /\ ref \in S
    <2>1. Index(D, ref) # {}
      BY <1>3 DEF ReferenceFound
    <2>2. k \in Index(D, ref)
      BY <2>1
    <2> QED
      BY <1>1, <1>4, <2>2 DEF Index
  <1>6. i \in 1..Len(E) /\ E[i].id = id
    BY <1>2, <1>4
  <1>7. j \in 1..Len(E) /\ E[j].id = ref
    BY <1>2, <1>4, <1>5
  <1>8. Around(D, kind, ref) = IF kind = "before" THEN <<OrderAt(D, k - 1), OrderAt(D, k)>>
                                                   ELSE <<OrderAt(D, k), OrderAt(D, k + 1)>>
    BY DEF Around
  <1> HIDE DEF k, i, j
  <1>9. \A n \in 1..Len(D) : D[n].order \in Nat /\ D[n].date = t[id].date /\ OrderAt(D, n) = D[n].order
    BY <1>1, <1>4 DEF OrderAt, KeyIn, Position
  <1>10. \A n \in 1..Len(E) : E[n].order \in Nat /\ E[n].date = t[id].date
    <2>1. SUFFICES ASSUME NEW n \in 1..Len(E) PROVE E[n].order \in Nat /\ E[n].date = t[id].date
      OBVIOUS
    <2>2. E[n].order \in Nat
      BY <1>2 DEF Position
    <2>3. PICK x \in S \cup {id} : E[n] = KeyIn(t, x)
      BY <1>2
    <2>4. E[n].date = t[x].date /\ t[x].date = t[id].date
      BY <2>3 DEF KeyIn
    <2> QED
      BY <2>2, <2>4
  <1>11. K \in Nat /\ E[i].order = K /\ t[id].date \in Nat
    <2>1. E[i] = KeyIn(t, id)
      BY <1>2, <1>6
    <2>2. t[id].order \in Nat /\ t[id].date \in Dates
      BY DEF Rec
    <2> QED
      <3>1. E[i].order = t[id].order
        BY <2>1 DEF KeyIn
      <3>2. t[id].date \in Nat
        BY <2>2, ServerAssumption
      <3> QED
        BY <2>2, <3>1, <3>2
  <1>12. \A n \in 1..Len(D), m \in 1..Len(E) : D[n].id = E[m].id => D[n] = E[m]
    <2>1. SUFFICES ASSUME NEW n \in 1..Len(D), NEW m \in 1..Len(E), D[n].id = E[m].id PROVE D[n] = E[m]
      OBVIOUS
    <2>2. PICK x \in S : x = D[n].id
      BY <1>1
    <2>3. D[n] = KeyIn(r, x) /\ E[m] = KeyIn(t, x) /\ t[x] = r[x]
      BY <1>1, <1>2, <2>1, <2>2
    <2> QED
      BY <2>3 DEF KeyIn
  <1>13. \A n, m \in 1..Len(D) : n < m => D[n].order <= D[m].order
    BY <1>1, <1>9, <1>11 DEF compareRecordsForAPI
  <1>14. \A n, m \in 1..Len(E) : n < m => E[n].order <= E[m].order
    BY <1>2, <1>10, <1>11 DEF compareRecordsForAPI
  <1>15. \A n \in 1..Len(D) : D[n].order # None
    BY <1>9, KeyAssumption
  <1>16. D[k] = E[j]
    BY <1>5, <1>7, <1>12
  <1>17. ASSUME NEW m \in 1..Len(E), m # i, m # j
         PROVE  \E p \in 1..Len(D) : D[p] = E[m]
    <2>1. E[m].id \in S
      BY <1>2, <1>6, <1>17
    <2>2. PICK p \in 1..Len(D) : D[p].id = E[m].id
      BY <1>1, <2>1
    <2> QED
      BY <1>12, <2>2
  <1>18. CASE kind = "before"
    <2>1. /\ OrderAt(D, k - 1) # None => OrderAt(D, k - 1) < K
          /\ K < D[k].order
      BY <1>3, <1>5, <1>8, <1>9, <1>15, <1>18
    <2>2. i < j
      BY <1>2, <1>6, <1>7, <1>9, <1>10, <1>11, <1>16, <1>5, <2>1 DEF compareRecordsForAPI
    <2>3. ASSUME j # i + 1 PROVE FALSE
      <3>1. i + 1 \in 1..Len(E) /\ i + 1 < j /\ i < i + 1
        BY <1>2, <1>6, <1>7, <2>2, <2>3
      <3>2. PICK p \in 1..Len(D) : D[p] = E[i + 1]
        BY <1>6, <1>7, <1>17, <3>1
      <3>3. p < k
        BY <1>1, <1>2, <1>5, <1>7, <1>16, <3>1, <3>2
      <3>4. k - 1 \in 1..Len(D) /\ p <= k - 1
        BY <1>1, <1>5, <3>2, <3>3
      <3>5. D[k - 1].order < K
        BY <1>9, <1>15, <2>1, <3>4
      <3>6. D[p].order <= D[k - 1].order
        BY <1>9, <1>13, <3>4
      <3>7. K <= D[p].order
        BY <1>6, <1>11, <1>14, <3>1, <3>2
      <3> QED
        BY <1>9, <1>11, <3>4, <3>5, <3>6, <3>7
    <2> QED
      BY <1>18, <2>3 DEF i, j, E, Beside
  <1>19. CASE kind = "after"
    <2>1. /\ D[k].order < K
          /\ OrderAt(D, k + 1) # None => K < OrderAt(D, k + 1)
      BY <1>3, <1>5, <1>8, <1>9, <1>15, <1>19
    <2>2. j < i
      BY <1>2, <1>6, <1>7, <1>9, <1>10, <1>11, <1>16, <1>5, <2>1 DEF compareRecordsForAPI
    <2>3. ASSUME i # j + 1 PROVE FALSE
      <3>1. j + 1 \in 1..Len(E) /\ j + 1 < i /\ j < j + 1
        BY <1>2, <1>6, <1>7, <2>2, <2>3
      <3>2. PICK p \in 1..Len(D) : D[p] = E[j + 1]
        BY <1>6, <1>7, <1>17, <3>1
      <3>3. k < p
        BY <1>1, <1>2, <1>5, <1>7, <1>16, <3>1, <3>2
      <3>4. k + 1 \in 1..Len(D) /\ k + 1 <= p
        BY <1>1, <1>5, <3>2, <3>3
      <3>5. K < D[k + 1].order
        BY <1>9, <1>15, <2>1, <3>4
      <3>6. D[k + 1].order <= D[p].order
        BY <1>9, <1>13, <3>4
      <3>7. D[p].order <= K
        BY <1>6, <1>11, <1>14, <3>1, <3>2
      <3> QED
        BY <1>9, <1>11, <3>4, <3>5, <3>6, <3>7
    <2> QED
      BY <1>19, <2>3 DEF i, j, E, Beside
  <1> QED
    BY <1>18, <1>19

\* A reorder that has its key: it lies between the neighbours of the position.
Planned(q) ==
    LET day == req[q].day
        arg == req[q].arg
    IN  /\ req[q].row.date = arg.date /\ ReferenceFound(day, arg.kind, arg.ref)
        /\ arg.inOrder => Between(req[q].row.order, Around(day, arg.kind, arg.ref))

\* The reorder just made, and those that have their key and write next.
PlaceInv ==
    /\ placed # None => placed \in [id: Ids, kind: Kinds, ref: Ids]
    /\ NextToReference
    /\ \A q \in Requests : In(q, "reorder", "order") => Planned(q)

\* The keys around a position of a day are naturals, or open ends.
LEMMA Ends ==
    ASSUME ServerOK, NEW date, NEW id \in Ids, NEW kind, NEW ref,
           ReferenceFound(siblingsOf(date, id), kind, ref)
    PROVE  LET ends == Around(siblingsOf(date, id), kind, ref) IN
           ends[1] \in Nat \cup {None} /\ ends[2] \in Nat \cup {None}
  <1> DEFINE S == {x \in Ids \ {id} : Alive(x) /\ recs[x].date = date}
             D == siblingsOf(date, id)
             k == CHOOSE x \in Index(D, ref) : TRUE
  <1>1. S \in SUBSET Ids /\ \A x \in S : recs[x] \in Rec
    BY Stored DEF Alive
  <1>2. D = ListedIn(recs, S)
    BY ListedNow DEF siblingsOf
  <1> HIDE DEF S, D
  <1>3. D \in Seq(Position) /\ \A n \in 1..Len(D) : D[n] \in Position
    BY <1>1, <1>2, Listing
  <1>4. \A n : OrderAt(D, n) \in Nat \cup {None}
    BY <1>3 DEF OrderAt, Position
  <1> HIDE DEF k
  <1> QED
    BY <1>4 DEF Around, k, D

\* placeRecord: the key lies between the neighbours, if they were in order.
LEMMA PlanMade ==
    ASSUME IInv, NEW q \in Requests, placeRecord(q), In(q, "reorder", "order")'
    PROVE  Planned(q)'
  <1> DEFINE arg == req[q].arg
             siblings == siblingsOf(arg.date, req[q].id)
             ends == Around(siblings, arg.kind, arg.ref)
             found == ReferenceFound(siblings, arg.kind, arg.ref)
             key == generateKeyBetween(ends[1], ends[2])
             inOrder == KeysInOrder(ends[1], ends[2])
             n == Place(req[q], arg.date, key, siblings, inOrder)
  <1>1. Holding(q) /\ req[q] # None /\ req[q].op = "reorder" /\ req[q].at = "write"
    BY DEF placeRecord, Holding, In
  <1>2. RequestOK(req[q]) /\ req[q].id \in Ids /\ req[q].row \in Rec /\ DOMAIN req = Requests
    BY <1>1, Held
  <1>3. /\ found => KeyFits(ends[1], ends[2])
        /\ req'[q] = IF found THEN n ELSE Move(req[q], "fail")
    <2>1. found => KeyFits(ends[1], ends[2])
      BY DEF placeRecord
    <2>2. req' = [req EXCEPT ![q] = IF found THEN n ELSE Move(req[q], "fail")]
      BY <1>2 DEF placeRecord, Place, Move
    <2> QED
      BY <1>2, <2>1, <2>2
  <1>4. found => ends[1] \in Nat \cup {None} /\ ends[2] \in Nat \cup {None}
    BY <1>2, Ends DEF IInv
  <1> HIDE DEF ends, found, siblings, key, inOrder
  <1>5. found
    <2>1. Move(req[q], "fail").at = "fail"
      BY <1>2, Moved
    <2> QED
      BY <1>3, <2>1 DEF In
  <1>6. inOrder => Between(key, ends)
    BY <1>3, <1>4, <1>5, KeyLiesBetween DEF inOrder, key, generateKeyBetween, Between
  <1>7. /\ n.row.date = arg.date /\ n.row.order = key /\ n.day = siblings
        /\ n.arg.inOrder = inOrder /\ n.arg.kind = arg.kind /\ n.arg.ref = arg.ref /\ n.arg.date = arg.date
    <2> DEFINE a == [arg EXCEPT !.inOrder = inOrder]
               w == [req[q].row EXCEPT !.date = arg.date, !.order = key]
    <2>1. a.inOrder = inOrder /\ a.kind = arg.kind /\ a.ref = arg.ref /\ a.date = arg.date
      BY <1>1, <1>2 DEF RequestOK
    <2>2. w.date = arg.date /\ w.order = key
      BY <1>2 DEF Rec
    <2>3. n.row = w /\ n.arg = a /\ n.day = siblings
      BY <1>2 DEF Place, RequestOK
    <2> HIDE DEF a, w, n
    <2> QED
      BY <2>1, <2>2, <2>3
  <1> HIDE DEF n
  <1> QED
    BY <1>3, <1>5, <1>6, <1>7 DEF Planned, ends, found

\* Only placeRecord makes a plan.
LEMMA PlansKept ==
    ASSUME IInv, [Next]_vars, NEW q \in Requests, In(q, "reorder", "order")', ~placeRecord(q)
    PROVE  In(q, "reorder", "order") /\ req'[q] = req[q]
  <1>1. DOMAIN req = Requests
    BY DEF IInv, ServerOK
  <1>2. UNCHANGED req => In(q, "reorder", "order") /\ req'[q] = req[q]
    BY DEF In
  <1>3. CASE UNCHANGED vars \/ CommandLine \/ startPages \/ handleListRecords \/ pollBegin \/ handleSyncChanges \/ Tick
    <2>1. UNCHANGED req
      BY <1>3 DEF vars, CommandLine, cliDelete, cliRestore, computeDayOrder, createRecord, copyFigure,
         createRecordFigure, copyDataFiles, addFails, rollBackRow, rollBackFiles, cliStops, runGCAll, gcDeleteRow, gcDeleteDir,
         startPages, handleListRecords, pollBegin, handleSyncChanges, Tick
    <2> QED
      BY <1>2, <2>1
  <1>4. ASSUME NEW p \in Requests, Receive(p) PROVE req'[p].at = "begin" /\ \A x \in Requests \ {p} : req'[x] = req[x]
    <2>1. \E op, id, arg : req' = [req EXCEPT ![p] = Request(op, id, arg)]
      BY <1>4 DEF Receive
    <2> QED
      BY <1>1, <2>1 DEF Request
  <1>5. ASSUME NEW p \in Requests, Handle(p), ~placeRecord(p)
        PROVE  /\ \A x \in Requests \ {p} : req'[x] = req[x]
               /\ ~In(p, "reorder", "order")'
    <2>1. ASSUME Respond(p) PROVE req'[p] = None /\ \A x \in Requests \ {p} : req'[x] = req[x]
      BY <1>1, <2>1 DEF Respond
    <2>2. ASSUME NEW at \in {"write", "remove"}, At(p, at), req[p] # None
          PROVE req'[p].at = at /\ \A x \in Requests \ {p} : req'[x] = req[x]
      <3>1. req' = [req EXCEPT ![p] = Move(req[p], at)] /\ RequestOK(req[p])
        BY <2>2, InProgress DEF At, Move
      <3> QED
        BY <1>1, <3>1, Moved
    <2>3. CASE readForUpdate(p)
      <3> DEFINE at == IF Alive(req[p].id) THEN "write" ELSE "fail"
                 row == recs[req[p].id]
      <3>1. req' = [req EXCEPT ![p] = Read(req[p], at, row)] /\ RequestOK(req[p])
        BY <1>1, <2>3, InProgress DEF readForUpdate, Read, In
      <3> HIDE DEF row
      <3>2. req'[p].at = at /\ \A x \in Requests \ {p} : req'[x] = req[x]
        BY <1>1, <3>1, HasRead
      <3> QED
        BY <3>2 DEF In
    <2>4. CASE purgeList(p)
      <3> DEFINE at == IF purgedIDs = {} THEN "remove" ELSE "delete"
      <3>1. req' = [req EXCEPT ![p] = List(req[p], purgedIDs, at)] /\ RequestOK(req[p])
        BY <1>1, <2>4, InProgress DEF purgeList, List, In
      <3>2. purgedIDs \in SUBSET Ids
        BY DEF purgedIDs, Trashed
      <3> HIDE DEF at
      <3>3. req'[p].at = at /\ \A x \in Requests \ {p} : req'[x] = req[x]
        BY <1>1, <3>1, <3>2, HasListed
      <3> QED
        BY <3>3 DEF In, at
    <2>5. CASE notFound(p) \/ handlePatchRecord(p) \/ handleReorderRecord(p) \/ handleDeleteRecord(p)
               \/ handleRestoreRecord(p) \/ handlePurgeTrash(p)
      <3>1. Respond(p)
        BY <2>5 DEF notFound, handlePatchRecord, handleReorderRecord, handleDeleteRecord, handleRestoreRecord, handlePurgeTrash
      <3> QED
        BY <2>1, <3>1 DEF In
    <2>6. CASE checkRecord(p) \/ PurgeDeletedRecords(p)
      <3>1. req[p] # None /\ (Respond(p) \/ At(p, "write") \/ At(p, "remove"))
        BY <2>6 DEF checkRecord, PurgeDeletedRecords, In
      <3> QED
        BY <2>1, <2>2, <3>1 DEF In
    <2> QED
      BY <1>5, <2>3, <2>4, <2>5, <2>6 DEF Handle
  <1>6. ASSUME NEW p \in Requests, placeRecord(p) PROVE \A x \in Requests \ {p} : req'[x] = req[x]
    BY <1>6 DEF placeRecord
  <1>7. ASSUME NEW p \in Requests, Receive(p) \/ Handle(p) PROVE In(q, "reorder", "order") /\ req'[q] = req[q]
    <2>1. p # q /\ req'[q] = req[q]
      BY <1>4, <1>5, <1>6, <1>7 DEF In
    <2> QED
      BY <2>1 DEF In
  <1> QED
    BY <1>3, <1>7 DEF Next

\* Rows change, and the client that lists records has them marked as touched.
Rewritten ==
    \E ids \in SUBSET Ids : Touched(ids) /\ \A id \in Ids \ ids : recs'[id] = recs[id]

\* Every write marks its rows as touched, and no reorder is the last change any more,
\* unless it is this one.
LEMMA RecordsChange ==
    ASSUME IInv, [Next]_vars
    PROVE  \/ (startPages \/ handleListRecords) /\ UNCHANGED <<recs, placed>>
           \/ UNCHANGED <<recs, pages, placed>>
           \/ Rewritten /\ (placed' = None \/ \E q \in Requests : handleReorderRecord(q) /\ Exists(req[q].id))
  <1>1. ASSUME NEW id \in Ids, NEW row, NEW ack, SetRow(id, row, ack) PROVE Rewritten
    BY <1>1 DEF SetRow, Rewritten
  <1>2. ASSUME NEW ids \in SUBSET Ids, DeleteRows(ids) PROVE Rewritten /\ placed' = None
    <2>1. \A id \in Ids \ ids : recs'[id] = recs[id]
      BY <1>2 DEF DeleteRows
    <2> QED
      BY <1>2, <2>1 DEF DeleteRows, Rewritten
  <1>3. NoWrite => UNCHANGED <<recs, pages, placed>>
    BY DEF NoWrite
  <1>4. CASE UNCHANGED vars \/ pollBegin \/ handleSyncChanges \/ Tick \/ startPages \/ handleListRecords
    BY <1>4 DEF vars, clients, pollBegin, handleSyncChanges, Tick, startPages, handleListRecords
  <1>5. ASSUME NEW id \in Ids, SoftDeleteRecord(id) \/ RestoreRecord(id) PROVE Rewritten /\ placed' = None
    BY <1>1, <1>5 DEF SoftDeleteRecord, RestoreRecord
  <1>6. CASE CommandLine
    <2>1. CASE \E id \in Ids : cliDelete(id) \/ cliRestore(id)
      BY <1>5, <2>1 DEF cliDelete, cliRestore
    <2>5. CASE copyFigure \/ createRecordFigure \/ copyDataFiles \/ addFails \/ rollBackFiles \/ cliStops
      BY <1>3, <2>5 DEF copyFigure, createRecordFigure, copyDataFiles, addFails, rollBackFiles, cliStops, clients
    <2>6. CASE rollBackRow
      <3>1. cli.id \in Ids
        BY <2>6, Commands DEF rollBackRow, AddAt, IInv
      <3>2. NoWrite \/ DeleteRows({cli.id})
        BY <2>6 DEF rollBackRow
      <3> QED
        BY <1>2, <1>3, <3>1, <3>2
    <2>2. CASE runGCAll \/ gcDeleteDir \/ \E date \in Dates, kind \in Kinds, ref \in Ids : computeDayOrder(date, kind, ref)
      BY <1>3, <2>2 DEF runGCAll, gcDeleteDir, computeDayOrder
    <2>3. CASE createRecord
      <3>1. Touched({cli.id}) /\ placed' = None /\ cli.id \in Ids /\ \A id \in Ids \ {cli.id} : recs'[id] = recs[id]
        BY <2>3, Commands DEF createRecord, AddAt, IInv
      <3> QED
        BY <3>1 DEF Rewritten
    <2>4. CASE gcDeleteRow
      <3>1. Min(cli.ids) \in Ids
        BY <2>4, Commands DEF gcDeleteRow, IInv
      <3>2. NoWrite \/ DeleteRows({Min(cli.ids)})
        BY <2>4 DEF gcDeleteRow
      <3> QED
        BY <1>2, <1>3, <3>1, <3>2
    <2> QED
      BY <1>6, <2>1, <2>2, <2>3, <2>4, <2>5, <2>6 DEF CommandLine
  <1>7. ASSUME NEW q \in Requests, Receive(q) \/ Handle(q)
        PROVE  \/ UNCHANGED <<recs, pages, placed>>
               \/ Rewritten /\ (placed' = None \/ (handleReorderRecord(q) /\ Exists(req[q].id)))
    <2>1. CASE Receive(q)
      BY <2>1 DEF Receive, clients
    <2>2. CASE readForUpdate(q) \/ notFound(q) \/ placeRecord(q) \/ checkRecord(q) \/ purgeList(q) \/ handlePurgeTrash(q)
      BY <1>3, <2>2 DEF readForUpdate, notFound, placeRecord, checkRecord, purgeList, handlePurgeTrash
    <2>3. CASE PurgeDeletedRecords(q)
      <3>1. Trashed \in SUBSET Ids
        BY DEF Trashed
      <3> QED
        BY <1>2, <2>3, <3>1 DEF PurgeDeletedRecords
    <2>4. CASE handleDeleteRecord(q) \/ handleRestoreRecord(q)
      <3>1. PICK id \in Ids : id = req[q].id
        BY <2>4, InProgress DEF handleDeleteRecord, handleRestoreRecord, In, RequestOK
      <3>2. NoWrite \/ SoftDeleteRecord(id) \/ RestoreRecord(id)
        BY <2>4, <3>1 DEF handleDeleteRecord, handleRestoreRecord
      <3> QED
        BY <1>3, <1>5, <3>2
    <2>5. CASE handlePatchRecord(q) \/ handleReorderRecord(q)
      <3>1. PICK id \in Ids : id = req[q].id
        BY <2>5, InProgress DEF handlePatchRecord, handleReorderRecord, In, RequestOK
      <3>2. CASE ~Exists(req[q].id)
        BY <1>3, <2>5, <3>2 DEF handlePatchRecord, handleReorderRecord
      <3>3. CASE Exists(req[q].id) /\ handlePatchRecord(q)
        <4>1. placed' = None /\ \E row, ack : SetRow(id, row, ack)
          BY <3>1, <3>3 DEF handlePatchRecord
        <4> QED
          BY <1>1, <4>1
      <3>4. CASE Exists(req[q].id) /\ handleReorderRecord(q)
        <4>1. \E row, ack : SetRow(id, row, ack)
          BY <3>1, <3>4 DEF handleReorderRecord
        <4> QED
          BY <1>1, <3>4, <4>1
      <3> QED
        BY <2>5, <3>2, <3>3, <3>4
    <2> QED
      BY <1>7, <2>1, <2>2, <2>3, <2>4, <2>5 DEF Handle
  <1> QED
    BY <1>4, <1>6, <1>7 DEF Next

\* What is read keeps what it had while others write.
LEMMA PagesKept ==
    ASSUME IInv, IInv', PagesInv, Rewritten \/ UNCHANGED <<recs, pages>>
    PROVE  PagesInv'
  <1>1. CASE UNCHANGED <<recs, pages>>
    BY <1>1 DEF PagesInv, PagesOK, Passed, Key, Alive, Exists
  <1>2. CASE Rewritten /\ pages # None
    <2>1. PICK ids \in SUBSET Ids : Touched(ids) /\ \A id \in Ids \ ids : recs'[id] = recs[id]
      BY <1>2 DEF Rewritten
    <2>2. pages \in [got: Seq(Ids), cursor: Position \cup {None}, more: BOOLEAN, start: SUBSET Ids, touched: SUBSET Ids]
      BY <1>2 DEF PagesInv, PagesOK
    <2>3. pages' = [pages EXCEPT !.touched = pages.touched \cup ids]
      BY <1>2, <2>1 DEF Touched
    <2>4. /\ pages'.got = pages.got /\ pages'.cursor = pages.cursor /\ pages'.more = pages.more
          /\ pages'.start = pages.start /\ pages'.touched = pages.touched \cup ids
          /\ pages' \in [got: Seq(Ids), cursor: Position \cup {None}, more: BOOLEAN, start: SUBSET Ids, touched: SUBSET Ids]
      <3> DEFINE L == Seq(Ids)
      <3>1. pages \in [got: L, cursor: Position \cup {None}, more: BOOLEAN, start: SUBSET Ids, touched: SUBSET Ids]
        BY <2>2
      <3> HIDE DEF L
      <3>2. /\ pages'.got = pages.got /\ pages'.cursor = pages.cursor /\ pages'.more = pages.more
            /\ pages'.start = pages.start /\ pages'.touched = pages.touched \cup ids
            /\ pages' \in [got: L, cursor: Position \cup {None}, more: BOOLEAN, start: SUBSET Ids, touched: SUBSET Ids]
        BY <2>3, <3>1
      <3> QED
        BY <3>2 DEF L
    <2>5. ASSUME NEW id \in pages'.start \ pages'.touched
          PROVE  /\ Alive(id)'
                 /\ IF ~pages'.more \/ Passed(pages.cursor, id)' THEN Once(pages'.got, id) ELSE Never(pages'.got, id)
      <3>1. id \in pages.start \ pages.touched /\ id \in Ids \ ids
        BY <2>2, <2>4, <2>5
      <3>2. recs'[id] = recs[id]
        BY <2>1, <3>1
      <3>3. Alive(id) /\ IF ~pages.more \/ Passed(pages.cursor, id) THEN Once(pages.got, id) ELSE Never(pages.got, id)
        BY <1>2, <3>1 DEF PagesInv
      <3>4. \A c : Passed(c, id)' = Passed(c, id)
        BY <3>2 DEF Passed, Key
      <3>5. Passed(pages.cursor, id)' = Passed(pages.cursor, id)
        BY <2>4, <3>2 DEF Passed, Key
      <3> QED
        BY <2>4, <3>2, <3>3, <3>5 DEF Alive, Exists
    <2> QED
      BY <2>4, <2>5 DEF PagesInv, PagesOK
  <1>3. CASE Rewritten /\ pages = None
    BY <1>3 DEF Rewritten, Touched, PagesInv
  <1> QED
    BY <1>1, <1>2, <1>3

\* Before the first page nothing has been seen.
LEMMA StartPagesStep ==
    ASSUME startPages
    PROVE  PagesInv'
  <1> DEFINE S == {id \in Ids : Alive(id)}
             p == [got |-> <<>>, cursor |-> None, more |-> TRUE, start |-> S, touched |-> {}]
  <1>1. pages' = p /\ UNCHANGED recs
    BY DEF startPages
  <1>2. /\ p.got = <<>> /\ p.cursor = None /\ p.more = TRUE /\ p.start = S /\ p.touched = {}
        /\ p \in [got: Seq(Ids), cursor: Position \cup {None}, more: BOOLEAN, start: SUBSET Ids, touched: SUBSET Ids]
    OBVIOUS
  <1> HIDE DEF p
  <1>3. \A id \in S : Alive(id)' /\ ~Passed(pages.cursor, id)' /\ Never(pages'.got, id)
    BY <1>1, <1>2 DEF Alive, Exists, Passed, Never
  <1> QED
    BY <1>1, <1>2, <1>3 DEF PagesInv, PagesOK

\* handleReorderRecord: on the day that the handler has seen, the record comes to
\* stand next to its reference.
LEMMA Placing ==
    ASSUME IInv, PlaceInv, NEW q \in Requests, handleReorderRecord(q), Exists(req[q].id)
    PROVE  /\ placed' # None => placed' \in [id: Ids, kind: Kinds, ref: Ids]
           /\ NextToReference'
  <1> DEFINE row == req[q].row
             arg == req[q].arg
  <1>1. Holding(q) /\ req[q] # None /\ req[q].op = "reorder" /\ In(q, "reorder", "order")
    BY DEF handleReorderRecord, Holding, In
  <1>2. /\ RequestOK(req[q]) /\ row \in Rec /\ Planned(q)
        /\ arg.kind \in Kinds /\ arg.ref \in Ids
    BY <1>1, Held DEF PlaceInv, RequestOK
  <1>3. PICK id \in Ids : id = req[q].id
    BY <1>1, Held
  <1> DEFINE w == Merge(id, row)
             rr == Update(id, w)
             S == {x \in Ids \ {id} : Alive(x) /\ recs[x].date = row.date}
             p == [id |-> id, kind |-> arg.kind, ref |-> arg.ref]
  <1>4. /\ recs' = [recs EXCEPT ![id] = rr]
        /\ placed' = IF arg.inOrder /\ siblingsOf(row.date, id) = req[q].day THEN p ELSE None
    BY <1>3 DEF handleReorderRecord, SetRow
  <1>5. p \in [id: Ids, kind: Kinds, ref: Ids] /\ p.id = id /\ p.kind = arg.kind /\ p.ref = arg.ref
    BY <1>2
  <1>6. rr \in Rec /\ rr.date = row.date /\ rr.order = row.order /\ rr.del = recs[id].del
    <2>1. w \in Rec /\ w.date = row.date /\ w.order = row.order /\ w.del = recs[id].del
      BY <1>2, <1>3, Merged DEF IInv
    <2> HIDE DEF w
    <2> QED
      BY <1>3, <2>1, Updated DEF IInv
  <1> HIDE DEF w, rr, p
  <1>7. /\ recs'[id] = rr /\ \A x \in Ids \ {id} : recs'[x] = recs[x]
    BY <1>4 DEF IInv, ServerOK
  <1>8. NextToReference'
    <2>1. SUFFICES ASSUME placed' # None, placed'.kind \in {"before", "after"}, Alive(placed.id)'
                   PROVE  LET day == Listed({x \in Ids : Alive(x) /\ recs[x].date = recs[placed.id].date})'
                              i == CHOOSE n \in DOMAIN day : day[n].id = placed'.id
                              j == CHOOSE n \in DOMAIN day : day[n].id = placed'.ref
                          IN  IF placed'.kind = "before" THEN j = i + 1 ELSE i = j + 1
      BY DEF NextToReference
    <2>2. placed' = p /\ arg.inOrder /\ siblingsOf(row.date, id) = req[q].day
      BY <1>4, <2>1
    <2>3. placed'.id = id /\ placed'.kind = arg.kind /\ placed'.ref = arg.ref
      BY <1>5, <2>2
    <2>4. /\ S \in SUBSET Ids /\ id \notin S
          /\ \A x \in S : recs[x] \in Rec /\ recs'[x] = recs[x] /\ recs[x].date = recs'[id].date
      BY <1>6, <1>7, Stored DEF Alive, IInv
    <2>5. req[q].day = ListedIn(recs, S)
      BY <2>2, ListedNow DEF siblingsOf
    <2>6. {x \in Ids : Alive(x)' /\ recs'[x].date = recs'[id].date} = S \cup {id}
      <3>1. Alive(id)' /\ id \in Ids
        BY <2>1, <2>3
      <3>2. ASSUME NEW x \in Ids \ {id} PROVE (Alive(x)' /\ recs'[x].date = recs'[id].date) <=> x \in S
        BY <1>6, <1>7 DEF Alive, Exists
      <3> HIDE DEF S
      <3> QED
        BY <2>4, <3>1, <3>2
    <2>7. Listed({x \in Ids : Alive(x) /\ recs[x].date = recs[placed.id].date})' = ListedIn(recs', S \cup {id})
      BY <2>3, <2>6 DEF Listed, ListedIn, Key, KeyIn
    <2>8. /\ ReferenceFound(ListedIn(recs, S), arg.kind, arg.ref)
          /\ Between(recs'[id].order, Around(ListedIn(recs, S), arg.kind, arg.ref))
      BY <1>2, <1>6, <1>7, <2>2, <2>5 DEF Planned
    <2>9. recs'[id] \in Rec
      BY <1>6, <1>7
    <2> HIDE DEF S, arg, row
    <2>10. arg.kind \in {"before", "after"}
      BY <2>1, <2>3
    <2>11. Beside(ListedIn(recs', S \cup {id}), id, arg.kind, arg.ref)
      BY <2>4, <2>8, <2>9, <2>10, Adjacent
    <2> QED
      BY <2>3, <2>7, <2>11 DEF Beside
  <1> QED
    BY <1>4, <1>5, <1>8

\* The reorder that has its key keeps it, and what was placed stays in place.
LEMMA PlaceKept ==
    ASSUME IInv, PlaceInv, [Next]_vars
    PROVE  PlaceInv'
  <1>1. ASSUME NEW q \in Requests, In(q, "reorder", "order")' PROVE Planned(q)'
    <2>1. CASE placeRecord(q)
      BY <1>1, <2>1, PlanMade
    <2>2. CASE ~placeRecord(q)
      <3>1. In(q, "reorder", "order") /\ req'[q] = req[q]
        BY <1>1, <2>2, PlansKept
      <3> QED
        BY <3>1 DEF PlaceInv, Planned
    <2> QED
      BY <2>1, <2>2
  <1>2. (placed' # None => placed' \in [id: Ids, kind: Kinds, ref: Ids]) /\ NextToReference'
    <2>1. CASE UNCHANGED <<recs, placed>>
      <3>1. NextToReference' = NextToReference
        BY <2>1 DEF NextToReference, Listed, Key, Alive, Exists
      <3> QED
        BY <2>1, <3>1 DEF PlaceInv
    <2>2. CASE placed' = None
      BY <2>2 DEF NextToReference
    <2>3. CASE \E q \in Requests : handleReorderRecord(q) /\ Exists(req[q].id)
      BY <2>3, Placing
    <2> QED
      BY <2>1, <2>2, <2>3, RecordsChange
  <1> QED
    BY <1>1, <1>2 DEF PlaceInv

\* The invariant of the pages, over every step.
LEMMA PagesStepOK ==
    ASSUME IInv, IInv', PagesInv, [Next]_vars
    PROVE  PagesInv'
  BY RecordsChange, PagesKept, StartPagesStep, ListPageStep

\* handleListRecords and handleReorderRecord: the invariants of the pages and of the
\* reorder hold in every reachable state, next to that of the store.
THEOREM ReadersInvariance == Spec => [](IInv /\ PagesInv /\ PlaceInv)
  <1>1. Init => IInv /\ PagesInv /\ PlaceInv
    <2>1. ASSUME Init PROVE PagesInv /\ PlaceInv
      BY <2>1, ServerAssumption DEF Init, PagesInv, PlaceInv, NextToReference, In
    <2> QED
      BY <2>1, InitOK
  <1>2. IInv /\ PagesInv /\ PlaceInv /\ [Next]_vars => (IInv /\ PagesInv /\ PlaceInv)'
    BY StepOK, PagesStepOK, PlaceKept
  <1> QED
    BY <1>1, <1>2, PTL DEF Spec

\* Every variable that a handler, a command or a client works on keeps its type.
THEOREM TypeCorrect == Spec => []TypeOK
  <1>1. IInv /\ PagesInv /\ PlaceInv => TypeOK
    BY DEF IInv, PagesInv, PlaceInv, TypeOK, PagesOK
  <1> QED
    BY <1>1, ReadersInvariance, PTL

\* handleListRecords: a client that follows the cursors to the end gets every record
\* that nobody touches meanwhile exactly once.
THEOREM PagesAreCompleteHolds == Spec => []PagesAreComplete
  <1>1. PagesInv => PagesAreComplete
    <2>1. SUFFICES ASSUME PagesInv, pages # None, ~pages.more, NEW id \in pages.start \ pages.touched
                   PROVE  Cardinality({i \in DOMAIN pages.got : pages.got[i] = id}) = 1
      BY DEF PagesAreComplete
    <2>2. Once(pages.got, id) /\ pages.got \in Seq(Ids)
      BY <2>1 DEF PagesInv, PagesOK
    <2>3. PICK k \in 1..Len(pages.got) : pages.got[k] = id /\ \A j \in 1..Len(pages.got) : pages.got[j] = id => j = k
      BY <2>2 DEF Once
    <2>4. {i \in DOMAIN pages.got : pages.got[i] = id} = {k}
      BY <2>2, <2>3
    <2> QED
      BY <2>4, FS_Singleton
  <1> QED
    BY <1>1, ReadersInvariance, PTL

\* handleReorderRecord: the record is next to its reference.
THEOREM NextToReferenceHolds == Spec => []NextToReference
  <1>1. PlaceInv => NextToReference
    BY DEF PlaceInv
  <1> QED
    BY <1>1, ReadersInvariance, PTL
=============================================================================
