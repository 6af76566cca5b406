-------------------------- MODULE RecordSyncProofs --------------------------
(* RecordSync for any number of devices, records, figures, data files, edits *)
(* and faults: with syncs that do not overlap.                                *)
EXTENDS RecordSync, TLAPS

(***************************************************************************)
(* The inductive invariant.                                                *)
(***************************************************************************)

\* NoRow, or a row with its dates in order: updated_at is never older than deleted_at.
Dated(x) == x = NoRow \/ (x.upd # NoTime /\ x.del <= x.upd /\ x.upd <= clock)

Dates ==
    /\ \A s \in Store, r \in Record : Dated(row[s][r])
    /\ \A d \in Device : Dated(cmd[d].old.row)
    /\ \A d \in Device :
          /\ cursor[d] <= clock /\ job[d].started <= clock
          /\ \A r \in Record : Dated(job[d].todo[r])
          /\ job[d].pc = "row" => Dated(job[d].new) /\ job[d].new # NoRow
          /\ job[d].pc \in {"list", "next", "row", "assets", "complete"} => job[d].last = cursor[d]

\* A sync ends in its pull.
PullsBeforeEnd == \A d \in Device : job[d].pc \in {"complete", "done"} => ~job[d].push

OneSync == \A d, e \in Device : job[d].pc # "idle" /\ job[e].pc # "idle" => d = e

Passing(d) == job[d].pc \in {"next", "row", "assets"}

\* Commands of a device run before or after its syncs.
NotBusy == "busy" \notin Features

\* A command's row is newer than the one it may return to, and a pull of its record is noted.
Commands == \A d \in Device :
    /\ NotBusy => raced = {} /\ (cmd[d].at = "idle" \/ job[d].pc = "idle")
    /\ cmd[d].at # "idle" =>
          /\ ~job[d].push /\ job[d].rec = cmd[d].rec => <<d, cmd[d].rec>> \in raced
          /\ <<d, cmd[d].rec>> \in raced \/ cmd[d].old.row = NoRow \/ row[d][cmd[d].rec].upd > cmd[d].old.row.upd

\* What the pass has listed is in the source still, unless it is pushed and a user acted; and the
\* cloud's row, or that of a device whose user did not act, stays the loser it was.
CarriedBy(d) ==
    Passing(d) =>
        /\ NotBusy \/ job[d].calm \/ ~job[d].push =>
              /\ \A r \in Record : job[d].todo[r] # NoRow => job[d].todo[r] = row[Source(d)][r]
              /\ job[d].pc = "row" => job[d].new = row[Source(d)][job[d].rec]
        /\ job[d].pc = "row" /\ (job[d].push \/ job[d].calm) => ~Beats(row[Target(d)][job[d].rec], job[d].new)

Carried == \A d \in Device : CarriedBy(d)

\* The versions that a device has of a record: its row, and the one that a command may return to.
IsVersion(d, r, x) == x = row[d][r] \/ (cmd[d].rec = r /\ x = cmd[d].old.row)

Fresher(x, y) == x # NoRow /\ (y = NoRow \/ Beats(x, y))

\* The pass will still come to a version of r that x does not beat.
Pending(d, r, x) ==
    \/ job[d].todo[r] # NoRow /\ ~Beats(x, job[d].todo[r])
    \/ job[d].pc = "row" /\ job[d].rec = r /\ ~Beats(x, job[d].new)

\* What the device has and the cloud has not is ahead of the cursor; in the push, it is
\* pending or newer than the sync; in the pull, newer than the sync.
PushCovered(d, r, x) ==
    Fresher(x, row[Cloud][r]) =>
        /\ x.upd >= cursor[d]
        /\ Passing(d) /\ job[d].push => x.upd >= job[d].started \/ Pending(d, r, x)
        /\ job[d].pc # "idle" /\ ~job[d].push => x.upd >= job[d].started

PushCovers ==
    \A d \in Device, r \in Record, x \in Row :
        IsVersion(d, r, x) /\ <<d, r>> \notin raced => PushCovered(d, r, x)

\* The same for what the cloud has; with another device, the cloud gets old versions too.
PullCovered(d, r, x) ==
    Fresher(row[Cloud][r], x) =>
        LET y == row[Cloud][r] IN
        /\ y.upd >= cursor[d]
        /\ Passing(d) /\ ~job[d].push => y.upd >= job[d].started \/ Pending(d, r, y)
        /\ job[d].pc \in {"complete", "done"} => y.upd >= job[d].started

OneDevice == \A d, e \in Device : d = e
PullCovers ==
    OneDevice /\ NotBusy =>
        \A d \in Device, r \in Record, x \in Row : IsVersion(d, r, x) => PullCovered(d, r, x)

RowsInv == TypeOK /\ Dates /\ PullsBeforeEnd /\ OneSync /\ Commands /\ Carried /\ PushCovers /\ PullCovers

\* The writes that are planned are of the right kind.
FigureOps == {"transfer", "createFigure", "updateFigure", "deleteFigure"}
DataOps == {"createDataRow", "updateDataRow", "createData", "updateData", "deleteData"}
OpsFit ==
    \A d \in Device : \A op \in job[d].ops :
        /\ job[d].pc \in {"row", "assets"}
        /\ op[1] \in FigureOps => op[2] \in Figure
        /\ op[1] \in DataOps => op[2] \in DataFile
        /\ op[1] \in {"createDataRow", "updateDataRow"} => job[d].push
        /\ op[1] \notin {"deleteFigure", "deleteData", "discard"} => job[d].want[op[2]] # 0
        /\ \A o \in job[d].ops : o[2] = op[2] /\ "transfer" \notin {o[1], op[1]} => o = op

\* A figure's binary is copied before its row is written, and removed after it.
FiguresFirst ==
    \A d \in Device : \A f \in Figure :
        LET r == job[d].rec
            t == Target(d)
            copied == IF job[d].push THEN obj[r][f] # 0 ELSE file[d][r][f] # 0
        IN  r # NoRecord /\ (job[d].push \/ <<d, r>> \notin raced) =>
              /\ <<"createFigure", f>> \in job[d].ops => <<"transfer", f>> \in job[d].ops \/ copied
              /\ <<"discard", f>> \in job[d].ops => child[t][r][f] = 0

\* How far the command c is with the row and the file of a, pc add's record aside.
Left(c, a, K) == \E k \in K : <<k, a>> \in c.ops
RowSoFar(c, a) ==
    IF c.at = "forward"
    THEN IF Left(c, a, {"copy", "writeRow", "deleteRow"}) THEN c.old.child[a] ELSE c.new.child[a]
    ELSE IF Left(c, a, {"restoreRow"}) THEN c.new.child[a] ELSE c.old.child[a]
FileSoFar(c, a) ==
    IF c.at = "forward"
    THEN IF Left(c, a, {"copy", "setAside", "dropFile"}) THEN c.old.file[a]
         ELSE IF Left(c, a, {"promote"}) THEN 0 ELSE c.new.file[a]
    ELSE IF Left(c, a, {"remove"}) THEN c.new.file[a]
         ELSE IF Left(c, a, {"putBack"}) THEN 0 ELSE c.old.file[a]

\* The writes that are left for a.
WritesFit(c, a) ==
    LET left(k) == <<k, a>> \in c.ops
        adds == c.old.row = NoRow
        input == c.new.child[a] # 0
        given == c.old.child[a] # 0
    IN  /\ c.at = "forward" /\ adds =>
              /\ \A k \in CmdKind \ {"copy", "writeRow"} : ~left(k)
              /\ left("copy") \/ left("writeRow") => input /\ ~(left("copy") /\ left("writeRow"))
        /\ c.at = "forward" /\ ~adds =>
              /\ \A k \in {"copy", "remove", "putBack", "restoreRow"} : ~left(k)
              /\ left("writeRow") \/ left("setAside") \/ left("promote") => input
              /\ ~(left("setAside") /\ left("promote"))
              /\ left("deleteRow") \/ left("dropFile") => given /\ ~input
              \* A file that the edit leaves out goes after everything else.
              /\ given /\ ~input /\ ~left("dropFile") => \A o \in c.ops : o[1] = "dropFile"
        /\ c.at = "undo" \/ c.at = "record" =>
              /\ \A k \in CmdKind \ {"remove", "putBack", "restoreRow"} : ~left(k)
              /\ ~(left("remove") /\ left("putBack"))
              /\ adds => ~left("putBack") /\ ~left("restoreRow")
        /\ c.at = "record" /\ ~adds => c.ops = {}

\* The input has a file for every row, which a data file's row is the hash of, and what was
\* there had one for every figure.
FilesGiven(c, a) ==
    /\ c.new.child[a] # 0 => c.new.file[a] # 0
    /\ c.new.child[a] # 0 /\ a \in DataFile => c.new.file[a] = c.new.child[a]
    /\ c.old.child[a] # 0 /\ c.old.file[a] = 0 => a \in DataFile
    /\ c.old.row = NoRow => c.old.child[a] = 0 /\ c.old.file[a] = 0
    /\ c.new.child[a] = 0 /\ c.old.child[a] = 0 => c.new.file[a] = c.old.file[a]
    /\ c.new.child[a] = 0 /\ c.old.child[a] # 0 => c.new.file[a] = 0

\* v is w, or a data file that pc fetch has changed.
OrFetched(a, v, w) == v = w \/ ("fetch" \in Features /\ a \in DataFile)

\* The row v and the file w of a are what c has left, or come to.
Fits(c, a, v, w) ==
    /\ WritesFit(c, a) /\ FilesGiven(c, a)
    /\ (c.at = "record" /\ c.old.row = NoRow) \/ v = RowSoFar(c, a)
    /\ OrFetched(a, w, FileSoFar(c, a))

\* The command of d has done what it has no writes left for.
CommandFits(d) == \A a \in Asset : Fits(cmd[d], a, child[d][cmd[d].rec][a], file[d][cmd[d].rec][a])

\* As long as its writes do not fail for good, and no pull comes between them.
CommandsFit ==
    \A d \in Device : cmd[d].at # "idle" /\ <<d, cmd[d].rec>> \notin cut \cup raced => CommandFits(d)

-----------------------------------------------------------------------------
(* Types *)

LEMMA Constants ==
    /\ NoRow \in Row /\ NoAssets \in [Asset -> Nat] /\ NoJob \in Job
    /\ NoRow.upd = 0 /\ NoRow.del = 0
    /\ NoJob.pc = "idle" /\ NoJob.push = TRUE /\ NoJob.rec = NoRecord /\ NoJob.ops = {} /\ NoJob.calm = TRUE
    /\ NoJob.last = 0 /\ NoJob.started = 0
    /\ NoJob.todo = [r \in Record |-> NoRow] /\ NoJob.new = NoRow
  <1>1. NoRow \in Row /\ NoAssets \in [Asset -> Nat]
    BY DEF NoRow, Row, NoAssets, NoTime
  <1>2. NoJob \in Job
    BY <1>1 DEF NoJob, Job
  <1> QED
    BY <1>1, <1>2 DEF NoRow, NoJob, NoTime

\* The job of a device.
LEMMA JobType ==
    ASSUME TypeOK, NEW d \in Device
    PROVE  /\ job[d] \in Job /\ job[d].push \in BOOLEAN /\ job[d].last \in Nat /\ job[d].started \in Nat
           /\ job[d].calm \in BOOLEAN
           /\ job[d].todo \in [Record -> Row] /\ job[d].rec \in Record \cup {NoRecord} /\ job[d].new \in Row
           /\ job[d].want \in [Asset -> Nat] /\ job[d].ops \subseteq OpKind \X Asset
           /\ (job[d].pc \in {"row", "assets"} => job[d].rec \in Record)
           /\ Source(d) \in Store /\ Target(d) \in Store
  BY DEF TypeOK, Job, Source, Target, Store

\* One row, child row, file or object changes.
LEMMA SetRowType ==
    ASSUME TypeOK, NEW s \in Store, NEW r \in Record, NEW x \in Row, row' = [row EXCEPT ![s][r] = x]
    PROVE  /\ row' \in [Store -> [Record -> Row]] /\ row'[s][r] = x
           /\ \A t \in Store, q \in Record : t # s \/ q # r => row'[t][q] = row[t][q]
  BY DEF TypeOK

LEMMA SetChildType ==
    ASSUME TypeOK, NEW s \in Store, NEW r \in Record, NEW a \in Asset, NEW v \in Nat,
           child' = [child EXCEPT ![s][r][a] = v]
    PROVE  /\ child' \in [Store -> [Record -> [Asset -> Nat]]] /\ child'[s][r][a] = v
           /\ \A t \in Store, q \in Record, b \in Asset : t # s \/ q # r \/ b # a => child'[t][q][b] = child[t][q][b]
  BY DEF TypeOK

LEMMA SetFileType ==
    ASSUME TypeOK, NEW s \in Device, NEW r \in Record, NEW a \in Asset, NEW v \in Nat,
           file' = [file EXCEPT ![s][r][a] = v]
    PROVE  /\ file' \in [Device -> [Record -> [Asset -> Nat]]] /\ file'[s][r][a] = v
           /\ \A t \in Device, q \in Record, b \in Asset : t # s \/ q # r \/ b # a => file'[t][q][b] = file[t][q][b]
  BY DEF TypeOK

LEMMA SetObjType ==
    ASSUME TypeOK, NEW r \in Record, NEW a \in Asset, NEW v \in Nat, obj' = [obj EXCEPT ![r][a] = v]
    PROVE  /\ obj' \in [Record -> [Asset -> Nat]] /\ obj'[r][a] = v
           /\ \A q \in Record, b \in Asset : q # r \/ b # a => obj'[q][b] = obj[q][b]
  BY DEF TypeOK

\* The command of a device.
LEMMA NoCommand ==
    /\ NoCmd \in Cmd /\ NoCmd.at = "idle" /\ NoCmd.rec = NoRecord /\ NoCmd.ops = {} /\ NoCmd.old.row = NoRow
  <1>1. NoRow \in Row /\ NoAssets \in [Asset -> Nat]
    BY Constants
  <1>2. NoCmd.was \in Intent
    BY <1>1 DEF NoCmd, Intent
  <1>3. NoCmd.old \in [row: Row, child: [Asset -> Nat], file: [Asset -> Nat]] /\ NoCmd.new \in [child: [Asset -> Nat], file: [Asset -> Nat]]
    BY <1>1 DEF NoCmd
  <1> QED
    BY <1>1, <1>2, <1>3 DEF NoCmd, Cmd

LEMMA CommandType ==
    ASSUME NEW c \in Cmd
    PROVE  /\ c.at \in {"idle", "forward", "undo", "record"} /\ c.rec \in Record \cup {NoRecord}
           /\ c.ops \subseteq CmdKind \X Asset /\ c.was \in Intent
           /\ c.old.row \in Row /\ c.old.child \in [Asset -> Nat] /\ c.old.file \in [Asset -> Nat]
           /\ c.new.child \in [Asset -> Nat] /\ c.new.file \in [Asset -> Nat]
  <1>1. /\ c.at \in {"idle", "forward", "undo", "record"} /\ c.rec \in Record \cup {NoRecord}
        /\ c.ops \subseteq CmdKind \X Asset /\ c.was \in Intent
        /\ c.old \in [row: Row, child: [Asset -> Nat], file: [Asset -> Nat]]
        /\ c.new \in [child: [Asset -> Nat], file: [Asset -> Nat]]
    BY DEF Cmd
  <1> QED
    BY <1>1

\* A command stays the same but for its writes, or is over.
SameCommand(c, x) == c.rec = x.rec /\ c.old = x.old /\ c.new = x.new /\ c.was = x.was
Continues(c, x) == c \in Cmd /\ (c = NoCmd \/ (SameCommand(c, x) /\ c.at # "idle"))

LEMMA OnwardType ==
    ASSUME NEW c \in Cmd, c.at # "idle", NEW ops \in SUBSET (CmdKind \X Asset)
    PROVE  /\ Continues(Onward(c, ops), c)
           /\ ops # {} => SameCommand(Onward(c, ops), c) /\ Onward(c, ops).at = c.at /\ Onward(c, ops).ops = ops
           /\ ops = {} /\ c.at = "undo" /\ c.old.row # NoRow =>
                 SameCommand(Onward(c, ops), c) /\ Onward(c, ops).at = "record" /\ Onward(c, ops).ops = {}
           /\ ops = {} /\ ~(c.at = "undo" /\ c.old.row # NoRow) => Onward(c, ops) = NoCmd
  <1>1. CASE ops # {}
    <2> DEFINE n == [c EXCEPT !.ops = ops]
    <2>1. n \in Cmd /\ SameCommand(n, c) /\ n.at = c.at /\ n.ops = ops
      BY DEF Cmd, SameCommand
    <2>2. Onward(c, ops) = n
      BY <1>1 DEF Onward
    <2> HIDE DEF n
    <2> QED
      BY <1>1, <2>1, <2>2 DEF Continues
  <1>2. CASE ops = {} /\ c.at = "undo" /\ c.old.row # NoRow
    <2> DEFINE n == [c EXCEPT !.at = "record", !.ops = {}]
    <2>1. n \in Cmd /\ SameCommand(n, c) /\ n.at = "record" /\ n.ops = {}
      BY DEF Cmd, SameCommand
    <2>2. Onward(c, ops) = n
      BY <1>2 DEF Onward
    <2> HIDE DEF n
    <2> QED
      BY <1>2, <2>1, <2>2 DEF Continues
  <1>3. CASE ops = {} /\ ~(c.at = "undo" /\ c.old.row # NoRow)
    BY <1>3, NoCommand DEF Onward, Continues
  <1> QED
    BY <1>1, <1>2, <1>3

\* The job after one of its writes.
LEMMA AfterType ==
    ASSUME TypeOK, NEW d \in Device, job[d].pc \in {"row", "assets"}, NEW op, NEW more \in SUBSET (OpKind \X Asset),
           After(d, op, more)
    PROVE  /\ job' \in [Device -> Job] /\ \A e \in Device \ {d} : job'[e] = job[e]
           /\ job'[d].push = job[d].push /\ job'[d].last = job[d].last /\ job'[d].started = job[d].started
           /\ job'[d].todo = job[d].todo /\ job'[d].calm = job[d].calm
           /\ \/ /\ job'[d].pc = "assets" /\ job'[d].rec = job[d].rec /\ job'[d].want = job[d].want
                 /\ job'[d].ops = (job[d].ops \ {op}) \cup more
              \/ job'[d].pc = "next" /\ job'[d].rec = NoRecord /\ job'[d].ops = {}
  <1> DEFINE ops == (job[d].ops \ {op}) \cup more
  <1>1. job \in [Device -> Job] /\ job[d] \in Job /\ ops \subseteq OpKind \X Asset
    BY JobType DEF TypeOK
  <1>2. CASE ops = {}
    <2> DEFINE j == [job[d] EXCEPT !.pc = "next", !.rec = NoRecord, !.new = NoRow,
                                   !.exists = FALSE, !.want = NoAssets, !.ops = {}]
    <2>1. job' = [job EXCEPT ![d] = j]
      BY <1>2 DEF After
    <2>2. /\ j \in Job /\ j.push = job[d].push /\ j.last = job[d].last /\ j.started = job[d].started
          /\ j.todo = job[d].todo /\ j.calm = job[d].calm /\ j.pc = "next" /\ j.rec = NoRecord /\ j.ops = {}
      BY ZenonT(60), <1>1, Constants DEF Job
    <2> HIDE DEF j
    <2> QED
      BY <1>1, <2>1, <2>2
  <1>3. CASE ops # {}
    <2> DEFINE j == [job[d] EXCEPT !.pc = "assets", !.ops = ops]
    <2>1. job' = [job EXCEPT ![d] = j]
      BY <1>3 DEF After
    <2>2. /\ j \in Job /\ j.push = job[d].push /\ j.last = job[d].last /\ j.started = job[d].started
          /\ j.todo = job[d].todo /\ j.calm = job[d].calm /\ j.pc = "assets" /\ j.rec = job[d].rec /\ j.ops = ops
          /\ j.want = job[d].want
      BY <1>1, Constants DEF Job
    <2> HIDE DEF j
    <2> QED
      BY <1>1, <2>1, <2>2
  <1> QED
    BY <1>2, <1>3

-----------------------------------------------------------------------------
(* What the operations do *)

\* The operations of users on a record, in a device or on the web.
DeviceOp(d, r) ==
    \/ \E A \in SUBSET Asset : Add(d, r, A)
    \/ \E A \in SUBSET Asset : \E C \in SUBSET A : Edit(d, r, A, C)
    \/ Move(d, r) \/ Delete(d, r) \/ Restore(d, r)

WebOp(r) == WebPatch(r) \/ WebOrder(r) \/ WebDelete(r) \/ WebRestore(r)

\* An operation touches one row, and stamps it with the present time.
Touched(s, r) ==
    /\ row' \in [Store -> [Record -> Row]]
    /\ row'[s][r].upd = clock /\ row'[s][r].del \in {NoTime, clock, row[s][r].del}
    /\ \A t \in Store, q \in Record : t # s \/ q # r => row'[t][q] = row[t][q]

\* A command starts on it.
Inputs == [child: [Asset -> Nat], file: [Asset -> Nat]]
Starts(d, r) == \E new \in Inputs, ops \in SUBSET (CmdKind \X Asset) : Start(d, r, new, ops)

LEMMA AddStarts ==
    ASSUME TypeOK, NEW d \in Device, NEW r \in Record, NEW A \in SUBSET Asset, Add(d, r, A)
    PROVE  Starts(d, r)
  <1> DEFINE c == [a \in Asset |-> IF a \notin A THEN 0 ELSE IF a \in Figure THEN Plain ELSE edits + 1]
             f == [a \in Asset |-> IF a \in A THEN edits + 1 ELSE 0]
             new == [child |-> c, file |-> f]
             ops == {"copy"} \X A
  <1>1. edits + 1 \in Nat
    BY DEF TypeOK
  <1>2. c \in [Asset -> Nat] /\ f \in [Asset -> Nat]
    BY <1>1 DEF Plain
  <1>3. ops \in SUBSET (CmdKind \X Asset)
    BY DEF CmdKind
  <1>4. Start(d, r, new, ops)
    BY DEF Add
  <1> HIDE DEF c, f, ops
  <1>5. new \in Inputs
    BY <1>2 DEF Inputs
  <1> QED
    BY <1>3, <1>4, <1>5 DEF Starts

LEMMA EditStarts ==
    ASSUME TypeOK, NEW d \in Device, NEW r \in Record, NEW A \in SUBSET Asset, NEW C \in SUBSET A, Edit(d, r, A, C)
    PROVE  Starts(d, r)
  <1> DEFINE old == {a \in Asset : child[d][r][a] # 0}
             content == [a \in Asset |-> IF a \in C THEN edits + 1 ELSE file[d][r][a]]
             c == [a \in Asset |-> IF a \notin A THEN 0 ELSE IF a \in Figure THEN Plain ELSE content[a]]
             f == [a \in Asset |-> IF a \in A THEN content[a] ELSE IF a \in old THEN 0 ELSE file[d][r][a]]
             new == [child |-> c, file |-> f]
             ops == EditPlan(old, A)
  <1>1. edits + 1 \in Nat /\ file[d][r] \in [Asset -> Nat]
    BY DEF TypeOK
  <1>2. content \in [Asset -> Nat]
    BY <1>1
  <1>3. c \in [Asset -> Nat] /\ f \in [Asset -> Nat]
    <2> HIDE DEF content, old
    <2> QED
      BY <1>1, <1>2 DEF Plain
  <1>4. ops \in SUBSET (CmdKind \X Asset)
    BY DEF EditPlan, CmdKind
  <1>5. Start(d, r, new, ops)
    BY DEF Edit
  <1> HIDE DEF c, f, ops
  <1>6. new \in Inputs
    BY <1>3 DEF Inputs
  <1> QED
    BY <1>4, <1>5, <1>6 DEF Starts

LEMMA DeviceRow ==
    ASSUME TypeOK, NEW d \in Device, NEW r \in Record, DeviceOp(d, r)
    PROVE  Touched(d, r) /\ AtDevice(d) /\ (WroteRow(d, r) \/ Starts(d, r))
  <1>1. row \in [Store -> [Record -> Row]] /\ d \in Store /\ clock \in Nat /\ edits + 1 \in Nat
    BY DEF TypeOK, Store
  <1>2. ASSUME NEW A \in SUBSET Asset, Add(d, r, A) PROVE Touched(d, r) /\ AtDevice(d) /\ Starts(d, r)
    <2>1. [upd |-> clock, del |-> NoTime, pay |-> edits + 1] \in Row
      BY <1>1 DEF Row, NoTime
    <2>2. AtDevice(d) /\ row' = [row EXCEPT ![d][r] = [upd |-> clock, del |-> NoTime, pay |-> edits + 1]]
      BY <1>2 DEF Add
    <2> QED
      BY <1>1, <1>2, <2>1, <2>2, AddStarts DEF Touched
  <1>3. ASSUME NEW x \in Row, x.upd = clock, x.del \in {NoTime, clock, row[d][r].del},
               row' = [row EXCEPT ![d] = [row[d] EXCEPT ![r] = x]]
        PROVE  Touched(d, r)
    BY <1>1, <1>3 DEF Touched
  <1> DEFINE x == [row[d][r] EXCEPT !.upd = clock, !.pay = edits + 1]
             y == [row[d][r] EXCEPT !.upd = clock, !.del = IF @ = NoTime THEN clock ELSE @]
             z == [row[d][r] EXCEPT !.upd = clock, !.del = NoTime]
  <1>4. /\ x \in Row /\ x.upd = clock /\ x.del = row[d][r].del
        /\ y \in Row /\ y.upd = clock /\ y.del \in {clock, row[d][r].del}
        /\ z \in Row /\ z.upd = clock /\ z.del = NoTime
    <2>1. row[d][r] \in Row /\ NoTime \in Nat
      BY <1>1 DEF NoTime
    <2>2. x \in Row /\ x.upd = clock /\ x.del = row[d][r].del
      BY <1>1, <2>1 DEF Row
    <2>3. z \in Row /\ z.upd = clock /\ z.del = NoTime
      BY <1>1, <2>1 DEF Row
    <2>4. CASE row[d][r].del = NoTime
      BY <1>1, <2>1, <2>2, <2>3, <2>4 DEF Row
    <2>5. CASE row[d][r].del # NoTime
      BY <1>1, <2>1, <2>2, <2>3, <2>5 DEF Row
    <2> QED
      BY <2>4, <2>5
  <1>5. ASSUME row' = [row EXCEPT ![d][r].upd = clock, ![d][r].pay = edits + 1]
        PROVE  row' = [row EXCEPT ![d] = [row[d] EXCEPT ![r] = x]]
    BY <1>1, <1>5
  <1>6. ASSUME row' = [row EXCEPT ![d][r].upd = clock, ![d][r].del = IF @ = NoTime THEN clock ELSE @]
        PROVE  row' = [row EXCEPT ![d] = [row[d] EXCEPT ![r] = y]]
    BY <1>1, <1>6
  <1>7. ASSUME row' = [row EXCEPT ![d][r].upd = clock, ![d][r].del = NoTime]
        PROVE  row' = [row EXCEPT ![d] = [row[d] EXCEPT ![r] = z]]
    BY <1>1, <1>7
  <1> HIDE DEF x, y, z
  <1>8. ASSUME NEW A \in SUBSET Asset, NEW C \in SUBSET A, Edit(d, r, A, C)
        PROVE  Touched(d, r) /\ AtDevice(d) /\ Starts(d, r)
    <2>1. AtDevice(d) /\ row' = [row EXCEPT ![d][r].upd = clock, ![d][r].pay = edits + 1]
      BY <1>8 DEF Edit
    <2> QED
      BY <1>3, <1>4, <1>5, <1>8, <2>1, EditStarts
  <1>9. CASE Move(d, r)
    BY <1>3, <1>4, <1>5, <1>9 DEF Move
  <1>10. CASE Delete(d, r)
    BY <1>3, <1>4, <1>6, <1>10 DEF Delete
  <1>11. CASE Restore(d, r)
    BY <1>3, <1>4, <1>7, <1>11 DEF Restore
  <1> QED
    BY <1>2, <1>8, <1>9, <1>10, <1>11 DEF DeviceOp

LEMMA WebRow ==
    ASSUME TypeOK, NEW r \in Record, WebOp(r)
    PROVE  Touched(Cloud, r) /\ WroteRow(Cloud, r) /\ OnWeb(r)
  <1>1. row \in [Store -> [Record -> Row]] /\ Cloud \in Store /\ clock \in Nat /\ edits + 1 \in Nat /\ NoTime \in Nat
    BY DEF TypeOK, Store, NoTime
  <1>2. ASSUME NEW x \in Row, x.upd = clock, x.del \in {NoTime, clock, row[Cloud][r].del},
               row' = [row EXCEPT ![Cloud] = [row[Cloud] EXCEPT ![r] = x]]
        PROVE  Touched(Cloud, r)
    BY <1>1, <1>2 DEF Touched
  <1> DEFINE x == [row[Cloud][r] EXCEPT !.upd = clock, !.pay = edits + 1]
             y == [row[Cloud][r] EXCEPT !.upd = clock, !.del = clock]
             z == [row[Cloud][r] EXCEPT !.upd = clock, !.del = NoTime]
  <1>3. /\ x \in Row /\ x.upd = clock /\ x.del = row[Cloud][r].del
        /\ y \in Row /\ y.upd = clock /\ y.del = clock
        /\ z \in Row /\ z.upd = clock /\ z.del = NoTime
    <2>1. row[Cloud][r] \in Row
      BY <1>1
    <2> QED
      BY <1>1, <2>1 DEF Row
  <1>4. ASSUME row' = [row EXCEPT ![Cloud][r].upd = clock, ![Cloud][r].pay = edits + 1]
        PROVE  row' = [row EXCEPT ![Cloud] = [row[Cloud] EXCEPT ![r] = x]]
    BY <1>1, <1>4
  <1>5. ASSUME row' = [row EXCEPT ![Cloud][r].upd = clock, ![Cloud][r].del = clock]
        PROVE  row' = [row EXCEPT ![Cloud] = [row[Cloud] EXCEPT ![r] = y]]
    BY <1>1, <1>5
  <1>6. ASSUME row' = [row EXCEPT ![Cloud][r].upd = clock, ![Cloud][r].del = NoTime]
        PROVE  row' = [row EXCEPT ![Cloud] = [row[Cloud] EXCEPT ![r] = z]]
    BY <1>1, <1>6
  <1> HIDE DEF x, y, z
  <1>7. CASE WebPatch(r) \/ WebOrder(r)
    BY <1>2, <1>3, <1>4, <1>7 DEF WebPatch, WebOrder
  <1>8. CASE WebDelete(r)
    BY <1>2, <1>3, <1>5, <1>8 DEF WebDelete
  <1>9. CASE WebRestore(r)
    BY <1>2, <1>3, <1>6, <1>9 DEF WebRestore
  <1> QED
    BY <1>7, <1>8, <1>9 DEF WebOp

LEMMA ContentsType ==
    ASSUME NEW rows \in [Asset -> Nat], NEW bins \in [Asset -> Nat]
    PROVE  Contents(rows, bins) \in [Asset -> Nat]
  BY DEF Contents

\* The jobs are the same, but for what they know of users.
SameJobs ==
    /\ job' \in [Device -> Job]
    /\ \A d \in Device :
          /\ job'[d].pc = job[d].pc /\ job'[d].push = job[d].push /\ job'[d].last = job[d].last
          /\ job'[d].started = job[d].started /\ job'[d].todo = job[d].todo /\ job'[d].rec = job[d].rec
          /\ job'[d].new = job[d].new /\ job'[d].want = job[d].want /\ job'[d].ops = job[d].ops
          /\ job'[d].calm => job[d].pc = "idle" /\ job[d].calm

LEMMA CalmsJobs ==
    ASSUME TypeOK, job' = [e \in Device |-> [job[e] EXCEPT !.calm = @ /\ job[e].pc = "idle"]]
    PROVE  SameJobs
  <1>1. ASSUME NEW d \in Device
        PROVE  /\ job'[d] \in Job /\ job'[d].pc = job[d].pc /\ job'[d].push = job[d].push /\ job'[d].last = job[d].last
               /\ job'[d].started = job[d].started /\ job'[d].todo = job[d].todo /\ job'[d].rec = job[d].rec
               /\ job'[d].new = job[d].new /\ job'[d].want = job[d].want /\ job'[d].ops = job[d].ops
               /\ job'[d].calm => job[d].pc = "idle" /\ job[d].calm
    <2> DEFINE calm == job[d].calm /\ job[d].pc = "idle"
               j == [job[d] EXCEPT !.calm = calm]
    <2>1. job'[d] = j
      OBVIOUS
    <2>2. job[d] \in Job /\ calm \in BOOLEAN
      BY DEF TypeOK
    <2>3. calm => job[d].pc = "idle" /\ job[d].calm
      OBVIOUS
    <2> HIDE DEF calm
    <2> QED
      BY <2>1, <2>2, <2>3 DEF Job
  <1>2. job' \in [Device -> Job]
    BY <1>1
  <1> QED
    BY <1>1, <1>2 DEF SameJobs

\* What an operation leaves alone, and what it notes.
LEMMA OperatedType ==
    ASSUME TypeOK, NEW r \in Record, NEW i \in Intent, Operated(r, i)
    PROVE  /\ SameJobs /\ Fresh(r) /\ UNCHANGED <<child, file, obj, cursor, clock, faults, cut>> /\ edits' \in Nat
           /\ intent' \in [Record -> Intent] /\ intent'[r] = i /\ \A q \in Record \ {r} : intent'[q] = intent[q]
  BY CalmsJobs DEF Operated, TypeOK

LEMMA ReturningType ==
    ASSUME TypeOK, NEW r \in Record, NEW i \in Intent
    PROVE  /\ ReturningTo(r, i) \in [Device -> Cmd]
           /\ \A e \in Device :
                 LET n == ReturningTo(r, i)[e] IN
                 /\ n.at = cmd[e].at /\ n.rec = cmd[e].rec /\ n.ops = cmd[e].ops /\ n.old = cmd[e].old /\ n.new = cmd[e].new
                 /\ n.was = IF cmd[e].rec = r THEN i ELSE cmd[e].was
  <1>1. ASSUME NEW e \in Device
        PROVE  LET n == IF cmd[e].rec = r THEN [cmd[e] EXCEPT !.was = i] ELSE cmd[e] IN
               /\ n \in Cmd
               /\ n.at = cmd[e].at /\ n.rec = cmd[e].rec /\ n.ops = cmd[e].ops /\ n.old = cmd[e].old /\ n.new = cmd[e].new
               /\ n.was = IF cmd[e].rec = r THEN i ELSE cmd[e].was
    <2>1. cmd[e] \in Cmd
      BY DEF TypeOK
    <2> QED
      BY <2>1 DEF Cmd
  <1> QED
    BY <1>1 DEF ReturningTo

\* The commands after an operation on r in s: they are the same, or one starts there.
SameTurn(e) ==
    /\ cmd'[e].at = cmd[e].at /\ cmd'[e].rec = cmd[e].rec /\ cmd'[e].ops = cmd[e].ops
    /\ cmd'[e].old = cmd[e].old /\ cmd'[e].new = cmd[e].new

Begun(e, r) ==
    /\ cmd[e].at = "idle" /\ cmd'[e].at = "forward" /\ cmd'[e].rec = r
    /\ cmd'[e].old = [row |-> row[e][r], child |-> child[e][r], file |-> file[e][r]]
    /\ ~job[e].push /\ job[e].rec = r => <<e, r>> \in raced'

Noted(s, r) ==
    /\ TypeOK' /\ SameJobs /\ Fresh(r) /\ UNCHANGED <<child, file, obj, cursor, clock, faults, cut>>
    /\ \A q \in Record \ {r} : intent'[q] = intent[q]
    /\ raced \subseteq raced' /\ raced' \subseteq raced \cup {<<s, r>>}
    /\ raced' # raced => s \in Device /\ job[s].rec = r /\ ~job[s].push
    /\ \A e \in Device \ {s} : SameTurn(e)
    /\ s \in Device => SameTurn(s) \/ Begun(s, r) \/ (cmd[s].at = "idle" /\ cmd'[s] = NoCmd)

LEMMA WroteNoted ==
    ASSUME TypeOK, NEW s \in Store, NEW r \in Record, Touched(s, r), WroteRow(s, r)
    PROVE  Noted(s, r) /\ raced' = raced /\ \A e \in Device : SameTurn(e)
  <1> DEFINE i == [pay |-> row'[s][r].pay, del |-> row'[s][r].del # NoTime, child |-> child[s][r],
                   content |-> Contents(child[s][r], IF s = Cloud THEN obj[r] ELSE file[s][r])]
  <1>1. i \in Intent
    <2>1. /\ row'[s][r].pay \in Nat /\ child[s][r] \in [Asset -> Nat] /\ obj[r] \in [Asset -> Nat]
          /\ s # Cloud => file[s][r] \in [Asset -> Nat]
      BY DEF Touched, TypeOK, Row, Store
    <2>2. Contents(child[s][r], IF s = Cloud THEN obj[r] ELSE file[s][r]) \in [Asset -> Nat]
      BY <2>1, ContentsType
    <2> QED
      BY <2>1, <2>2 DEF Intent
  <1>2. Operated(r, i) /\ cmd' = ReturningTo(r, i) /\ raced' = raced
    BY DEF WroteRow
  <1> HIDE DEF i
  <1>3. /\ SameJobs /\ Fresh(r) /\ UNCHANGED <<child, file, obj, cursor, clock, faults, cut>> /\ edits' \in Nat
        /\ intent' \in [Record -> Intent] /\ \A q \in Record \ {r} : intent'[q] = intent[q]
    BY <1>1, <1>2, OperatedType
  <1>4. cmd' \in [Device -> Cmd] /\ \A e \in Device : SameTurn(e)
    BY <1>1, <1>2, ReturningType DEF SameTurn
  <1>5. TypeOK'
    <2>1. row' \in [Store -> [Record -> Row]]
      BY DEF Touched
    <2>2. \A d \in Device : (job'[d].rec # NoRecord) <=> job'[d].pc \in {"row", "assets"}
      <3>1. \A d \in Device : job'[d].pc = job[d].pc /\ job'[d].rec = job[d].rec
        BY <1>3 DEF SameJobs
      <3>2. \A d \in Device : (job[d].rec # NoRecord) <=> job[d].pc \in {"row", "assets"}
        BY DEF TypeOK
      <3> QED
        BY <3>1, <3>2
    <2>3. \A d \in Device : (cmd'[d].rec # NoRecord) <=> cmd'[d].at # "idle"
      BY <1>4 DEF TypeOK, SameTurn
    <2> QED
      BY <1>2, <1>3, <1>4, <2>1, <2>2, <2>3 DEF TypeOK, SameJobs
  <1> QED
    BY <1>2, <1>3, <1>4, <1>5 DEF Noted

\* The command that has started, if it has anything left to do.
StartedWith(d, r, new, ops) ==
    /\ intent'[r] = [pay |-> row'[d][r].pay, del |-> row'[d][r].del # NoTime, child |-> new.child,
                     content |-> Contents(new.child, new.file)]
    /\ ops = {} => cmd'[d] = NoCmd
    /\ ops # {} => Begun(d, r) /\ cmd'[d].new = new /\ cmd'[d].ops = ops /\ cmd'[d].was = intent[r]

LEMMA StartNoted ==
    ASSUME TypeOK, NEW d \in Device, NEW r \in Record, NEW new \in Inputs, NEW ops \in SUBSET (CmdKind \X Asset),
           Touched(d, r), cmd[d].at = "idle", Start(d, r, new, ops)
    PROVE  Noted(d, r) /\ StartedWith(d, r, new, ops)
  <1> DEFINE i == [pay |-> row'[d][r].pay, del |-> row'[d][r].del # NoTime, child |-> new.child,
                   content |-> Contents(new.child, new.file)]
             old == [row |-> row[d][r], child |-> child[d][r], file |-> file[d][r]]
             c == [at |-> "forward", rec |-> r, ops |-> ops, old |-> old, new |-> new, was |-> intent[r]]
  <1>0. d \in Store /\ new.child \in [Asset -> Nat] /\ new.file \in [Asset -> Nat]
    BY DEF Store, Inputs
  <1>1. i \in Intent
    <2>1. row'[d][r].pay \in Nat
      BY <1>0 DEF Touched, Row
    <2>2. Contents(new.child, new.file) \in [Asset -> Nat]
      BY <1>0, ContentsType
    <2> QED
      BY <1>0, <2>1, <2>2 DEF Intent
  <1>2. c \in Cmd /\ c.at = "forward" /\ c.rec = r /\ c.old = old /\ c.new = new /\ c.was = intent[r]
    <2>1. old \in [row: Row, child: [Asset -> Nat], file: [Asset -> Nat]] /\ intent[r] \in Intent
      BY <1>0 DEF TypeOK
    <2> HIDE DEF old
    <2> QED
      BY <2>1 DEF Cmd, Inputs
  <1>3. /\ Operated(r, i) /\ cmd' = [ReturningTo(r, i) EXCEPT ![d] = Onward(c, ops)]
        /\ raced' = IF job[d].rec = r /\ ~job[d].push THEN raced \cup {<<d, r>>} ELSE raced
    BY DEF Start
  <1>4. ops # {} => Onward(c, ops).ops = ops /\ Onward(c, ops).at = "forward" /\ SameCommand(Onward(c, ops), c)
    BY <1>2, OnwardType
  <1>5. /\ Onward(c, ops) \in Cmd /\ (ops = {} => Onward(c, ops) = NoCmd)
    <2>1. c \in Cmd /\ c.at # "idle" /\ ~(c.at = "undo" /\ c.old.row # NoRow)
      BY <1>2
    <2> HIDE DEF c
    <2> QED
      BY <2>1, OnwardType DEF Continues
  <1>6. intent'[r] = i
    BY <1>1, <1>3, OperatedType
  <1> HIDE DEF c, i, old
  <1>7. /\ SameJobs /\ Fresh(r) /\ UNCHANGED <<child, file, obj, cursor, clock, faults, cut>> /\ edits' \in Nat
        /\ intent' \in [Record -> Intent] /\ intent'[r] = i /\ \A q \in Record \ {r} : intent'[q] = intent[q]
    BY <1>1, <1>3, OperatedType
  <1>8. /\ cmd' \in [Device -> Cmd] /\ cmd'[d] = Onward(c, ops)
        /\ \A e \in Device \ {d} : SameTurn(e)
    BY <1>1, <1>3, <1>5, ReturningType DEF SameTurn
  <1>9. /\ raced' \in SUBSET (Device \X Record) /\ raced \subseteq raced' /\ raced' \subseteq raced \cup {<<d, r>>}
        /\ raced' # raced => job[d].rec = r /\ ~job[d].push
        /\ ~job[d].push /\ job[d].rec = r => <<d, r>> \in raced'
    BY <1>3 DEF TypeOK
  <1>10. /\ ops = {} => cmd'[d] = NoCmd
         /\ ops # {} => Begun(d, r) /\ cmd'[d].new = new /\ cmd'[d].ops = ops /\ cmd'[d].was = intent[r]
    BY <1>2, <1>4, <1>5, <1>8, <1>9 DEF Begun, SameCommand, old
  <1>11. TypeOK'
    <2>1. row' \in [Store -> [Record -> Row]]
      BY DEF Touched
    <2>2. \A e \in Device : (job'[e].rec # NoRecord) <=> job'[e].pc \in {"row", "assets"}
      <3>1. \A e \in Device : job'[e].rec = job[e].rec /\ job'[e].pc = job[e].pc
        BY <1>7 DEF SameJobs
      <3>2. \A e \in Device : (job[e].rec # NoRecord) <=> job[e].pc \in {"row", "assets"}
        BY DEF TypeOK
      <3> QED
        BY <3>1, <3>2
    <2>3. (cmd'[d].rec # NoRecord) <=> cmd'[d].at # "idle"
      BY <1>10, NoCommand, RecordSyncAssumption DEF Begun
    <2>4. \A e \in Device : (cmd'[e].rec # NoRecord) <=> cmd'[e].at # "idle"
      BY <1>8, <2>3 DEF TypeOK, SameTurn
    <2> QED
      BY <1>7, <1>8, <1>9, <2>1, <2>2, <2>4 DEF TypeOK, SameJobs
  <1> QED
    BY <1>6, <1>7, <1>8, <1>9, <1>10, <1>11 DEF Noted, i, StartedWith

LEMMA DeviceNoted ==
    ASSUME TypeOK, NEW d \in Device, NEW r \in Record, DeviceOp(d, r)
    PROVE  Touched(d, r) /\ AtDevice(d) /\ Noted(d, r)
  <1>1. Touched(d, r) /\ AtDevice(d) /\ (WroteRow(d, r) \/ Starts(d, r)) /\ d \in Store
    BY DeviceRow DEF Store
  <1> QED
    BY <1>1, WroteNoted, StartNoted DEF Starts, AtDevice

-----------------------------------------------------------------------------
(* Versions of a row.  With deleted_at never after updated_at, a version's      *)
(* latest action is at updated_at, and a tie goes to the one not deleted.       *)

LEMMA InMilliseconds ==
    ASSUME NEW t \in Nat
    PROVE  truncateToMillisecond(t) = t
  <1>1. Milli = 1
    BY RecordSyncAssumption
  <1> QED
    BY <1>1 DEF truncateToMillisecond

LEMMA LatestIsUpdate ==
    ASSUME NEW x \in Row, x.del <= x.upd
    PROVE  latestRecordAction(x).when = x.upd /\ latestRecordAction(x).deleted = FALSE
  <1>1. x.upd \in Nat /\ x.del \in Nat
    BY DEF Row
  <1>2. truncateToMillisecond(x.upd) = x.upd /\ truncateToMillisecond(x.del) = x.del
    BY <1>1, InMilliseconds
  <1>3. ~(x.del > x.upd)
    BY <1>1
  <1> QED
    BY <1>2, <1>3 DEF latestRecordAction

\* x wins over y.
Newer(x, y) == x.upd > y.upd \/ (x.upd = y.upd /\ x.del = NoTime /\ y.del # NoTime)

LEMMA BeatsIsNewer ==
    ASSUME NEW x \in Row, x.del <= x.upd, NEW y \in Row, y.del <= y.upd
    PROVE  Beats(x, y) <=> Newer(x, y)
  <1>1. /\ latestRecordAction(x).when = x.upd /\ latestRecordAction(x).deleted = FALSE
        /\ latestRecordAction(y).when = y.upd /\ latestRecordAction(y).deleted = FALSE
    BY LatestIsUpdate
  <1>2. Rank(x) = (IF x.del # NoTime THEN 1 ELSE 2) /\ Rank(y) = IF y.del # NoTime THEN 1 ELSE 2
    BY <1>1 DEF Rank
  <1>3. Rank(x) > Rank(y) <=> x.del = NoTime /\ y.del # NoTime
    BY <1>2
  <1> QED
    BY <1>1, <1>3 DEF Beats, Newer

LEMMA WinnerIsNewer ==
    ASSUME NEW x \in Row, x.del <= x.upd, NEW y \in Row, y.del <= y.upd
    PROVE  /\ ResolveRecordWinner(x, y) = "local" <=> Newer(x, y)
           /\ ResolveRecordWinner(x, y) = "remote" <=> Newer(y, x)
           /\ ResolveRecordWinner(x, y) = "equal" <=> ~Newer(x, y) /\ ~Newer(y, x)
  <1>1. /\ latestRecordAction(x).when = x.upd /\ latestRecordAction(x).deleted = FALSE
        /\ latestRecordAction(y).when = y.upd /\ latestRecordAction(y).deleted = FALSE
        /\ x.upd \in Nat /\ y.upd \in Nat
    BY LatestIsUpdate DEF Row
  <1>2. ResolveRecordWinner(x, y) =
          IF x.upd # y.upd THEN IF x.upd > y.upd THEN "local" ELSE "remote"
          ELSE IF recordIsMoreActive(x, y) THEN "local"
          ELSE IF recordIsMoreActive(y, x) THEN "remote" ELSE "equal"
    BY <1>1 DEF ResolveRecordWinner
  <1>3. CASE x.upd # y.upd
    BY <1>1, <1>2, <1>3 DEF Newer
  <1>4. CASE x.upd = y.upd
    BY <1>1, <1>2, <1>4 DEF Newer, recordIsMoreActive
  <1> QED
    BY <1>3, <1>4

LEMMA BundleWinner ==
    ASSUME NEW d \in Device, job[d].push \in BOOLEAN, NEW x \in Row, x.del <= x.upd, NEW y \in Row, y.del <= y.upd
    PROVE  /\ ResolveBundle(d, x, y) = "source" <=> Newer(x, y)
           /\ ResolveBundle(d, x, y) = "none" <=> ~Newer(x, y) /\ ~Newer(y, x)
  <1>1. /\ ResolveRecordWinner(x, y) \in {"local", "remote", "equal"}
        /\ ResolveRecordWinner(y, x) \in {"local", "remote", "equal"}
    BY DEF ResolveRecordWinner
  <1>2. CASE job[d].push
    BY <1>1, <1>2, WinnerIsNewer DEF ResolveBundle
  <1>3. CASE ~job[d].push
    BY <1>1, <1>3, WinnerIsNewer DEF ResolveBundle
  <1> QED
    BY <1>2, <1>3

LEMMA ListedSince ==
    ASSUME NEW x \in Row, NEW t \in Nat, t = NoTime \/ x.upd >= t
    PROVE  UpdatedSince(x, t)
  <1>1. x.upd \in Nat
    BY DEF Row
  <1> QED
    BY <1>1, InMilliseconds DEF UpdatedSince

\* What is dated, and what that makes of Beats.
LEMMA DatedRow ==
    ASSUME TypeOK, NEW x \in Row, Dated(x)
    PROVE  /\ x.upd \in Nat /\ x.del \in Nat /\ x.del <= x.upd /\ x.upd <= clock /\ clock \in Nat
           /\ x # NoRow <=> x.upd # NoTime
  <1>1. x.upd \in Nat /\ x.del \in Nat /\ clock \in Nat /\ clock > 0
    BY DEF Row, TypeOK
  <1>2. x = NoRow => x.upd = 0 /\ x.del = 0
    BY Constants
  <1> QED
    BY <1>1, <1>2 DEF Dated, NoTime

LEMMA DatedBeats ==
    ASSUME TypeOK, NEW x \in Row, NEW y \in Row, Dated(x), Dated(y)
    PROVE  Beats(x, y) <=> Newer(x, y)
  <1>1. x.del <= x.upd /\ y.del <= y.upd
    BY DatedRow
  <1> QED
    BY <1>1, BeatsIsNewer

-----------------------------------------------------------------------------
(* The steps of a sync that only move its job.                              *)

\* Only the job of d, and what it writes, changes.
LEMMA SyncType ==
    ASSUME TypeOK, NEW d \in Device, job' \in [Device -> Job], \A e \in Device \ {d} : job'[e] = job[e],
           (job'[d].rec # NoRecord) <=> job'[d].pc \in {"row", "assets"},
           row' \in [Store -> [Record -> Row]], child' \in [Store -> [Record -> [Asset -> Nat]]],
           file' \in [Device -> [Record -> [Asset -> Nat]]], obj' \in [Record -> [Asset -> Nat]],
           cursor' \in [Device -> Nat], faults' \in Nat, UNCHANGED <<clock, edits, intent, cmd, cut>>,
           raced' \in SUBSET (Device \X Record)
    PROVE  TypeOK'
  BY DEF TypeOK

\* The job of d becomes j.
LEMMA JobOnlyType ==
    ASSUME TypeOK, NEW d \in Device, NEW j \in Job, job' = [job EXCEPT ![d] = j],
           (j.rec # NoRecord) <=> j.pc \in {"row", "assets"},
           cursor' \in [Device -> Nat], faults' \in Nat, UNCHANGED <<stores, clock, edits, intent, cmd, cut>>,
           raced' \in SUBSET (Device \X Record)
    PROVE  TypeOK' /\ job'[d] = j /\ \A e \in Device \ {d} : job'[e] = job[e]
  <1>1. job' \in [Device -> Job] /\ job'[d] = j /\ \A e \in Device \ {d} : job'[e] = job[e]
    BY DEF TypeOK
  <1>2. /\ row' \in [Store -> [Record -> Row]] /\ child' \in [Store -> [Record -> [Asset -> Nat]]]
        /\ file' \in [Device -> [Record -> [Asset -> Nat]]] /\ obj' \in [Record -> [Asset -> Nat]]
    BY DEF TypeOK, stores
  <1> QED
    BY <1>1, <1>2, SyncType

LEMMA BeginJob ==
    ASSUME TypeOK, NEW d \in Device, Begin(d)
    PROVE  /\ TypeOK' /\ UNCHANGED <<stores, cursor, clock, intent, commands>> /\ \A e \in Device \ {d} : job'[e] = job[e]
           /\ job'[d].pc = "list" /\ job'[d].push = TRUE /\ job'[d].last = cursor[d] /\ job'[d].started = clock
           /\ job'[d].rec = NoRecord /\ job'[d].ops = {} /\ \A r \in Record : job'[d].todo[r] = NoRow
  <1> DEFINE calm == \A e \in Device : cmd[e].at = "idle"
             j == [NoJob EXCEPT !.pc = "list", !.last = cursor[d], !.started = clock, !.calm = calm]
  <1>1. clock \in Nat /\ cursor \in [Device -> Nat]
    BY DEF TypeOK
  <1>2. /\ j \in Job /\ j.pc = "list" /\ j.push = TRUE /\ j.last = cursor[d] /\ j.started = clock
        /\ j.rec = NoRecord /\ j.ops = {} /\ \A r \in Record : j.todo[r] = NoRow
    <2>1. calm \in BOOLEAN
      OBVIOUS
    <2> HIDE DEF calm
    <2> QED
      BY <1>1, <2>1, Constants DEF Job
  <1>3. job' = [job EXCEPT ![d] = j] /\ UNCHANGED <<stores, cursor, clock, edits, faults, intent, commands>>
    BY DEF Begin
  <1> HIDE DEF j
  <1>4. cursor' \in [Device -> Nat] /\ faults' \in Nat /\ raced' \in SUBSET (Device \X Record)
    BY <1>1, <1>3 DEF TypeOK, commands
  <1>5. TypeOK' /\ job'[d] = j /\ \A e \in Device \ {d} : job'[e] = job[e]
    BY <1>2, <1>3, <1>4, JobOnlyType DEF commands
  <1> QED
    BY <1>2, <1>3, <1>5

\* The rows of the source that changed since the cursor are listed.
LEMMA ListJob ==
    ASSUME TypeOK, NEW d \in Device, listChangedRecords(d)
    PROVE  /\ TypeOK' /\ UNCHANGED <<stores, cursor, clock, intent, commands>> /\ \A e \in Device \ {d} : job'[e] = job[e]
           /\ job[d].pc = "list" /\ job'[d].pc = "next" /\ job'[d].push = job[d].push /\ job'[d].last = job[d].last
           /\ job'[d].started = job[d].started /\ job'[d].rec = NoRecord /\ job'[d].ops = job[d].ops
           /\ job'[d].calm = job[d].calm /\ Source(d) \in Store
           /\ \A r \in Record :
                 job'[d].todo[r] = IF row[Source(d)][r].upd # NoTime /\ UpdatedSince(row[Source(d)][r], job[d].last)
                                      THEN row[Source(d)][r] ELSE NoRow
  <1> DEFINE todo == [r \in Record |-> IF row[Source(d)][r].upd # NoTime /\ UpdatedSince(row[Source(d)][r], job[d].last)
                                       THEN row[Source(d)][r] ELSE NoRow]
             j == [job[d] EXCEPT !.pc = "next", !.todo = todo]
  <1>1. /\ job[d] \in Job /\ job[d].pc = "list" /\ Source(d) \in Store
        /\ job[d].rec = NoRecord /\ row \in [Store -> [Record -> Row]] /\ job \in [Device -> Job]
    BY JobType DEF TypeOK, listChangedRecords
  <1>2. /\ todo \in [Record -> Row]
        /\ \A r \in Record : todo[r] = IF row[Source(d)][r].upd # NoTime /\ UpdatedSince(row[Source(d)][r], job[d].last)
                                          THEN row[Source(d)][r] ELSE NoRow
    BY <1>1, Constants
  <1>3. job' = [job EXCEPT ![d] = j] /\ UNCHANGED <<stores, cursor, clock, edits, faults, intent, commands>>
    BY <1>1 DEF listChangedRecords
  <1> HIDE DEF todo
  <1>4. /\ j \in Job /\ j.pc = "next" /\ j.todo = todo /\ j.push = job[d].push /\ j.last = job[d].last
        /\ j.started = job[d].started /\ j.rec = NoRecord /\ j.ops = job[d].ops /\ j.calm = job[d].calm
    BY <1>1, <1>2 DEF Job
  <1> HIDE DEF j
  <1>5. cursor' \in [Device -> Nat] /\ faults' \in Nat /\ raced' \in SUBSET (Device \X Record)
    BY <1>3 DEF TypeOK, commands
  <1>6. TypeOK' /\ job'[d] = j /\ \A e \in Device \ {d} : job'[e] = job[e]
    BY <1>3, <1>4, <1>5, JobOnlyType DEF commands
  <1> QED
    BY <1>1, <1>2, <1>3, <1>4, <1>6

\* A listed record is applied next, or passed over.
LEMMA LoadJob ==
    ASSUME TypeOK, NEW d \in Device, NEW r \in Record, loadBundle(d, r)
    PROVE  LET source == job[d].todo[r]
               target == row[Target(d)][r]
               want == child[Source(d)][r]
               have == child[Target(d)][r]
           IN  /\ TypeOK' /\ UNCHANGED <<stores, cursor, clock, intent, cmd, cut>> /\ \A e \in Device \ {d} : job'[e] = job[e]
               /\ raced' = (IF job'[d].rec = r /\ ~job[d].push /\ cmd[d].rec = r THEN raced \cup {<<d, r>>} ELSE raced)
               /\ job[d].pc = "next" /\ job[d].rec = NoRecord /\ source # NoRow
               /\ Source(d) \in Store /\ Target(d) \in Store
               /\ job'[d].push = job[d].push /\ job'[d].last = job[d].last /\ job'[d].started = job[d].started
               /\ job'[d].calm = job[d].calm /\ job'[d].todo[r] = NoRow /\ \A q \in Record \ {r} : job'[d].todo[q] = job[d].todo[q]
               /\ \/ /\ MustApply(d, source, target, want, have)
                     /\ job'[d].pc = "row" /\ job'[d].rec = r /\ job'[d].new = source
                     /\ job'[d].want = want
                     /\ job'[d].ops = PlanReconciliation(have, want)
                  \/ /\ ~MustApply(d, source, target, want, have)
                     /\ job'[d].pc = "next" /\ job'[d].rec = NoRecord /\ job'[d].ops = job[d].ops
  <1> DEFINE source == job[d].todo[r]
             target == row[Target(d)][r]
             want == child[Source(d)][r]
             have == child[Target(d)][r]
             todo == [job[d].todo EXCEPT ![r] = NoRow]
             ops == PlanReconciliation(have, want)
  <1>1. /\ job[d] \in Job /\ job[d].pc = "next" /\ job[d].rec = NoRecord /\ job \in [Device -> Job]
        /\ job[d].todo \in [Record -> Row] /\ source # NoRow
        /\ Target(d) \in Store /\ Source(d) \in Store
    <2>1. job[d].pc = "next" /\ source # NoRow
      BY DEF loadBundle
    <2>2. job[d].rec = NoRecord /\ job \in [Device -> Job]
      BY <2>1 DEF TypeOK
    <2> QED
      BY <2>1, <2>2, JobType
  <1>2. todo \in [Record -> Row] /\ todo[r] = NoRow /\ \A q \in Record \ {r} : todo[q] = job[d].todo[q]
    BY <1>1, Constants
  <1>3. source \in Row
    BY <1>1
  <1>4. /\ UNCHANGED <<stores, cursor, clock, edits, faults, intent, cmd, cut>>
        /\ raced' = (IF job'[d].rec = r /\ ~job[d].push /\ cmd[d].rec = r THEN raced \cup {<<d, r>>} ELSE raced)
    BY DEF loadBundle
  <1>5. cursor' \in [Device -> Nat] /\ faults' \in Nat /\ raced' \in SUBSET (Device \X Record)
    BY <1>4 DEF TypeOK, commands
  <1>6. CASE MustApply(d, source, target, want, have)
    <2> DEFINE j == [job[d] EXCEPT !.pc = "row", !.todo[r] = NoRow, !.rec = r, !.new = source,
                                   !.exists = (target.upd # NoTime), !.want = want, !.ops = ops]
    <2>1. job' = [job EXCEPT ![d] = j]
      BY <1>6 DEF loadBundle
    <2>2. want \in [Asset -> Nat] /\ ops \in SUBSET (OpKind \X Asset) /\ (target.upd # NoTime) \in BOOLEAN
      <3>1. want \in [Asset -> Nat]
        BY <1>1 DEF TypeOK
      <3>2. ops \in SUBSET (OpKind \X Asset)
        BY DEF PlanReconciliation, OpKind, Asset
      <3> QED
        BY <3>1, <3>2
    <2>3. /\ j \in Job /\ j.pc = "row" /\ j.todo = todo /\ j.push = job[d].push /\ j.last = job[d].last
          /\ j.started = job[d].started /\ j.rec = r /\ j.new = source /\ j.calm = job[d].calm
          /\ j.want = want /\ j.ops = ops
      <3> HIDE DEF want, ops, source, target
      <3> QED
        BY <1>1, <1>2, <1>3, <2>2 DEF Job
    <2> HIDE DEF j, todo
    <2>4. r # NoRecord
      BY RecordSyncAssumption
    <2>5. TypeOK' /\ job'[d] = j /\ \A e \in Device \ {d} : job'[e] = job[e]
      BY <1>4, <1>5, <2>1, <2>3, <2>4, JobOnlyType DEF commands
    <2> QED
      BY <1>1, <1>2, <1>4, <1>6, <2>3, <2>5
  <1>7. CASE ~MustApply(d, source, target, want, have)
    <2> DEFINE j == [job[d] EXCEPT !.todo[r] = NoRow]
    <2>1. job' = [job EXCEPT ![d] = j]
      BY <1>7 DEF loadBundle
    <2>2. /\ j \in Job /\ j.pc = "next" /\ j.todo = todo /\ j.push = job[d].push /\ j.last = job[d].last
          /\ j.started = job[d].started /\ j.rec = NoRecord /\ j.ops = job[d].ops /\ j.calm = job[d].calm
      BY <1>1, <1>2 DEF Job
    <2> HIDE DEF j, todo
    <2>3. TypeOK' /\ job'[d] = j /\ \A e \in Device \ {d} : job'[e] = job[e]
      BY <1>4, <1>5, <2>1, <2>2, JobOnlyType DEF commands
    <2> QED
      BY <1>1, <1>2, <1>4, <1>7, <2>2, <2>3
  <1> QED
    BY <1>6, <1>7

LEMMA EndPassJob ==
    ASSUME TypeOK, NEW d \in Device, EndPass(d)
    PROVE  /\ TypeOK' /\ UNCHANGED <<stores, cursor, clock, intent, commands>> /\ \A e \in Device \ {d} : job'[e] = job[e]
           /\ job[d].pc = "next" /\ job[d].rec = NoRecord /\ \A r \in Record : job[d].todo[r] = NoRow
           /\ job'[d].pc = (IF job[d].push THEN "list" ELSE "complete") /\ job'[d].push = FALSE
           /\ job'[d].last = job[d].last /\ job'[d].started = job[d].started /\ job'[d].todo = job[d].todo
           /\ job'[d].rec = NoRecord /\ job'[d].ops = job[d].ops /\ job'[d].calm = job[d].calm
  <1> DEFINE pc == IF job[d].push THEN "list" ELSE "complete"
             j == [job[d] EXCEPT !.pc = pc, !.push = FALSE]
  <1>1. /\ job[d] \in Job /\ job[d].pc = "next" /\ job[d].rec = NoRecord /\ job \in [Device -> Job]
        /\ \A r \in Record : job[d].todo[r] = NoRow
    <2>1. job[d].todo = [r \in Record |-> NoRow]
      BY Constants DEF EndPass
    <2>2. job[d].pc = "next" /\ job \in [Device -> Job] /\ job[d] \in Job
      BY DEF TypeOK, EndPass
    <2>3. job[d].rec = NoRecord
      BY <2>2 DEF TypeOK
    <2> QED
      BY <2>1, <2>2, <2>3
  <1>2. job' = [job EXCEPT ![d] = j] /\ UNCHANGED <<stores, cursor, clock, edits, faults, intent, commands>>
    BY <1>1 DEF EndPass
  <1>3. /\ j \in Job /\ j.pc = pc /\ j.todo = job[d].todo /\ j.push = FALSE /\ j.last = job[d].last
        /\ j.started = job[d].started /\ j.rec = NoRecord /\ j.ops = job[d].ops /\ j.calm = job[d].calm
    BY <1>1 DEF Job
  <1> HIDE DEF j
  <1>4. cursor' \in [Device -> Nat] /\ faults' \in Nat /\ raced' \in SUBSET (Device \X Record)
    BY <1>2 DEF TypeOK, commands
  <1>5. TypeOK' /\ job'[d] = j /\ \A e \in Device \ {d} : job'[e] = job[e]
    BY <1>2, <1>3, <1>4, JobOnlyType DEF commands
  <1> QED
    BY <1>1, <1>2, <1>3, <1>5

LEMMA CompleteJob ==
    ASSUME TypeOK, NEW d \in Device, Complete(d)
    PROVE  /\ TypeOK' /\ UNCHANGED <<stores, clock, intent, commands>> /\ \A e \in Device \ {d} : job'[e] = job[e]
           /\ cursor'[d] = job[d].started /\ \A e \in Device \ {d} : cursor'[e] = cursor[e]
           /\ job[d].pc = "complete" /\ job'[d].pc = "done" /\ job'[d].push = job[d].push
           /\ job'[d].started = job[d].started /\ job'[d].todo = job[d].todo
           /\ job'[d].rec = NoRecord /\ job'[d].ops = job[d].ops /\ job'[d].calm = job[d].calm
  <1> DEFINE j == [job[d] EXCEPT !.pc = "done"]
  <1>1. /\ job[d] \in Job /\ job[d].pc = "complete" /\ job[d].rec = NoRecord /\ job \in [Device -> Job]
        /\ job[d].started \in Nat /\ cursor \in [Device -> Nat]
    BY JobType DEF TypeOK, Complete
  <1>2. /\ job' = [job EXCEPT ![d] = j] /\ cursor' = [cursor EXCEPT ![d] = job[d].started]
        /\ UNCHANGED <<stores, clock, edits, faults, intent, commands>>
    BY <1>1 DEF Complete
  <1>3. /\ j \in Job /\ j.pc = "done" /\ j.todo = job[d].todo /\ j.push = job[d].push
        /\ j.started = job[d].started /\ j.rec = NoRecord /\ j.ops = job[d].ops /\ j.calm = job[d].calm
    BY <1>1 DEF Job
  <1> HIDE DEF j
  <1>4. cursor' \in [Device -> Nat] /\ cursor'[d] = job[d].started /\ \A e \in Device \ {d} : cursor'[e] = cursor[e]
    BY <1>1, <1>2
  <1>5. faults' \in Nat /\ raced' \in SUBSET (Device \X Record)
    BY <1>2 DEF TypeOK, commands
  <1>6. TypeOK' /\ job'[d] = j /\ \A e \in Device \ {d} : job'[e] = job[e]
    BY <1>2, <1>3, <1>4, <1>5, JobOnlyType DEF commands
  <1> QED
    BY <1>1, <1>2, <1>3, <1>4, <1>6

-----------------------------------------------------------------------------
(* Types: the other steps.                                                  *)

LEMMA ApplyJob ==
    ASSUME TypeOK, NEW d \in Device, applyRecord(d)
    PROVE  LET t == Target(d)
               r == job[d].rec
               new == job[d].new
               y == row'[t][r]
           IN  /\ TypeOK' /\ UNCHANGED <<child, file, obj, cursor, clock, intent, commands>>
               /\ \A e \in Device \ {d} : job'[e] = job[e]
               /\ job[d].pc = "row" /\ r \in Record /\ t \in Store
               /\ y \in Row /\ y.del = new.del /\ (y = new \/ y.upd = clock)
               /\ \A s \in Store, q \in Record : s # t \/ q # r => row'[s][q] = row[s][q]
               /\ job'[d].push = job[d].push /\ job'[d].last = job[d].last /\ job'[d].started = job[d].started
               /\ job'[d].todo = job[d].todo /\ job'[d].calm = job[d].calm
               /\ \/ job'[d].pc = "assets" /\ job'[d].rec = job[d].rec /\ job'[d].want = job[d].want /\ job'[d].ops = job[d].ops
                  \/ job'[d].pc = "next" /\ job'[d].rec = NoRecord /\ job'[d].ops = {}
  <1> DEFINE t == Target(d)
             r == job[d].rec
             new == job[d].new
             y == IF new.upd = row[t][r].upd THEN [new EXCEPT !.upd = clock] ELSE new
  <1>1. /\ job[d].pc = "row" /\ r \in Record /\ t \in Store /\ new \in Row /\ clock \in Nat
        /\ row \in [Store -> [Record -> Row]] /\ job[d].ops \subseteq OpKind \X Asset
    BY JobType DEF applyRecord, TypeOK
  <1>2. /\ row' = [row EXCEPT ![t][r] = y] /\ After(d, <<>>, {})
        /\ UNCHANGED <<child, file, obj, cursor, clock, edits, faults, intent, commands>>
    BY <1>1 DEF applyRecord
  <1>3. y \in Row /\ y.del = new.del /\ (y = new \/ y.upd = clock)
    <2>1. CASE new.upd = row[t][r].upd
      <3>1. y = [new EXCEPT !.upd = clock]
        BY <2>1
      <3> HIDE DEF y, new
      <3> QED
        BY <1>1, <3>1 DEF Row
    <2>2. CASE new.upd # row[t][r].upd
      BY <1>1, <2>2
    <2> QED
      BY <2>1, <2>2
  <1> HIDE DEF y
  <1>4. /\ row' \in [Store -> [Record -> Row]] /\ row'[t][r] = y
        /\ \A s \in Store, q \in Record : s # t \/ q # r => row'[s][q] = row[s][q]
    BY <1>1, <1>2, <1>3, SetRowType
  <1>5. (job[d].ops \ {<<>>}) \cup {} = job[d].ops
    <2>1. \A op \in OpKind \X Asset : op # <<>>
      OBVIOUS
    <2> QED
      BY <1>1, <2>1
  <1>6. /\ job' \in [Device -> Job] /\ \A e \in Device \ {d} : job'[e] = job[e]
        /\ job'[d].push = job[d].push /\ job'[d].last = job[d].last /\ job'[d].started = job[d].started
        /\ job'[d].todo = job[d].todo /\ job'[d].calm = job[d].calm
        /\ \/ job'[d].pc = "assets" /\ job'[d].rec = job[d].rec /\ job'[d].want = job[d].want /\ job'[d].ops = job[d].ops
           \/ job'[d].pc = "next" /\ job'[d].rec = NoRecord /\ job'[d].ops = {}
    BY ZenonT(60), <1>1, <1>2, <1>5, AfterType
  <1>7. (job'[d].rec # NoRecord) <=> job'[d].pc \in {"row", "assets"}
    BY <1>1, <1>6, RecordSyncAssumption
  <1>8. /\ child' \in [Store -> [Record -> [Asset -> Nat]]] /\ faults' \in Nat
        /\ file' \in [Device -> [Record -> [Asset -> Nat]]] /\ obj' \in [Record -> [Asset -> Nat]]
        /\ cursor' \in [Device -> Nat] /\ raced' \in SUBSET (Device \X Record)
    BY <1>2 DEF TypeOK, commands
  <1>9. TypeOK'
    BY <1>2, <1>4, <1>6, <1>7, <1>8, SyncType DEF commands
  <1> QED
    BY <1>1, <1>2, <1>3, <1>4, <1>6, <1>9

ChildWrite(d) ==
    \/ \E f \in Figure : uploadFigure(d, f) \/ downloadFigure(d, f)
    \/ \E k \in OpKind, a \in Asset :
          uploadDataFile(d, k, a) \/ createChildRow(d, k, a) \/ updateChildRow(d, k, a) \/ deleteChildRow(d, k, a)
    \/ \E a \in Asset : deleteObject(d, a) \/ removeLocalFile(d, a)

\* op was carried out, and its second half more is still to come.
Wrote(d, op, more) ==
    /\ Turn(d, op) /\ op \in OpKind \X Asset /\ more \in SUBSET (OpKind \X Asset)
    /\ After(d, op, more)
    /\ UNCHANGED <<row, cursor, clock, edits, faults, intent, commands>>

\* A child row, a file or an object of the record being replaced becomes v, and nothing else.
SetChild(s, r, a, v) == child' = [child EXCEPT ![s][r][a] = v] /\ UNCHANGED <<file, obj>>
SetFile(s, r, a, v) == file' = [file EXCEPT ![s][r][a] = v] /\ UNCHANGED <<child, obj>>
SetObj(r, a, v) == obj' = [obj EXCEPT ![r][a] = v] /\ UNCHANGED <<child, file>>

WroteChild(d, op, more, v) ==
    /\ Wrote(d, op, more) /\ job[d].pc = "assets" /\ job[d].rec \in Record
    /\ \/ /\ op[1] = "transfer" /\ op[2] \in Figure /\ job[d].push /\ more = {} /\ v # 0
          /\ v = file[d][job[d].rec][op[2]] /\ SetObj(job[d].rec, op[2], v)
       \/ /\ op[1] = "transfer" /\ op[2] \in Figure /\ ~job[d].push /\ more = {} /\ v # 0
          /\ v = obj[job[d].rec][op[2]] /\ SetFile(d, job[d].rec, op[2], v)
       \/ /\ op[1] \in {"createData", "updateData"} /\ job[d].push
          /\ more = {<<IF op[1] = "createData" THEN "createDataRow" ELSE "updateDataRow", op[2]>>}
          /\ v = (IF file[d][job[d].rec][op[2]] # 0 THEN file[d][job[d].rec][op[2]] ELSE obj[job[d].rec][op[2]])
          /\ SetObj(job[d].rec, op[2], v)
       \/ /\ op[1] \in Creating(d) /\ child[Target(d)][job[d].rec][op[2]] = 0 /\ more = ThenDiscard(op[1], op[2])
          /\ v = job[d].want[op[2]] /\ SetChild(Target(d), job[d].rec, op[2], v)
       \/ /\ op[1] \in Updating(d) /\ child[Target(d)][job[d].rec][op[2]] # 0 /\ more = ThenDiscard(op[1], op[2])
          /\ v = job[d].want[op[2]] /\ SetChild(Target(d), job[d].rec, op[2], v)
       \/ /\ op[1] \in Deleting /\ more = {<<"discard", op[2]>>}
          /\ v = 0 /\ SetChild(Target(d), job[d].rec, op[2], v)
       \/ op[1] = "discard" /\ job[d].push /\ more = {} /\ v = 0 /\ SetObj(job[d].rec, op[2], v)
       \/ op[1] = "discard" /\ ~job[d].push /\ more = {} /\ v = 0 /\ SetFile(d, job[d].rec, op[2], v)

LEMMA ChildWrites ==
    ASSUME TypeOK, NEW d \in Device, ChildWrite(d)
    PROVE  \E op \in OpKind \X Asset, more \in SUBSET (OpKind \X Asset), v \in Nat : WroteChild(d, op, more, v)
  <1>1. /\ job[d].want \in [Asset -> Nat] /\ job[d].ops \subseteq OpKind \X Asset /\ Target(d) \in Store
        /\ file[d] \in [Record -> [Asset -> Nat]] /\ obj \in [Record -> [Asset -> Nat]]
        /\ (job[d].pc = "assets" => job[d].rec \in Record)
    BY JobType DEF TypeOK
  <1>2. \A a \in Asset : <<"discard", a>> \in OpKind \X Asset /\ <<"createDataRow", a>> \in OpKind \X Asset
                         /\ <<"updateDataRow", a>> \in OpKind \X Asset
    BY DEF OpKind
  <1>3. ASSUME NEW f \in Figure, uploadFigure(d, f)
        PROVE  /\ Wrote(d, <<"transfer", f>>, {}) /\ job[d].pc = "assets" /\ file[d][job[d].rec][f] \in Nat /\ file[d][job[d].rec][f] # 0
               /\ SetObj(job[d].rec, f, file[d][job[d].rec][f]) /\ <<"transfer", f>> \in OpKind \X Asset /\ job[d].push
    BY <1>1, <1>3 DEF uploadFigure, Wrote, SetObj, Turn, Asset
  <1>4. ASSUME NEW f \in Figure, downloadFigure(d, f)
        PROVE  /\ Wrote(d, <<"transfer", f>>, {}) /\ job[d].pc = "assets" /\ obj[job[d].rec][f] \in Nat /\ obj[job[d].rec][f] # 0
               /\ SetFile(d, job[d].rec, f, obj[job[d].rec][f]) /\ <<"transfer", f>> \in OpKind \X Asset /\ ~job[d].push
    BY <1>1, <1>4 DEF downloadFigure, Wrote, SetFile, Turn, Asset
  <1>5. ASSUME NEW k \in OpKind, NEW a \in Asset, uploadDataFile(d, k, a)
        PROVE  /\ Wrote(d, <<k, a>>, {<<IF k = "createData" THEN "createDataRow" ELSE "updateDataRow", a>>})
               /\ job[d].pc = "assets" /\ k \in {"createData", "updateData"} /\ job[d].push
               /\ SetObj(job[d].rec, a, IF file[d][job[d].rec][a] # 0 THEN file[d][job[d].rec][a] ELSE obj[job[d].rec][a])
    <2>1. job[d].pc = "assets" /\ job[d].push /\ Turn(d, <<k, a>>) /\ k \in {"createData", "updateData"}
      BY <1>5 DEF uploadDataFile, Turn
    <2>2. obj' = [obj EXCEPT ![job[d].rec][a] = IF file[d][job[d].rec][a] # 0 THEN file[d][job[d].rec][a] ELSE obj[job[d].rec][a]]
      BY <1>1, <1>5, <2>1 DEF uploadDataFile
    <2>3. {<<IF k = "createData" THEN "createDataRow" ELSE "updateDataRow", a>>} \in SUBSET (OpKind \X Asset)
      BY <1>2
    <2> QED
      BY <1>5, <2>1, <2>2, <2>3 DEF uploadDataFile, Wrote, SetObj
  <1>6. ASSUME NEW k \in OpKind, NEW a \in Asset, createChildRow(d, k, a)
        PROVE  /\ Wrote(d, <<k, a>>, ThenDiscard(k, a)) /\ job[d].pc = "assets" /\ k \in Creating(d)
               /\ child[Target(d)][job[d].rec][a] = 0 /\ SetChild(Target(d), job[d].rec, a, job[d].want[a])
    BY <1>1, <1>2, <1>6 DEF createChildRow, Wrote, SetChild, Turn, ThenDiscard
  <1>7. ASSUME NEW k \in OpKind, NEW a \in Asset, updateChildRow(d, k, a)
        PROVE  /\ Wrote(d, <<k, a>>, ThenDiscard(k, a)) /\ job[d].pc = "assets" /\ k \in Updating(d)
               /\ child[Target(d)][job[d].rec][a] # 0 /\ SetChild(Target(d), job[d].rec, a, job[d].want[a])
    BY <1>1, <1>2, <1>7 DEF updateChildRow, Wrote, SetChild, Turn, ThenDiscard
  <1>8. ASSUME NEW k \in OpKind, NEW a \in Asset, deleteChildRow(d, k, a)
        PROVE  /\ Wrote(d, <<k, a>>, {<<"discard", a>>}) /\ job[d].pc = "assets" /\ k \in Deleting
               /\ SetChild(Target(d), job[d].rec, a, 0)
    BY <1>1, <1>2, <1>8 DEF deleteChildRow, Wrote, SetChild, Turn
  <1>9. ASSUME NEW a \in Asset, deleteObject(d, a)
        PROVE  Wrote(d, <<"discard", a>>, {}) /\ job[d].pc = "assets" /\ job[d].push /\ SetObj(job[d].rec, a, 0)
    BY <1>1, <1>2, <1>9 DEF deleteObject, Wrote, SetObj, Turn
  <1>10. ASSUME NEW a \in Asset, removeLocalFile(d, a)
         PROVE  Wrote(d, <<"discard", a>>, {}) /\ job[d].pc = "assets" /\ ~job[d].push /\ SetFile(d, job[d].rec, a, 0)
    BY <1>1, <1>2, <1>10 DEF removeLocalFile, Wrote, SetFile, Turn
  <1>11. \A k \in OpKind, a \in Asset : ThenDiscard(k, a) \in SUBSET (OpKind \X Asset) /\ <<k, a>> \in OpKind \X Asset
    BY <1>2 DEF ThenDiscard
  <1> DEFINE Goal == \E op \in OpKind \X Asset, more \in SUBSET (OpKind \X Asset), v \in Nat : WroteChild(d, op, more, v)
  <1>12. ASSUME NEW f \in Figure, uploadFigure(d, f) PROVE Goal
    <2>1. WroteChild(d, <<"transfer", f>>, {}, file[d][job[d].rec][f])
      BY <1>1, <1>3, <1>12 DEF WroteChild
    <2> QED
      BY <1>3, <1>12, <2>1
  <1>13. ASSUME NEW f \in Figure, downloadFigure(d, f) PROVE Goal
    <2>1. WroteChild(d, <<"transfer", f>>, {}, obj[job[d].rec][f])
      BY <1>1, <1>4, <1>13 DEF WroteChild
    <2> QED
      BY <1>4, <1>13, <2>1
  <1>14. ASSUME NEW k \in OpKind, NEW a \in Asset, uploadDataFile(d, k, a) PROVE Goal
    <2> DEFINE v == IF file[d][job[d].rec][a] # 0 THEN file[d][job[d].rec][a] ELSE obj[job[d].rec][a]
               more == {<<IF k = "createData" THEN "createDataRow" ELSE "updateDataRow", a>>}
    <2>1. WroteChild(d, <<k, a>>, more, v)
      BY <1>1, <1>5, <1>14 DEF WroteChild
    <2>2. v \in Nat /\ more \in SUBSET (OpKind \X Asset)
      BY <1>1, <1>2, <1>5, <1>14
    <2> HIDE DEF v, more
    <2> QED
      BY <1>11, <2>1, <2>2
  <1>15. ASSUME NEW k \in OpKind, NEW a \in Asset, createChildRow(d, k, a) PROVE Goal
    <2>1. WroteChild(d, <<k, a>>, ThenDiscard(k, a), job[d].want[a])
      BY <1>1, <1>6, <1>15 DEF WroteChild
    <2>2. job[d].want[a] \in Nat
      BY <1>1
    <2> QED
      BY <1>11, <2>1, <2>2
  <1>16. ASSUME NEW k \in OpKind, NEW a \in Asset, updateChildRow(d, k, a) PROVE Goal
    <2>1. WroteChild(d, <<k, a>>, ThenDiscard(k, a), job[d].want[a])
      BY <1>1, <1>7, <1>16 DEF WroteChild
    <2>2. job[d].want[a] \in Nat
      BY <1>1
    <2> QED
      BY <1>11, <2>1, <2>2
  <1>17. ASSUME NEW k \in OpKind, NEW a \in Asset, deleteChildRow(d, k, a) PROVE Goal
    <2>1. WroteChild(d, <<k, a>>, {<<"discard", a>>}, 0)
      BY <1>1, <1>8, <1>17 DEF WroteChild
    <2> QED
      BY <1>2, <1>11, <2>1
  <1>18. ASSUME NEW a \in Asset, deleteObject(d, a) PROVE Goal
    <2>1. WroteChild(d, <<"discard", a>>, {}, 0)
      BY <1>1, <1>9, <1>18 DEF WroteChild
    <2> QED
      BY <1>2, <2>1
  <1>19. ASSUME NEW a \in Asset, removeLocalFile(d, a) PROVE Goal
    <2>1. WroteChild(d, <<"discard", a>>, {}, 0)
      BY <1>1, <1>10, <1>19 DEF WroteChild
    <2> QED
      BY <1>2, <2>1
  <1> HIDE DEF Goal
  <1>20. Goal
    BY <1>12, <1>13, <1>14, <1>15, <1>16, <1>17, <1>18, <1>19 DEF ChildWrite
  <1> QED
    BY <1>20 DEF Goal

\* They leave rows and cursors alone.
LEMMA ChildWriteType ==
    ASSUME TypeOK, NEW d \in Device, NEW op \in OpKind \X Asset, NEW more \in SUBSET (OpKind \X Asset), NEW v \in Nat,
           WroteChild(d, op, more, v)
    PROVE  /\ TypeOK' /\ UNCHANGED <<row, cursor, clock, intent, commands>> /\ job[d].pc = "assets"
           /\ \A e \in Device \ {d} : job'[e] = job[e]
           /\ job'[d].push = job[d].push /\ job'[d].last = job[d].last /\ job'[d].started = job[d].started
           /\ job'[d].todo = job[d].todo /\ job'[d].calm = job[d].calm
           /\ \/ /\ job'[d].pc = "assets" /\ job'[d].rec = job[d].rec /\ job'[d].want = job[d].want
                 /\ job'[d].ops = (job[d].ops \ {op}) \cup more
              \/ job'[d].pc = "next" /\ job'[d].rec = NoRecord /\ job'[d].ops = {}
  <1>1. job[d].pc = "assets" /\ After(d, op, more) /\ UNCHANGED <<row, cursor, clock, edits, faults, intent, commands>> /\ job[d].rec \in Record
    BY DEF WroteChild, Wrote
  <1>2. /\ job' \in [Device -> Job] /\ \A e \in Device \ {d} : job'[e] = job[e]
        /\ job'[d].push = job[d].push /\ job'[d].last = job[d].last /\ job'[d].started = job[d].started
        /\ job'[d].todo = job[d].todo /\ job'[d].calm = job[d].calm
        /\ \/ /\ job'[d].pc = "assets" /\ job'[d].rec = job[d].rec /\ job'[d].want = job[d].want
              /\ job'[d].ops = (job[d].ops \ {op}) \cup more
           \/ job'[d].pc = "next" /\ job'[d].rec = NoRecord /\ job'[d].ops = {}
    BY <1>1, AfterType
  <1>3. (job'[d].rec # NoRecord) <=> job'[d].pc \in {"row", "assets"}
    BY <1>1, <1>2, RecordSyncAssumption
  <1>4. row' \in [Store -> [Record -> Row]] /\ cursor' \in [Device -> Nat] /\ faults' \in Nat /\ raced' \in SUBSET (Device \X Record)
    BY <1>1 DEF TypeOK, commands
  <1>5. /\ child' \in [Store -> [Record -> [Asset -> Nat]]] /\ obj' \in [Record -> [Asset -> Nat]]
        /\ file' \in [Device -> [Record -> [Asset -> Nat]]]
    <2>1. \/ SetObj(job[d].rec, op[2], v) \/ SetFile(d, job[d].rec, op[2], v)
          \/ SetChild(Target(d), job[d].rec, op[2], v)
      BY DEF WroteChild
    <2>2. op[2] \in Asset /\ Target(d) \in Store
      BY JobType
    <2>3. child \in [Store -> [Record -> [Asset -> Nat]]] /\ obj \in [Record -> [Asset -> Nat]] /\ file \in [Device -> [Record -> [Asset -> Nat]]]
      BY DEF TypeOK
    <2> QED
      BY <1>1, <2>1, <2>2, <2>3, SetChildType, SetFileType, SetObjType DEF SetObj, SetFile, SetChild
  <1> QED
    BY <1>1, <1>2, <1>3, <1>4, <1>5, SyncType DEF commands

\* The job ends, done or not.
LEMMA EndedType ==
    ASSUME TypeOK, NEW d \in Device, Refused(d) \/ Fail(d) \/ Release(d)
    PROVE  /\ TypeOK' /\ UNCHANGED <<stores, cursor, clock, intent, commands>>
           /\ job[d].pc # "idle" /\ job'[d] = NoJob /\ \A e \in Device \ {d} : job'[e] = job[e]
  <1>1. job' = [job EXCEPT ![d] = NoJob] /\ UNCHANGED <<stores, cursor, clock, edits, intent, commands>> /\ faults' \in {faults, faults + 1}
    BY DEF Refused, Fail, Release
  <1>2. job[d].pc # "idle"
    <2>1. CASE Refused(d)
      BY <2>1 DEF Refused, Turn
    <2>2. CASE Fail(d) \/ Release(d)
      BY <2>2 DEF Fail, Release
    <2> QED
      BY SMTT(40), <2>1, <2>2
  <1>3. cursor' \in [Device -> Nat] /\ faults' \in Nat /\ raced' \in SUBSET (Device \X Record)
    BY <1>1 DEF TypeOK, commands
  <1>4. NoJob \in Job /\ ((NoJob.rec # NoRecord) <=> NoJob.pc \in {"row", "assets"})
    BY Constants
  <1>5. UNCHANGED <<stores, clock, edits, intent, commands>>
    BY <1>1
  <1>6. TypeOK' /\ job'[d] = NoJob /\ \A e \in Device \ {d} : job'[e] = job[e]
    BY <1>1, <1>3, <1>4, <1>5, JobOnlyType DEF commands
  <1> QED
    BY <1>1, <1>2, <1>6

\* pc fetch writes a file, and nothing else.
LEMMA FetchType ==
    ASSUME TypeOK, NEW d \in Device, NEW r \in Record, NEW a \in DataFile, Fetch(d, r, a) \/ fetchAllDataFiles(d, r, a)
    PROVE  /\ TypeOK' /\ UNCHANGED <<row, child, obj, cursor, clock, job, intent, cmd, cut, raced>> /\ child[Cloud][r][a] # 0
           /\ \A e \in Device, q \in Record, b \in Asset : e # d \/ q # r \/ b # a => file'[e][q][b] = file[e][q][b]
  <1> DEFINE v == IF verifyDataFile(r, a) THEN obj[r][a] ELSE 0
  <1>1. /\ child[Cloud][r][a] # 0 /\ UNCHANGED <<row, child, obj, cursor, clock, edits, faults, job, intent, cmd, cut, raced>>
        /\ file' = [file EXCEPT ![d][r][a] = v]
    BY DEF Fetch, fetchAllDataFiles, download, commands
  <1>2. v \in Nat /\ a \in Asset
    BY DEF TypeOK, Asset
  <1> HIDE DEF v
  <1>3. /\ file' \in [Device -> [Record -> [Asset -> Nat]]]
        /\ \A e \in Device, q \in Record, b \in Asset : e # d \/ q # r \/ b # a => file'[e][q][b] = file[e][q][b]
    <2>1. file' = [file EXCEPT ![d][r][a] = v]
      BY <1>1
    <2>2. file \in [Device -> [Record -> [Asset -> Nat]]]
      BY DEF TypeOK
    <2> QED
      BY <1>2, <2>1, <2>2
  <1>4. TypeOK'
    BY <1>1, <1>3 DEF TypeOK
  <1> QED
    BY <1>1, <1>3, <1>4

-----------------------------------------------------------------------------
(* Types: the steps of a command.                                           *)

\* A step of the command of d that writes no record's row.
QuietCommand(d) ==
    /\ TypeOK' /\ UNCHANGED <<row, obj, cursor, clock, job, intent, raced>>
    /\ cut \subseteq cut' /\ cut' \subseteq cut \cup {<<d, cmd[d].rec>>}
    /\ \A e \in Device \ {d} : cmd'[e] = cmd[e]
    /\ Continues(cmd'[d], cmd[d])

\* The command of a device that has one.
LEMMA WorkingType ==
    ASSUME TypeOK, NEW d \in Device, cmd[d].at # "idle"
    PROVE  cmd[d] \in Cmd /\ cmd \in [Device -> Cmd] /\ cmd[d].rec \in Record /\ d \in Store
  BY CommandType DEF TypeOK, Store

LEMMA QuietType ==
    ASSUME TypeOK, NEW d \in Device, cmd[d].at # "idle", NEW c \in Cmd, Continues(c, cmd[d]), cmd' = [cmd EXCEPT ![d] = c],
           child' \in [Store -> [Record -> [Asset -> Nat]]], file' \in [Device -> [Record -> [Asset -> Nat]]],
           UNCHANGED <<row, obj, cursor, clock, edits, job, intent, raced>>, faults' \in Nat,
           cut' \in {cut, cut \cup {<<d, cmd[d].rec>>}}
    PROVE  QuietCommand(d) /\ cmd'[d] = c
  <1>1. cmd \in [Device -> Cmd] /\ cmd[d].rec \in Record /\ cut \in SUBSET (Device \X Record)
    BY WorkingType DEF TypeOK
  <1>2. cmd' \in [Device -> Cmd] /\ cmd'[d] = c /\ \A e \in Device \ {d} : cmd'[e] = cmd[e]
    BY <1>1
  <1>3. (c.rec # NoRecord) <=> c.at # "idle"
    BY <1>1, NoCommand, RecordSyncAssumption DEF Continues, SameCommand
  <1>4. \A e \in Device : (cmd'[e].rec # NoRecord) <=> cmd'[e].at # "idle"
    BY <1>2, <1>3 DEF TypeOK
  <1>5. cut' \in SUBSET (Device \X Record) /\ cut \subseteq cut' /\ cut' \subseteq cut \cup {<<d, cmd[d].rec>>}
    BY <1>1
  <1>6. TypeOK'
    BY <1>2, <1>4, <1>5 DEF TypeOK
  <1> QED
    BY <1>2, <1>5, <1>6 DEF QuietCommand

\* The command of d is c, one of its writes further.
Advanced(d, c) == c \in Cmd /\ Continues(c, cmd[d]) /\ cmd' = [cmd EXCEPT ![d] = c]

LEMMA AdvanceType ==
    ASSUME TypeOK, NEW d \in Device, NEW k \in CmdKind, NEW a \in Asset, NEW more \in SUBSET (CmdKind \X Asset),
           <<k, a>> \in cmd[d].ops, cmd[d].at # "idle", Advance(d, k, a, more)
    PROVE  Advanced(d, Onward(cmd[d], (cmd[d].ops \ {<<k, a>>}) \cup more))
  <1> DEFINE ops == (cmd[d].ops \ {<<k, a>>}) \cup more
  <1>1. cmd[d] \in Cmd /\ cmd[d].ops \subseteq CmdKind \X Asset /\ cmd \in [Device -> Cmd]
    BY CommandType DEF TypeOK
  <1>2. ops \in SUBSET (CmdKind \X Asset)
    BY <1>1
  <1>3. cmd' = [cmd EXCEPT ![d] = Onward(cmd[d], ops)]
    BY <1>1 DEF Advance
  <1> HIDE DEF ops
  <1>4. Continues(Onward(cmd[d], ops), cmd[d])
    BY <1>1, <1>2, OnwardType
  <1> QED
    BY <1>2, <1>3, <1>4 DEF Continues, ops, Advanced

\* The write k of the file a.
FileWasPut(d, k, a, v, more) ==
    /\ QuietCommand(d) /\ CommandTurn(d, k, a) /\ cmd[d].at # "idle" /\ UNCHANGED <<child, cut>>
    /\ file'[d][cmd[d].rec][a] = v
    /\ \A e \in Device, q \in Record, b \in Asset : e # d \/ q # cmd[d].rec \/ b # a => file'[e][q][b] = file[e][q][b]
    /\ cmd'[d] = Onward(cmd[d], (cmd[d].ops \ {<<k, a>>}) \cup more)

LEMMA PutFileType ==
    ASSUME TypeOK, NEW d \in Device, NEW k \in CmdKind, NEW a \in Asset, NEW v \in Nat,
           NEW more \in SUBSET (CmdKind \X Asset), PutFile(d, k, a, v, more)
    PROVE  FileWasPut(d, k, a, v, more)
  <1>1. /\ CommandTurn(d, k, a) /\ <<k, a>> \in cmd[d].ops /\ cmd[d].at # "idle" /\ Advance(d, k, a, more)
        /\ file' = [file EXCEPT ![d][cmd[d].rec][a] = v]
        /\ UNCHANGED <<row, child, obj, cursor, clock, edits, faults, job, intent, cut, raced>>
    BY DEF PutFile, CommandTurn
  <1>2. /\ file' \in [Device -> [Record -> [Asset -> Nat]]] /\ file'[d][cmd[d].rec][a] = v
        /\ \A e \in Device, q \in Record, b \in Asset : e # d \/ q # cmd[d].rec \/ b # a => file'[e][q][b] = file[e][q][b]
    <2>1. cmd[d].rec \in Record /\ file' = [file EXCEPT ![d][cmd[d].rec][a] = v]
      BY <1>1, WorkingType
    <2>2. PICK r \in Record : r = cmd[d].rec
      BY <2>1
    <2>3. file' = [file EXCEPT ![d][r][a] = v]
      BY <2>1, <2>2
    <2>4. /\ file' \in [Device -> [Record -> [Asset -> Nat]]] /\ file'[d][r][a] = v
          /\ \A e \in Device, q \in Record, b \in Asset : e # d \/ q # r \/ b # a => file'[e][q][b] = file[e][q][b]
      BY <2>3 DEF TypeOK
    <2> QED
      BY <2>2, <2>4
  <1>3. child' \in [Store -> [Record -> [Asset -> Nat]]] /\ faults' \in Nat
    BY <1>1 DEF TypeOK
  <1> DEFINE c == Onward(cmd[d], (cmd[d].ops \ {<<k, a>>}) \cup more)
  <1>4. c \in Cmd /\ Continues(c, cmd[d]) /\ cmd' = [cmd EXCEPT ![d] = c]
    <2>1. {} \in SUBSET (CmdKind \X Asset)
      OBVIOUS
    <2>2. /\ <<k, a>> \in cmd[d].ops /\ cmd[d].at # "idle"
      BY <1>1
    <2>3. Advance(d, k, a, more)
      BY <1>1
    <2>4. Advanced(d, c)
      BY <2>1, <2>2, <2>3, AdvanceType
    <2> QED
      BY <2>4 DEF Advanced
  <1> HIDE DEF c
  <1>5. QuietCommand(d) /\ cmd'[d] = c
    BY <1>1, <1>2, <1>3, <1>4, QuietType
  <1> QED
    BY <1>1, <1>2, <1>5 DEF c, FileWasPut

LEMMA PutChildRowType ==
    ASSUME TypeOK, NEW d \in Device, NEW k \in CmdKind, NEW a \in Asset, NEW v \in Nat,
           PutChildRow(d, k, a, v)
    PROVE  /\ QuietCommand(d) /\ CommandTurn(d, k, a) /\ cmd[d].at # "idle" /\ UNCHANGED <<file, cut>>
           /\ child'[d][cmd[d].rec][a] = v
           /\ \A s \in Store, q \in Record, b \in Asset : s # d \/ q # cmd[d].rec \/ b # a => child'[s][q][b] = child[s][q][b]
           /\ cmd'[d] = Onward(cmd[d], (cmd[d].ops \ {<<k, a>>}) \cup {})
  <1>1. /\ CommandTurn(d, k, a) /\ <<k, a>> \in cmd[d].ops /\ cmd[d].at # "idle" /\ Advance(d, k, a, {})
        /\ child' = [child EXCEPT ![d][cmd[d].rec][a] = v]
        /\ UNCHANGED <<row, file, obj, cursor, clock, edits, faults, job, intent, cut, raced>>
    BY DEF PutChildRow, CommandTurn
  <1>2. /\ child' \in [Store -> [Record -> [Asset -> Nat]]] /\ child'[d][cmd[d].rec][a] = v
        /\ \A s \in Store, q \in Record, b \in Asset : s # d \/ q # cmd[d].rec \/ b # a => child'[s][q][b] = child[s][q][b]
    <2>1. cmd[d].rec \in Record /\ d \in Store /\ child' = [child EXCEPT ![d][cmd[d].rec][a] = v]
      BY <1>1, WorkingType
    <2>2. PICK r \in Record : r = cmd[d].rec
      BY <2>1
    <2>3. child' = [child EXCEPT ![d][r][a] = v]
      BY <2>1, <2>2
    <2>4. /\ child' \in [Store -> [Record -> [Asset -> Nat]]] /\ child'[d][r][a] = v
          /\ \A s \in Store, q \in Record, b \in Asset : s # d \/ q # r \/ b # a => child'[s][q][b] = child[s][q][b]
      BY <2>1, <2>3 DEF TypeOK
    <2> QED
      BY <2>2, <2>4
  <1>3. file' \in [Device -> [Record -> [Asset -> Nat]]] /\ faults' \in Nat
    BY <1>1 DEF TypeOK
  <1> DEFINE c == Onward(cmd[d], (cmd[d].ops \ {<<k, a>>}) \cup {})
  <1>4. c \in Cmd /\ Continues(c, cmd[d]) /\ cmd' = [cmd EXCEPT ![d] = c]
    <2>1. {} \in SUBSET (CmdKind \X Asset)
      OBVIOUS
    <2>2. /\ <<k, a>> \in cmd[d].ops /\ cmd[d].at # "idle"
      BY <1>1
    <2>3. Advance(d, k, a, {})
      BY <1>1
    <2>4. Advanced(d, c)
      BY <2>1, <2>2, <2>3, AdvanceType
    <2> QED
      BY <2>4 DEF Advanced
  <1> HIDE DEF c
  <1>5. QuietCommand(d) /\ cmd'[d] = c
    BY <1>1, <1>2, <1>3, <1>4, QuietType
  <1> QED
    BY <1>1, <1>2, <1>5 DEF c

\* The nine writes of commands: k for the file a becomes v, or its row does; then more is to come.
PutsFile(d, k, a, v, more) ==
    /\ PutFile(d, k, a, v, more)
    /\ \/ k = "copy" /\ v = cmd[d].new.file[a] /\ more = {<<"writeRow", a>>}
       \/ k = "setAside" /\ v = 0 /\ more = {<<"promote", a>>}
       \/ k = "promote" /\ v = cmd[d].new.file[a] /\ more = {}
       \/ k = "dropFile" /\ v = 0 /\ more = {}
       \/ k = "remove" /\ v = 0 /\ more = IF Adding(d) THEN {} ELSE {<<"putBack", a>>}
       \/ k = "putBack" /\ v = cmd[d].old.file[a] /\ more = {}

PutsRow(d, k, a, v) ==
    /\ PutChildRow(d, k, a, v)
    /\ \/ /\ k = "writeRow" /\ v = cmd[d].new.child[a]
          /\ (child[d][cmd[d].rec][a] = 0) <=> (cmd[d].old.child[a] = 0)
       \/ k = "deleteRow" /\ v = 0
       \/ /\ k = "restoreRow"
          /\ v = IF cmd[d].old.child[a] = 0 THEN 0
                 ELSE IF (cmd[d].new.child[a] = 0) <=> (child[d][cmd[d].rec][a] = 0) THEN cmd[d].old.child[a]
                 ELSE child[d][cmd[d].rec][a]

CommandWrite(d) ==
    \E a \in Asset :
        \/ copyFile(d, a) \/ writeChildRow(d, a) \/ backupExistingFile(d, a) \/ commitStagedFile(d, a)
        \/ deleteRemovedRow(d, a) \/ deleteEditFile(d, a) \/ removeFile(d, a) \/ restoreBackup(d, a)
        \/ rollbackChildRow(d, a)

LEMMA CommandWrites ==
    ASSUME TypeOK, NEW d \in Device, CommandWrite(d)
    PROVE  \E k \in CmdKind, a \in Asset, v \in Nat :
              PutsRow(d, k, a, v) \/ \E more \in SUBSET (CmdKind \X Asset) : PutsFile(d, k, a, v, more)
  <1>1. PICK a \in Asset :
              \/ copyFile(d, a) \/ writeChildRow(d, a) \/ backupExistingFile(d, a) \/ commitStagedFile(d, a)
              \/ deleteRemovedRow(d, a) \/ deleteEditFile(d, a) \/ removeFile(d, a) \/ restoreBackup(d, a)
              \/ rollbackChildRow(d, a)
    BY DEF CommandWrite
  <1>2. /\ cmd[d].new.file[a] \in Nat /\ cmd[d].new.child[a] \in Nat /\ cmd[d].old.file[a] \in Nat
        /\ cmd[d].old.child[a] \in Nat
    BY CommandType DEF TypeOK
  <1>3. /\ \A k \in CmdKind : {<<k, a>>} \in SUBSET (CmdKind \X Asset)
        /\ {} \in SUBSET (CmdKind \X Asset)
    OBVIOUS
  <1>4. {"copy", "writeRow", "setAside", "promote", "deleteRow", "dropFile", "remove", "putBack", "restoreRow"} \subseteq CmdKind
    BY DEF CmdKind
  <1>5. ASSUME NEW k \in CmdKind, NEW v \in Nat, NEW more \in SUBSET (CmdKind \X Asset), PutsFile(d, k, a, v, more)
        PROVE  \E kk \in CmdKind, b \in Asset, w \in Nat :
                  PutsRow(d, kk, b, w) \/ \E m \in SUBSET (CmdKind \X Asset) : PutsFile(d, kk, b, w, m)
    BY <1>5
  <1>6. ASSUME NEW k \in CmdKind, NEW v \in Nat, PutsRow(d, k, a, v)
        PROVE  \E kk \in CmdKind, b \in Asset, w \in Nat :
                  PutsRow(d, kk, b, w) \/ \E m \in SUBSET (CmdKind \X Asset) : PutsFile(d, kk, b, w, m)
    BY <1>6
  <1>7. CASE copyFile(d, a)
    <2>1. PutsFile(d, "copy", a, cmd[d].new.file[a], {<<"writeRow", a>>})
      BY <1>7 DEF copyFile, PutsFile
    <2> QED
      BY <1>2, <1>3, <1>4, <1>5, <2>1
  <1>8. CASE writeChildRow(d, a)
    <2>1. PutsRow(d, "writeRow", a, cmd[d].new.child[a])
      BY <1>8 DEF writeChildRow, PutsRow
    <2> QED
      BY <1>2, <1>4, <1>6, <2>1
  <1>9. CASE backupExistingFile(d, a)
    <2>1. PutsFile(d, "setAside", a, 0, {<<"promote", a>>})
      BY <1>9 DEF backupExistingFile, PutsFile
    <2> QED
      BY <1>3, <1>4, <1>5, <2>1
  <1>10. CASE commitStagedFile(d, a)
    <2>1. PutsFile(d, "promote", a, cmd[d].new.file[a], {})
      BY <1>10 DEF commitStagedFile, PutsFile
    <2> QED
      BY <1>2, <1>3, <1>4, <1>5, <2>1
  <1>11. CASE deleteRemovedRow(d, a)
    <2>1. PutsRow(d, "deleteRow", a, 0)
      BY <1>11 DEF deleteRemovedRow, PutsRow
    <2> QED
      BY <1>4, <1>6, <2>1
  <1>12. CASE deleteEditFile(d, a)
    <2>1. PutsFile(d, "dropFile", a, 0, {})
      BY <1>12 DEF deleteEditFile, PutsFile
    <2> QED
      BY <1>3, <1>4, <1>5, <2>1
  <1>13. CASE removeFile(d, a)
    <2> DEFINE more == IF Adding(d) THEN {} ELSE {<<"putBack", a>>}
    <2>1. PutsFile(d, "remove", a, 0, more)
      BY <1>13 DEF removeFile, PutsFile
    <2>2. more \in SUBSET (CmdKind \X Asset)
      BY <1>3, <1>4
    <2> HIDE DEF more
    <2> QED
      BY <1>4, <1>5, <2>1, <2>2
  <1>14. CASE restoreBackup(d, a)
    <2>1. PutsFile(d, "putBack", a, cmd[d].old.file[a], {})
      BY <1>14 DEF restoreBackup, PutsFile
    <2> QED
      BY <1>2, <1>3, <1>4, <1>5, <2>1
  <1>15. CASE rollbackChildRow(d, a)
    <2> DEFINE v == IF cmd[d].old.child[a] = 0 THEN 0
                    ELSE IF (cmd[d].new.child[a] = 0) <=> (child[d][cmd[d].rec][a] = 0) THEN cmd[d].old.child[a]
                    ELSE child[d][cmd[d].rec][a]
    <2>1. PutsRow(d, "restoreRow", a, v)
      BY <1>15 DEF rollbackChildRow, PutsRow
    <2>2. v \in Nat
      <3>1. CommandTurn(d, "restoreRow", a)
        BY <2>1 DEF PutsRow, PutChildRow
      <3>2. child[d][cmd[d].rec][a] \in Nat
        BY <3>1, WorkingType DEF CommandTurn, TypeOK
      <3> QED
        BY <1>2, <3>2
    <2> HIDE DEF v
    <2> QED
      BY <1>4, <1>6, <2>1, <2>2
  <1> QED
    BY <1>1, <1>7, <1>8, <1>9, <1>10, <1>11, <1>12, <1>13, <1>14, <1>15

\* A command that fails or dies, in a call of its own or of its roll back.
UndoPlanned(d) == UndoPlan(d) \in SUBSET (CmdKind \X Asset)

LEMMA UndoPlanType ==
    ASSUME TypeOK, NEW d \in Device
    PROVE  UndoPlanned(d)
  BY DEF UndoPlanned, UndoPlan, CmdKind

LEMMA FailsType ==
    ASSUME TypeOK, NEW d \in Device, commandFails(d)
    PROVE  /\ QuietCommand(d) /\ cmd[d].at = "forward" /\ UNCHANGED <<child, file, cut>>
           /\ Adding(d) => cmd'[d].at = "record" /\ cmd'[d].ops = UndoPlan(d) /\ SameCommand(cmd'[d], cmd[d])
           /\ ~Adding(d) /\ UndoPlan(d) # {} =>
                 cmd'[d].at = "undo" /\ cmd'[d].ops = UndoPlan(d) /\ SameCommand(cmd'[d], cmd[d])
           /\ ~Adding(d) /\ UndoPlan(d) = {} =>
                 cmd'[d].at = "record" /\ cmd'[d].ops = {} /\ SameCommand(cmd'[d], cmd[d])
  <1> DEFINE c == [cmd[d] EXCEPT !.at = "undo"]
             x == [cmd[d] EXCEPT !.at = "record", !.ops = UndoPlan(d)]
             n == IF Adding(d) THEN x ELSE Onward(c, UndoPlan(d))
  <1>1. cmd[d] \in Cmd /\ cmd \in [Device -> Cmd] /\ cmd[d].at = "forward" /\ UndoPlan(d) \in SUBSET (CmdKind \X Asset)
    BY UndoPlanType DEF commandFails, TypeOK, UndoPlanned
  <1>2. cmd' = [cmd EXCEPT ![d] = n] /\ UNCHANGED <<stores, cursor, clock, edits, faults, job, intent, cut, raced>>
    BY <1>1 DEF commandFails
  <1>3. c \in Cmd /\ SameCommand(c, cmd[d]) /\ c.at = "undo"
    BY <1>1 DEF Cmd, SameCommand
  <1>4. x \in Cmd /\ SameCommand(x, cmd[d]) /\ x.at = "record" /\ x.ops = UndoPlan(d)
    BY <1>1 DEF Cmd, SameCommand
  <1>5. ~Adding(d) => c.old.row # NoRow
    BY <1>3 DEF SameCommand, Adding
  <1> HIDE DEF c, x
  <1>6. CASE Adding(d)
    <2>1. n = x
      BY <1>6
    <2> HIDE DEF n
    <2>2. n \in Cmd /\ Continues(n, cmd[d])
      BY <1>4, <2>1 DEF Continues
    <2>3. QuietCommand(d) /\ cmd'[d] = n
      BY <1>1, <1>2, <2>2, QuietType DEF stores, TypeOK
    <2> QED
      BY <1>1, <1>2, <1>4, <1>6, <2>1, <2>3 DEF stores
  <1>7. CASE ~Adding(d)
    <2>1. n = Onward(c, UndoPlan(d))
      BY <1>7
    <2> HIDE DEF n
    <2>2. /\ n \in Cmd /\ Continues(n, c)
          /\ UndoPlan(d) # {} => SameCommand(n, c) /\ n.at = "undo" /\ n.ops = UndoPlan(d)
          /\ UndoPlan(d) = {} => SameCommand(n, c) /\ n.at = "record" /\ n.ops = {}
      BY <1>1, <1>3, <1>5, <1>7, <2>1, OnwardType DEF Continues
    <2>3. Continues(n, cmd[d])
      BY <1>3, <2>2 DEF Continues, SameCommand
    <2>4. QuietCommand(d) /\ cmd'[d] = n
      BY <1>1, <1>2, <2>2, <2>3, QuietType DEF stores, TypeOK
    <2> QED
      BY <1>1, <1>2, <1>3, <1>7, <2>2, <2>4 DEF stores, SameCommand
  <1> QED
    BY <1>6, <1>7

LEMMA CutShortType ==
    ASSUME TypeOK, NEW d \in Device, ignoredFailure(d) \/ commandDies(d)
    PROVE  /\ QuietCommand(d) /\ cmd[d].at # "idle" /\ UNCHANGED <<child, file>> /\ <<d, cmd[d].rec>> \in cut'
           /\ faults' = faults + 1
  <1>1. /\ UNCHANGED <<stores, cursor, clock, edits, job, intent, raced>> /\ faults' = faults + 1
        /\ cut' = cut \cup {<<d, cmd[d].rec>>}
    BY DEF ignoredFailure, commandDies
  <1>2. /\ child' \in [Store -> [Record -> [Asset -> Nat]]] /\ file' \in [Device -> [Record -> [Asset -> Nat]]]
        /\ faults' \in Nat /\ UNCHANGED <<row, child, file, obj>>
    BY <1>1 DEF TypeOK, stores
  <1>3. ASSUME NEW c \in Cmd, Continues(c, cmd[d]), cmd' = [cmd EXCEPT ![d] = c], cmd[d].at # "idle" PROVE QuietCommand(d)
    BY <1>1, <1>2, <1>3, QuietType
  <1>4. /\ cmd[d] \in Cmd /\ cmd \in [Device -> Cmd] /\ cmd[d].ops \in SUBSET (CmdKind \X Asset)
        /\ NoCmd \in Cmd /\ Continues(NoCmd, cmd[d])
    BY NoCommand, CommandType DEF TypeOK, Continues
  <1>5. CASE commandDies(d)
    <2>1. cmd' = [cmd EXCEPT ![d] = NoCmd] /\ cmd[d].at # "idle"
      BY <1>5 DEF commandDies
    <2> QED
      BY <1>1, <1>2, <1>3, <1>4, <2>1
  <1>6. ASSUME NEW k \in {"remove", "putBack", "restoreRow", "dropFile"}, NEW a \in Asset, CommandTurn(d, k, a), Advance(d, k, a, {})
        PROVE  QuietCommand(d) /\ cmd[d].at # "idle"
    <2>1. k \in CmdKind /\ {} \in SUBSET (CmdKind \X Asset) /\ <<k, a>> \in cmd[d].ops /\ cmd[d].at # "idle"
      BY <1>6 DEF CmdKind, CommandTurn
    <2> DEFINE c == Onward(cmd[d], (cmd[d].ops \ {<<k, a>>}) \cup {})
    <2>2. c \in Cmd /\ Continues(c, cmd[d]) /\ cmd' = [cmd EXCEPT ![d] = c]
      <3>1. Advanced(d, c)
        BY <1>6, <2>1, AdvanceType
      <3> QED
        BY <3>1 DEF Advanced
    <2> HIDE DEF c
    <2> QED
      BY <1>3, <2>1, <2>2
  <1>7. ASSUME cmd[d].at = "record",
               cmd' = [cmd EXCEPT ![d] = IF Adding(d) THEN Onward([@ EXCEPT !.at = "undo"], cmd[d].ops) ELSE NoCmd]
        PROVE  QuietCommand(d)
    <2> DEFINE x == [cmd[d] EXCEPT !.at = "undo"]
               c == IF Adding(d) THEN Onward(x, cmd[d].ops) ELSE NoCmd
    <2>1. cmd' = [cmd EXCEPT ![d] = c]
      BY <1>4, <1>7
    <2>2. x \in Cmd /\ SameCommand(x, cmd[d]) /\ x.at = "undo"
      BY <1>4 DEF Cmd, SameCommand
    <2> HIDE DEF x
    <2>3. Continues(Onward(x, cmd[d].ops), x)
      BY <1>4, <2>2, OnwardType
    <2>4. c \in Cmd /\ Continues(c, cmd[d])
      <3>1. CASE Adding(d)
        <4>1. c = Onward(x, cmd[d].ops)
          BY <3>1
        <4> HIDE DEF c
        <4> QED
          BY <2>2, <2>3, <4>1 DEF Continues, SameCommand
      <3>2. CASE ~Adding(d)
        BY <1>4, <3>2
      <3> QED
        BY <3>1, <3>2
    <2> HIDE DEF c
    <2> QED
      BY <1>3, <1>7, <2>1, <2>4
  <1>8. CASE ignoredFailure(d)
    <2>1. \/ \E k \in {"remove", "putBack", "restoreRow", "dropFile"}, a \in Asset :
                CommandTurn(d, k, a) /\ Advance(d, k, a, {})
          \/ /\ cmd[d].at = "record"
             /\ cmd' = [cmd EXCEPT ![d] = IF Adding(d) THEN Onward([@ EXCEPT !.at = "undo"], cmd[d].ops) ELSE NoCmd]
      BY <1>8 DEF ignoredFailure
    <2>2. QuietCommand(d) /\ cmd[d].at # "idle"
      BY <1>6, <1>7, <2>1
    <2> QED
      BY <1>1, <1>2, <2>2
  <1> QED
    BY <1>5, <1>8

\* The roll back of the record.
TookBack(d) ==
    LET r == cmd[d].rec IN
    /\ TypeOK' /\ SameJobs /\ UNCHANGED <<file, obj, cursor, clock, faults, cut, raced>> /\ cmd[d].at = "record" /\ r \in Record
    /\ \A e \in Device \ {d} : cmd'[e] = cmd[e]
    /\ Continues(cmd'[d], cmd[d])
    /\ intent'[r] = cmd[d].was /\ \A q \in Record \ {r} : intent'[q] = intent[q]
    /\ \A s \in Store, q \in Record : s # d \/ q # r => row'[s][q] = row[s][q] /\ child'[s][q] = child[s][q]

LEMMA TakenBackType ==
    ASSUME TypeOK, NEW d \in Device, cmd[d].at = "record", TakenBack(d, cmd[d].rec),
           NEW c \in Cmd, Continues(c, cmd[d]), cmd' = [cmd EXCEPT ![d] = c],
           row' \in [Store -> [Record -> Row]], child' \in [Store -> [Record -> [Asset -> Nat]]],
           \A s \in Store, q \in Record : s # d \/ q # cmd[d].rec => row'[s][q] = row[s][q] /\ child'[s][q] = child[s][q]
    PROVE  TookBack(d) /\ cmd'[d] = c
  <1>1. cmd \in [Device -> Cmd] /\ cmd[d].rec \in Record /\ cmd[d].was \in Intent /\ intent \in [Record -> Intent]
    BY WorkingType, CommandType DEF TypeOK
  <1>2. cmd' \in [Device -> Cmd] /\ cmd'[d] = c /\ \A e \in Device \ {d} : cmd'[e] = cmd[e]
    BY <1>1
  <1>3. (c.rec # NoRecord) <=> c.at # "idle"
    BY <1>1, NoCommand, RecordSyncAssumption DEF Continues, SameCommand
  <1>4. \A e \in Device : (cmd'[e].rec # NoRecord) <=> cmd'[e].at # "idle"
    BY <1>2, <1>3 DEF TypeOK
  <1>5. SameJobs /\ UNCHANGED <<file, obj, cursor, clock, edits, faults, cut, raced>>
        /\ intent' = [intent EXCEPT ![cmd[d].rec] = cmd[d].was]
    BY CalmsJobs DEF TakenBack
  <1>6. /\ intent' \in [Record -> Intent] /\ intent'[cmd[d].rec] = cmd[d].was
        /\ \A q \in Record \ {cmd[d].rec} : intent'[q] = intent[q]
    BY <1>1, <1>5
  <1>7. job' \in [Device -> Job] /\ \A e \in Device : (job'[e].rec # NoRecord) <=> job'[e].pc \in {"row", "assets"}
    <2>1. job' \in [Device -> Job] /\ \A e \in Device : job'[e].rec = job[e].rec /\ job'[e].pc = job[e].pc
      BY <1>5 DEF SameJobs
    <2>2. \A e \in Device : (job[e].rec # NoRecord) <=> job[e].pc \in {"row", "assets"}
      BY DEF TypeOK
    <2> QED
      BY <2>1, <2>2
  <1>8. TypeOK'
    BY <1>2, <1>4, <1>5, <1>6, <1>7 DEF TypeOK
  <1> QED
    BY <1>1, <1>2, <1>5, <1>6, <1>8 DEF TookBack

LEMMA RollbackType ==
    ASSUME TypeOK, NEW d \in Device, rollbackRecord(d)
    PROVE  LET r == cmd[d].rec
               old == cmd[d].old.row
           IN  /\ TookBack(d) /\ ~Adding(d) /\ child' = child /\ cmd'[d] = NoCmd
               /\ IF old.upd = row[d][r].upd THEN row'[d][r] \in Row /\ row'[d][r].upd = clock /\ row'[d][r].del = old.del
                  ELSE row'[d][r] = old
  <1> DEFINE r == cmd[d].rec
             old == cmd[d].old.row
             y == IF old.upd = row[d][r].upd THEN [old EXCEPT !.upd = clock] ELSE old
  <1>1. /\ cmd[d].at = "record" /\ r \in Record /\ d \in Store /\ old \in Row /\ row \in [Store -> [Record -> Row]] /\ clock \in Nat
        /\ cmd \in [Device -> Cmd]
    BY WorkingType, CommandType DEF rollbackRecord, TypeOK
  <1>2. /\ row' = [row EXCEPT ![d][r] = y] /\ cmd' = [cmd EXCEPT ![d] = NoCmd] /\ child' = child /\ TakenBack(d, r) /\ ~Adding(d)
    BY <1>1 DEF rollbackRecord
  <1>3. /\ y \in Row
        /\ IF old.upd = row[d][r].upd THEN y.upd = clock /\ y.del = old.del ELSE y = old
    <2>1. CASE old.upd = row[d][r].upd
      <3>1. y = [old EXCEPT !.upd = clock]
        BY <2>1
      <3> HIDE DEF y, old
      <3> QED
        BY <1>1, <2>1, <3>1 DEF Row
    <2>2. CASE old.upd # row[d][r].upd
      BY <1>1, <2>2
    <2> QED
      BY <2>1, <2>2
  <1> HIDE DEF y
  <1>4. /\ row' \in [Store -> [Record -> Row]] /\ row'[d][r] = y
        /\ \A s \in Store, q \in Record : s # d \/ q # r => row'[s][q] = row[s][q]
    BY <1>1, <1>2, <1>3, SetRowType
  <1>5. child' \in [Store -> [Record -> [Asset -> Nat]]]
    BY <1>2 DEF TypeOK
  <1>6. NoCmd \in Cmd /\ Continues(NoCmd, cmd[d])
    BY NoCommand DEF Continues
  <1>7. TookBack(d) /\ cmd'[d] = NoCmd
    BY <1>1, <1>2, <1>4, <1>5, <1>6, TakenBackType
  <1> QED
    BY <1>2, <1>3, <1>4, <1>7

LEMMA DeleteAddedType ==
    ASSUME TypeOK, NEW d \in Device, deleteAddedRecord(d)
    PROVE  LET r == cmd[d].rec IN
           /\ TookBack(d) /\ Adding(d) /\ row'[d][r] = NoRow /\ child'[d][r] = NoAssets
           /\ cmd[d].ops # {} => cmd'[d].at = "undo" /\ cmd'[d].ops = cmd[d].ops /\ SameCommand(cmd'[d], cmd[d])
           /\ cmd[d].ops = {} => cmd'[d] = NoCmd
  <1> DEFINE r == cmd[d].rec
             x == [cmd[d] EXCEPT !.at = "undo"]
             c == Onward(x, cmd[d].ops)
  <1>1. /\ cmd[d].at = "record" /\ r \in Record /\ d \in Store /\ row \in [Store -> [Record -> Row]]
        /\ child \in [Store -> [Record -> [Asset -> Nat]]]
        /\ cmd[d] \in Cmd /\ cmd \in [Device -> Cmd] /\ cmd[d].ops \in SUBSET (CmdKind \X Asset)
    BY WorkingType, CommandType DEF deleteAddedRecord, TypeOK
  <1>2. /\ row' = [row EXCEPT ![d][r] = NoRow] /\ cmd' = [cmd EXCEPT ![d] = c]
        /\ child' = [child EXCEPT ![d][r] = NoAssets] /\ TakenBack(d, r) /\ Adding(d)
    BY <1>1 DEF deleteAddedRecord
  <1>3. x \in Cmd /\ SameCommand(x, cmd[d]) /\ x.at = "undo" /\ (Adding(d) => x.old.row = NoRow)
    BY <1>1 DEF Cmd, SameCommand, Adding
  <1> HIDE DEF x
  <1>4. /\ Continues(c, x) /\ (cmd[d].ops # {} => SameCommand(c, x) /\ c.at = "undo" /\ c.ops = cmd[d].ops)
        /\ cmd[d].ops = {} => c = NoCmd
    BY <1>1, <1>2, <1>3, OnwardType
  <1> HIDE DEF c
  <1>5. c \in Cmd /\ Continues(c, cmd[d]) /\ (SameCommand(c, x) => SameCommand(c, cmd[d]))
    BY <1>3, <1>4 DEF Continues, SameCommand
  <1>6. /\ row' \in [Store -> [Record -> Row]] /\ row'[d][r] = NoRow
        /\ child' \in [Store -> [Record -> [Asset -> Nat]]] /\ child'[d][r] = NoAssets
        /\ \A s \in Store, q \in Record : s # d \/ q # r => row'[s][q] = row[s][q] /\ child'[s][q] = child[s][q]
    <2>1. NoRow \in Row /\ NoAssets \in [Asset -> Nat]
      BY Constants
    <2> HIDE DEF r
    <2> QED
      BY <1>1, <1>2, <2>1
  <1>7. TookBack(d) /\ cmd'[d] = c
    BY <1>1, <1>2, <1>5, <1>6, TakenBackType
  <1> QED
    BY <1>2, <1>4, <1>5, <1>6, <1>7

\* The steps, by what they do.
LEMMA Steps ==
    ASSUME [Next]_vars
    PROVE  \/ \E d \in Device :
                 \/ Begin(d) \/ listChangedRecords(d) \/ (\E r \in Record : loadBundle(d, r)) \/ EndPass(d)
                 \/ applyRecord(d) \/ ChildWrite(d) \/ Refused(d) \/ Fail(d) \/ Release(d) \/ Complete(d)
                 \/ \E r \in Record : DeviceOp(d, r)
                 \/ \E r \in Record, a \in DataFile : Fetch(d, r, a) \/ fetchAllDataFiles(d, r, a)
                 \/ CommandWrite(d) \/ commandFails(d) \/ ignoredFailure(d) \/ commandDies(d)
                 \/ rollbackRecord(d) \/ deleteAddedRecord(d)
           \/ \E r \in Record : WebOp(r)
           \/ Tick
           \/ UNCHANGED vars
  BY DEF Next, Sync, User, Web, WebOp, DeviceOp, ChildWrite, Command, CommandWrite

\* A command's writes, and its failures.
LEMMA QuietCommands ==
    ASSUME TypeOK, NEW d \in Device,
           CommandWrite(d) \/ commandFails(d) \/ ignoredFailure(d) \/ commandDies(d)
    PROVE  QuietCommand(d) /\ cmd[d].at # "idle"
  <1>1. CASE CommandWrite(d)
    <2>1. PICK k \in CmdKind, a \in Asset, v \in Nat :
              PutsRow(d, k, a, v) \/ \E more \in SUBSET (CmdKind \X Asset) : PutsFile(d, k, a, v, more)
      BY <1>1, CommandWrites
    <2>2. CASE PutsRow(d, k, a, v)
      BY <2>2, PutChildRowType DEF PutsRow
    <2>3. ASSUME NEW more \in SUBSET (CmdKind \X Asset), PutsFile(d, k, a, v, more) PROVE QuietCommand(d) /\ cmd[d].at # "idle"
      BY <2>3, PutFileType DEF PutsFile, FileWasPut
    <2> QED
      BY <2>1, <2>2, <2>3
  <1> QED
    BY <1>1, FailsType, CutShortType

LEMMA TypeStep ==
    ASSUME TypeOK, [Next]_vars
    PROVE  TypeOK'
  <1>1. ASSUME NEW d \in Device, ChildWrite(d) PROVE TypeOK'
    BY <1>1, ChildWrites, ChildWriteType
  <1>2. ASSUME NEW d \in Device, NEW r \in Record, DeviceOp(d, r) PROVE TypeOK'
    BY <1>2, DeviceNoted DEF Noted
  <1>3. ASSUME NEW r \in Record, WebOp(r) PROVE TypeOK'
    BY <1>3, WebRow, WroteNoted DEF Store, Noted
  <1>4. CASE Tick
    BY <1>4 DEF Tick, stores, commands, TypeOK
  <1>5. CASE UNCHANGED vars
    BY <1>5 DEF vars, TypeOK
  <1>6. ASSUME NEW d \in Device,
               CommandWrite(d) \/ commandFails(d) \/ ignoredFailure(d) \/ commandDies(d)
        PROVE  TypeOK'
    BY <1>6, QuietCommands DEF QuietCommand
  <1>7. ASSUME NEW d \in Device, rollbackRecord(d) \/ deleteAddedRecord(d) PROVE TypeOK'
    BY <1>7, RollbackType, DeleteAddedType DEF TookBack
  <1> QED
    BY <1>1, <1>2, <1>3, <1>4, <1>5, <1>6, <1>7, Steps, BeginJob, ListJob, LoadJob, EndPassJob, ApplyJob, CompleteJob, EndedType, FetchType

-----------------------------------------------------------------------------
(* Rows and cursors: the steps of a sync that write no row.                 *)

\* While one device syncs, the others do not.
LEMMA Others ==
    ASSUME OneSync, NEW d \in Device, job[d].pc # "idle", NEW e \in Device \ {d}
    PROVE  job[e].pc = "idle"
  BY DEF OneSync

\* A version that a device has is dated; the one a command may return to is the older.
LEMMA Versions ==
    ASSUME RowsInv, NEW d \in Device, NEW r \in Record, NEW x \in Row, IsVersion(d, r, x)
    PROVE  /\ TypeOK /\ d \in Store /\ Dated(x) /\ x.upd \in Nat /\ row[d][r] \in Row /\ Dated(row[d][r])
           /\ x = row[d][r] \/ <<d, r>> \in raced \/ x = NoRow \/ row[d][r].upd > x.upd
           /\ NotBusy /\ job[d].pc # "idle" => x = row[d][r]
  <1>1. /\ TypeOK /\ d \in Store /\ row[d][r] \in Row /\ Dated(row[d][r]) /\ x.upd \in Nat
    BY DEF RowsInv, TypeOK, Dates, Store, Row
  <1>2. CASE x = row[d][r]
    BY <1>1, <1>2
  <1>3. CASE cmd[d].rec = r /\ x = cmd[d].old.row
    <2>1. cmd[d].at # "idle"
      BY <1>1, <1>3, RecordSyncAssumption DEF TypeOK
    <2> QED
      BY <1>1, <1>3, <2>1 DEF RowsInv, Dates, Commands
  <1> QED
    BY <1>2, <1>3 DEF IsVersion

\* No version appears, and each is covered as it was.
LEMMA CoversStay ==
    ASSUME RowsInv, raced \subseteq raced',
           \A d \in Device, r \in Record, x \in Row : IsVersion(d, r, x)' => IsVersion(d, r, x),
           \A d \in Device, r \in Record, x \in Row :
              IsVersion(d, r, x) /\ <<d, r>> \notin raced /\ PushCovered(d, r, x) => PushCovered(d, r, x)',
           \A d \in Device, r \in Record, x \in Row :
              OneDevice /\ NotBusy /\ IsVersion(d, r, x) /\ PullCovered(d, r, x) => PullCovered(d, r, x)'
    PROVE  PushCovers' /\ PullCovers'
  <1>1. PushCovers'
    <2>1. SUFFICES ASSUME NEW d \in Device, NEW r \in Record, NEW x \in Row, IsVersion(d, r, x)', <<d, r>> \notin raced'
                   PROVE  PushCovered(d, r, x)'
      BY DEF PushCovers
    <2>2. IsVersion(d, r, x) /\ <<d, r>> \notin raced
      BY <2>1
    <2>3. PushCovered(d, r, x)
      BY <2>2 DEF RowsInv, PushCovers
    <2> QED
      BY <2>2, <2>3
  <1>2. PullCovers'
    <2>1. SUFFICES ASSUME OneDevice, NotBusy, NEW d \in Device, NEW r \in Record, NEW x \in Row, IsVersion(d, r, x)'
                   PROVE  PullCovered(d, r, x)'
      BY DEF PullCovers, OneDevice, NotBusy
    <2>2. IsVersion(d, r, x)
      BY <2>1
    <2>3. PullCovered(d, r, x)
      BY <2>1, <2>2 DEF RowsInv, PullCovers
    <2> QED
      BY <2>1, <2>2, <2>3
  <1> QED
    BY <1>1, <1>2

\* The commands of d as it goes on with no new record to apply.
LEMMA CommandsStay ==
    ASSUME RowsInv, NEW d \in Device, job[d].pc # "idle", UNCHANGED <<row, cmd, raced>>, \A e \in Device \ {d} : job'[e] = job[e],
           job'[d].rec = NoRecord \/ (job'[d].rec = job[d].rec /\ job'[d].push = job[d].push)
    PROVE  Commands'
  <1>1. \A e \in Device : cmd[e].at # "idle" => cmd[e].rec # NoRecord
    BY DEF RowsInv, TypeOK
  <1>2. ASSUME NEW e \in Device
        PROVE  /\ NotBusy => raced = {} /\ (cmd[e].at = "idle" \/ job'[e].pc = "idle")
               /\ cmd[e].at # "idle" =>
                     /\ ~job'[e].push /\ job'[e].rec = cmd[e].rec => <<e, cmd[e].rec>> \in raced
                     /\ <<e, cmd[e].rec>> \in raced \/ cmd[e].old.row = NoRow \/ row[e][cmd[e].rec].upd > cmd[e].old.row.upd
    <2>1. CASE e # d
      BY <2>1 DEF RowsInv, Commands
    <2>2. CASE e = d
      BY <1>1, <2>2 DEF RowsInv, Commands
    <2> QED
      BY <2>1, <2>2
  <1> QED
    BY <1>2 DEF Commands, NotBusy

\* Rows, cursor, clock and commands stay, and the job goes on writing or ends.
LEMMA QuietStep ==
    ASSUME RowsInv, TypeOK', UNCHANGED <<row, cursor, clock, cmd, raced>>, NEW d \in Device, job[d].pc # "idle",
           \A e \in Device \ {d} : job'[e] = job[e],
           \/ job'[d] = NoJob
           \/ /\ job[d].pc = "assets" /\ job'[d].pc \in {"assets", "next"} /\ job'[d].push = job[d].push
              /\ job'[d].last = job[d].last /\ job'[d].started = job[d].started /\ job'[d].todo = job[d].todo
              /\ job'[d].calm = job[d].calm /\ job'[d].rec \in {job[d].rec, NoRecord}
    PROVE  RowsInv'
  <1>1. CASE job'[d] = NoJob
    <2>1. /\ job'[d].pc = "idle" /\ job'[d].started = 0 /\ job'[d].rec = NoRecord /\ \A r \in Record : job'[d].todo[r] = NoRow
      BY <1>1, Constants
    <2>2. Dates'
      <3>1. clock \in Nat
        BY DEF RowsInv, TypeOK
      <3> QED
        BY <2>1, <3>1 DEF RowsInv, Dates, Dated
    <2>3. OneSync' /\ PullsBeforeEnd' /\ Commands'
      BY <2>1, CommandsStay DEF RowsInv, OneSync, PullsBeforeEnd
    <2>4. Carried'
      BY <2>1 DEF RowsInv, Carried, CarriedBy, Passing, Source, Target
    <2>5. PushCovers' /\ PullCovers'
      <3>1. \A e \in Device, r \in Record, x \in Row : IsVersion(e, r, x)' => IsVersion(e, r, x)
        BY DEF IsVersion
      <3>2. \A e \in Device, r \in Record, x \in Row : PushCovered(e, r, x) => PushCovered(e, r, x)'
        BY <2>1 DEF PushCovered, Passing, Pending
      <3>3. \A e \in Device, r \in Record, x \in Row : PullCovered(e, r, x) => PullCovered(e, r, x)'
        BY <2>1 DEF PullCovered, Passing, Pending
      <3> QED
        BY <3>1, <3>2, <3>3, CoversStay
    <2> QED
      BY <2>2, <2>3, <2>4, <2>5 DEF RowsInv
  <1>2. CASE /\ job[d].pc = "assets" /\ job'[d].pc \in {"assets", "next"} /\ job'[d].push = job[d].push
             /\ job'[d].last = job[d].last /\ job'[d].started = job[d].started /\ job'[d].todo = job[d].todo
             /\ job'[d].calm = job[d].calm /\ job'[d].rec \in {job[d].rec, NoRecord}
    <2>1. Dates'
      BY <1>2 DEF RowsInv, Dates, Dated
    <2>2. OneSync' /\ PullsBeforeEnd' /\ Commands'
      BY <1>2, CommandsStay DEF RowsInv, OneSync, PullsBeforeEnd
    <2>3. Carried'
      BY <1>2 DEF RowsInv, Carried, CarriedBy, Passing, Source, Target, NotBusy
    <2>4. PushCovers' /\ PullCovers'
      <3>1. \A e \in Device, r \in Record, x \in Row : IsVersion(e, r, x)' => IsVersion(e, r, x)
        BY DEF IsVersion
      <3>2. \A e \in Device, r \in Record, x \in Row : PushCovered(e, r, x) => PushCovered(e, r, x)'
        BY <1>2 DEF PushCovered, Passing, Pending
      <3>3. \A e \in Device, r \in Record, x \in Row : PullCovered(e, r, x) => PullCovered(e, r, x)'
        BY <1>2 DEF PullCovered, Passing, Pending
      <3> QED
        BY <3>1, <3>2, <3>3, CoversStay
    <2> QED
      BY <2>1, <2>2, <2>3, <2>4 DEF RowsInv
  <1> QED
    BY <1>1, <1>2

LEMMA BeginRows ==
    ASSUME RowsInv, "overlap" \notin Features, NEW d \in Device, Begin(d)
    PROVE  RowsInv'
  <1>1. clock \in Nat /\ cursor \in [Device -> Nat] /\ TypeOK
    BY DEF RowsInv, TypeOK
  <1>2. /\ TypeOK' /\ UNCHANGED <<row, cursor, clock, cmd, raced>> /\ \A e \in Device \ {d} : job'[e] = job[e]
        /\ job'[d].pc = "list" /\ job'[d].push = TRUE /\ job'[d].last = cursor[d] /\ job'[d].started = clock
        /\ \A r \in Record : job'[d].todo[r] = NoRow
    BY <1>1, BeginJob DEF stores, commands
  <1>3. (\A e \in Device : job[e].pc = "idle") /\ (NotBusy => cmd[d].at = "idle")
    BY DEF Begin, NotBusy
  <1>4. Dates'
    BY <1>1, <1>2 DEF RowsInv, Dates, Dated
  <1>5. OneSync' /\ PullsBeforeEnd'
    BY <1>2, <1>3 DEF OneSync, PullsBeforeEnd
  <1>6. Carried'
    BY <1>2, <1>3 DEF Carried, CarriedBy, Passing
  <1>7. Commands'
    BY <1>2, <1>3 DEF RowsInv, Commands, NotBusy
  <1>8. PushCovers' /\ PullCovers'
    <2>1. \A e \in Device, r \in Record, x \in Row : IsVersion(e, r, x)' => IsVersion(e, r, x)
      BY <1>2 DEF IsVersion
    <2>2. \A e \in Device, r \in Record, x \in Row : PushCovered(e, r, x) => PushCovered(e, r, x)'
      BY <1>2, <1>3 DEF PushCovered, Passing
    <2>3. \A e \in Device, r \in Record, x \in Row : PullCovered(e, r, x) => PullCovered(e, r, x)'
      BY <1>2, <1>3 DEF PullCovered, Passing
    <2> QED
      BY <1>2, <2>1, <2>2, <2>3, CoversStay
  <1> QED
    BY <1>2, <1>4, <1>5, <1>6, <1>7, <1>8 DEF RowsInv

LEMMA ListRows ==
    ASSUME RowsInv, NEW d \in Device, listChangedRecords(d)
    PROVE  RowsInv'
  <1> DEFINE src(r) == row[Source(d)][r]
  <1>1. TypeOK /\ row \in [Store -> [Record -> Row]] /\ cursor[d] \in Nat
    BY DEF RowsInv, TypeOK
  <1>2. /\ TypeOK' /\ UNCHANGED <<row, cursor, clock, cmd, raced>> /\ \A e \in Device \ {d} : job'[e] = job[e]
        /\ job[d].pc = "list" /\ job'[d].pc = "next" /\ job'[d].push = job[d].push /\ job'[d].last = job[d].last
        /\ job'[d].started = job[d].started /\ Source(d) \in Store /\ job[d].last = cursor[d]
        /\ job'[d].rec = NoRecord /\ job'[d].calm = job[d].calm
    BY <1>1, ListJob DEF stores, commands, RowsInv, Dates
  <1>3. \A r \in Record : job'[d].todo[r] = IF src(r).upd # NoTime /\ UpdatedSince(src(r), job[d].last) THEN src(r) ELSE NoRow
    BY <1>1, ListJob
  <1>4. ASSUME NEW r \in Record, src(r) # NoRow, src(r).upd >= cursor[d]
        PROVE  job'[d].todo[r] = src(r)
    <2>1. src(r) \in Row /\ src(r).upd # NoTime
      BY <1>1, <1>2, <1>4, DatedRow DEF RowsInv, Dates
    <2>2. UpdatedSince(src(r), job[d].last)
      BY <1>1, <1>2, <1>4, <2>1, ListedSince
    <2> QED
      BY <1>3, <2>1, <2>2
  <1>5. \A r \in Record : job'[d].todo[r] \in {src(r), NoRow}
    BY <1>3
  <1>6. Dates'
    <2>1. \A r \in Record : Dated(job'[d].todo[r])
      BY <1>2, <1>5 DEF RowsInv, Dates, Dated
    <2> QED
      BY <1>2, <2>1 DEF RowsInv, Dates, Dated
  <1>7. OneSync' /\ PullsBeforeEnd' /\ Commands'
    BY <1>2, CommandsStay DEF RowsInv, OneSync, PullsBeforeEnd
  <1>8. Carried'
    <2>1. \A r \in Record : job'[d].todo[r] # NoRow => job'[d].todo[r] = src(r)
      BY <1>5
    <2>2. CarriedBy(d)'
      BY <1>2, <2>1 DEF CarriedBy, Passing, Source, Target
    <2> QED
      BY <1>2, <2>2 DEF RowsInv, Carried, CarriedBy, Passing, Source, Target, NotBusy
  <1> HIDE DEF src
  <1>9. PushCovers' /\ PullCovers'
    <2>1. \A e \in Device, r \in Record, x \in Row : IsVersion(e, r, x)' => IsVersion(e, r, x)
      BY <1>2 DEF IsVersion
    <2>2. ASSUME NEW e \in Device, NEW r \in Record, NEW x \in Row, IsVersion(e, r, x), <<e, r>> \notin raced, PushCovered(e, r, x)
          PROVE  PushCovered(e, r, x)'
      <3>1. CASE e # d
        BY <1>2, <2>2, <3>1 DEF PushCovered, Passing, Pending
      <3>2. CASE e = d /\ ~job[d].push
        BY <1>2, <2>2, <3>2 DEF PushCovered, Passing, Pending
      <3>3. CASE e = d /\ job[d].push /\ Fresher(x, row[Cloud][r])
        <4>1. x # NoRow /\ x.upd >= cursor[d]
          BY <2>2, <3>3 DEF PushCovered, Fresher
        <4>2. /\ Dated(x) /\ x.upd \in Nat /\ row[d][r] \in Row /\ Dated(row[d][r])
              /\ x = row[d][r] \/ row[d][r].upd > x.upd
          BY <2>2, <3>3, <4>1, Versions
        <4>3. row[d][r].upd \in Nat /\ x.del <= x.upd /\ row[d][r].del <= row[d][r].upd
          BY <1>1, <4>2, DatedRow
        <4>4. row[d][r] # NoRow /\ row[d][r].upd >= cursor[d]
          BY <1>1, <4>1, <4>2, <4>3, Constants
        <4>5. job'[d].todo[r] = row[d][r]
          BY <1>4, <3>3, <4>4 DEF src, Source
        <4>6. ~Beats(x, row[d][r])
          <5>1. ~Newer(x, row[d][r])
            BY <4>2, <4>3 DEF Newer
          <5> QED
            BY <1>1, <4>2, <5>1, DatedBeats
        <4>7. Pending(d, r, x)'
          BY <4>4, <4>5, <4>6 DEF Pending
        <4> QED
          BY <1>2, <3>3, <4>1, <4>7 DEF PushCovered
      <3>4. CASE ~Fresher(x, row[Cloud][r])
        BY <1>2, <3>4 DEF PushCovered
      <3>5. job[d].push \in BOOLEAN
        BY <1>1, JobType
      <3> QED
        BY <3>1, <3>2, <3>3, <3>4, <3>5
    <2>3. ASSUME NEW e \in Device, NEW r \in Record, NEW x \in Row, PullCovered(e, r, x)
          PROVE  PullCovered(e, r, x)'
      <3>1. CASE e # d
        BY <1>2, <2>3, <3>1 DEF PullCovered, Passing, Pending
      <3>2. CASE e = d /\ job[d].push
        BY <1>2, <2>3, <3>2 DEF PullCovered, Passing, Pending
      <3>3. CASE e = d /\ ~job[d].push /\ Fresher(row[Cloud][r], x)
        <4>1. row[Cloud][r] # NoRow /\ row[Cloud][r].upd >= cursor[d]
          BY <2>3, <3>3 DEF PullCovered, Fresher
        <4>2. job'[d].todo[r] = row[Cloud][r]
          BY <1>4, <3>3, <4>1 DEF src, Source
        <4>3. ~Beats(row[Cloud][r], row[Cloud][r])
          <5>1. row[Cloud][r] \in Row /\ Dated(row[Cloud][r]) /\ row[Cloud][r].upd \in Nat
            BY <1>1 DEF RowsInv, Dates, Row, Store
          <5> QED
            BY <1>1, <5>1, DatedBeats DEF Newer
        <4>4. Pending(d, r, row[Cloud][r])'
          BY <1>2, <4>1, <4>2, <4>3 DEF Pending
        <4> QED
          BY <1>2, <3>3, <4>1, <4>4 DEF PullCovered
      <3>4. CASE ~Fresher(row[Cloud][r], x)
        BY <1>2, <3>4 DEF PullCovered
      <3>5. job[d].push \in BOOLEAN
        BY <1>1, JobType
      <3> QED
        BY <3>1, <3>2, <3>3, <3>4, <3>5
    <2> QED
      BY <1>2, <2>1, <2>2, <2>3, CoversStay
  <1> QED
    BY <1>2, <1>6, <1>7, <1>8, <1>9 DEF RowsInv

LEMMA EndPassRows ==
    ASSUME RowsInv, NEW d \in Device, EndPass(d)
    PROVE  RowsInv'
  <1>1. /\ TypeOK' /\ UNCHANGED <<row, cursor, clock, cmd, raced>> /\ \A e \in Device \ {d} : job'[e] = job[e]
        /\ job[d].pc = "next" /\ \A r \in Record : job[d].todo[r] = NoRow
        /\ job'[d].pc = (IF job[d].push THEN "list" ELSE "complete") /\ job'[d].push = FALSE
        /\ job'[d].last = job[d].last /\ job'[d].started = job[d].started /\ job'[d].todo = job[d].todo
        /\ job'[d].rec = NoRecord
    BY EndPassJob DEF RowsInv, stores, commands
  <1>2. Dates' /\ OneSync' /\ PullsBeforeEnd' /\ Commands'
    BY <1>1, CommandsStay DEF RowsInv, Dates, Dated, OneSync, PullsBeforeEnd
  <1>3. Carried'
    BY <1>1 DEF RowsInv, Carried, CarriedBy, Passing, Source, Target, NotBusy
  <1>4. ASSUME NEW e \in Device, NEW r \in Record, NEW x \in Row, PushCovered(e, r, x)
        PROVE  PushCovered(e, r, x)'
    <2>1. CASE e # d
      BY <1>1, <1>4, <2>1 DEF PushCovered, Passing, Pending
    <2>2. CASE e = d
      <3>1. Fresher(x, row[Cloud][r]) => x.upd >= cursor[d] /\ x.upd >= job[d].started
        BY <1>1, <1>4, <2>2 DEF PushCovered, Passing, Pending
      <3> QED
        BY <1>1, <2>2, <3>1 DEF PushCovered, Passing
    <2> QED
      BY <2>1, <2>2
  <1>5. ASSUME NEW e \in Device, NEW r \in Record, NEW x \in Row, PullCovered(e, r, x)
        PROVE  PullCovered(e, r, x)'
    <2>1. CASE e # d
      BY <1>1, <1>5, <2>1 DEF PullCovered, Passing, Pending
    <2>2. CASE e = d
      <3>1. Fresher(row[Cloud][r], x) =>
              row[Cloud][r].upd >= cursor[d] /\ (~job[d].push => row[Cloud][r].upd >= job[d].started)
        BY <1>1, <1>5, <2>2 DEF PullCovered, Passing, Pending
      <3> QED
        BY <1>1, <2>2, <3>1 DEF PullCovered, Passing
    <2> QED
      BY <2>1, <2>2
  <1>6. PushCovers' /\ PullCovers'
    <2>1. \A e \in Device, r \in Record, x \in Row : IsVersion(e, r, x)' => IsVersion(e, r, x)
      BY <1>1 DEF IsVersion
    <2> QED
      BY <1>1, <1>4, <1>5, <2>1, CoversStay
  <1> QED
    BY <1>1, <1>2, <1>3, <1>6 DEF RowsInv

LEMMA CompleteRows ==
    ASSUME RowsInv, NEW d \in Device, Complete(d)
    PROVE  RowsInv'
  <1>1. /\ TypeOK' /\ UNCHANGED <<row, clock, cmd, raced>> /\ \A e \in Device \ {d} : job'[e] = job[e] /\ cursor'[e] = cursor[e]
        /\ job[d].pc = "complete" /\ job'[d].pc = "done" /\ job'[d].push = job[d].push
        /\ job'[d].started = job[d].started /\ job'[d].todo = job[d].todo /\ cursor'[d] = job[d].started
        /\ job'[d].rec = NoRecord
    BY CompleteJob DEF RowsInv, stores, commands
  <1>2. Dates' /\ OneSync' /\ PullsBeforeEnd' /\ Commands'
    BY <1>1, CommandsStay DEF RowsInv, Dates, Dated, OneSync, PullsBeforeEnd
  <1>3. Carried'
    BY <1>1 DEF RowsInv, Carried, CarriedBy, Passing, Source, Target, NotBusy
  <1>4. ASSUME NEW e \in Device, NEW r \in Record, NEW x \in Row, PushCovered(e, r, x)
        PROVE  PushCovered(e, r, x)'
    <2>1. CASE e # d
      BY <1>1, <1>4, <2>1 DEF PushCovered, Passing, Pending
    <2>2. CASE e = d
      <3>1. ~job[d].push
        BY <1>1 DEF RowsInv, PullsBeforeEnd
      <3>2. Fresher(x, row[Cloud][r]) => x.upd >= job[d].started
        BY <1>1, <1>4, <2>2, <3>1 DEF PushCovered
      <3> QED
        BY <1>1, <2>2, <3>1, <3>2 DEF PushCovered, Passing
    <2> QED
      BY <2>1, <2>2
  <1>5. ASSUME NEW e \in Device, NEW r \in Record, NEW x \in Row, PullCovered(e, r, x)
        PROVE  PullCovered(e, r, x)'
    BY <1>1, <1>5 DEF PullCovered, Passing, Pending
  <1>6. PushCovers' /\ PullCovers'
    <2>1. \A e \in Device, r \in Record, x \in Row : IsVersion(e, r, x)' => IsVersion(e, r, x)
      BY <1>1 DEF IsVersion
    <2> QED
      BY <1>1, <1>4, <1>5, <2>1, CoversStay
  <1> QED
    BY <1>1, <1>2, <1>3, <1>6 DEF RowsInv

\* What must be applied does not lose to the target; and what loses to it, or ties, is passed over.
LEMMA MustApplyMeans ==
    ASSUME TypeOK, NEW d \in Device, NEW x \in Row, NEW y \in Row, Dated(x), Dated(y), x # NoRow, NEW want, NEW have
    PROVE  /\ MustApply(d, x, y, want, have) => ~Beats(y, x)
           /\ ~MustApply(d, x, y, want, have) => y # NoRow /\ ~Beats(x, y)
  <1>1. /\ x.upd \in Nat /\ y.upd \in Nat /\ x.upd # NoTime /\ x.del <= x.upd /\ y.del <= y.upd
        /\ y # NoRow <=> y.upd # NoTime
    BY DatedRow
  <1>2. job[d].push \in BOOLEAN
    BY JobType
  <1>3. /\ ResolveBundle(d, x, y) = "source" <=> Newer(x, y)
        /\ ResolveBundle(d, x, y) = "none" <=> ~Newer(x, y) /\ ~Newer(y, x)
    BY <1>1, <1>2, BundleWinner
  <1>4. (Beats(x, y) <=> Newer(x, y)) /\ (Beats(y, x) <=> Newer(y, x))
    BY DatedBeats
  <1>5. y.upd = NoTime => ~Newer(y, x)
    BY <1>1 DEF Newer, NoTime
  <1>6. ~(Newer(x, y) /\ Newer(y, x))
    BY <1>1 DEF Newer
  <1> QED
    BY <1>1, <1>3, <1>4, <1>5, <1>6 DEF MustApply

\* What does not beat one version does not beat what that one does not beat.
LEMMA NotNewer ==
    ASSUME NEW x \in Row, NEW y \in Row, NEW z \in Row, ~Newer(x, y), ~Newer(y, z)
    PROVE  ~Newer(x, z)
  <1>1. x.upd \in Nat /\ y.upd \in Nat /\ z.upd \in Nat
    BY DEF Row
  <1> QED
    BY <1>1 DEF Newer

LEMMA NotBeaten ==
    ASSUME TypeOK, NEW x \in Row, NEW y \in Row, NEW z \in Row, Dated(x), Dated(y), Dated(z), ~Beats(x, y), ~Beats(y, z)
    PROVE  ~Beats(x, z)
  <1>1. ~Newer(x, y) /\ ~Newer(y, z)
    BY DatedBeats
  <1> QED
    BY <1>1, NotNewer, DatedBeats

LEMMA LoadRows ==
    ASSUME RowsInv, NEW d \in Device, NEW r \in Record, loadBundle(d, r)
    PROVE  RowsInv'
  <1> DEFINE source == job[d].todo[r]
             target == row[Target(d)][r]
             want == child[Source(d)][r]
             have == child[Target(d)][r]
  <1>1. TypeOK
    BY DEF RowsInv
  <1>2. /\ TypeOK' /\ UNCHANGED <<row, cursor, clock, cmd>> /\ \A e \in Device \ {d} : job'[e] = job[e]
        /\ job[d].pc = "next" /\ source # NoRow /\ Target(d) \in Store
        /\ job'[d].push = job[d].push /\ job'[d].last = job[d].last /\ job'[d].started = job[d].started
        /\ job'[d].calm = job[d].calm
        /\ job'[d].todo[r] = NoRow /\ \A q \in Record \ {r} : job'[d].todo[q] = job[d].todo[q]
        /\ raced' = (IF job'[d].rec = r /\ ~job[d].push /\ cmd[d].rec = r THEN raced \cup {<<d, r>>} ELSE raced)
    BY <1>1, LoadJob DEF stores
  <1>3. \/ /\ MustApply(d, source, target, want, have)
           /\ job'[d].pc = "row" /\ job'[d].rec = r /\ job'[d].new = source
        \/ ~MustApply(d, source, target, want, have) /\ job'[d].pc = "next" /\ job'[d].rec = NoRecord
    BY <1>1, LoadJob
  <1>4. source \in Row /\ target \in Row /\ Dated(source) /\ Dated(target)
    BY <1>1, <1>2, JobType DEF RowsInv, Dates, TypeOK
  <1>5. NotBusy \/ job[d].calm \/ ~job[d].push => source = row[Source(d)][r]
    BY <1>2 DEF RowsInv, Carried, CarriedBy, Passing
  <1>6. /\ MustApply(d, source, target, want, have) => ~Beats(target, source)
        /\ ~MustApply(d, source, target, want, have) => target # NoRow /\ ~Beats(source, target)
    BY <1>1, <1>2, <1>4, MustApplyMeans
  <1>7. Dates'
    <2>1. \A q \in Record : Dated(job'[d].todo[q])
      BY <1>2 DEF RowsInv, Dates, Dated
    <2> QED
      BY <1>2, <1>3, <1>4, <2>1 DEF RowsInv, Dates, Dated
  <1>8. OneSync' /\ PullsBeforeEnd'
    BY <1>2, <1>3 DEF RowsInv, OneSync, PullsBeforeEnd
  <1>9. Commands'
    <2>1. \A e \in Device : cmd[e].at # "idle" <=> cmd[e].rec # NoRecord
      BY <1>1 DEF TypeOK
    <2>2. raced \subseteq raced' /\ (NotBusy => raced' = {})
      <3>1. NotBusy => cmd[d].rec = NoRecord /\ raced = {}
        BY <1>2, <2>1 DEF RowsInv, Commands
      <3> QED
        BY <1>2, <3>1, RecordSyncAssumption
    <2>3. ASSUME NEW e \in Device, cmd[e].at # "idle"
          PROVE  /\ NotBusy => job'[e].pc = "idle"
                 /\ ~job'[e].push /\ job'[e].rec = cmd[e].rec => <<e, cmd[e].rec>> \in raced'
                 /\ <<e, cmd[e].rec>> \in raced' \/ cmd[e].old.row = NoRow \/ row[e][cmd[e].rec].upd > cmd[e].old.row.upd
      <3>1. /\ NotBusy => job[e].pc = "idle"
            /\ ~job[e].push /\ job[e].rec = cmd[e].rec => <<e, cmd[e].rec>> \in raced
            /\ <<e, cmd[e].rec>> \in raced \/ cmd[e].old.row = NoRow \/ row[e][cmd[e].rec].upd > cmd[e].old.row.upd
        BY <2>3 DEF RowsInv, Commands
      <3>2. CASE e # d
        BY <1>2, <2>2, <3>1, <3>2
      <3>3. CASE e = d
        <4>1. ~NotBusy
          BY <1>2, <3>1, <3>3
        <4>2. ~job'[d].push /\ job'[d].rec = cmd[d].rec => <<d, cmd[d].rec>> \in raced'
          BY <1>2, <1>3, <2>1, <2>3, <3>3
        <4> QED
          BY <2>2, <3>1, <3>3, <4>1, <4>2
      <3> QED
        BY <3>2, <3>3
    <2> QED
      BY <1>2, <2>2, <2>3 DEF Commands, NotBusy
  <1>10. Carried'
    <2>1. CarriedBy(d)'
      <3>1. /\ Passing(d) /\ Passing(d)' /\ Source(d)' = Source(d) /\ Target(d)' = Target(d)
        BY <1>2, <1>3 DEF Passing, Source, Target
      <3>2. NotBusy \/ job[d].calm \/ ~job[d].push =>
              \A q \in Record : job[d].todo[q] # NoRow => job[d].todo[q] = row[Source(d)][q]
        BY <3>1 DEF RowsInv, Carried, CarriedBy
      <3> QED
        BY <1>2, <1>3, <1>5, <1>6, <3>1, <3>2 DEF CarriedBy, NotBusy
    <2> QED
      BY <1>2, <2>1 DEF RowsInv, Carried, CarriedBy, Passing, Source, Target, NotBusy
  <1>11. PushCovers' /\ PullCovers'
    <2>1. \A e \in Device, q \in Record, x \in Row : IsVersion(e, q, x)' => IsVersion(e, q, x)
      BY <1>2 DEF IsVersion
    \* What was listed is loaded next, or the target has it or better.
    <2>2. ASSUME NEW q \in Record, NEW x \in Row, Dated(x), Pending(d, q, x)
          PROVE  Pending(d, q, x)' \/ (q = r /\ target # NoRow /\ ~Beats(x, target))
      <3>1. job[d].todo[q] # NoRow /\ ~Beats(x, job[d].todo[q])
        BY <1>2, <2>2 DEF Pending
      <3>2. CASE q # r
        BY <1>2, <3>1, <3>2 DEF Pending
      <3>3. CASE q = r /\ MustApply(d, source, target, want, have)
        BY <1>3, <3>1, <3>3 DEF Pending
      <3>4. CASE q = r /\ ~MustApply(d, source, target, want, have)
        <4>1. ~Beats(x, source)
          BY <3>1, <3>4
        <4>2. target # NoRow /\ ~Beats(source, target)
          BY <1>6, <3>4
        <4> HIDE DEF source, target
        <4> QED
          BY <1>1, <1>4, <2>2, <3>4, <4>1, <4>2, NotBeaten
      <3> QED
        BY <3>2, <3>3, <3>4
    <2>3. ASSUME NEW e \in Device, NEW q \in Record, NEW x \in Row, IsVersion(e, q, x), PushCovered(e, q, x)
          PROVE  PushCovered(e, q, x)'
      <3>1. CASE e # d
        BY <1>2, <2>3, <3>1 DEF PushCovered, Passing, Pending
      <3>2. CASE e = d /\ ~job[d].push
        BY <1>2, <1>3, <2>3, <3>2 DEF PushCovered, Passing
      <3>3. CASE e = d /\ job[d].push /\ Fresher(x, row[Cloud][q])
        <4>1. Dated(x) /\ x.upd >= cursor[d] /\ (x.upd >= job[d].started \/ Pending(d, q, x))
          BY <1>2, <2>3, <3>3, Versions DEF PushCovered, Passing
        <4>2. q = r /\ target # NoRow /\ ~Beats(x, target) => FALSE
          BY <3>3 DEF Fresher, Target
        <4>3. x.upd >= job[d].started \/ Pending(d, q, x)'
          BY <2>2, <4>1, <4>2
        <4> QED
          BY <1>2, <3>3, <4>1, <4>3 DEF PushCovered
      <3>4. CASE ~Fresher(x, row[Cloud][q])
        BY <1>2, <3>4 DEF PushCovered
      <3>5. job[d].push \in BOOLEAN
        BY <1>1, JobType
      <3> QED
        BY <3>1, <3>2, <3>3, <3>4, <3>5
    <2>4. ASSUME NotBusy, NEW e \in Device, NEW q \in Record, NEW x \in Row, IsVersion(e, q, x), PullCovered(e, q, x)
          PROVE  PullCovered(e, q, x)'
      <3>1. CASE e # d
        BY <1>2, <2>4, <3>1 DEF PullCovered, Passing, Pending
      <3>2. CASE e = d /\ job[d].push
        BY <1>2, <1>3, <2>4, <3>2 DEF PullCovered, Passing
      <3>3. CASE e = d /\ ~job[d].push /\ Fresher(row[Cloud][q], x)
        <4> DEFINE y == row[Cloud][q]
        <4>1. y.upd >= cursor[d] /\ (y.upd >= job[d].started \/ Pending(d, q, y))
          BY <1>2, <2>4, <3>3 DEF PullCovered, Passing
        <4>2. x = row[d][q]
          BY <1>2, <2>4, <3>3, Versions
        <4>3. q = r /\ target # NoRow /\ ~Beats(y, target) => FALSE
          BY <3>3, <4>2 DEF Fresher, Target
        <4>4. y \in Row /\ Dated(y)
          BY <1>1 DEF RowsInv, Dates, TypeOK, Store
        <4>5. PICK z \in Row : z = y
          BY <4>4
        <4>8. Pending(d, q, z) => Pending(d, q, z)'
          BY <2>2, <4>3, <4>4, <4>5
        <4>6. row'[Cloud][q] = y /\ job'[d].started = job[d].started /\ cursor' = cursor /\ job'[d].pc \in {"row", "next"}
          BY <1>2, <1>3
        <4>7. Pending(d, q, z)' => Pending(d, q, row[Cloud][q])'
          BY <4>5, <4>6 DEF Pending
        <4>9. Pending(d, q, y) => Pending(d, q, row[Cloud][q])'
          BY <4>5, <4>7, <4>8 DEF Pending
        <4> QED
          BY <1>2, <3>3, <4>1, <4>6, <4>9 DEF PullCovered
      <3>4. CASE ~Fresher(row[Cloud][q], x)
        BY <1>2, <3>4 DEF PullCovered
      <3>5. job[d].push \in BOOLEAN
        BY <1>1, JobType
      <3> QED
        BY <3>1, <3>2, <3>3, <3>4, <3>5
    <2>5. raced \subseteq raced'
      BY <1>2
    <2> QED
      BY <2>1, <2>3, <2>4, <2>5, CoversStay
  <1> QED
    BY <1>2, <1>7, <1>8, <1>9, <1>10, <1>11 DEF RowsInv

-----------------------------------------------------------------------------
(* Rows and cursors: the write of a row, and what users do.                 *)

\* The row that is written carries the source's version, or a later date.
LEMMA AppliedRow ==
    ASSUME RowsInv, NEW d \in Device, applyRecord(d)
    PROVE  LET t == Target(d)
               r == job[d].rec
               new == job[d].new
               y == row'[t][r]
           IN  /\ r \in Record /\ t \in Store /\ row' \in [Store -> [Record -> Row]]
               /\ y \in Row /\ y.del = new.del /\ y.upd >= new.upd /\ (y = new \/ y.upd = clock)
               /\ Dated(y) /\ y # NoRow /\ Dated(new) /\ new \in Row
               /\ \A s \in Store, q \in Record : s # t \/ q # r => row'[s][q] = row[s][q]
  <1> DEFINE t == Target(d)
             r == job[d].rec
             new == job[d].new
             y == row'[t][r]
  <1>1. /\ TypeOK' /\ job[d].pc = "row" /\ r \in Record /\ t \in Store
        /\ y \in Row /\ y.del = new.del /\ (y = new \/ y.upd = clock)
        /\ \A s \in Store, q \in Record : s # t \/ q # r => row'[s][q] = row[s][q]
    BY ApplyJob DEF RowsInv
  <1>2. TypeOK /\ new \in Row /\ Dated(new) /\ new # NoRow
    BY <1>1, JobType DEF RowsInv, Dates
  <1>3. new.upd \in Nat /\ new.del \in Nat /\ new.upd # NoTime /\ new.del <= new.upd /\ new.upd <= clock /\ clock \in Nat
    BY <1>2, DatedRow
  <1> HIDE DEF y, new
  <1>4. y.upd >= new.upd /\ y.upd <= clock /\ y.upd # NoTime /\ y.upd \in Nat
    BY <1>1, <1>3 DEF NoTime
  <1>5. y # NoRow /\ Dated(y)
    <2>1. y # NoRow
      BY <1>4, Constants DEF NoTime
    <2> QED
      BY <1>1, <1>3, <1>4, <2>1 DEF Dated
  <1>6. row' \in [Store -> [Record -> Row]]
    BY <1>1 DEF TypeOK
  <1> QED
    BY <1>1, <1>2, <1>4, <1>5, <1>6 DEF y, new

\* What did not beat the row before does not beat the version that replaced it.
LEMMA StillNotNewer ==
    ASSUME NEW x \in Row, NEW y \in Row, NEW new \in Row, NEW old \in Row,
           y.del = new.del, y.upd >= new.upd, ~Newer(old, new), ~Newer(x, old)
    PROVE  ~Newer(x, y)
  <1>1. x.upd \in Nat /\ y.upd \in Nat /\ new.upd \in Nat /\ old.upd \in Nat
    BY DEF Row
  <1> QED
    BY <1>1 DEF Newer

LEMMA ApplyRows ==
    ASSUME RowsInv, NEW d \in Device, applyRecord(d)
    PROVE  RowsInv'
  <1>0. PICK r \in Record : r = job[d].rec
    BY AppliedRow
  <1> DEFINE t == Target(d)
             new == job[d].new
             old == row[t][r]
             y == row'[t][r]
  <1>1. /\ TypeOK /\ job[d].pc = "row" /\ cursor \in [Device -> Nat] /\ clock \in Nat /\ job[d].started \in Nat
        /\ \A e \in Device : cursor[e] <= clock /\ job[d].started <= clock
    BY JobType DEF RowsInv, applyRecord, TypeOK, Dates
  <1>2. /\ r \in Record /\ t \in Store /\ row' \in [Store -> [Record -> Row]]
        /\ y \in Row /\ y.del = new.del /\ y.upd >= new.upd /\ (y = new \/ y.upd = clock)
        /\ Dated(y) /\ y # NoRow /\ Dated(new) /\ new \in Row
        /\ \A s \in Store, q \in Record : s # t \/ q # r => row'[s][q] = row[s][q]
    BY <1>0, AppliedRow
  <1>3. UNCHANGED <<cursor, clock, cmd, raced>>
    BY <1>1, ApplyJob DEF commands
  <1>4. /\ \A e \in Device \ {d} : job'[e] = job[e]
        /\ job'[d].push = job[d].push /\ job'[d].last = job[d].last /\ job'[d].started = job[d].started
        /\ job'[d].todo = job[d].todo /\ job'[d].calm = job[d].calm
        /\ (job'[d].pc = "assets" /\ job'[d].rec = r) \/ (job'[d].pc = "next" /\ job'[d].rec = NoRecord)
    BY <1>0, <1>1, ApplyJob
  <1>5. TypeOK'
    BY <1>1, ApplyJob
  <1>6. \A s \in Store, q \in Record : row[s][q] \in Row /\ Dated(row[s][q])
    BY <1>1 DEF RowsInv, TypeOK, Dates
  <1>7. /\ Cloud \in Store /\ d \in Store /\ Cloud \notin Device /\ Source(d) \in Store /\ Source(d) # t
        /\ \A e \in Device : e \in Store /\ e # Cloud
    BY <1>1, JobType, RecordSyncAssumption DEF Store, Source, Target
  <1>8. /\ NotBusy \/ ~job[d].push => new = row[Source(d)][r]
        /\ job[d].push => ~Newer(old, new)
    <2>1. /\ NotBusy \/ ~job[d].push => new = row[Source(d)][r]
          /\ job[d].push => ~Beats(old, new)
      BY <1>0, <1>1 DEF RowsInv, Carried, CarriedBy, Passing
    <2>2. old \in Row /\ Dated(old)
      BY <1>2, <1>6, <1>7
    <2>3. Beats(old, new) <=> Newer(old, new)
      BY <1>1, <1>2, <2>2, DatedBeats
    <2> QED
      BY <2>1, <2>3
  <1>9. Dates'
    <2>1. \A s \in Store, q \in Record : Dated(row'[s][q])
      BY <1>2, <1>6
    <2> QED
      BY <1>1, <1>3, <1>4, <2>1 DEF RowsInv, Dates, Dated
  <1>10. OneSync' /\ PullsBeforeEnd'
    BY <1>1, <1>4 DEF RowsInv, OneSync, PullsBeforeEnd
  <1>11. Carried'
    <2>1. CarriedBy(d)'
      <3>1. ASSUME NotBusy \/ job[d].calm \/ ~job[d].push, NEW q \in Record, job[d].todo[q] # NoRow
            PROVE  job[d].todo[q] = row'[Source(d)][q]
        BY <1>1, <1>2, <1>7, <3>1 DEF RowsInv, Carried, CarriedBy, Passing
      <3>2. Source(d)' = Source(d) /\ job'[d].pc # "row"
        BY <1>4 DEF Source
      <3> QED
        BY <1>4, <3>1, <3>2 DEF CarriedBy, NotBusy
    <2>2. \A e \in Device \ {d} : ~Passing(e)'
      BY <1>1, <1>4, Others DEF RowsInv, Passing
    <2> QED
      BY <2>1, <2>2 DEF Carried, CarriedBy
  <1>12. Commands'
    <2>1. \A e \in Device : cmd[e].at # "idle" => cmd[e].rec \in Record
      BY <1>1, WorkingType
    <2>2. ASSUME NEW e \in Device, cmd[e].at # "idle"
          PROVE  /\ ~job'[e].push /\ job'[e].rec = cmd[e].rec => <<e, cmd[e].rec>> \in raced
                 /\ <<e, cmd[e].rec>> \in raced \/ cmd[e].old.row = NoRow \/ row'[e][cmd[e].rec].upd > cmd[e].old.row.upd
      <3>1. /\ ~job[e].push /\ job[e].rec = cmd[e].rec => <<e, cmd[e].rec>> \in raced
            /\ <<e, cmd[e].rec>> \in raced \/ cmd[e].old.row = NoRow \/ row[e][cmd[e].rec].upd > cmd[e].old.row.upd
        BY <2>2 DEF RowsInv, Commands
      <3>2. ~job'[e].push /\ job'[e].rec = cmd[e].rec => <<e, cmd[e].rec>> \in raced
        BY <1>0, <1>4, <2>1, <2>2, <3>1, RecordSyncAssumption
      <3>3. CASE <<e, cmd[e].rec>> \in raced
        BY <3>2, <3>3
      <3>4. CASE <<e, cmd[e].rec>> \notin raced
        <4>1. e # t \/ cmd[e].rec # r
          <5>1. t = e => e = d /\ ~job[d].push
            BY <1>7 DEF Target
          <5> QED
            BY <1>0, <3>1, <3>4, <5>1
        <4>2. row'[e][cmd[e].rec] = row[e][cmd[e].rec]
          BY <1>2, <1>7, <2>1, <2>2, <4>1
        <4> QED
          BY <3>1, <3>2, <4>2
      <3> QED
        BY <3>3, <3>4
    <2>3. ASSUME NotBusy, NEW e \in Device PROVE raced = {} /\ (cmd[e].at = "idle" \/ job'[e].pc = "idle")
      <3>1. raced = {} /\ (cmd[e].at = "idle" \/ job[e].pc = "idle")
        BY <2>3 DEF RowsInv, Commands
      <3>2. e = d => cmd[e].at = "idle"
        BY <1>1, <3>1
      <3> QED
        BY <1>4, <3>1, <3>2
    <2> QED
      BY <1>3, <2>2, <2>3 DEF Commands, NotBusy
  \* Where the row was written.
  <1>13. ASSUME NEW x \in Row, Dated(x) PROVE (Beats(x, y) <=> Newer(x, y)) /\ (Beats(y, x) <=> Newer(y, x))
                                             /\ (Beats(x, old) <=> Newer(x, old)) /\ (Beats(x, new) <=> Newer(x, new))
    BY <1>1, <1>2, <1>6, <1>13, DatedBeats
  <1>14. CASE job[d].push
    <2>1. t = Cloud /\ Source(d) = d /\ \A e \in Device, q \in Record : row'[e][q] = row[e][q]
      BY <1>2, <1>7, <1>14 DEF Target, Source
    <2>2. \A e \in Device, q \in Record, x \in Row : IsVersion(e, q, x)' => IsVersion(e, q, x)
      BY <1>3, <2>1 DEF IsVersion
    \* What is fresher than the cloud's row now was so before.
    <2>3. ASSUME NEW q \in Record, NEW x \in Row, Dated(x), Fresher(x, row'[Cloud][q])
          PROVE  /\ Fresher(x, row[Cloud][q])
                 /\ q = r => Newer(x, y)
      <3>1. CASE q # r
        BY <1>2, <1>7, <2>3, <3>1
      <3>2. CASE q = r
        <4>1. x # NoRow /\ Newer(x, y)
          BY <1>2, <1>13, <2>1, <2>3, <3>2 DEF Fresher
        <4>2. old \in Row /\ ~Newer(old, new)
          BY <1>2, <1>6, <1>8, <1>14
        <4>3. Newer(x, old)
          BY <1>2, <4>1, <4>2, StillNotNewer
        <4>4. Beats(x, old)
          BY <1>13, <2>3, <4>3
        <4> QED
          BY <2>1, <3>2, <4>1, <4>4 DEF Fresher
      <3> QED
        BY <3>1, <3>2
    <2>4. ASSUME NEW e \in Device, NEW q \in Record, NEW x \in Row, IsVersion(e, q, x), <<e, q>> \notin raced,
                 PushCovered(e, q, x)
          PROVE  PushCovered(e, q, x)'
      <3>1. SUFFICES ASSUME Fresher(x, row'[Cloud][q]) PROVE PushCovered(e, q, x)'
        BY DEF PushCovered
      <3>2. Dated(x)
        BY <2>4, Versions
      <3>3. Fresher(x, row[Cloud][q]) /\ (q = r => Newer(x, y))
        BY <2>3, <3>1, <3>2
      <3>4. CASE e = d
        <4>1. x.upd >= cursor[d] /\ (x.upd >= job[d].started \/ Pending(d, q, x))
          BY <1>1, <1>14, <2>4, <3>3, <3>4 DEF PushCovered, Passing
        <4>2. ASSUME Pending(d, q, x) PROVE job[d].todo[q] # NoRow /\ ~Beats(x, job[d].todo[q])
          <5>1. q = r => ~(~Beats(x, new))
            <6>1. SUFFICES ASSUME q = r, ~Newer(x, new) PROVE FALSE
              BY <1>13, <3>2
            <6>2. Newer(x, y)
              BY <3>3, <6>1
            <6> QED
              BY <1>2, <6>1, <6>2 DEF Newer, Row
          <5> QED
            BY <1>0, <4>2, <5>1 DEF Pending
        <4>3. x.upd >= job[d].started \/ Pending(d, q, x)'
          BY <1>4, <4>1, <4>2 DEF Pending
        <4> QED
          BY <1>3, <1>4, <1>14, <3>4, <4>1, <4>3 DEF PushCovered
      <3>5. CASE e # d
        <4>1. job'[e].pc = "idle"
          BY <1>1, <1>4, <3>5, Others DEF RowsInv
        <4>2. x.upd >= cursor[e]
          BY <2>4, <3>3 DEF PushCovered
        <4> QED
          BY <1>3, <4>1, <4>2 DEF PushCovered, Passing
      <3> QED
        BY <3>4, <3>5
    <2>5. ASSUME OneDevice, NotBusy, NEW e \in Device, NEW q \in Record, NEW x \in Row, IsVersion(e, q, x), PullCovered(e, q, x)
          PROVE  PullCovered(e, q, x)'
      <3>1. e = d
        BY <2>5 DEF OneDevice
      <3>2. SUFFICES ASSUME Fresher(row'[Cloud][q], x) PROVE row'[Cloud][q].upd >= cursor[d]
        BY <1>3, <1>4, <1>14, <3>1 DEF PullCovered, Passing
      <3>3. CASE q # r
        <4>1. row'[Cloud][q] = row[Cloud][q]
          BY <1>2, <1>7, <3>3
        <4> QED
          BY <2>5, <3>1, <3>2, <4>1 DEF PullCovered
      <3>4. CASE q = r
        <4>1. x = row[d][r] /\ new = row[d][r] /\ Dated(x)
          BY <1>1, <1>8, <2>1, <2>5, <3>1, <3>4, Versions
        <4>2. Newer(y, x)
          <5>1. x = NoRow \/ Beats(y, x)
            BY <2>1, <3>2, <3>4 DEF Fresher
          <5>2. x # NoRow
            BY <1>1, <4>1 DEF RowsInv, Dates
          <5> QED
            BY <1>13, <4>1, <5>1, <5>2
        <4>3. ~Newer(y, y)
          BY <1>2 DEF Newer, Row
        <4>4. y # new
          BY <4>1, <4>2, <4>3
        <4> QED
          BY <1>1, <1>2, <2>1, <3>4, <4>4
      <3> QED
        BY <3>3, <3>4
    <2>6. PushCovers' /\ PullCovers'
      BY <1>3, <2>2, <2>4, <2>5, CoversStay
    <2> QED
      BY <1>5, <1>9, <1>10, <1>11, <1>12, <2>6 DEF RowsInv
  <1>15. CASE ~job[d].push
    <2>1. t = d /\ Source(d) = Cloud /\ \A s \in Store, q \in Record : s # d \/ q # r => row'[s][q] = row[s][q]
      BY <1>2, <1>15 DEF Target, Source
    <2>2. new = row[Cloud][r] /\ \A q \in Record : row'[Cloud][q] = row[Cloud][q]
      BY <1>2, <1>7, <1>8, <1>15, <2>1
    <2>3. ~Newer(new, y) /\ (Newer(y, new) => y.upd = clock)
      BY <1>2 DEF Newer, Row
    \* Another version is what it was, but for one that a pull has replaced.
    <2>4. ASSUME NEW e \in Device, NEW q \in Record, NEW x \in Row, IsVersion(e, q, x)'
          PROVE  \/ IsVersion(e, q, x) /\ ~(e = d /\ q = r)
                 \/ e = d /\ q = r /\ x = y
                 \/ e = d /\ q = r /\ <<e, q>> \in raced /\ ~NotBusy
      <3>1. CASE ~(e = d /\ q = r)
        BY <1>3, <1>7, <2>1, <2>4, <3>1 DEF IsVersion
      <3>2. CASE e = d /\ q = r /\ x # y
        <4>1. cmd[d].rec = r
          BY <1>3, <2>1, <2>4, <3>2 DEF IsVersion
        <4>2. cmd[d].at # "idle"
          BY <1>1, <4>1, RecordSyncAssumption DEF TypeOK
        <4>3. <<d, r>> \in raced /\ ~NotBusy
          BY <1>0, <1>1, <1>15, <4>1, <4>2 DEF RowsInv, Commands
        <4> QED
          BY <3>2, <4>3
      <3> QED
        BY <3>1, <3>2
    <2>5. PushCovers'
      <3>1. SUFFICES ASSUME NEW e \in Device, NEW q \in Record, NEW x \in Row, IsVersion(e, q, x)', <<e, q>> \notin raced
                     PROVE  PushCovered(e, q, x)'
        BY <1>3 DEF PushCovers
      <3>2. CASE IsVersion(e, q, x) /\ ~(e = d /\ q = r)
        <4>1. PushCovered(e, q, x)
          BY <3>1, <3>2 DEF RowsInv, PushCovers
        <4>2. CASE e = d
          BY <1>1, <1>3, <1>4, <1>15, <2>2, <4>1, <4>2 DEF PushCovered
        <4>3. CASE e # d
          BY <1>3, <1>4, <2>2, <4>1, <4>3 DEF PushCovered, Passing, Pending
        <4> QED
          BY <4>2, <4>3
      <3>3. CASE e = d /\ q = r /\ x = y
        <4>1. Fresher(x, row'[Cloud][q]) => x.upd = clock
          <5>1. Fresher(x, row'[Cloud][q]) => row[Cloud][r] = NoRow \/ Beats(y, new)
            BY <2>2, <3>3 DEF Fresher
          <5>2. new # NoRow
            BY <1>1 DEF RowsInv, Dates
          <5>3. Beats(y, new) <=> Newer(y, new)
            BY <1>2, <1>13
          <5> QED
            BY <2>2, <2>3, <3>3, <5>1, <5>2, <5>3
        <4> QED
          BY <1>1, <1>3, <1>4, <1>15, <3>3, <4>1 DEF PushCovered
      <3> QED
        BY <2>4, <3>1, <3>2, <3>3
    <2>6. PullCovers'
      <3>1. SUFFICES ASSUME OneDevice, NotBusy, NEW e \in Device, NEW q \in Record, NEW x \in Row, IsVersion(e, q, x)'
                     PROVE  PullCovered(e, q, x)'
        BY DEF PullCovers, OneDevice, NotBusy
      <3>2. e = d
        BY <3>1 DEF OneDevice
      <3>3. CASE IsVersion(e, q, x) /\ ~(e = d /\ q = r)
        <4>1. PullCovered(d, q, x) /\ q # r
          BY <3>1, <3>2, <3>3 DEF RowsInv, PullCovers
        <4>2. Fresher(row[Cloud][q], x) =>
                /\ row[Cloud][q].upd >= cursor[d]
                /\ row[Cloud][q].upd >= job[d].started \/ (job[d].todo[q] # NoRow /\ ~Beats(row[Cloud][q], job[d].todo[q]))
          BY <1>0, <1>1, <1>15, <4>1 DEF PullCovered, Passing, Pending
        <4> QED
          BY <1>3, <1>4, <2>2, <3>2, <4>2 DEF PullCovered, Passing, Pending
      <3>4. CASE e = d /\ q = r /\ x = y
        <4>1. ~Fresher(row'[Cloud][q], x)
          BY <1>2, <1>13, <2>2, <2>3, <3>4 DEF Fresher
        <4> QED
          BY <4>1 DEF PullCovered
      <3> QED
        BY <2>4, <3>1, <3>3, <3>4
    <2> QED
      BY <1>5, <1>9, <1>10, <1>11, <1>12, <2>5, <2>6 DEF RowsInv
  <1>16. job[d].push \in BOOLEAN
    BY <1>1, JobType
  <1> QED
    BY <1>14, <1>15, <1>16

-----------------------------------------------------------------------------
(* Rows and cursors: all the steps.                                         *)

\* A command goes on, or is over.
Goes(e) == (cmd'[e].rec = cmd[e].rec /\ cmd'[e].old = cmd[e].old) \/ cmd'[e] = NoCmd

\* What goes on has the versions it had.
LEMMA GoesOn ==
    ASSUME TypeOK, TypeOK', NEW e \in Device, Goes(e)
    PROVE  /\ cmd'[e].at # "idle" => cmd[e].at # "idle" /\ cmd'[e].rec = cmd[e].rec /\ cmd'[e].old = cmd[e].old
           /\ cmd'[e].rec \in Record => cmd'[e].rec = cmd[e].rec /\ cmd'[e].old = cmd[e].old
           /\ cmd'[e].old = cmd[e].old \/ cmd'[e].old.row = NoRow
  <1>1. /\ (cmd[e].rec # NoRecord) <=> cmd[e].at # "idle"
        /\ (cmd'[e].rec # NoRecord) <=> cmd'[e].at # "idle"
    BY DEF TypeOK
  <1> QED
    BY <1>1, NoCommand, RecordSyncAssumption DEF Goes

\* Nothing that rows and cursors depend on changes, but that time may pass.
LEMMA RowsStay ==
    ASSUME RowsInv, TypeOK', UNCHANGED <<row, cursor, job, raced>>, clock' >= clock, \A e \in Device : Goes(e)
    PROVE  RowsInv'
  <1>1. TypeOK /\ clock \in Nat /\ clock' \in Nat
    BY DEF RowsInv, TypeOK
  <1>2. ASSUME NEW x \in Row, Dated(x) PROVE Dated(x)'
    BY <1>1, <1>2 DEF Dated, Row
  <1>3. \A d \in Device : job[d].todo \in [Record -> Row] /\ job[d].new \in Row /\ job[d].started \in Nat
    BY JobType DEF RowsInv
  <1>4. \A s \in Store, r \in Record : row[s][r] \in Row
    BY <1>1 DEF TypeOK
  <1>5. \A e \in Device :
          /\ cmd'[e].at # "idle" => cmd[e].at # "idle" /\ cmd'[e].rec = cmd[e].rec /\ cmd'[e].old = cmd[e].old
          /\ cmd'[e].rec \in Record => cmd'[e].rec = cmd[e].rec /\ cmd'[e].old = cmd[e].old
          /\ cmd'[e].old = cmd[e].old \/ cmd'[e].old.row = NoRow
    BY <1>1, GoesOn
  <1>6. Dates'
    <2>1. \A s \in Store, r \in Record : Dated(row[s][r])'
      BY <1>2, <1>4 DEF RowsInv, Dates
    <2>2. ASSUME NEW d \in Device PROVE Dated(cmd[d].old.row)'
      <3>1. CASE cmd'[d].old.row = NoRow
        BY <3>1 DEF Dated
      <3>2. CASE cmd'[d].old = cmd[d].old
        <4>1. cmd[d].old.row \in Row /\ Dated(cmd[d].old.row)
          BY <1>1, CommandType DEF RowsInv, Dates, TypeOK
        <4>2. cmd'[d].old.row = cmd[d].old.row
          BY <3>2
        <4> QED
          BY <1>1, <4>1, <4>2 DEF Dated, Row
      <3> QED
        BY <1>5, <3>1, <3>2
    <2>3. \A d \in Device : cursor'[d] <= clock' /\ job'[d].started <= clock'
      BY <1>1, <1>3 DEF RowsInv, Dates, TypeOK
    <2>4. \A d \in Device, r \in Record : Dated(job[d].todo[r])'
      BY <1>2, <1>3 DEF RowsInv, Dates
    <2>5. \A d \in Device : job[d].pc = "row" => Dated(job[d].new)' /\ job'[d].new # NoRow
      BY <1>2, <1>3 DEF RowsInv, Dates
    <2>6. \A d \in Device : job'[d].pc \in {"list", "next", "row", "assets", "complete"} => job'[d].last = cursor'[d]
      BY DEF RowsInv, Dates
    <2> QED
      BY <2>1, <2>2, <2>3, <2>4, <2>5, <2>6 DEF Dates
  <1>7. PullsBeforeEnd' /\ OneSync' /\ Carried'
    BY DEF RowsInv, PullsBeforeEnd, OneSync, Carried, CarriedBy, Passing, Source, Target, NotBusy
  <1>8. Commands'
    BY <1>5 DEF RowsInv, Commands, NotBusy
  <1>9. PushCovers' /\ PullCovers'
    <2>1. \A d \in Device, r \in Record, x \in Row : IsVersion(d, r, x)' => IsVersion(d, r, x)
      BY <1>5 DEF IsVersion
    <2>2. \A d \in Device, r \in Record, x \in Row : PushCovered(d, r, x) => PushCovered(d, r, x)'
      BY DEF PushCovered, Passing, Pending
    <2>3. \A d \in Device, r \in Record, x \in Row : PullCovered(d, r, x) => PullCovered(d, r, x)'
      BY DEF PullCovered, Passing, Pending
    <2> QED
      BY <2>1, <2>2, <2>3, CoversStay
  <1> QED
    BY <1>6, <1>7, <1>8, <1>9 DEF RowsInv

\* A user's operation gives a record a version that is newer than any.
LEMMA OperationRows ==
    ASSUME RowsInv, NEW s \in Store, NEW r \in Record, Touched(s, r), Noted(s, r), s \in Device => AtDevice(s),
           s = Cloud => \A d \in Device : job[d].pc = "idle"
    PROVE  RowsInv'
  <1>1. TypeOK /\ TypeOK' /\ row' \in [Store -> [Record -> Row]] /\ clock \in Nat /\ clock # 0
    BY DEF RowsInv, TypeOK, Touched, Noted
  <1>2. /\ Fresh(r) /\ UNCHANGED <<cursor, clock>> /\ raced \subseteq raced'
        /\ \A d \in Device :
              /\ job'[d].pc = job[d].pc /\ job'[d].push = job[d].push /\ job'[d].last = job[d].last
              /\ job'[d].started = job[d].started /\ job'[d].todo = job[d].todo /\ job'[d].rec = job[d].rec
              /\ job'[d].new = job[d].new
              /\ job'[d].calm => job[d].pc = "idle"
    BY DEF Noted, SameJobs
  <1>3. \A t \in Store, q \in Record : t # s \/ q # r => row'[t][q] = row[t][q]
    BY DEF Touched
  <1>4. \A t \in Store, q \in Record : row[t][q] \in Row /\ Dated(row[t][q])
    BY <1>1 DEF RowsInv, TypeOK, Dates
  <1>5. \A t \in Store : row[t][r].upd < clock
    BY <1>2 DEF Fresh
  <1>6. row'[s][r] \in Row /\ row'[s][r].upd = clock /\ row'[s][r] # NoRow /\ Dated(row'[s][r])
    <2>1. row'[s][r] \in Row /\ row'[s][r].upd = clock /\ row'[s][r].del \in {NoTime, clock, row[s][r].del}
      BY <1>1 DEF Touched
    <2>2. row[s][r].del <= clock
      BY <1>1, <1>4, DatedRow
    <2>3. row'[s][r] # NoRow
      BY <1>1, <2>1, Constants
    <2> QED
      BY <1>1, <2>1, <2>2, <2>3 DEF Dated, NoTime
  <1>7. /\ Cloud \in Store /\ Cloud \notin Device /\ \A d \in Device : d \in Store /\ d # Cloud
        /\ s # Cloud => s \in Device
    BY RecordSyncAssumption DEF Store
  <1>8. NotBusy /\ s \in Device => job[s].pc = "idle" /\ raced' = raced
    <2>1. SUFFICES ASSUME NotBusy, s \in Device PROVE job[s].pc = "idle" /\ raced' = raced
      OBVIOUS
    <2>2. job[s].pc = "idle"
      BY <2>1 DEF AtDevice, NotBusy
    <2>3. job[s].rec = NoRecord
      BY <1>1, <2>1, <2>2 DEF TypeOK
    <2> QED
      BY <2>2, <2>3, RecordSyncAssumption DEF Noted
  \* An older version does not beat the new row.
  <1>9. ASSUME NEW t \in Store, NEW x \in Row, Dated(x), x.upd < clock PROVE ~Beats(x, row'[s][r])
    <2>1. ~Newer(x, row'[s][r])
      BY <1>1, <1>6, <1>9 DEF Newer, Row
    <2> QED
      BY <1>1, <1>6, <1>9, <2>1, DatedBeats
  <1>10. ASSUME NEW e \in Device
         PROVE  \/ SameTurn(e)
                \/ e = s /\ Begun(e, r)
                \/ e = s /\ cmd[e].at = "idle" /\ cmd'[e] = NoCmd
    BY DEF Noted
  <1>11. Dates'
    <2>1. \A t \in Store, q \in Record : Dated(row'[t][q])
      BY <1>3, <1>4, <1>6
    <2>2. ASSUME NEW d \in Device
          PROVE  /\ cursor'[d] <= clock' /\ job'[d].started <= clock'
                 /\ job'[d].pc \in {"list", "next", "row", "assets", "complete"} => job'[d].last = cursor'[d]
      BY <1>2 DEF RowsInv, Dates
    <2>3. ASSUME NEW d \in Device
          PROVE  /\ \A q \in Record : Dated(job'[d].todo[q])
                 /\ job'[d].pc = "row" => Dated(job'[d].new) /\ job'[d].new # NoRow
      BY <1>2 DEF RowsInv, Dates
    <2>4. ASSUME NEW d \in Device PROVE Dated(cmd'[d].old.row)
      <3>1. Dated(cmd[d].old.row) /\ Dated(row[d][r])
        BY <1>4, <1>7 DEF RowsInv, Dates
      <3>2. Begun(d, r) => cmd'[d].old.row = row[d][r]
        BY DEF Begun
      <3>3. Dated(NoRow)
        BY DEF Dated
      <3>4. SameTurn(d) => cmd'[d].old.row = cmd[d].old.row
        BY DEF SameTurn
      <3> QED
        BY <1>10, <3>1, <3>2, <3>3, <3>4, NoCommand
    <2> QED
      BY <1>2, <2>1, <2>2, <2>3, <2>4 DEF Dates, Dated
  <1>12. PullsBeforeEnd' /\ OneSync'
    BY <1>2 DEF RowsInv, PullsBeforeEnd, OneSync
  <1>13. Commands'
    <2>1. ASSUME NotBusy, NEW e \in Device PROVE raced' = {} /\ (cmd'[e].at = "idle" \/ job'[e].pc = "idle")
      <3>1. raced = {} /\ (cmd[e].at = "idle" \/ job[e].pc = "idle")
        BY <2>1 DEF RowsInv, Commands
      <3>2. raced' = {}
        <4>1. CASE s \in Device
          BY <1>8, <2>1, <3>1, <4>1
        <4>2. CASE s \notin Device
          BY <3>1, <4>2, RecordSyncAssumption DEF Noted
        <4> QED
          BY <4>1, <4>2
      <3>3. e = s => job'[e].pc = "idle"
        BY <1>2, <1>8, <2>1
      <3> QED
        BY <1>2, <1>10, <3>1, <3>2, <3>3 DEF SameTurn
    <2>2. ASSUME NEW e \in Device, cmd'[e].at # "idle"
          PROVE  /\ ~job'[e].push /\ job'[e].rec = cmd'[e].rec => <<e, cmd'[e].rec>> \in raced'
                 /\ \/ <<e, cmd'[e].rec>> \in raced' \/ cmd'[e].old.row = NoRow
                    \/ row'[e][cmd'[e].rec].upd > cmd'[e].old.row.upd
      <3>1. CASE SameTurn(e)
        <4>1. cmd[e].at # "idle" /\ cmd'[e].rec = cmd[e].rec /\ cmd'[e].old = cmd[e].old /\ cmd[e].rec \in Record
          BY <1>1, <2>2, <3>1, WorkingType DEF SameTurn
        <4>2. /\ ~job[e].push /\ job[e].rec = cmd[e].rec => <<e, cmd[e].rec>> \in raced
              /\ <<e, cmd[e].rec>> \in raced \/ cmd[e].old.row = NoRow \/ row[e][cmd[e].rec].upd > cmd[e].old.row.upd
          BY <4>1 DEF RowsInv, Commands
        <4>3. row'[e][cmd[e].rec].upd >= row[e][cmd[e].rec].upd
          <5>1. row[e][cmd[e].rec].upd \in Nat
            BY <1>4, <1>7, <4>1 DEF Row
          <5> QED
            BY <1>1, <1>3, <1>5, <1>6, <1>7, <4>1, <5>1
        <4>4. row[e][cmd[e].rec].upd \in Nat /\ row'[e][cmd[e].rec].upd \in Nat /\ cmd[e].old.row.upd \in Nat
          <5>1. cmd[e].old.row \in Row /\ row[e][cmd[e].rec] \in Row /\ row'[e][cmd[e].rec] \in Row
            BY <1>1, <1>7, <4>1, WorkingType, CommandType DEF TypeOK
          <5> QED
            BY <5>1 DEF Row
        <4> QED
          BY <1>2, <4>1, <4>2, <4>3, <4>4
      <3>2. CASE e = s /\ Begun(e, r)
        <4>1. /\ cmd'[e].rec = r /\ cmd'[e].old.row = row[e][r]
              /\ ~job[e].push /\ job[e].rec = r => <<e, r>> \in raced'
          BY <3>2 DEF Begun
        <4>2. row'[e][r].upd > row[e][r].upd
          BY <1>5, <1>6, <1>7, <3>2, <1>1, <1>4 DEF Row
        <4> QED
          BY <1>2, <4>1, <4>2
      <3>3. CASE cmd'[e] = NoCmd
        BY <2>2, <3>3, NoCommand
      <3> QED
        BY <1>10, <3>1, <3>2, <3>3
    <2> QED
      BY <2>1, <2>2 DEF Commands, NotBusy
  <1>14. Carried'
    <2>1. SUFFICES ASSUME NEW d \in Device, Passing(d) PROVE CarriedBy(d)'
      BY <1>2 DEF Carried, CarriedBy, Passing
    <2>2. s # Cloud /\ s \in Device /\ ~job'[d].calm /\ Source(d) \in Store /\ job[d].push \in BOOLEAN
      BY <1>1, <1>2, <1>7, <2>1, JobType DEF Passing
    <2>3. Source(d)' = Source(d) /\ Target(d)' = Target(d)
      BY <1>2 DEF Source, Target
    <2>4. ASSUME NotBusy \/ ~job[d].push, NEW q \in Record PROVE row'[Source(d)][q] = row[Source(d)][q]
      <3>1. Source(d) # s
        <4>1. CASE ~job[d].push
          BY <2>2, <4>1 DEF Source
        <4>2. CASE job[d].push /\ NotBusy
          <5>1. job[s].pc = "idle"
            BY <1>8, <2>2, <4>2
          <5> QED
            BY <2>1, <4>2, <5>1 DEF Source, Passing
        <4> QED
          BY <2>2, <2>4, <4>1, <4>2
      <3> QED
        BY <1>3, <2>2, <3>1
    <2>5. ASSUME NotBusy \/ ~job[d].push
          PROVE  /\ \A q \in Record : job[d].todo[q] # NoRow => job[d].todo[q] = row'[Source(d)][q]
                 /\ job[d].pc = "row" => job[d].new = row'[Source(d)][job[d].rec]
      <3>1. /\ \A q \in Record : job[d].todo[q] # NoRow => job[d].todo[q] = row[Source(d)][q]
            /\ job[d].pc = "row" => job[d].new = row[Source(d)][job[d].rec]
        BY <2>1, <2>5 DEF RowsInv, Carried, CarriedBy
      <3>2. job[d].pc = "row" => job[d].rec \in Record
        BY <1>1, JobType
      <3> QED
        BY <2>4, <2>5, <3>1, <3>2
    <2>6. ASSUME job[d].pc = "row", job[d].push PROVE ~Beats(row'[Cloud][job[d].rec], job[d].new)
      <3>1. ~Beats(row[Cloud][job[d].rec], job[d].new)
        BY <2>1, <2>6 DEF RowsInv, Carried, CarriedBy, Target
      <3>2. job[d].rec \in Record
        BY <1>1, <2>6, JobType
      <3> QED
        BY <1>3, <1>7, <2>2, <3>1, <3>2
    <2>7. job[d].push => Target(d) = Cloud
      BY DEF Target
    <2> QED
      BY <1>2, <2>2, <2>3, <2>5, <2>6, <2>7 DEF CarriedBy, NotBusy
  <1>15. ASSUME NEW e \in Device, NEW q \in Record, NEW x \in Row, IsVersion(e, q, x)'
         PROVE  IsVersion(e, q, x) \/ (e = s /\ q = r /\ x = row'[s][r])
    <2>1. CASE x = row'[e][q]
      BY <1>3, <1>7, <2>1 DEF IsVersion
    <2>2. CASE cmd'[e].rec = q /\ x = cmd'[e].old.row
      <3>1. CASE SameTurn(e)
        BY <2>2, <3>1 DEF SameTurn, IsVersion
      <3>2. CASE e = s /\ Begun(e, r)
        BY <2>2, <3>2 DEF Begun, IsVersion
      <3>3. CASE cmd'[e] = NoCmd
        BY <2>2, <3>3, NoCommand, RecordSyncAssumption
      <3> QED
        BY <1>10, <3>1, <3>2, <3>3
    <2> QED
      BY <1>15, <2>1, <2>2 DEF IsVersion
  <1>16. PushCovers'
    <2>1. SUFFICES ASSUME NEW e \in Device, NEW q \in Record, NEW x \in Row, IsVersion(e, q, x)', <<e, q>> \notin raced'
                   PROVE  PushCovered(e, q, x)'
      BY DEF PushCovers
    <2>2. CASE e = s /\ q = r /\ x = row'[s][r]
      <3>1. x.upd >= cursor[e] /\ x.upd >= job[e].started
        BY <1>6, <2>2 DEF RowsInv, Dates
      <3> QED
        BY <1>2, <3>1 DEF PushCovered
    <2>3. CASE IsVersion(e, q, x)
      <3>1. PushCovered(e, q, x)
        BY <1>2, <2>1, <2>3 DEF RowsInv, PushCovers
      <3>2. CASE row'[Cloud][q] = row[Cloud][q]
        BY <1>2, <3>1, <3>2 DEF PushCovered, Passing, Pending
      <3>3. CASE s = Cloud /\ q = r
        <4>1. /\ Dated(x) /\ x.upd \in Nat
              /\ x = row[e][r] \/ x = NoRow \/ row[e][r].upd > x.upd
          BY <1>2, <2>1, <2>3, <3>3, Versions
        <4>2. x = NoRow \/ x.upd < clock
          <5>1. row[e][r].upd < clock /\ row[e][r].upd \in Nat
            BY <1>4, <1>5, <1>7 DEF Row
          <5> QED
            BY <1>1, <4>1, <5>1
        <4>3. ~Fresher(x, row'[Cloud][q])
          BY <1>6, <1>9, <3>3, <4>1, <4>2 DEF Fresher
        <4> QED
          BY <4>3 DEF PushCovered
      <3> QED
        BY <1>3, <1>7, <3>2, <3>3
    <2> QED
      BY <1>15, <2>1, <2>2, <2>3
  <1>17. PullCovers'
    <2>1. SUFFICES ASSUME OneDevice, NotBusy, NEW e \in Device, NEW q \in Record, NEW x \in Row, IsVersion(e, q, x)'
                   PROVE  PullCovered(e, q, x)'
      BY DEF PullCovers, OneDevice, NotBusy
    <2>2. job[e].pc = "idle"
      BY <1>7, <1>8, <2>1 DEF OneDevice
    <2>3. CASE s = Cloud /\ q = r
      <3>1. row'[Cloud][q].upd >= cursor[e]
        BY <1>6, <2>3 DEF RowsInv, Dates
      <3> QED
        BY <1>2, <2>2, <3>1 DEF PullCovered, Passing
    <2>4. CASE e = s /\ q = r /\ x = row'[s][r]
      <3>1. row'[Cloud][q] = row[Cloud][q] /\ row[Cloud][q].upd < clock /\ Dated(row[Cloud][q]) /\ row[Cloud][q] \in Row
        BY <1>3, <1>4, <1>5, <1>7, <2>4
      <3>2. ~Fresher(row'[Cloud][q], x)
        BY <1>6, <1>9, <2>4, <3>1 DEF Fresher
      <3> QED
        BY <3>2 DEF PullCovered
    <2>5. CASE IsVersion(e, q, x) /\ row'[Cloud][q] = row[Cloud][q]
      <3>1. PullCovered(e, q, x)
        BY <2>1, <2>5 DEF RowsInv, PullCovers
      <3> QED
        BY <1>2, <2>5, <3>1 DEF PullCovered, Passing, Pending
    <2> QED
      BY <1>3, <1>7, <1>15, <2>1, <2>3, <2>4, <2>5
  <1> QED
    BY <1>1, <1>11, <1>12, <1>13, <1>14, <1>16, <1>17 DEF RowsInv

\* A record that is taken back has a version that its device had already, but for a record that a
\* pull has replaced.
LEMMA TakenBackRows ==
    ASSUME RowsInv, NEW d \in Device, TookBack(d), cmd'[d] = NoCmd \/ cmd[d].old.row = NoRow,
           NEW y \in Row, y = row'[d][cmd[d].rec],
           \/ y = cmd[d].old.row
           \/ /\ cmd[d].old.row # NoRow /\ cmd[d].old.row.upd = row[d][cmd[d].rec].upd
              /\ y.upd = clock /\ y.del = cmd[d].old.row.del
    PROVE  RowsInv'
  <1>0. PICK r \in Record : r = cmd[d].rec
    BY DEF TookBack
  <1> DEFINE old == cmd[d].old.row
  <1>1. TypeOK /\ TypeOK' /\ clock \in Nat /\ clock # 0
    BY DEF RowsInv, TypeOK, TookBack
  <1>2. /\ UNCHANGED <<cursor, clock, raced>>
        /\ \A e \in Device :
              /\ job'[e].pc = job[e].pc /\ job'[e].push = job[e].push /\ job'[e].last = job[e].last
              /\ job'[e].started = job[e].started /\ job'[e].todo = job[e].todo /\ job'[e].rec = job[e].rec
              /\ job'[e].new = job[e].new
              /\ job'[e].calm => job[e].pc = "idle"
    BY DEF TookBack, SameJobs
  <1>3. /\ cmd[d].at # "idle" /\ \A e \in Device \ {d} : cmd'[e] = cmd[e]
        /\ cmd'[d] = NoCmd \/ (cmd'[d].rec = r /\ cmd'[d].old = cmd[d].old)
    BY <1>0 DEF TookBack, Continues, SameCommand
  <1>4. /\ \A s \in Store, q \in Record : s # d \/ q # r => row'[s][q] = row[s][q]
        /\ Cloud \in Store /\ \A e \in Device : e \in Store /\ e # Cloud
        /\ \A q \in Record : row'[Cloud][q] = row[Cloud][q]
    BY <1>0, RecordSyncAssumption DEF TookBack, Store
  <1>5. old \in Row /\ Dated(old) /\ row[d][r] \in Row
    BY <1>0, <1>1, <1>3, <1>4, WorkingType, CommandType DEF RowsInv, Dates, TypeOK
  <1>6. Dated(y)
    <2>1. CASE y = old
      BY <1>5, <2>1
    <2>2. CASE y.upd = clock /\ y.del = old.del
      <3>1. old.del <= clock
        BY <1>1, <1>5, DatedRow
      <3> QED
        BY <1>1, <2>2, <3>1 DEF Dated, NoTime
    <2> QED
      BY <2>1, <2>2
  <1>7. <<d, r>> \notin raced => y = old
    <2>1. <<d, r>> \notin raced => old = NoRow \/ row[d][r].upd > old.upd
      BY <1>0, <1>3 DEF RowsInv, Commands
    <2>2. row[d][r].upd \in Nat /\ old.upd \in Nat
      BY <1>5 DEF Row
    <2> QED
      BY <1>0, <2>1, <2>2
  <1>8. Dates'
    <2>1. \A s \in Store, q \in Record : Dated(row'[s][q])
      BY <1>0, <1>4, <1>6 DEF RowsInv, Dates
    <2>2. ASSUME NEW e \in Device
          PROVE  /\ cursor'[e] <= clock' /\ job'[e].started <= clock'
                 /\ job'[e].pc \in {"list", "next", "row", "assets", "complete"} => job'[e].last = cursor'[e]
      BY <1>2 DEF RowsInv, Dates
    <2>3. ASSUME NEW e \in Device
          PROVE  /\ \A q \in Record : Dated(job'[e].todo[q])
                 /\ job'[e].pc = "row" => Dated(job'[e].new) /\ job'[e].new # NoRow
      BY <1>2 DEF RowsInv, Dates
    <2>4. ASSUME NEW e \in Device PROVE Dated(cmd'[e].old.row)
      <3>1. Dated(NoRow) /\ Dated(cmd[e].old.row)
        BY DEF RowsInv, Dates, Dated
      <3> QED
        BY <1>3, <3>1, NoCommand
    <2> QED
      BY <1>2, <2>1, <2>2, <2>3, <2>4 DEF Dates, Dated
  <1>9. PullsBeforeEnd' /\ OneSync'
    BY <1>2 DEF RowsInv, PullsBeforeEnd, OneSync
  <1>10. Commands'
    <2>1. ASSUME NotBusy, NEW e \in Device PROVE raced' = {} /\ (cmd'[e].at = "idle" \/ job'[e].pc = "idle")
      <3>1. raced = {} /\ (cmd[e].at = "idle" \/ job[e].pc = "idle")
        BY <2>1 DEF RowsInv, Commands
      <3> QED
        BY <1>2, <1>3, <3>1
    <2>2. ASSUME NEW e \in Device, cmd'[e].at # "idle"
          PROVE  /\ ~job'[e].push /\ job'[e].rec = cmd'[e].rec => <<e, cmd'[e].rec>> \in raced'
                 /\ \/ <<e, cmd'[e].rec>> \in raced' \/ cmd'[e].old.row = NoRow
                    \/ row'[e][cmd'[e].rec].upd > cmd'[e].old.row.upd
      <3>1. ~(e = d /\ cmd'[d] = NoCmd)
        BY <2>2, NoCommand
      <3>2. cmd[e].at # "idle" /\ cmd'[e].rec = cmd[e].rec /\ cmd'[e].old = cmd[e].old /\ cmd[e].rec \in Record
        <4>1. CASE e = d
          BY <1>0, <1>3, <3>1, <4>1
        <4>2. CASE e # d
          BY <1>1, <1>3, <2>2, <4>2, WorkingType
        <4> QED
          BY <4>1, <4>2
      <3>3. /\ ~job[e].push /\ job[e].rec = cmd[e].rec => <<e, cmd[e].rec>> \in raced
            /\ <<e, cmd[e].rec>> \in raced \/ cmd[e].old.row = NoRow \/ row[e][cmd[e].rec].upd > cmd[e].old.row.upd
        BY <3>2 DEF RowsInv, Commands
      <3>4. CASE e # d
        <4>1. row'[e][cmd[e].rec] = row[e][cmd[e].rec]
          BY <1>4, <3>2, <3>4
        <4> QED
          BY <1>2, <3>2, <3>3, <4>1
      <3>5. CASE e = d
        <4>1. cmd[d].old.row = NoRow
          BY <3>1, <3>5
        <4> QED
          BY <1>2, <3>2, <3>3, <3>5, <4>1
      <3> QED
        BY <3>4, <3>5
    <2> QED
      BY <2>1, <2>2 DEF Commands, NotBusy
  <1>11. Carried'
    <2>1. SUFFICES ASSUME NEW e \in Device, Passing(e) PROVE CarriedBy(e)'
      BY <1>2 DEF Carried, CarriedBy, Passing
    <2>2. ~job'[e].calm /\ Source(e) \in Store /\ job[e].push \in BOOLEAN
      BY <1>1, <1>2, <2>1, JobType DEF Passing
    <2>3. Source(e)' = Source(e) /\ Target(e)' = Target(e)
      BY <1>2 DEF Source, Target
    <2>4. ASSUME NotBusy \/ ~job[e].push, NEW q \in Record PROVE row'[Source(e)][q] = row[Source(e)][q]
      <3>1. Source(e) # d
        <4>1. CASE ~job[e].push
          BY <1>4, <4>1 DEF Source
        <4>2. CASE job[e].push /\ NotBusy
          <5>1. job[d].pc = "idle"
            BY <1>3, <4>2 DEF RowsInv, Commands
          <5> QED
            BY <2>1, <4>2, <5>1 DEF Source, Passing
        <4> QED
          BY <2>2, <2>4, <4>1, <4>2
      <3> QED
        BY <1>4, <2>2, <3>1
    <2>5. ASSUME NotBusy \/ ~job[e].push
          PROVE  /\ \A q \in Record : job[e].todo[q] # NoRow => job[e].todo[q] = row'[Source(e)][q]
                 /\ job[e].pc = "row" => job[e].new = row'[Source(e)][job[e].rec]
      <3>1. /\ \A q \in Record : job[e].todo[q] # NoRow => job[e].todo[q] = row[Source(e)][q]
            /\ job[e].pc = "row" => job[e].new = row[Source(e)][job[e].rec]
        BY <2>1, <2>5 DEF RowsInv, Carried, CarriedBy
      <3>2. job[e].pc = "row" => job[e].rec \in Record
        BY <1>1, JobType
      <3> QED
        BY <2>4, <2>5, <3>1, <3>2
    <2>6. ASSUME job[e].pc = "row", job[e].push PROVE ~Beats(row'[Cloud][job[e].rec], job[e].new)
      <3>1. ~Beats(row[Cloud][job[e].rec], job[e].new)
        BY <2>1, <2>6 DEF RowsInv, Carried, CarriedBy, Target
      <3>2. job[e].rec \in Record
        BY <1>1, <2>6, JobType
      <3> QED
        BY <1>4, <3>1, <3>2
    <2>7. job[e].push => Target(e) = Cloud
      BY DEF Target
    <2> QED
      BY <1>2, <2>2, <2>3, <2>5, <2>6, <2>7 DEF CarriedBy, NotBusy
  <1>12. ASSUME NEW e \in Device, NEW q \in Record, NEW x \in Row, IsVersion(e, q, x)', <<e, q>> \notin raced
         PROVE  IsVersion(e, q, x)
    <2>1. CASE x = row'[e][q] /\ ~(e = d /\ q = r)
      BY <1>4, <2>1 DEF IsVersion
    <2>2. CASE e = d /\ q = r /\ x = row'[d][r]
      BY <1>0, <1>7, <1>12, <2>2 DEF IsVersion
    <2>3. CASE cmd'[e].rec = q /\ x = cmd'[e].old.row
      <3>1. ~(e = d /\ cmd'[d] = NoCmd)
        BY <2>3, NoCommand, RecordSyncAssumption
      <3> QED
        BY <1>0, <1>3, <2>3, <3>1 DEF IsVersion
    <2> QED
      BY <1>12, <2>1, <2>2, <2>3 DEF IsVersion
  <1>13. PushCovers'
    <2>1. SUFFICES ASSUME NEW e \in Device, NEW q \in Record, NEW x \in Row, IsVersion(e, q, x)', <<e, q>> \notin raced
                   PROVE  PushCovered(e, q, x)'
      BY <1>2 DEF PushCovers
    <2>2. PushCovered(e, q, x)
      BY <1>12, <2>1 DEF RowsInv, PushCovers
    <2> QED
      BY <1>2, <1>4, <2>2 DEF PushCovered, Passing, Pending
  <1>14. PullCovers'
    <2>1. SUFFICES ASSUME OneDevice, NotBusy, NEW e \in Device, NEW q \in Record, NEW x \in Row, IsVersion(e, q, x)'
                   PROVE  PullCovered(e, q, x)'
      BY DEF PullCovers, OneDevice, NotBusy
    <2>2. <<e, q>> \notin raced
      BY <2>1 DEF RowsInv, Commands
    <2>3. PullCovered(e, q, x)
      BY <1>12, <2>1, <2>2 DEF RowsInv, PullCovers
    <2> QED
      BY <1>2, <1>4, <2>3 DEF PullCovered, Passing, Pending
  <1> QED
    BY <1>1, <1>8, <1>9, <1>10, <1>11, <1>13, <1>14 DEF RowsInv

\* No other device syncs, and no web request comes, during a sync.
NoOverlap == "overlap" \notin Features

LEMMA InitRows ==
    ASSUME Init
    PROVE  RowsInv
  <1>1. PICK held \in {{}} \cup {{d} : d \in IF "alt" \in Features THEN Device ELSE {}} :
         /\ row = [s \in Store |-> [r \in Record |-> IF s \in held THEN [NoRow EXCEPT !.upd = 1] ELSE NoRow]]
         /\ child = [s \in Store |-> [r \in Record |-> [a \in Asset |->
                     IF s \notin held THEN 0 ELSE IF a \in Figure THEN Captioned ELSE 1]]]
         /\ file = [d \in Device |-> [r \in Record |-> [a \in Asset |-> IF d \in held THEN 1 ELSE 0]]]
         /\ intent = [r \in Record |->
                [pay |-> 0, del |-> FALSE,
                 child |-> [a \in Asset |-> IF held = {} THEN 0 ELSE IF a \in Figure THEN Captioned ELSE 1],
                 content |-> [a \in Asset |-> IF held = {} THEN 0 ELSE 1]]]
    BY DEF Init
  <1>2. /\ obj = [r \in Record |-> NoAssets] /\ cursor = [d \in Device |-> NoTime]
        /\ clock = 2 /\ edits = 1 /\ faults = 0 /\ job = [d \in Device |-> NoJob]
        /\ cmd = [d \in Device |-> NoCmd] /\ cut = {} /\ raced = {}
    BY DEF Init
  <1>3. /\ \A s \in Store, r \in Record : row[s][r] \in Row /\ row[s][r].upd \in {0, 1} /\ row[s][r].del = 0
        /\ \A s \in Store, r \in Record : row[s][r].upd = 0 => row[s][r] = NoRow
        /\ row \in [Store -> [Record -> Row]]
    <2> DEFINE x == [NoRow EXCEPT !.upd = 1]
    <2>1. x \in Row /\ x.upd = 1 /\ x.del = 0 /\ NoRow \in Row /\ NoRow.upd = 0 /\ NoRow.del = 0
      BY Constants DEF Row
    <2>2. row = [s \in Store |-> [r \in Record |-> IF s \in held THEN x ELSE NoRow]]
      BY <1>1
    <2> HIDE DEF x
    <2> QED
      BY <2>1, <2>2
  <1>4. child \in [Store -> [Record -> [Asset -> Nat]]] /\ file \in [Device -> [Record -> [Asset -> Nat]]]
    BY <1>1 DEF Captioned
  <1>5. intent \in [Record -> Intent]
    <2> DEFINE c == [a \in Asset |-> IF held = {} THEN 0 ELSE IF a \in Figure THEN Captioned ELSE 1]
               f == [a \in Asset |-> IF held = {} THEN 0 ELSE 1]
    <2>1. c \in [Asset -> Nat] /\ f \in [Asset -> Nat]
      BY DEF Captioned
    <2>2. intent = [r \in Record |-> [pay |-> 0, del |-> FALSE, child |-> c, content |-> f]]
      BY <1>1
    <2> HIDE DEF c, f
    <2> QED
      BY <2>1, <2>2 DEF Intent
  <1>6. \A d \in Device : job[d] = NoJob /\ job[d].pc = "idle" /\ job[d].rec = NoRecord /\ job[d].started = 0
                          /\ \A r \in Record : job[d].todo[r] = NoRow
    BY <1>2, Constants
  <1>7. \A d \in Device : cmd[d].at = "idle" /\ cmd[d].rec = NoRecord /\ cmd[d].old.row = NoRow /\ cmd[d] \in Cmd
    BY <1>2, NoCommand
  <1>8. TypeOK
    BY <1>2, <1>3, <1>4, <1>5, <1>6, <1>7, Constants DEF TypeOK, NoTime
  <1>9. Dates
    BY <1>2, <1>3, <1>6, <1>7 DEF Dates, Dated, NoTime
  <1>10. PullsBeforeEnd /\ OneSync /\ Carried /\ Commands
    BY <1>2, <1>6, <1>7 DEF PullsBeforeEnd, OneSync, Carried, CarriedBy, Passing, Commands
  <1>11. PushCovers
    <2>1. \A d \in Device, x \in Row : x.upd >= cursor[d]
      BY <1>2 DEF Row, NoTime
    <2> QED
      BY <1>6, <2>1 DEF PushCovers, PushCovered, Passing
  <1>12. PullCovers
    <2>1. Cloud \in Store
      BY DEF Store
    <2> QED
      BY <1>2, <1>3, <1>6, <2>1 DEF PullCovers, PullCovered, Passing, NoTime
  <1> QED
    BY <1>8, <1>9, <1>10, <1>11, <1>12 DEF RowsInv

LEMMA RowsStep ==
    ASSUME RowsInv, NoOverlap, [Next]_vars
    PROVE  RowsInv'
  <1>0. TypeOK /\ clock \in Nat
    BY DEF RowsInv, TypeOK
  <1>1. ASSUME NEW d \in Device, ChildWrite(d) PROVE RowsInv'
    <2>1. PICK op \in OpKind \X Asset, more \in SUBSET (OpKind \X Asset), v \in Nat : WroteChild(d, op, more, v)
      BY <1>0, <1>1, ChildWrites
    <2>2. UNCHANGED <<cmd, raced>>
      BY <1>0, <2>1, ChildWriteType DEF commands
    <2> QED
      BY <1>0, <2>1, <2>2, ChildWriteType, QuietStep
  <1>2. ASSUME NEW d \in Device, Refused(d) \/ Fail(d) \/ Release(d) PROVE RowsInv'
    BY <1>0, <1>2, EndedType, QuietStep DEF stores, commands
  <1>3. ASSUME NEW d \in Device, NEW r \in Record, DeviceOp(d, r) PROVE RowsInv'
    <2>1. Touched(d, r) /\ Noted(d, r) /\ AtDevice(d)
      BY <1>0, <1>3, DeviceNoted
    <2>2. d \in Store /\ d # Cloud
      BY RecordSyncAssumption DEF Store
    <2> QED
      BY <2>1, <2>2, OperationRows
  <1>4. ASSUME NEW r \in Record, WebOp(r) PROVE RowsInv'
    <2>1. Touched(Cloud, r) /\ WroteRow(Cloud, r) /\ OnWeb(r)
      BY <1>0, <1>4, WebRow
    <2>2. Cloud \in Store /\ Cloud \notin Device /\ \A d \in Device : job[d].pc = "idle"
      BY <2>1, RecordSyncAssumption DEF Store, OnWeb, NoOverlap
    <2>3. Noted(Cloud, r)
      BY <1>0, <2>1, <2>2, WroteNoted
    <2> QED
      BY <2>1, <2>2, <2>3, OperationRows
  <1>5. ASSUME NEW d \in Device, NEW r \in Record, NEW a \in DataFile, Fetch(d, r, a) \/ fetchAllDataFiles(d, r, a)
        PROVE  RowsInv'
    <2>1. TypeOK' /\ UNCHANGED <<row, cursor, clock, job, raced, cmd>>
      BY <1>0, <1>5, FetchType
    <2> QED
      BY <1>0, <2>1, RowsStay DEF Goes
  <1>6. CASE Tick
    <2>1. TypeOK' /\ UNCHANGED <<row, cursor, job, raced, cmd>> /\ clock' >= clock
      BY <1>0, <1>6, TypeStep DEF Tick, stores, commands
    <2> QED
      BY <2>1, RowsStay DEF Goes
  <1>7. CASE UNCHANGED vars
    <2>1. TypeOK' /\ UNCHANGED <<row, cursor, job, raced, cmd>> /\ clock' >= clock
      BY <1>0, <1>7, TypeStep DEF vars
    <2> QED
      BY <2>1, RowsStay DEF Goes
  <1>8. ASSUME NEW d \in Device, CommandWrite(d) \/ commandFails(d) \/ ignoredFailure(d) \/ commandDies(d)
        PROVE  RowsInv'
    <2>1. QuietCommand(d)
      BY <1>0, <1>8, QuietCommands
    <2>2. TypeOK' /\ UNCHANGED <<row, cursor, clock, job, raced>>
      BY <2>1 DEF QuietCommand
    <2>3. \A e \in Device : Goes(e)
      BY <2>1 DEF QuietCommand, Goes, Continues, SameCommand
    <2> QED
      BY <1>0, <2>2, <2>3, RowsStay
  <1>9. ASSUME NEW d \in Device, rollbackRecord(d) PROVE RowsInv'
    <2>1. PICK y \in Row : y = row'[d][cmd[d].rec]
      <3>1. TookBack(d) /\ d \in Store
        BY <1>0, <1>9, RollbackType DEF Store
      <3> QED
        BY <3>1 DEF TookBack, TypeOK
    <2> QED
      BY <1>0, <1>9, <2>1, RollbackType, TakenBackRows DEF Adding
  <1>10. ASSUME NEW d \in Device, deleteAddedRecord(d) PROVE RowsInv'
    BY <1>0, <1>10, DeleteAddedType, TakenBackRows, Constants DEF Adding
  <1> QED
    BY <1>1, <1>2, <1>3, <1>4, <1>5, <1>6, <1>7, <1>8, <1>9, <1>10, Steps, BeginRows, ListRows, LoadRows,
       EndPassRows, ApplyRows, CompleteRows DEF NoOverlap

\* Every variable keeps its type, whatever overlaps.
THEOREM TypeCorrect == Spec => []TypeOK
  <1>1. Init => TypeOK
    BY InitRows DEF RowsInv
  <1>2. TypeOK /\ [Next]_vars => TypeOK'
    BY TypeStep
  <1> QED
    BY <1>1, <1>2, PTL DEF Spec

\* The inductive invariant of rows and cursors, for any number of devices whose syncs do not overlap.
THEOREM RowsInvariance ==
    ASSUME NoOverlap
    PROVE  Spec => []RowsInv
  <1>1. Init => RowsInv
    BY InitRows
  <1>2. RowsInv /\ [Next]_vars => RowsInv'
    BY RowsStep
  <1> QED
    BY <1>1, <1>2, PTL DEF Spec

\* What a device has and the cloud has not is never behind the device's cursor, so that its next
\* push lists it (service.go:89, session.go:57): with any number of devices, users and commands
\* that act during syncs, and calls that fail anywhere, as long as syncs do not overlap.
THEOREM CursorCoversLocalHolds ==
    ASSUME NoOverlap
    PROVE  Spec => []CursorCoversLocal
  <1>1. RowsInv => CursorCoversLocal
    <2>1. SUFFICES ASSUME RowsInv, NEW d \in Device, NEW r \in Record, <<d, r>> \notin raced, Unseen(d, Cloud, r)
                   PROVE  row[d][r].upd >= cursor[d]
      BY DEF CursorCoversLocal
    <2>2. row[d][r] \in Row /\ IsVersion(d, r, row[d][r])
      BY <2>1 DEF RowsInv, TypeOK, Store, IsVersion
    <2>3. PushCovered(d, r, row[d][r])
      BY <2>1, <2>2 DEF RowsInv, PushCovers
    <2> QED
      BY <2>1, <2>3 DEF PushCovered, Unseen, Fresher
  <1> QED
    BY <1>1, RowsInvariance, PTL

\* With one device whose commands and syncs take turns, nothing is ever left behind on either side.
THEOREM CursorCoversHolds ==
    ASSUME NoOverlap, OneDevice, NotBusy
    PROVE  Spec => []CursorCovers
  <1>1. RowsInv => CursorCovers
    <2>1. SUFFICES ASSUME RowsInv, NEW d \in Device, NEW r \in Record
                   PROVE  /\ <<d, r>> \notin raced /\ Unseen(d, Cloud, r) => row[d][r].upd >= cursor[d]
                          /\ Unseen(Cloud, d, r) => row[Cloud][r].upd >= cursor[d]
      BY DEF CursorCovers, CursorCoversLocal, CursorCoversCloud
    <2>2. row[d][r] \in Row /\ IsVersion(d, r, row[d][r])
      BY <2>1 DEF RowsInv, TypeOK, Store, IsVersion
    <2>3. <<d, r>> \notin raced => PushCovered(d, r, row[d][r])
      BY <2>1, <2>2 DEF RowsInv, PushCovers
    <2>4. PullCovered(d, r, row[d][r])
      BY <2>1, <2>2 DEF RowsInv, PullCovers
    <2> QED
      BY <2>3, <2>4 DEF PushCovered, PullCovered, Unseen, Fresher
  <1> QED
    BY <1>1, RowsInvariance, PTL

\* No write of a sync, and no operation, replaces a row by a version that loses to it, unless a
\* user or a command acts during the sync that writes, or a command takes its own row back
\* (conflict.go:19, service.go:118).
THEOREM NeverOverwritesNewerHolds ==
    ASSUME NoOverlap
    PROVE  Spec => NeverOverwritesNewer
  <1> DEFINE Step == \A s \in Store, r \in Record :
                /\ row[s][r] # NoRow
                /\ \A d \in Device : job[d].calm /\ cmd[d].at # "record"
                => ~Beats(row[s][r], row'[s][r])
  <1>1. RowsInv /\ RowsInv' /\ [Next]_vars => [Step]_vars
    <2>1. SUFFICES ASSUME RowsInv, [Next]_vars, NEW s \in Store, NEW r \in Record,
                          row[s][r] # NoRow, \A d \in Device : job[d].calm /\ cmd[d].at # "record"
                   PROVE  ~Beats(row[s][r], row'[s][r])
      OBVIOUS
    <2>2. TypeOK /\ row[s][r] \in Row /\ Dated(row[s][r]) /\ row[s][r].upd \in Nat
      <3>1. TypeOK /\ row[s][r] \in Row /\ Dated(row[s][r])
        BY <2>1 DEF RowsInv, TypeOK, Dates
      <3> QED
        BY <3>1 DEF Row
    <2>3. ~Newer(row[s][r], row[s][r])
      BY <2>2 DEF Newer
    <2>4. CASE row'[s][r] = row[s][r]
      BY <2>2, <2>3, <2>4, DatedBeats
    <2>5. ASSUME NEW t \in Store, NEW q \in Record, Touched(t, q), Noted(t, q) PROVE ~Beats(row[s][r], row'[s][r])
      <3>1. CASE s # t \/ r # q
        BY <2>4, <2>5, <3>1 DEF Touched
      <3>2. CASE s = t /\ r = q
        <4>1. row'[s][r] \in Row /\ row'[s][r].upd = clock /\ row'[s][r].del \in {NoTime, clock, row[s][r].del}
              /\ row[s][r].upd < clock /\ clock \in Nat
          BY <2>2, <2>5, <3>2 DEF Touched, Noted, Fresh, TypeOK
        <4>2. row[s][r].del <= row[s][r].upd /\ row'[s][r].del <= row'[s][r].upd
          BY <2>2, <4>1, DatedRow DEF NoTime, Row
        <4>3. ~Newer(row[s][r], row'[s][r])
          BY <2>2, <4>1 DEF Newer
        <4> QED
          BY <2>2, <4>1, <4>2, <4>3, BeatsIsNewer
      <3> QED
        BY <3>1, <3>2
    <2>6. ASSUME NEW d \in Device, applyRecord(d) PROVE ~Beats(row[s][r], row'[s][r])
      <3>1. /\ Target(d) \in Store /\ row' \in [Store -> [Record -> Row]] /\ job[d].rec \in Record /\ job[d].new \in Row
            /\ row'[Target(d)][job[d].rec].del = job[d].new.del /\ row'[Target(d)][job[d].rec].upd >= job[d].new.upd
            /\ Dated(row'[Target(d)][job[d].rec]) /\ Dated(job[d].new)
            /\ \A t \in Store, q \in Record : t # Target(d) \/ q # job[d].rec => row'[t][q] = row[t][q]
        BY <2>1, <2>6, AppliedRow
      <3>2. CASE s # Target(d) \/ r # job[d].rec
        BY <2>4, <3>1, <3>2
      <3>3. CASE s = Target(d) /\ r = job[d].rec
        <4>1. ~Beats(row[s][r], job[d].new)
          BY <2>1, <2>6, <3>3 DEF RowsInv, Carried, CarriedBy, Passing, applyRecord
        <4>2. ~Newer(row[s][r], job[d].new)
          BY <2>2, <3>1, <4>1, DatedBeats
        <4>3. row'[s][r] \in Row /\ ~Newer(row[s][r], row'[s][r])
          BY <2>2, <2>3, <3>1, <3>3, <4>2, StillNotNewer
        <4> QED
          BY <2>2, <3>1, <3>3, <4>3, DatedBeats
      <3> QED
        BY <3>2, <3>3
    <2>7. ASSUME NEW d \in Device, ChildWrite(d) PROVE ~Beats(row[s][r], row'[s][r])
      <3>1. PICK op \in OpKind \X Asset, more \in SUBSET (OpKind \X Asset), v \in Nat : WroteChild(d, op, more, v)
        BY <2>2, <2>7, ChildWrites
      <3>2. row' = row
        BY <2>2, <3>1, ChildWriteType
      <3> QED
        BY <2>4, <3>2
    <2>8. ASSUME NEW d \in Device,
                 \/ Begin(d) \/ listChangedRecords(d) \/ (\E q \in Record : loadBundle(d, q)) \/ EndPass(d)
                 \/ Refused(d) \/ Fail(d) \/ Release(d) \/ Complete(d)
                 \/ \E q \in Record, a \in DataFile : Fetch(d, q, a) \/ fetchAllDataFiles(d, q, a)
          PROVE  ~Beats(row[s][r], row'[s][r])
      BY Zenon, <2>4, <2>8 DEF Begin, listChangedRecords, loadBundle, EndPass, Refused, Fail, Release, Complete, stores,
                        Fetch, fetchAllDataFiles, download
    <2>9. ASSUME NEW d \in Device, NEW q \in Record, DeviceOp(d, q) PROVE ~Beats(row[s][r], row'[s][r])
      BY <2>2, <2>5, <2>9, DeviceNoted DEF Store
    <2>10. ASSUME NEW q \in Record, WebOp(q) PROVE ~Beats(row[s][r], row'[s][r])
      BY <2>2, <2>5, <2>10, WebRow, WroteNoted DEF Store
    <2>11. ASSUME NEW d \in Device, CommandWrite(d) \/ commandFails(d) \/ ignoredFailure(d) \/ commandDies(d)
           PROVE  ~Beats(row[s][r], row'[s][r])
      <3>1. row' = row
        BY <2>2, <2>11, QuietCommands DEF QuietCommand
      <3> QED
        BY <2>4, <3>1
    <2>12. ASSUME NEW d \in Device, rollbackRecord(d) \/ deleteAddedRecord(d) PROVE FALSE
      BY <2>1, <2>12 DEF rollbackRecord, deleteAddedRecord
    <2>13. CASE Tick \/ UNCHANGED vars
      BY <2>4, <2>13 DEF Tick, vars, stores
    <2> QED
      BY <2>1, <2>6, <2>7, <2>8, <2>9, <2>10, <2>11, <2>12, <2>13, Steps
  <1> QED
    BY <1>1, RowsInvariance, PTL DEF Spec, NeverOverwritesNewer

-----------------------------------------------------------------------------
(* The planned writes.                                                      *)

\* What a planned write is for.
Planned(op, have, want) ==
    /\ \/ op[1] = "transfer" /\ op[2] \in Figure /\ want[op[2]] # 0
       \/ op[1] = "createFigure" /\ op[2] \in Figure /\ want[op[2]] # 0 /\ have[op[2]] = 0
       \/ op[1] = "updateFigure" /\ op[2] \in Figure /\ want[op[2]] # 0 /\ have[op[2]] # 0
       \/ op[1] = "deleteFigure" /\ op[2] \in Figure /\ want[op[2]] = 0 /\ have[op[2]] # 0
       \/ op[1] = "createData" /\ op[2] \in DataFile /\ want[op[2]] # 0 /\ have[op[2]] = 0
       \/ op[1] = "updateData" /\ op[2] \in DataFile /\ want[op[2]] # 0 /\ have[op[2]] # 0
       \/ op[1] = "deleteData" /\ op[2] \in DataFile /\ want[op[2]] = 0 /\ have[op[2]] # 0
    /\ op = <<op[1], op[2]>>

LEMMA PlanMeans ==
    ASSUME NEW have, NEW want, NEW op \in PlanReconciliation(have, want)
    PROVE  /\ Planned(op, have, want)
           /\ op[1] = "createFigure" => <<"transfer", op[2]>> \in PlanReconciliation(have, want)
  BY DEF PlanReconciliation, Planned

\* The writes planned for d fit.
OpsFitOf(d) ==
    \A op \in job[d].ops :
        /\ job[d].pc \in {"row", "assets"}
        /\ op[1] \in FigureOps => op[2] \in Figure
        /\ op[1] \in DataOps => op[2] \in DataFile
        /\ op[1] \in {"createDataRow", "updateDataRow"} => job[d].push
        /\ op[1] \notin {"deleteFigure", "deleteData", "discard"} => job[d].want[op[2]] # 0
        /\ \A o \in job[d].ops : o[2] = op[2] /\ "transfer" \notin {o[1], op[1]} => o = op

LEMMA OpsPlanned ==
    ASSUME TypeOK, NEW d \in Device, NEW r \in Record, loadBundle(d, r), OpsFitOf(d)
    PROVE  OpsFitOf(d)'
  <1> DEFINE want == child[Source(d)][r]
             have == child[Target(d)][r]
  <1>1. want \in [Asset -> Nat] /\ have \in [Asset -> Nat] /\ job[d].pc = "next"
    BY LoadJob DEF TypeOK
  <1>2. \/ job'[d].pc = "row" /\ job'[d].want = want /\ job'[d].ops = PlanReconciliation(have, want)
        \/ job'[d].ops = job[d].ops
    BY LoadJob
  <1> HIDE DEF want, have
  <1>3. job[d].ops = {}
    BY <1>1 DEF OpsFitOf
  <1>4. CASE job'[d].ops = job[d].ops
    BY <1>3, <1>4 DEF OpsFitOf
  <1>5. CASE job'[d].pc = "row" /\ job'[d].want = want /\ job'[d].ops = PlanReconciliation(have, want)
    <2>1. SUFFICES ASSUME NEW op \in PlanReconciliation(have, want), NEW o \in PlanReconciliation(have, want)
                   PROVE  /\ op[1] \in FigureOps => op[2] \in Figure
                          /\ op[1] \in DataOps => op[2] \in DataFile
                          /\ op[1] \notin {"createDataRow", "updateDataRow"}
                          /\ op[1] \notin {"deleteFigure", "deleteData", "discard"} => want[op[2]] # 0
                          /\ o[2] = op[2] /\ "transfer" \notin {o[1], op[1]} => o = op
      BY <1>5 DEF OpsFitOf
    <2>2. Figure \cap DataFile = {}
      BY RecordSyncAssumption
    <2>3. Planned(op, have, want) /\ Planned(o, have, want)
      BY <2>1, PlanMeans
    <2>4. o[2] = op[2] /\ "transfer" \notin {o[1], op[1]} => o[1] = op[1]
      BY <2>2, <2>3 DEF Planned
    <2>5. o[2] = op[2] /\ o[1] = op[1] => o = op
      BY <2>3 DEF Planned
    <2> QED
      BY <2>3, <2>4, <2>5 DEF Planned, FigureOps, DataOps
  <1> QED
    BY <1>2, <1>4, <1>5

LEMMA OpsWritten ==
    ASSUME TypeOK, NEW d \in Device, NEW op \in OpKind \X Asset, NEW more \in SUBSET (OpKind \X Asset), NEW v \in Nat,
           WroteChild(d, op, more, v), OpsFitOf(d)
    PROVE  OpsFitOf(d)'
  <1>1. \/ /\ job'[d].pc = "assets" /\ job'[d].want = job[d].want /\ job'[d].ops = (job[d].ops \ {op}) \cup more
        \/ job'[d].ops = {}
    BY Zenon, ChildWriteType
  <1>2. job'[d].push = job[d].push /\ job[d].pc = "assets" /\ op \in job[d].ops
    BY Zenon, ChildWriteType DEF WroteChild, Wrote, Turn
  <1>3. CASE job'[d].ops = {}
    BY <1>3 DEF OpsFitOf
  <1>4. CASE job'[d].pc = "assets" /\ job'[d].want = job[d].want /\ job'[d].ops = (job[d].ops \ {op}) \cup more
    \* What comes next is for the same file, and is of the right kind.
    <2>1. /\ \A n \in more : n[2] = op[2] /\ op[1] # "transfer"
          /\ \A n, m \in more : n = m
          /\ \A n \in more : n[1] = "discard" \/ (n[1] \in {"createDataRow", "updateDataRow"} /\ op[1] \in {"createData", "updateData"} /\ job[d].push)
      BY DEF WroteChild, ThenDiscard, Deleting
    <2>2. \A n \in job'[d].ops : n \in more \/ (n \in job[d].ops /\ n # op)
      BY <1>4
    <2>3. op[1] \in DataOps => op[2] \in DataFile
      BY <1>2 DEF OpsFitOf
    <2>4. op[1] \notin {"deleteFigure", "deleteData", "discard"} => job[d].want[op[2]] # 0
      BY <1>2 DEF OpsFitOf
    <2>5. ASSUME NEW n \in more
          PROVE  /\ n[1] \in FigureOps => n[2] \in Figure
                 /\ n[1] \in DataOps => n[2] \in DataFile
                 /\ n[1] \in {"createDataRow", "updateDataRow"} => job[d].push
                 /\ n[1] \notin {"deleteFigure", "deleteData", "discard"} => job[d].want[n[2]] # 0
      BY <2>1, <2>3, <2>4 DEF FigureOps, DataOps
    <2>6. ASSUME NEW n \in job[d].ops, n # op, n[2] = op[2], op[1] # "transfer"
          PROVE  n[1] = "transfer"
      BY <1>2, <2>6 DEF OpsFitOf
    <2>7. ASSUME NEW n \in job'[d].ops, NEW o \in job'[d].ops, o[2] = n[2], "transfer" \notin {o[1], n[1]}
          PROVE  o = n
      BY <2>1, <2>2, <2>6, <2>7 DEF OpsFitOf
    <2>8. ASSUME NEW n \in job[d].ops
          PROVE  /\ n[1] \in FigureOps => n[2] \in Figure
                 /\ n[1] \in DataOps => n[2] \in DataFile
                 /\ n[1] \in {"createDataRow", "updateDataRow"} => job[d].push
                 /\ n[1] \notin {"deleteFigure", "deleteData", "discard"} => job[d].want[n[2]] # 0
      BY DEF OpsFitOf
    <2> QED
      BY <1>2, <1>4, <2>2, <2>5, <2>7, <2>8 DEF OpsFitOf
  <1> QED
    BY <1>1, <1>3, <1>4

LEMMA OpsStep ==
    ASSUME TypeOK, OpsFit, [Next]_vars
    PROVE  OpsFit'
  <1>1. OpsFit <=> \A d \in Device : OpsFitOf(d)
    BY DEF OpsFit, OpsFitOf
  <1>2. OpsFit' <=> \A d \in Device : OpsFitOf(d)'
    BY DEF OpsFit, OpsFitOf
  <1>3. ASSUME NEW d \in Device, OpsFitOf(d)', \A e \in Device \ {d} : job'[e] = job[e] PROVE OpsFit'
    BY <1>1, <1>2, <1>3 DEF OpsFitOf
  \* A job that applies nothing has no writes planned.
  <1>4. ASSUME NEW d \in Device, job'[d].ops = {}, \A e \in Device \ {d} : job'[e] = job[e] PROVE OpsFit'
    BY <1>3, <1>4 DEF OpsFitOf
  <1>5. ASSUME NEW d \in Device, Begin(d) \/ listChangedRecords(d) \/ EndPass(d) \/ Complete(d) PROVE OpsFit'
    <2>1. /\ job'[d].ops \in {{}, job[d].ops} /\ \A e \in Device \ {d} : job'[e] = job[e]
          /\ job[d].pc \notin {"row", "assets"}
      BY <1>5, BeginJob, ListJob, EndPassJob, CompleteJob DEF Begin
    <2>2. job[d].ops = {}
      BY <1>1, <2>1 DEF OpsFitOf
    <2> QED
      BY <1>4, <2>1, <2>2
  <1>6. ASSUME NEW d \in Device, NEW r \in Record, loadBundle(d, r) PROVE OpsFit'
    <2>1. \A e \in Device \ {d} : job'[e] = job[e]
      BY <1>6, LoadJob
    <2> QED
      BY <1>1, <1>3, <1>6, <2>1, OpsPlanned
  <1>7. ASSUME NEW d \in Device, applyRecord(d) PROVE OpsFit'
    <2>1. /\ \A e \in Device \ {d} : job'[e] = job[e]
          /\ job'[d].push = job[d].push
          /\ \/ job'[d].ops = {}
             \/ job'[d].pc = "assets" /\ job'[d].want = job[d].want /\ job'[d].ops = job[d].ops
      BY <1>7, ApplyJob
    <2>2. OpsFitOf(d)'
      BY <1>1, <2>1 DEF OpsFitOf
    <2> QED
      BY <1>3, <2>1, <2>2
  <1>8. ASSUME NEW d \in Device, ChildWrite(d) PROVE OpsFit'
    <2>1. PICK op \in OpKind \X Asset, more \in SUBSET (OpKind \X Asset), v \in Nat : WroteChild(d, op, more, v)
      BY <1>8, ChildWrites
    <2>2. \A e \in Device \ {d} : job'[e] = job[e]
      BY <2>1, ChildWriteType
    <2> QED
      BY <1>1, <1>3, <2>1, <2>2, OpsWritten
  <1>9. ASSUME NEW d \in Device, Refused(d) \/ Fail(d) \/ Release(d) PROVE OpsFit'
    BY <1>4, <1>9, EndedType, Constants
  <1>10. ASSUME \A d \in Device : /\ job'[d].pc = job[d].pc /\ job'[d].push = job[d].push
                                  /\ job'[d].want = job[d].want /\ job'[d].ops = job[d].ops
         PROVE  OpsFit'
    BY <1>1, <1>2, <1>10 DEF OpsFitOf
  <1>11. SameJobs => OpsFit'
    BY <1>10 DEF SameJobs
  <1>12. ASSUME NEW d \in Device, NEW r \in Record, DeviceOp(d, r) PROVE OpsFit'
    BY <1>11, <1>12, DeviceNoted DEF Noted
  <1>13. ASSUME NEW r \in Record, WebOp(r) PROVE OpsFit'
    BY <1>11, <1>13, WebRow, WroteNoted DEF Noted, Store
  <1>14. ASSUME NEW d \in Device, rollbackRecord(d) \/ deleteAddedRecord(d) PROVE OpsFit'
    BY <1>11, <1>14, RollbackType, DeleteAddedType DEF TookBack
  <1>15. ASSUME NEW d \in Device, CommandWrite(d) \/ commandFails(d) \/ ignoredFailure(d) \/ commandDies(d)
         PROVE  OpsFit'
    BY <1>10, <1>15, QuietCommands DEF QuietCommand
  <1>16. ASSUME NEW d \in Device, NEW r \in Record, NEW a \in DataFile, Fetch(d, r, a) \/ fetchAllDataFiles(d, r, a)
         PROVE  OpsFit'
    BY <1>10, <1>16, FetchType
  <1>17. CASE Tick \/ UNCHANGED vars
    BY <1>10, <1>17 DEF Tick, vars
  <1> QED
    BY <1>5, <1>6, <1>7, <1>8, <1>9, <1>12, <1>13, <1>14, <1>15, <1>16, <1>17, Steps

-----------------------------------------------------------------------------
(* What commands have done, and have left to do.                            *)

\* The write k turns the row v and the file w of a into x and y, and more is to come.
Effect(c, k, a, v, w, x, y, more) ==
    \/ /\ x = v
       /\ \/ k = "copy" /\ y = c.new.file[a] /\ more = {<<"writeRow", a>>}
          \/ k = "setAside" /\ y = 0 /\ more = {<<"promote", a>>}
          \/ k = "promote" /\ y = c.new.file[a] /\ more = {}
          \/ k = "dropFile" /\ y = 0 /\ more = {}
          \/ k = "remove" /\ y = 0 /\ more = IF c.old.row = NoRow THEN {} ELSE {<<"putBack", a>>}
          \/ k = "putBack" /\ y = c.old.file[a] /\ more = {}
    \/ /\ y = w /\ more = {}
       /\ \/ k = "writeRow" /\ x = c.new.child[a]
          \/ k = "deleteRow" /\ x = 0
          \/ k = "restoreRow" /\ x = IF c.old.child[a] = 0 THEN 0
                                     ELSE IF (c.new.child[a] = 0) <=> (v = 0) THEN c.old.child[a] ELSE v

\* n is c with the write k of a done and more to come.
Further(n, c, k, a, more) ==
    SameCommand(n, c) /\ n.at = c.at /\ n.ops = (c.ops \ {<<k, a>>}) \cup more

LEMMA LeftFurther ==
    ASSUME NEW c, NEW n, NEW k, NEW a, NEW more, Further(n, c, k, a, more),
           more = {} \/ more = {<<"writeRow", a>>} \/ more = {<<"promote", a>>} \/ more = {<<"putBack", a>>}
    PROVE  /\ \A x : <<x, a>> \in n.ops <=> (x # k /\ <<x, a>> \in c.ops) \/ <<x, a>> \in more
           /\ \A x, b : b # a => (<<x, b>> \in n.ops <=> <<x, b>> \in c.ops)
           /\ \A x : <<x, a>> \in more <=> \/ x = "writeRow" /\ more = {<<"writeRow", a>>}
                                           \/ x = "promote" /\ more = {<<"promote", a>>}
                                           \/ x = "putBack" /\ more = {<<"putBack", a>>}
           /\ n.old = c.old /\ n.new = c.new /\ n.at = c.at
  BY DEF Further, SameCommand

\* A write that is due: the files that an edit leaves out are deleted after all else.
LEMMA DropsLast ==
    ASSUME NEW c \in Cmd, NEW a \in Asset, <<"dropFile", a>> \in c.ops,
           \A o \in c.ops : CmdPhase("dropFile", a) <= CmdPhase(o[1], o[2])
    PROVE  \A o \in c.ops : o[1] = "dropFile"
  <1>1. SUFFICES ASSUME NEW o \in c.ops PROVE o[1] = "dropFile"
    OBVIOUS
  <1>2. o[1] \in CmdKind
    BY CommandType
  <1>3. CmdPhase("dropFile", a) \in {7, 8}
    BY DEF CmdPhase
  <1>4. o[1] # "dropFile" => CmdPhase(o[1], o[2]) \in 0..6
    BY <1>2 DEF CmdPhase, CmdKind
  <1> QED
    BY <1>1, <1>3, <1>4

LEMMA WriteFitsItsFile ==
    ASSUME NEW c \in Cmd, c.at \in {"forward", "undo"}, NEW k \in CmdKind, NEW a \in Asset, <<k, a>> \in c.ops,
           \A o \in c.ops : CmdPhase(k, a) <= CmdPhase(o[1], o[2]),
           NEW v, NEW w, NEW x, NEW y, NEW more, Effect(c, k, a, v, w, x, y, more), Fits(c, a, v, w),
           NEW n, Further(n, c, k, a, more)
    PROVE  Fits(n, a, x, y)
  <1> DEFINE left(m) == <<m, a>> \in c.ops
             now(m) == <<m, a>> \in n.ops
  <1>1. more = {} \/ more = {<<"writeRow", a>>} \/ more = {<<"promote", a>>} \/ more = {<<"putBack", a>>}
    BY DEF Effect
  <1>2. /\ \A m : now(m) <=> (m # k /\ left(m)) \/ <<m, a>> \in more
        /\ n.old = c.old /\ n.new = c.new /\ n.at = c.at
    BY <1>1, LeftFurther
  <1>3. /\ left(k) /\ \A m : <<m, a>> \in more <=> \/ m = "writeRow" /\ k = "copy"
                                                   \/ m = "promote" /\ k = "setAside"
                                                   \/ m = "putBack" /\ k = "remove" /\ c.old.row # NoRow
    BY DEF Effect
  <1>4. ASSUME k = "dropFile" PROVE \A o \in n.ops : o[1] = "dropFile"
    <2>1. more = {} /\ \A o \in c.ops : o[1] = "dropFile"
      BY <1>4, DropsLast DEF Effect
    <2> QED
      BY <2>1 DEF Further
  <1>5. /\ FilesGiven(n, a) /\ WritesFit(c, a) /\ FilesGiven(c, a)
        /\ v = RowSoFar(c, a) /\ OrFetched(a, w, FileSoFar(c, a))
    BY <1>2 DEF Fits, FilesGiven
  <1>6. \A b, K, m \in {n, c} : Left(m, b, K) <=> \E z \in K : <<z, b>> \in m.ops
    BY DEF Left
  <1>7. CASE c.at = "forward" /\ c.old.row = NoRow
    <2>1. /\ \A m \in CmdKind \ {"copy", "writeRow"} : ~left(m)
          /\ left("copy") \/ left("writeRow") => c.new.child[a] # 0 /\ ~(left("copy") /\ left("writeRow"))
      BY <1>5, <1>7 DEF WritesFit
    <2>2. k \in {"copy", "writeRow"} /\ ~now("copy") /\ (now("writeRow") <=> k = "copy") /\ c.new.child[a] # 0
          /\ \A m \in CmdKind \ {"copy", "writeRow"} : ~now(m)
      BY <1>2, <1>3, <2>1
    <2>3. WritesFit(n, a)
      BY <1>2, <1>7, <2>2 DEF WritesFit
    <2>4. x = RowSoFar(n, a)
      BY <1>2, <1>3, <1>5, <1>7, <2>2 DEF RowSoFar, Left, Effect, CmdKind
    <2>5. OrFetched(a, y, FileSoFar(n, a))
      <3>1. FileSoFar(n, a) = c.new.file[a]
        BY <1>2, <1>7, <2>2 DEF FileSoFar, Left, CmdKind
      <3>2. k = "writeRow" => FileSoFar(c, a) = c.new.file[a]
        BY <1>3, <1>7, <2>1 DEF FileSoFar, Left, CmdKind
      <3> QED
        BY <1>5, <2>2, <3>1, <3>2 DEF Effect, OrFetched
    <2> QED
      BY <1>5, <2>3, <2>4, <2>5 DEF Fits
  <1>8. CASE c.at = "forward" /\ c.old.row # NoRow
    <2>1. /\ \A m \in {"copy", "remove", "putBack", "restoreRow"} : ~left(m)
          /\ left("writeRow") \/ left("setAside") \/ left("promote") => c.new.child[a] # 0
          /\ ~(left("setAside") /\ left("promote"))
          /\ left("deleteRow") \/ left("dropFile") => c.old.child[a] # 0 /\ c.new.child[a] = 0
          /\ c.old.child[a] # 0 /\ c.new.child[a] = 0 /\ ~left("dropFile") => \A o \in c.ops : o[1] = "dropFile"
      BY <1>5, <1>8 DEF WritesFit
    <2>2. k \in {"writeRow", "deleteRow", "setAside", "promote", "dropFile"}
      BY <1>3, <2>1 DEF CmdKind
    <2>3. WritesFit(n, a)
      <3>1. \A m \in {"copy", "remove", "putBack", "restoreRow"} : ~now(m)
        BY <1>2, <1>3, <2>1, <2>2
      <3>2. now("writeRow") \/ now("setAside") \/ now("promote") => c.new.child[a] # 0
        BY <1>2, <1>3, <2>1, <2>2
      <3>3. ~(now("setAside") /\ now("promote"))
        BY <1>2, <1>3, <2>1, <2>2
      <3>4. now("deleteRow") \/ now("dropFile") => c.old.child[a] # 0 /\ c.new.child[a] = 0
        BY <1>2, <1>3, <2>1, <2>2
      <3>5. c.old.child[a] # 0 /\ c.new.child[a] = 0 /\ ~now("dropFile") => \A o \in n.ops : o[1] = "dropFile"
        <4>1. CASE left("dropFile")
          BY <1>2, <1>4, <4>1
        <4>2. CASE ~left("dropFile")
          BY <1>3, <2>1, <4>2
        <4> QED
          BY <4>1, <4>2
      <3> QED
        BY <1>2, <1>8, <3>1, <3>2, <3>3, <3>4, <3>5 DEF WritesFit
    <2>4. x = RowSoFar(n, a)
      <3>1. k = "writeRow" => RowSoFar(n, a) = c.new.child[a]
        BY <1>2, <1>3, <1>8, <2>1 DEF RowSoFar, Left
      <3>2. k = "deleteRow" => RowSoFar(n, a) = 0
        BY <1>2, <1>3, <1>8, <2>1 DEF RowSoFar, Left
      <3>3. k \in {"setAside", "promote", "dropFile"} => RowSoFar(n, a) = RowSoFar(c, a)
        BY <1>2, <1>3, <1>8, <2>1 DEF RowSoFar, Left
      <3> QED
        BY <1>5, <2>2, <3>1, <3>2, <3>3 DEF Effect
    <2>5. OrFetched(a, y, FileSoFar(n, a))
      <3>1. k = "setAside" => FileSoFar(n, a) = 0
        BY <1>2, <1>3, <1>8, <2>1 DEF FileSoFar, Left
      <3>2. k = "promote" => FileSoFar(n, a) = c.new.file[a]
        BY <1>2, <1>3, <1>8, <2>1 DEF FileSoFar, Left
      <3>3. k = "dropFile" => FileSoFar(n, a) = 0
        BY <1>2, <1>3, <1>5, <1>8, <2>1 DEF FileSoFar, Left, FilesGiven
      <3>4. k \in {"writeRow", "deleteRow"} => FileSoFar(n, a) = FileSoFar(c, a)
        BY <1>2, <1>3, <1>8, <2>1 DEF FileSoFar, Left
      <3> QED
        BY <1>5, <2>2, <3>1, <3>2, <3>3, <3>4 DEF Effect, OrFetched
    <2> QED
      BY <1>5, <2>3, <2>4, <2>5 DEF Fits
  <1>9. CASE c.at = "undo"
    <2>1. /\ \A m \in CmdKind \ {"remove", "putBack", "restoreRow"} : ~left(m)
          /\ ~(left("remove") /\ left("putBack"))
          /\ c.old.row = NoRow => ~left("putBack") /\ ~left("restoreRow")
      BY <1>5, <1>9 DEF WritesFit
    <2>2. k \in {"remove", "putBack", "restoreRow"}
      BY <1>3, <2>1
    <2>3. WritesFit(n, a)
      BY <1>2, <1>3, <1>9, <2>1, <2>2 DEF WritesFit
    <2>4. x = RowSoFar(n, a)
      <3>1. k = "restoreRow" => RowSoFar(n, a) = c.old.child[a] /\ v = c.new.child[a]
        BY <1>2, <1>3, <1>5, <1>9, <2>1 DEF RowSoFar, Left
      <3>2. k \in {"remove", "putBack"} => RowSoFar(n, a) = RowSoFar(c, a)
        BY <1>2, <1>3, <1>9, <2>1 DEF RowSoFar, Left
      <3> QED
        BY <1>5, <2>2, <3>1, <3>2 DEF Effect
    <2>5. OrFetched(a, y, FileSoFar(n, a))
      <3>1. k = "remove" => FileSoFar(n, a) = 0
        BY <1>2, <1>3, <1>5, <1>9, <2>1 DEF FileSoFar, Left, FilesGiven
      <3>2. k = "putBack" => FileSoFar(n, a) = c.old.file[a]
        BY <1>2, <1>3, <1>9, <2>1 DEF FileSoFar, Left
      <3>3. k = "restoreRow" => FileSoFar(n, a) = FileSoFar(c, a)
        BY <1>2, <1>3, <1>9, <2>1 DEF FileSoFar, Left
      <3> QED
        BY <1>5, <2>2, <3>1, <3>2, <3>3 DEF Effect, OrFetched
    <2> QED
      BY <1>5, <2>3, <2>4, <2>5 DEF Fits
  <1> QED
    BY <1>7, <1>8, <1>9

\* The other files of the command are where they were.
LEMMA WriteFitsOthers ==
    ASSUME NEW c \in Cmd, c.at \in {"forward", "undo"}, NEW k \in CmdKind, NEW a \in Asset, <<k, a>> \in c.ops,
           \A o \in c.ops : CmdPhase(k, a) <= CmdPhase(o[1], o[2]),
           NEW more, more = {} \/ more = {<<"writeRow", a>>} \/ more = {<<"promote", a>>} \/ more = {<<"putBack", a>>},
           k = "dropFile" => more = {},
           NEW b, b # a, NEW v, NEW w, Fits(c, b, v, w),
           NEW n, Further(n, c, k, a, more)
    PROVE  Fits(n, b, v, w)
  <1>1. /\ \A x : <<x, b>> \in n.ops <=> <<x, b>> \in c.ops
        /\ n.old = c.old /\ n.new = c.new /\ n.at = c.at
    BY LeftFurther
  <1>2. FilesGiven(n, b) /\ RowSoFar(n, b) = RowSoFar(c, b) /\ FileSoFar(n, b) = FileSoFar(c, b)
    BY <1>1 DEF Fits, FilesGiven, RowSoFar, FileSoFar, Left
  <1>3. WritesFit(n, b)
    <2>1. WritesFit(c, b)
      BY DEF Fits
    <2>2. (\A o \in c.ops : o[1] = "dropFile") => \A o \in n.ops : o[1] = "dropFile"
      <3>1. SUFFICES ASSUME \A o \in c.ops : o[1] = "dropFile" PROVE \A o \in n.ops : o[1] = "dropFile"
        OBVIOUS
      <3>2. k = "dropFile"
        BY <3>1
      <3> QED
        BY <3>1, <3>2 DEF Further
    <2> QED
      BY <1>1, <2>1, <2>2 DEF WritesFit
  <1> QED
    BY <1>1, <1>2, <1>3 DEF Fits

LEMMA FitsSame ==
    ASSUME NEW m, NEW n, NEW a, NEW v, NEW w, m.at = n.at, m.ops = n.ops, m.old = n.old, m.new = n.new, Fits(m, a, v, w)
    PROVE  Fits(n, a, v, w)
  <1>1. WritesFit(n, a)
    BY DEF Fits, WritesFit
  <1>2. FilesGiven(n, a)
    BY DEF Fits, FilesGiven
  <1>3. RowSoFar(n, a) = RowSoFar(m, a) /\ FileSoFar(n, a) = FileSoFar(m, a)
    BY DEF RowSoFar, FileSoFar, Left
  <1> QED
    BY <1>1, <1>2, <1>3 DEF Fits

\* The command c is over, and has left the row v and the file w of a.
Over(c, a, v, w) ==
    /\ FilesGiven(c, a)
    /\ IF c.at = "forward" THEN v = c.new.child[a] /\ OrFetched(a, w, c.new.file[a])
       ELSE v = c.old.child[a] /\ OrFetched(a, w, c.old.file[a])

LEMMA OnwardFits ==
    ASSUME NEW c \in Cmd, c.at \in {"forward", "undo"}, NEW ops \in SUBSET (CmdKind \X Asset),
           NEW m, SameCommand(m, c), m.at = c.at, m.ops = ops, NEW a, NEW v, NEW w, Fits(m, a, v, w)
    PROVE  IF Onward(c, ops) = NoCmd THEN Over(c, a, v, w) ELSE Fits(Onward(c, ops), a, v, w)
  <1>1. PICK n : n = Onward(c, ops)
    OBVIOUS
  <1>2. NoCmd.at = "idle" /\ m.old = c.old /\ m.new = c.new /\ c.at # "idle"
    BY NoCommand DEF SameCommand
  <1>3. CASE ops # {}
    <2>1. SameCommand(n, c) /\ n.at = c.at /\ n.ops = ops
      BY <1>1, <1>2, <1>3, OnwardType
    <2> QED
      BY <1>1, <1>2, <2>1, FitsSame DEF SameCommand
  <1>4. CASE ops = {}
    <2>1. \A K : ~Left(m, a, K)
      BY <1>4 DEF Left
    <2>2. FilesGiven(c, a) /\ v = RowSoFar(m, a) /\ OrFetched(a, w, FileSoFar(m, a)) /\ WritesFit(m, a)
      BY <1>2 DEF Fits, FilesGiven
    <2>3. Over(c, a, v, w)
      BY <1>2, <2>1, <2>2 DEF Over, RowSoFar, FileSoFar
    <2>4. CASE c.at = "undo" /\ c.old.row # NoRow
      <3>1. SameCommand(n, c) /\ n.at = "record" /\ n.ops = {}
        BY <1>1, <1>2, <1>4, <2>4, OnwardType
      <3>2. n.old = c.old /\ n.new = c.new
        BY <3>1 DEF SameCommand
      <3>3. WritesFit(n, a)
        BY <2>4, <3>1, <3>2 DEF WritesFit
      <3>4. FilesGiven(n, a)
        BY <2>2, <3>2 DEF FilesGiven
      <3>5. RowSoFar(n, a) = c.old.child[a] /\ FileSoFar(n, a) = c.old.file[a]
        BY <3>1, <3>2 DEF RowSoFar, FileSoFar, Left
      <3>6. Fits(n, a, v, w)
        BY <2>3, <2>4, <3>3, <3>4, <3>5 DEF Fits, Over
      <3> QED
        BY <1>1, <1>2, <3>1, <3>6
    <2>5. CASE ~(c.at = "undo" /\ c.old.row # NoRow)
      BY <1>1, <1>2, <1>4, <2>3, <2>5, OnwardType
    <2> QED
      BY <2>4, <2>5
  <1> QED
    BY <1>3, <1>4

\* A command that fits goes on, fitting still, or is over.
CommandGoes(d) ==
    LET r == cmd[d].rec IN
    IF cmd'[d] = NoCmd THEN \A a \in Asset : Over(cmd[d], a, child'[d][r][a], file'[d][r][a])
    ELSE cmd'[d].rec = r /\ \A a \in Asset : Fits(cmd'[d], a, child'[d][r][a], file'[d][r][a])

LEMMA WriteGoes ==
    ASSUME TypeOK, NEW d \in Device, CommandWrite(d), CommandFits(d)
    PROVE  CommandGoes(d)
  <1>1. cmd[d].at # "idle" /\ QuietCommand(d)
    BY QuietCommands
  <1>2. PICK c \in Cmd : c = cmd[d]
    BY <1>1, WorkingType
  <1>3. PICK r \in Record : r = cmd[d].rec
    BY <1>1, WorkingType
  <1>4. cmd'[d] = NoCmd \/ cmd'[d].rec = r
    BY <1>1, <1>3 DEF QuietCommand, Continues, SameCommand
  <1>5. \A a \in Asset : Fits(c, a, child[d][r][a], file[d][r][a])
    BY <1>2, <1>3 DEF CommandFits
  <1>6. ASSUME NEW k \in CmdKind, NEW a \in Asset, NEW more \in SUBSET (CmdKind \X Asset), CommandTurn(d, k, a),
               Effect(c, k, a, child[d][r][a], file[d][r][a], child'[d][r][a], file'[d][r][a], more),
               \A b \in Asset : b # a => child'[d][r][b] = child[d][r][b] /\ file'[d][r][b] = file[d][r][b],
               cmd'[d] = Onward(c, (c.ops \ {<<k, a>>}) \cup more)
        PROVE  CommandGoes(d)
    <2>1. c.at \in {"forward", "undo"} /\ <<k, a>> \in c.ops /\ \A o \in c.ops : CmdPhase(k, a) <= CmdPhase(o[1], o[2])
      BY <1>2, <1>6 DEF CommandTurn
    <2>2. PICK ops \in SUBSET (CmdKind \X Asset) : ops = (c.ops \ {<<k, a>>}) \cup more
      BY CommandType
    <2>3. PICK m : m = [c EXCEPT !.ops = ops]
      OBVIOUS
    <2>4. SameCommand(m, c) /\ m.at = c.at /\ m.ops = ops
      BY <2>3 DEF SameCommand, Cmd
    <2>5. Further(m, c, k, a, more)
      BY <2>2, <2>4 DEF Further
    <2>6. /\ more = {} \/ more = {<<"writeRow", a>>} \/ more = {<<"promote", a>>} \/ more = {<<"putBack", a>>}
          /\ k = "dropFile" => more = {}
      BY <1>6 DEF Effect
    <2>7. ASSUME NEW b \in Asset PROVE Fits(m, b, child'[d][r][b], file'[d][r][b])
      <3>1. CASE b = a
        BY <1>5, <1>6, <2>1, <2>5, <3>1, WriteFitsItsFile
      <3>2. CASE b # a
        <4>1. Fits(c, b, child[d][r][b], file[d][r][b])
          BY <1>5
        <4>2. Fits(m, b, child[d][r][b], file[d][r][b])
          BY <2>1, <2>5, <2>6, <3>2, <4>1, WriteFitsOthers
        <4> QED
          BY <1>6, <3>2, <4>2
      <3> QED
        BY <3>1, <3>2
    <2>8. cmd'[d] = Onward(c, ops)
      BY <1>6, <2>2
    <2>9. ASSUME NEW b \in Asset
          PROVE  IF cmd'[d] = NoCmd THEN Over(c, b, child'[d][r][b], file'[d][r][b])
                 ELSE Fits(cmd'[d], b, child'[d][r][b], file'[d][r][b])
      BY <2>1, <2>4, <2>7, <2>8, OnwardFits
    <2> QED
      BY <1>2, <1>3, <1>4, <2>9 DEF CommandGoes
  <1>7. PICK k \in CmdKind, a \in Asset, v \in Nat :
            PutsRow(d, k, a, v) \/ \E more \in SUBSET (CmdKind \X Asset) : PutsFile(d, k, a, v, more)
    BY CommandWrites
  <1>8. CASE PutsRow(d, k, a, v)
    <2>1. /\ CommandTurn(d, k, a) /\ UNCHANGED file /\ child'[d][r][a] = v /\ d \in Store
          /\ \A s \in Store, q \in Record, b \in Asset : s # d \/ q # r \/ b # a => child'[s][q][b] = child[s][q][b]
          /\ cmd'[d] = Onward(c, (c.ops \ {<<k, a>>}) \cup {})
      <3>1. PutChildRow(d, k, a, v) /\ d \in Store
        BY <1>8 DEF PutsRow, Store
      <3>2. /\ CommandTurn(d, k, a) /\ UNCHANGED file /\ child'[d][cmd[d].rec][a] = v
            /\ \A s \in Store, q \in Record, b \in Asset : s # d \/ q # cmd[d].rec \/ b # a => child'[s][q][b] = child[s][q][b]
            /\ cmd'[d] = Onward(cmd[d], (cmd[d].ops \ {<<k, a>>}) \cup {})
        BY <3>1, PutChildRowType
      <3> QED
        BY <1>2, <1>3, <3>1, <3>2
    <2>2. Effect(c, k, a, child[d][r][a], file[d][r][a], child'[d][r][a], file'[d][r][a], {})
      BY <1>2, <1>3, <1>8, <2>1 DEF PutsRow, Effect
    <2> QED
      BY <1>6, <2>1, <2>2
  <1>9. ASSUME NEW more \in SUBSET (CmdKind \X Asset), PutsFile(d, k, a, v, more) PROVE CommandGoes(d)
    <2>1. /\ CommandTurn(d, k, a) /\ UNCHANGED child /\ file'[d][r][a] = v
          /\ \A e \in Device, q \in Record, b \in Asset : e # d \/ q # r \/ b # a => file'[e][q][b] = file[e][q][b]
          /\ cmd'[d] = Onward(c, (c.ops \ {<<k, a>>}) \cup more)
      <3>1. PutFile(d, k, a, v, more)
        BY <1>9 DEF PutsFile
      <3>2. FileWasPut(d, k, a, v, more)
        BY <3>1, PutFileType
      <3> QED
        BY <1>2, <1>3, <3>2 DEF FileWasPut
    <2>2. Effect(c, k, a, child[d][r][a], file[d][r][a], child'[d][r][a], file'[d][r][a], more)
      BY <1>2, <1>3, <1>9, <2>1 DEF PutsFile, Effect, Adding
    <2> QED
      BY <1>6, <2>1, <2>2
  <1> QED
    BY <1>7, <1>8, <1>9

\* What is planned to undo what has been written.
LEMMA UndoPlanHas ==
    ASSUME NEW d, NEW a \in Asset, NEW c, c = cmd[d]
    PROVE  \A k : <<k, a>> \in UndoPlan(d) <=>
             IF c.old.row = NoRow
             THEN k = "remove" /\ c.new.child[a] # 0 /\ <<"copy", a>> \notin c.ops
             ELSE \/ /\ k = "restoreRow" /\ (c.new.child[a] # 0 \/ c.old.child[a] # 0)
                     /\ <<"writeRow", a>> \notin c.ops /\ <<"deleteRow", a>> \notin c.ops
                  \/ /\ k = "remove" /\ c.new.child[a] # 0
                     /\ <<"setAside", a>> \notin c.ops /\ <<"promote", a>> \notin c.ops
                  \/ k = "putBack" /\ <<"promote", a>> \in c.ops
  BY DEF UndoPlan, Adding

LEMMA FailsGoes ==
    ASSUME TypeOK, NEW d \in Device, commandFails(d), CommandFits(d)
    PROVE  CommandGoes(d)
  <1>1. /\ cmd[d].at = "forward" /\ UNCHANGED <<child, file>> /\ QuietCommand(d)
        /\ SameCommand(cmd'[d], cmd[d]) /\ cmd'[d].ops = UndoPlan(d)
        /\ cmd'[d].at \in {"undo", "record"} /\ (cmd'[d].at = "record" /\ ~Adding(d) => cmd'[d].ops = {})
        /\ (Adding(d) => cmd'[d].at = "record")
    BY FailsType
  <1>2. PICK c \in Cmd : c = cmd[d]
    BY <1>1, WorkingType
  <1>3. PICK n : n = cmd'[d]
    OBVIOUS
  <1>4. PICK r \in Record : r = cmd[d].rec
    BY <1>1, WorkingType
  <1>5. /\ c.at = "forward" /\ n.old = c.old /\ n.new = c.new /\ n.rec = r
        /\ n.at \in {"undo", "record"} /\ (n.at = "record" /\ c.old.row # NoRow => n.ops = {})
        /\ (c.old.row = NoRow => n.at = "record")
    BY <1>1, <1>2, <1>3, <1>4 DEF SameCommand, Adding
  <1>6. \E o \in c.ops : o[1] # "dropFile"
    BY <1>2 DEF commandFails
  <1>7. ASSUME NEW a \in Asset, NEW v, NEW w, Fits(c, a, v, w) PROVE Fits(n, a, v, w)
    <2>1. /\ WritesFit(c, a) /\ FilesGiven(c, a) /\ FilesGiven(n, a)
          /\ v = RowSoFar(c, a) /\ OrFetched(a, w, FileSoFar(c, a))
      BY <1>5, <1>7 DEF Fits, FilesGiven
    <2>2. \A k : <<k, a>> \in n.ops <=>
             IF c.old.row = NoRow
             THEN k = "remove" /\ c.new.child[a] # 0 /\ <<"copy", a>> \notin c.ops
             ELSE \/ /\ k = "restoreRow" /\ (c.new.child[a] # 0 \/ c.old.child[a] # 0)
                     /\ <<"writeRow", a>> \notin c.ops /\ <<"deleteRow", a>> \notin c.ops
                  \/ /\ k = "remove" /\ c.new.child[a] # 0
                     /\ <<"setAside", a>> \notin c.ops /\ <<"promote", a>> \notin c.ops
                  \/ k = "putBack" /\ <<"promote", a>> \in c.ops
      <3>1. n.ops = UndoPlan(d)
        BY <1>1, <1>3
      <3> QED
        BY <1>2, <3>1, UndoPlanHas
    <2>3. CASE c.old.row = NoRow
      <3>1. /\ \A k \in CmdKind \ {"copy", "writeRow"} : <<k, a>> \notin c.ops
            /\ <<"copy", a>> \in c.ops \/ <<"writeRow", a>> \in c.ops => c.new.child[a] # 0
        BY <1>5, <2>1, <2>3 DEF WritesFit
      <3>2. n.at = "record" /\ \A k : <<k, a>> \in n.ops <=> k = "remove" /\ c.new.child[a] # 0 /\ <<"copy", a>> \notin c.ops
        BY <1>5, <2>2, <2>3
      <3>3. WritesFit(n, a)
        BY <1>5, <2>3, <3>2 DEF WritesFit
      <3>4. FileSoFar(n, a) = FileSoFar(c, a)
        <4>1. c.new.child[a] = 0 => c.new.file[a] = c.old.file[a]
          BY <2>1, <2>3 DEF FilesGiven
        <4>2. FileSoFar(n, a) = IF c.new.child[a] # 0 /\ <<"copy", a>> \notin c.ops THEN c.new.file[a] ELSE c.old.file[a]
          BY <1>5, <3>2 DEF FileSoFar, Left
        <4>3. FileSoFar(c, a) = IF <<"copy", a>> \in c.ops THEN c.old.file[a] ELSE c.new.file[a]
          BY <1>5, <3>1 DEF FileSoFar, Left, CmdKind
        <4> QED
          BY <3>1, <4>1, <4>2, <4>3
      <3> QED
        BY <1>5, <2>1, <2>3, <3>2, <3>3, <3>4 DEF Fits
    <2>4. CASE c.old.row # NoRow
      <3>1. /\ \A k \in {"copy", "remove", "putBack", "restoreRow"} : <<k, a>> \notin c.ops
            /\ <<"writeRow", a>> \in c.ops \/ <<"setAside", a>> \in c.ops \/ <<"promote", a>> \in c.ops => c.new.child[a] # 0
            /\ ~(<<"setAside", a>> \in c.ops /\ <<"promote", a>> \in c.ops)
            /\ <<"deleteRow", a>> \in c.ops \/ <<"dropFile", a>> \in c.ops => c.old.child[a] # 0 /\ c.new.child[a] = 0
            /\ c.old.child[a] # 0 /\ c.new.child[a] = 0 => <<"dropFile", a>> \in c.ops
        BY <1>5, <1>6, <2>1, <2>4 DEF WritesFit
      <3>2. \A k : <<k, a>> \in n.ops <=>
               \/ /\ k = "restoreRow" /\ (c.new.child[a] # 0 \/ c.old.child[a] # 0)
                  /\ <<"writeRow", a>> \notin c.ops /\ <<"deleteRow", a>> \notin c.ops
               \/ /\ k = "remove" /\ c.new.child[a] # 0
                  /\ <<"setAside", a>> \notin c.ops /\ <<"promote", a>> \notin c.ops
               \/ k = "putBack" /\ <<"promote", a>> \in c.ops
        BY <2>2, <2>4
      <3>3. WritesFit(n, a)
        BY <1>5, <2>4, <3>2 DEF WritesFit
      <3>4. RowSoFar(n, a) = RowSoFar(c, a)
        BY <1>5, <3>1, <3>2 DEF RowSoFar, Left
      <3>5. FileSoFar(n, a) = FileSoFar(c, a)
        <4>1. c.new.child[a] = 0 /\ c.old.child[a] = 0 => c.new.file[a] = c.old.file[a]
          BY <2>1 DEF FilesGiven
        <4>2. FileSoFar(n, a) = IF <<"remove", a>> \in n.ops THEN c.new.file[a]
                                ELSE IF <<"putBack", a>> \in n.ops THEN 0 ELSE c.old.file[a]
          BY <1>5 DEF FileSoFar, Left
        <4>3. FileSoFar(c, a) = IF <<"setAside", a>> \in c.ops \/ <<"dropFile", a>> \in c.ops THEN c.old.file[a]
                                ELSE IF <<"promote", a>> \in c.ops THEN 0 ELSE c.new.file[a]
          BY <1>5, <3>1 DEF FileSoFar, Left
        <4> QED
          BY <3>1, <3>2, <4>1, <4>2, <4>3
      <3> QED
        BY <2>1, <3>3, <3>4, <3>5 DEF Fits
    <2> QED
      BY <2>3, <2>4
  <1>8. n # NoCmd
    BY <1>5, NoCommand
  <1>9. \A a \in Asset : Fits(c, a, child'[d][r][a], file'[d][r][a])
    BY <1>1, <1>2, <1>4 DEF CommandFits
  <1> QED
    BY <1>3, <1>4, <1>5, <1>7, <1>8, <1>9 DEF CommandGoes

LEMMA RollbackGoes ==
    ASSUME TypeOK, NEW d \in Device, rollbackRecord(d), CommandFits(d)
    PROVE  CommandGoes(d)
  <1>1. cmd[d].at = "record" /\ cmd[d].old.row # NoRow /\ UNCHANGED <<child, file>> /\ cmd'[d] = NoCmd
    BY RollbackType DEF TookBack, Adding
  <1>2. ASSUME NEW a \in Asset, NEW v, NEW w, Fits(cmd[d], a, v, w) PROVE Over(cmd[d], a, v, w)
    <2>1. cmd[d].ops = {}
      BY <1>1, <1>2 DEF Fits, WritesFit
    <2> QED
      BY <1>1, <1>2, <2>1 DEF Fits, Over, RowSoFar, FileSoFar, Left
  <1> QED
    BY <1>1, <1>2 DEF CommandGoes, CommandFits

LEMMA DeleteAddedGoes ==
    ASSUME TypeOK, NEW d \in Device, deleteAddedRecord(d), CommandFits(d)
    PROVE  CommandGoes(d)
  <1>1. /\ cmd[d].at = "record" /\ cmd[d].old.row = NoRow /\ UNCHANGED file /\ child'[d][cmd[d].rec] = NoAssets
        /\ cmd[d].ops # {} => cmd'[d].at = "undo" /\ cmd'[d].ops = cmd[d].ops /\ SameCommand(cmd'[d], cmd[d])
        /\ cmd[d].ops = {} => cmd'[d] = NoCmd
    BY DeleteAddedType DEF TookBack, Adding
  <1>2. PICK c : c = cmd[d]
    OBVIOUS
  <1>3. PICK n : n = cmd'[d]
    OBVIOUS
  <1>4. /\ c.at = "record" /\ c.old.row = NoRow
        /\ c.ops # {} => n.at = "undo" /\ n.ops = c.ops /\ n.old = c.old /\ n.new = c.new /\ n.rec = c.rec
        /\ c.ops = {} => n = NoCmd
    BY <1>1, <1>2, <1>3 DEF SameCommand
  <1>5. ASSUME NEW a \in Asset, NEW v, NEW w, Fits(c, a, v, w)
        PROVE  IF n = NoCmd THEN Over(c, a, 0, w) ELSE Fits(n, a, 0, w)
    <2>1. /\ WritesFit(c, a) /\ FilesGiven(c, a) /\ OrFetched(a, w, FileSoFar(c, a)) /\ c.old.child[a] = 0
      BY <1>4, <1>5 DEF Fits, FilesGiven
    <2>2. CASE c.ops = {}
      BY <1>4, <2>1, <2>2 DEF Over, FileSoFar, Left
    <2>3. CASE c.ops # {}
      <3>1. WritesFit(n, a)
        BY <1>4, <2>1, <2>3 DEF WritesFit
      <3>2. FilesGiven(n, a)
        BY <1>4, <2>1, <2>3 DEF FilesGiven
      <3>3. <<"restoreRow", a>> \notin n.ops
        BY <1>4, <2>1, <2>3 DEF WritesFit
      <3>4. RowSoFar(n, a) = 0
        BY <1>4, <2>1, <2>3, <3>3 DEF RowSoFar, Left
      <3>5. FileSoFar(n, a) = FileSoFar(c, a)
        BY <1>4, <2>3 DEF FileSoFar, Left
      <3>6. n # NoCmd
        BY <1>4, <2>3, NoCommand
      <3> QED
        BY <2>1, <3>1, <3>2, <3>4, <3>5, <3>6 DEF Fits
    <2> QED
      BY <2>2, <2>3
  <1>6. \A a \in Asset : Fits(c, a, child[d][c.rec][a], file[d][c.rec][a])
    BY <1>2 DEF CommandFits
  <1>7. \A a \in Asset : child'[d][c.rec][a] = 0 /\ file'[d][c.rec][a] = file[d][c.rec][a]
    BY <1>1, <1>2 DEF NoAssets
  <1>8. n = NoCmd \/ n.rec = c.rec
    BY <1>4
  <1> QED
    BY <1>2, <1>3, <1>5, <1>6, <1>7, <1>8 DEF CommandGoes

\* A command starts with all its writes to do.
StartFits(d, r) ==
    cmd'[d] = NoCmd \/ (cmd'[d].rec = r /\ \A a \in Asset : Fits(cmd'[d], a, child[d][r][a], file[d][r][a]))

LEMMA AddFits ==
    ASSUME TypeOK, NEW d \in Device, NEW r \in Record, NEW A \in SUBSET Asset, Add(d, r, A)
    PROVE  StartFits(d, r)
  <1> DEFINE nc == [a \in Asset |-> IF a \notin A THEN 0 ELSE IF a \in Figure THEN Plain ELSE edits + 1]
             nf == [a \in Asset |-> IF a \in A THEN edits + 1 ELSE 0]
             new == [child |-> nc, file |-> nf]
             ops == {"copy"} \X A
  <1>1. edits \in Nat /\ Figure \cap DataFile = {}
    BY RecordSyncAssumption DEF TypeOK
  <1>2. nc \in [Asset -> Nat] /\ nf \in [Asset -> Nat]
    BY <1>1 DEF Plain
  <1>3. ops \in SUBSET (CmdKind \X Asset)
    BY DEF CmdKind
  <1>4. Start(d, r, new, ops) /\ cmd[d].at = "idle" /\ row[d][r] = NoRow /\ child[d][r] = NoAssets /\ file[d][r] = NoAssets
    BY DEF Add, AtDevice, Store
  <1>5. Touched(d, r)
    BY DeviceRow DEF DeviceOp
  <1>6. \A a \in Asset : /\ nc[a] # 0 <=> a \in A
                         /\ a \in A => nf[a] = edits + 1 /\ (a \in DataFile => nc[a] = edits + 1)
                         /\ a \notin A => nf[a] = 0
    BY <1>1 DEF Plain
  <1>7. \A a \in Asset : \A k : <<k, a>> \in ops <=> k = "copy" /\ a \in A
    OBVIOUS
  <1> HIDE DEF nc, nf, ops
  <1>8. new \in Inputs
    BY <1>2 DEF Inputs
  <1>9. /\ ops = {} => cmd'[d] = NoCmd
        /\ ops # {} => Begun(d, r) /\ cmd'[d].new = new /\ cmd'[d].ops = ops
    <2>1. StartedWith(d, r, new, ops)
      BY <1>3, <1>4, <1>5, <1>8, StartNoted
    <2> QED
      BY <2>1 DEF StartedWith
  <1>10. ASSUME ops # {}, NEW a \in Asset PROVE Fits(cmd'[d], a, child[d][r][a], file[d][r][a])
    <2>1. PICK c : c = cmd'[d]
      OBVIOUS
    <2>2. /\ c.at = "forward" /\ c.ops = ops /\ c.new.child = nc /\ c.new.file = nf
          /\ c.old.row = NoRow /\ c.old.child = NoAssets /\ c.old.file = NoAssets
      BY <1>4, <1>9, <1>10, <2>1 DEF Begun
    <2>3. c.old.child[a] = 0 /\ c.old.file[a] = 0 /\ child[d][r][a] = 0 /\ file[d][r][a] = 0
      BY <1>4, <2>2 DEF NoAssets
    <2>4. \A k : <<k, a>> \in c.ops <=> k = "copy" /\ a \in A
      BY <1>7, <2>2
    <2>5. WritesFit(c, a)
      BY <1>6, <2>2, <2>4 DEF WritesFit
    <2>6. FilesGiven(c, a)
      BY <1>1, <1>6, <2>2, <2>3 DEF FilesGiven
    <2>7. RowSoFar(c, a) = 0 /\ FileSoFar(c, a) = 0
      BY <1>6, <2>2, <2>3, <2>4 DEF RowSoFar, FileSoFar, Left
    <2> QED
      BY <2>1, <2>3, <2>5, <2>6, <2>7 DEF Fits, OrFetched
  <1> QED
    BY <1>9, <1>10 DEF StartFits, Begun

LEMMA EditFits ==
    ASSUME TypeOK, NEW d \in Device, NEW r \in Record, NEW A \in SUBSET Asset, NEW C \in SUBSET A, Edit(d, r, A, C),
           \A f \in Figure : child[d][r][f] # 0 => file[d][r][f] # 0
    PROVE  StartFits(d, r)
  <1> DEFINE old == {a \in Asset : child[d][r][a] # 0}
             content == [a \in Asset |-> IF a \in C THEN edits + 1 ELSE file[d][r][a]]
             nc == [a \in Asset |-> IF a \notin A THEN 0 ELSE IF a \in Figure THEN Plain ELSE content[a]]
             nf == [a \in Asset |-> IF a \in A THEN content[a] ELSE IF a \in old THEN 0 ELSE file[d][r][a]]
             new == [child |-> nc, file |-> nf]
             ops == EditPlan(old, A)
  <1>1. edits \in Nat /\ Figure \cap DataFile = {} /\ file[d][r] \in [Asset -> Nat] /\ Asset = Figure \cup DataFile
    <2>1. Figure \cap DataFile = {} /\ Asset = Figure \cup DataFile
      BY RecordSyncAssumption DEF Asset
    <2>2. edits \in Nat /\ file[d][r] \in [Asset -> Nat]
      BY DEF TypeOK
    <2> QED
      BY <2>1, <2>2
  <1>2. content \in [Asset -> Nat]
    BY <1>1
  <1>3. ops \in SUBSET (CmdKind \X Asset)
    BY DEF EditPlan, CmdKind
  <1>4. Start(d, r, new, ops) /\ cmd[d].at = "idle" /\ row[d][r] # NoRow /\ A \ C \subseteq {a \in old : file[d][r][a] # 0}
    BY DEF Edit, AtDevice
  <1>5. Touched(d, r)
    BY DeviceRow DEF DeviceOp
  <1>6. \A a \in Asset : a \in A => content[a] # 0
    BY <1>1, <1>4
  <1>7. nc \in [Asset -> Nat] /\ nf \in [Asset -> Nat]
    <2> HIDE DEF content, old
    <2> QED
      BY <1>1, <1>2 DEF Plain
  <1>8. \A a \in Asset : /\ nc[a] # 0 <=> a \in A
                         /\ a \in A => nf[a] = content[a] /\ (a \in DataFile => nc[a] = content[a])
                         /\ a \notin A /\ child[d][r][a] # 0 => nf[a] = 0
                         /\ a \notin A /\ child[d][r][a] = 0 => nf[a] = file[d][r][a]
    <2> HIDE DEF content
    <2> QED
      BY <1>1, <1>6 DEF Plain
  <1>9. \A a \in Asset : \A k :
            <<k, a>> \in ops <=> \/ k \in {"writeRow", "setAside"} /\ a \in A
                                 \/ k \in {"deleteRow", "dropFile"} /\ a \notin A /\ child[d][r][a] # 0
    BY DEF EditPlan
  <1> HIDE DEF content, nc, nf, ops, old
  <1>10. new \in Inputs
    BY <1>7 DEF Inputs
  <1>11. /\ ops = {} => cmd'[d] = NoCmd
         /\ ops # {} => Begun(d, r) /\ cmd'[d].new = new /\ cmd'[d].ops = ops
    <2>1. StartedWith(d, r, new, ops)
      BY <1>3, <1>4, <1>5, <1>10, StartNoted
    <2> QED
      BY <2>1 DEF StartedWith
  <1>12. ASSUME ops # {}, NEW a \in Asset PROVE Fits(cmd'[d], a, child[d][r][a], file[d][r][a])
    <2>1. PICK c : c = cmd'[d]
      OBVIOUS
    <2>2. /\ c.at = "forward" /\ c.ops = ops /\ c.new.child = nc /\ c.new.file = nf
          /\ c.old.row # NoRow /\ c.old.child[a] = child[d][r][a] /\ c.old.file[a] = file[d][r][a]
      BY <1>4, <1>11, <1>12, <2>1 DEF Begun
    <2>3. PICK v : v = child[d][r][a]
      OBVIOUS
    <2>4. PICK w : w = file[d][r][a]
      OBVIOUS
    <2>5. c.old.child[a] = v /\ c.old.file[a] = w /\ (v # 0 /\ w = 0 => a \in DataFile)
      BY <1>1, <2>2, <2>3, <2>4
    <2>6. \A k : <<k, a>> \in c.ops <=> \/ k \in {"writeRow", "setAside"} /\ a \in A
                                        \/ k \in {"deleteRow", "dropFile"} /\ a \notin A /\ v # 0
      BY <1>9, <2>2, <2>3
    <2>7. /\ c.new.child[a] # 0 <=> a \in A
          /\ a \in A => c.new.file[a] # 0 /\ (a \in DataFile => c.new.file[a] = c.new.child[a])
          /\ a \notin A /\ v # 0 => c.new.file[a] = 0
          /\ a \notin A /\ v = 0 => c.new.file[a] = w
      BY <1>6, <1>8, <2>2, <2>3, <2>4
    <2>8. WritesFit(c, a)
      BY <2>2, <2>5, <2>6, <2>7 DEF WritesFit
    <2>9. FilesGiven(c, a)
      BY <2>2, <2>5, <2>7 DEF FilesGiven
    <2>10. RowSoFar(c, a) = v /\ FileSoFar(c, a) = w
      BY <2>2, <2>5, <2>6, <2>7 DEF RowSoFar, FileSoFar, Left
    <2> QED
      BY <2>1, <2>3, <2>4, <2>8, <2>9, <2>10 DEF Fits, OrFetched
  <1> QED
    BY <1>11, <1>12 DEF StartFits, Begun

-----------------------------------------------------------------------------
(* Figures and their binaries.                                              *)

\* What CommandsFit says of a device.
FitsUnlessCut(e) == cmd[e].at # "idle" /\ <<e, cmd[e].rec>> \notin cut \cup raced => CommandFits(e)

\* What FiguresFirst says of a figure of the record that d replaces.
FigureFirst(d, r, f) ==
    job[d].push \/ <<d, r>> \notin raced =>
        /\ <<"createFigure", f>> \in job[d].ops =>
              \/ <<"transfer", f>> \in job[d].ops
              \/ IF job[d].push THEN obj[r][f] # 0 ELSE file[d][r][f] # 0
        /\ <<"discard", f>> \in job[d].ops => child[Target(d)][r][f] = 0

\* What FigureRowsHaveContent says of one figure.
HasBinary(r, f) ==
    /\ child[Cloud][r][f] # 0 => obj[r][f] # 0
    /\ \A d \in Device : Settled(d, r) /\ child[d][r][f] # 0 => file[d][r][f] # 0

FiguresInv == OpsFit /\ FiguresFirst /\ CommandsFit /\ FigureRowsHaveContent

LEMMA FiguresInvParts ==
    /\ FigureRowsHaveContent <=> \A r \in Record, f \in Figure : HasBinary(r, f)
    /\ FiguresFirst <=> \A d \in Device, f \in Figure : job[d].rec # NoRecord => FigureFirst(d, job[d].rec, f)
    /\ CommandsFit <=> \A d \in Device : FitsUnlessCut(d)
  BY DEF FigureRowsHaveContent, HasBinary, FiguresFirst, FigureFirst, CommandsFit, FitsUnlessCut

\* The row and the file of a that d has of q stay, but that pc fetch may change a data file.
AssetStays(d, q, a) ==
    /\ child'[d][q][a] = child[d][q][a]
    /\ file'[d][q][a] = file[d][q][a] \/ ("fetch" \in Features /\ a \in DataFile)

\* A command that goes on with its record's assets as they are.
LEMMA KeptFits ==
    ASSUME TypeOK, NEW e \in Device, SameTurn(e), cut \subseteq cut', raced \subseteq raced', FitsUnlessCut(e),
           cmd[e].at # "idle" /\ <<e, cmd[e].rec>> \notin raced => \A a \in Asset : AssetStays(e, cmd[e].rec, a)
    PROVE  FitsUnlessCut(e)'
  <1>1. SUFFICES ASSUME cmd'[e].at # "idle", <<e, cmd'[e].rec>> \notin cut' \cup raced' PROVE CommandFits(e)'
    BY DEF FitsUnlessCut
  <1>2. PICK m : m = cmd[e]
    OBVIOUS
  <1>3. PICK n : n = cmd'[e]
    OBVIOUS
  <1>4. PICK r : r = m.rec
    OBVIOUS
  <1>5. n.at = m.at /\ n.rec = r /\ n.ops = m.ops /\ n.old = m.old /\ n.new = m.new
    BY <1>2, <1>3, <1>4 DEF SameTurn
  <1>6. m.at # "idle" /\ <<e, r>> \notin cut \cup raced
    BY <1>1, <1>2, <1>3, <1>4, <1>5
  <1>7. CommandFits(e) /\ \A a \in Asset : AssetStays(e, r, a)
    BY <1>2, <1>4, <1>6 DEF FitsUnlessCut
  <1>8. ASSUME NEW a \in Asset PROVE Fits(n, a, child'[e][r][a], file'[e][r][a])
    <2>1. Fits(m, a, child[e][r][a], file[e][r][a])
      BY <1>2, <1>4, <1>7 DEF CommandFits
    <2>2. child'[e][r][a] = child[e][r][a] /\ (file'[e][r][a] = file[e][r][a] \/ ("fetch" \in Features /\ a \in DataFile))
      BY <1>7 DEF AssetStays
    <2>3. Fits(n, a, child[e][r][a], file[e][r][a])
      BY <1>5, <2>1, FitsSame
    <2>4. OrFetched(a, file[e][r][a], FileSoFar(n, a)) => OrFetched(a, file'[e][r][a], FileSoFar(n, a))
      BY <2>2 DEF OrFetched
    <2> QED
      BY <2>2, <2>3, <2>4 DEF Fits
  <1> QED
    BY <1>3, <1>5, <1>8 DEF CommandFits

\* While d replaces r, nothing else is being replaced.
LEMMA OnlyReplacing ==
    ASSUME TypeOK, OneSync, NEW d \in Device, job[d].pc # "idle", NEW e \in Device \ {d}
    PROVE  job[e].rec = NoRecord
  BY DEF TypeOK, OneSync

\* The figures of the record q on d are as they were, or have their files.
FiguresGo(d, q) ==
    \/ cmd'[d].rec = q \/ <<d, q>> \in cut' \cup raced'
    \/ \A f \in Figure : child'[d][q][f] # 0 => file'[d][q][f] # 0
    \/ Settled(d, q) /\ \A f \in Figure : child'[d][q][f] = child[d][q][f] /\ file'[d][q][f] = file[d][q][f]

\* What the job of d has planned stands, or it has none.
JobGoes(d) ==
    \/ job'[d].rec = NoRecord
    \/ /\ job'[d].rec = job[d].rec /\ job'[d].push = job[d].push /\ job'[d].ops = job[d].ops
       /\ job[d].push \/ <<d, job[d].rec>> \in raced'
            \/ \A f \in Figure : /\ child'[d][job[d].rec][f] = child[d][job[d].rec][f]
                                 /\ file'[d][job[d].rec][f] = file[d][job[d].rec][f]

\* The steps that leave the cloud's figures alone.
LEMMA FiguresStay ==
    ASSUME FiguresInv, OpsFit', CommandsFit', raced \subseteq raced',
           \A q \in Record, f \in Figure : obj'[q][f] = obj[q][f] /\ child'[Cloud][q][f] = child[Cloud][q][f],
           \A d \in Device : JobGoes(d) /\ job'[d].rec \in Record \cup {NoRecord},
           \A d \in Device, q \in Record : FiguresGo(d, q)
    PROVE  FiguresInv'
  <1>1. \A q \in Record, f \in Figure : HasBinary(q, f)
    BY FiguresInvParts DEF FiguresInv
  <1>2. ASSUME NEW q \in Record, NEW f \in Figure, NEW d \in Device, Settled(d, q)', child'[d][q][f] # 0 PROVE file'[d][q][f] # 0
    <2>1. cmd'[d].rec # q /\ <<d, q>> \notin cut' \cup raced'
      BY <1>2 DEF Settled
    <2> QED
      BY <1>1, <1>2, <2>1 DEF FiguresGo, HasBinary
  <1>3. FigureRowsHaveContent'
    BY <1>1, <1>2 DEF FigureRowsHaveContent, HasBinary
  <1>4. ASSUME NEW d \in Device, NEW r \in Record, r = job'[d].rec, NEW f \in Figure PROVE FigureFirst(d, r, f)'
    <2>1. job[d].rec = r /\ r # NoRecord /\ job'[d].push = job[d].push /\ job'[d].ops = job[d].ops
      BY <1>4, RecordSyncAssumption DEF JobGoes
    <2>2. FigureFirst(d, r, f)
      BY <2>1, FiguresInvParts DEF FiguresInv
    <2>3. SUFFICES ASSUME job[d].push \/ <<d, r>> \notin raced' PROVE FigureFirst(d, r, f)'
      BY <2>1 DEF FigureFirst
    <2>4. CASE job[d].push
      BY <2>1, <2>2, <2>4 DEF FigureFirst, Target
    <2>5. CASE ~job[d].push
      <3>1. child'[d][r][f] = child[d][r][f] /\ file'[d][r][f] = file[d][r][f] /\ <<d, r>> \notin raced
        BY <1>4, <2>1, <2>3, <2>5, RecordSyncAssumption DEF JobGoes
      <3> QED
        BY <2>1, <2>2, <2>5, <3>1 DEF FigureFirst, Target
    <2> QED
      BY <2>4, <2>5
  <1>5. FiguresFirst'
    <2>1. ASSUME NEW d \in Device, NEW f \in Figure, job'[d].rec # NoRecord PROVE FigureFirst(d, job[d].rec, f)'
      <3>1. PICK r \in Record : r = job'[d].rec
        BY <2>1
      <3>2. FigureFirst(d, r, f)'
        BY <1>4, <3>1
      <3> QED
        BY <3>1, <3>2 DEF FigureFirst
    <2> QED
      BY <2>1 DEF FigureFirst, FiguresFirst
  <1> QED
    BY <1>3, <1>5 DEF FiguresInv

\* A sync writes nothing on a device but what it pulls there.
LEMMA WroteElsewhere ==
    ASSUME TypeOK, NEW d \in Device, NEW op \in OpKind \X Asset, NEW more \in SUBSET (OpKind \X Asset), NEW v \in Nat,
           WroteChild(d, op, more, v),
           NEW e \in Device, NEW q \in Record, e # d \/ q # job[d].rec \/ job[d].push, NEW a \in Asset
    PROVE  child'[e][q][a] = child[e][q][a] /\ file'[e][q][a] = file[e][q][a]
  <1>1. /\ e \in Store /\ e # Cloud /\ Target(d) \in Store /\ op[2] \in Asset /\ job[d].rec \in Record
        /\ Target(d) = IF job[d].push THEN Cloud ELSE d
    BY JobType, RecordSyncAssumption DEF Store, Target, WroteChild
  <1>2. child \in [Store -> [Record -> [Asset -> Nat]]] /\ file \in [Device -> [Record -> [Asset -> Nat]]]
    BY DEF TypeOK
  <1>3. \/ SetObj(job[d].rec, op[2], v)
        \/ SetFile(d, job[d].rec, op[2], v) /\ ~job[d].push
        \/ SetChild(Target(d), job[d].rec, op[2], v)
    BY DEF WroteChild
  <1>4. CASE SetObj(job[d].rec, op[2], v)
    BY <1>4 DEF SetObj
  <1>5. CASE SetFile(d, job[d].rec, op[2], v) /\ ~job[d].push
    <2>1. e # d \/ q # job[d].rec
      BY <1>5
    <2> QED
      BY <1>1, <1>2, <1>5, <2>1, SetFileType DEF SetFile
  <1>6. CASE SetChild(Target(d), job[d].rec, op[2], v)
    <2>1. e # Target(d) \/ q # job[d].rec
      BY <1>1
    <2> QED
      <3>1. PICK t \in Store : t = Target(d)
        BY <1>1
      <3>2. UNCHANGED file /\ child'[e][q][a] = child[e][q][a]
        BY <1>1, <1>2, <1>6, <2>1, <3>1 DEF SetChild
      <3> QED
        BY <3>2
  <1> QED
    BY <1>3, <1>4, <1>5, <1>6

\* So the commands are where they were.
LEMMA WroteCommands ==
    ASSUME TypeOK, Commands, CommandsFit, NEW d \in Device, NEW op \in OpKind \X Asset, NEW more \in SUBSET (OpKind \X Asset),
           NEW v \in Nat, WroteChild(d, op, more, v)
    PROVE  CommandsFit'
  <1>1. UNCHANGED <<cmd, cut, raced>> /\ job[d].rec \in Record
    BY ChildWriteType DEF commands, WroteChild
  <1>2. SUFFICES ASSUME NEW e \in Device PROVE FitsUnlessCut(e)'
    BY FiguresInvParts DEF CommandsFit, FitsUnlessCut
  <1>3. SameTurn(e) /\ cut \subseteq cut' /\ raced \subseteq raced' /\ FitsUnlessCut(e)
    BY <1>1 DEF SameTurn, CommandsFit, FitsUnlessCut
  <1>4. ASSUME cmd[e].at # "idle", <<e, cmd[e].rec>> \notin raced, NEW a \in Asset PROVE AssetStays(e, cmd[e].rec, a)
    <2>1. cmd[e].rec \in Record /\ (e # d \/ cmd[e].rec # job[d].rec \/ job[d].push)
      BY <1>4, WorkingType DEF Commands
    <2>2. child'[e][cmd[e].rec][a] = child[e][cmd[e].rec][a] /\ file'[e][cmd[e].rec][a] = file[e][cmd[e].rec][a]
      BY <2>1, WroteElsewhere
    <2> QED
      BY <2>2 DEF AssetStays
  <1> QED
    BY <1>3, <1>4, KeptFits

\* One write of the figures or data files of a record.
LEMMA FigureWrite ==
    ASSUME TypeOK, OneSync, FiguresInv, NEW d \in Device, NEW op \in OpKind \X Asset, NEW more \in SUBSET (OpKind \X Asset),
           NEW v \in Nat, WroteChild(d, op, more, v)
    PROVE  FiguresFirst' /\ FigureRowsHaveContent'
  <1>1. PICK r \in Record : r = job[d].rec
    BY SMTT(40) DEF WroteChild
  <1>2. /\ UNCHANGED <<cmd, cut, raced>> /\ job[d].pc = "assets" /\ \A e \in Device \ {d} : job'[e] = job[e]
        /\ job'[d].push = job[d].push /\ op \in job[d].ops /\ \A o \in job[d].ops : Phase(op[1]) <= Phase(o[1])
        /\ \/ job'[d].rec = r /\ job'[d].ops = (job[d].ops \ {op}) \cup more
           \/ job'[d].rec = NoRecord
    BY ZenonT(60), <1>1, ChildWriteType DEF WroteChild, Wrote, Turn, commands
  <1>3. r # NoRecord /\ Cloud \notin Device /\ Figure \cap DataFile = {} /\ Cloud \in Store /\ d \in Store /\ Figure \subseteq Asset
    BY RecordSyncAssumption DEF Store, Asset
  <1>4. /\ op[1] \in FigureOps => op[2] \in Figure
        /\ op[1] \in DataOps => op[2] \in DataFile
        /\ op[1] \in {"createDataRow", "updateDataRow"} => job[d].push
        /\ \A o \in job[d].ops : o[2] = op[2] /\ "transfer" \notin {o[1], op[1]} => o = op
        /\ op = <<op[1], op[2]>> /\ op[2] \in Asset
    BY <1>2 DEF FiguresInv, OpsFit
  <1>5. \A q \in Record, f \in Figure : HasBinary(q, f)
    BY FiguresInvParts DEF FiguresInv
  <1>6. \A f \in Figure : FigureFirst(d, r, f)
    BY <1>1, <1>3, FiguresInvParts DEF FiguresInv
  <1>7. ASSUME \A q \in Record, f \in Figure : HasBinary(q, f)',
               job'[d].rec = r /\ job'[d].ops = (job[d].ops \ {op}) \cup more => \A f \in Figure : FigureFirst(d, r, f)'
        PROVE  FiguresFirst' /\ FigureRowsHaveContent'
    <2>1. \A e \in Device \ {d} : job'[e].rec = NoRecord
      BY <1>2, OnlyReplacing
    <2>2. \A e \in Device, f \in Figure : job'[e].rec # NoRecord => FigureFirst(e, job[e].rec, f)'
      <3>1. SUFFICES ASSUME NEW f \in Figure, job'[d].rec # NoRecord PROVE FigureFirst(d, job[d].rec, f)'
        BY <2>1
      <3>2. job'[d].rec = r /\ FigureFirst(d, r, f)'
        BY <1>2, <1>7, <3>1
      <3> QED
        BY <3>2 DEF FigureFirst
    <2> QED
      BY <1>7, <2>2 DEF FigureRowsHaveContent, HasBinary, FiguresFirst, FigureFirst
  <1>8. \A e \in Device : child[e] \in [Record -> [Asset -> Nat]] /\ file[e] \in [Record -> [Asset -> Nat]] /\ e \in Store
    BY DEF TypeOK, Store
  <1>9. op[2] \in Asset /\ v \in Nat /\ \A k, f : <<k, f>> = op <=> k = op[1] /\ f = op[2]
    BY <1>4
  <1>10. op[2] \in Asset /\ obj \in [Record -> [Asset -> Nat]] /\ file \in [Device -> [Record -> [Asset -> Nat]]]
         /\ child \in [Store -> [Record -> [Asset -> Nat]]]
    BY <1>4 DEF TypeOK
  <1> DEFINE First == job'[d].rec = r /\ job'[d].ops = (job[d].ops \ {op}) \cup more => \A f \in Figure : FigureFirst(d, r, f)'
             Binaries == \A q \in Record, f \in Figure : HasBinary(q, f)'
  <1>11. CASE op[1] = "transfer" /\ op[2] \in Figure /\ job[d].push /\ more = {} /\ v # 0 /\ SetObj(r, op[2], v)
    <2>1. /\ UNCHANGED <<child, file>> /\ obj'[r][op[2]] = v
          /\ \A q \in Record, b \in Asset : q # r \/ b # op[2] => obj'[q][b] = obj[q][b]
      BY <1>11, <1>10 DEF SetObj
    <2>2. Binaries
      BY <1>2, <1>3, <1>5, <1>11, <2>1 DEF HasBinary, Settled
    <2>3. First
      BY <1>2, <1>3, <1>4, <1>6, <1>11, <2>1 DEF FigureFirst, Target
    <2> QED
      BY <1>7, <2>2, <2>3
  <1>12. CASE op[1] = "transfer" /\ op[2] \in Figure /\ ~job[d].push /\ more = {} /\ v # 0 /\ SetFile(d, r, op[2], v)
    <2>1. /\ UNCHANGED <<child, obj>> /\ file'[d][r][op[2]] = v
          /\ \A e \in Device, q \in Record, b \in Asset : e # d \/ q # r \/ b # op[2] => file'[e][q][b] = file[e][q][b]
      BY <1>12, <1>10 DEF SetFile
    <2>2. Binaries
      BY <1>2, <1>3, <1>5, <1>12, <2>1 DEF HasBinary, Settled
    <2>3. First
      BY <1>2, <1>3, <1>4, <1>6, <1>12, <2>1 DEF FigureFirst, Target
    <2> QED
      BY <1>7, <2>2, <2>3
  <1>13. CASE /\ op[1] \in {"createData", "updateData"} /\ job[d].push
              /\ more = {<<IF op[1] = "createData" THEN "createDataRow" ELSE "updateDataRow", op[2]>>}
              /\ SetObj(r, op[2], v)
    <2>1. op[2] \notin Figure
      BY <1>3, <1>4, <1>13 DEF DataOps
    <2>2. /\ UNCHANGED <<child, file>>
          /\ \A q \in Record, f \in Figure : obj'[q][f] = obj[q][f]
      BY <1>3, <1>4, <1>13, <2>1, SetObjType DEF SetObj
    <2>3. Binaries
      BY <1>2, <1>5, <2>2 DEF HasBinary, Settled
    <2>4. First
      <3>1. \A f \in Figure : /\ <<"createFigure", f>> \in (job[d].ops \ {op}) \cup more => <<"createFigure", f>> \in job[d].ops
                              /\ <<"discard", f>> \in (job[d].ops \ {op}) \cup more => <<"discard", f>> \in job[d].ops
                              /\ <<"transfer", f>> \in job[d].ops => <<"transfer", f>> \in (job[d].ops \ {op}) \cup more
        BY <1>4, <1>13
      <3> QED
        BY <1>2, <1>6, <2>2, <3>1 DEF FigureFirst, Target
    <2> QED
      BY <1>7, <2>3, <2>4
  \* A child row is written.  A figure's binary has been copied by then.
  <1>14. CASE /\ op[1] \in Creating(d) \cup Updating(d)
              /\ op[1] \in Updating(d) => child[Target(d)][r][op[2]] # 0
              /\ more = ThenDiscard(op[1], op[2]) /\ SetChild(Target(d), r, op[2], v)
    <2>1. /\ UNCHANGED <<file, obj>> /\ Target(d) \in Store
          /\ \A t \in Store, q \in Record, b \in Asset : t # Target(d) \/ q # r \/ b # op[2] => child'[t][q][b] = child[t][q][b]
      BY <1>4, <1>14, SetChildType, JobType DEF SetChild
    <2>2. op[1] \in {"createFigure", "updateFigure"} \/ op[2] \notin Figure
      BY <1>3, <1>4, <1>14 DEF Creating, Updating, DataOps
    <2>3. \A f \in Figure : /\ <<"createFigure", f>> \in (job[d].ops \ {op}) \cup more => <<"createFigure", f>> \in job[d].ops
                            /\ <<"discard", f>> \in (job[d].ops \ {op}) \cup more => <<"discard", f>> \in job[d].ops /\ f # op[2]
                            /\ <<"transfer", f>> \in job[d].ops => <<"transfer", f>> \in (job[d].ops \ {op}) \cup more
      <3>1. ASSUME NEW f \in Figure PROVE <<"discard", f>> \notin more
        BY <2>2, <1>14 DEF ThenDiscard
      <3>2. ASSUME NEW f \in Figure, <<"discard", f>> \in job[d].ops PROVE f # op[2]
        BY <1>2, <1>4, <1>14, <3>2 DEF Creating, Updating
      <3>3. op[1] # "transfer"
        BY <1>14 DEF Creating, Updating
      <3>4. ASSUME NEW f \in Figure PROVE <<"createFigure", f>> \notin more
        BY <1>14 DEF ThenDiscard
      <3>5. ASSUME NEW f \in Figure, <<"transfer", f>> \in job[d].ops PROVE <<"transfer", f>> # op
        BY <1>9, <3>3
      <3> QED
        BY <3>1, <3>2, <3>4, <3>5
    <2>4. First
      BY <1>2, <1>3, <1>6, <2>1, <2>3 DEF FigureFirst, Target
    <2>5. op[1] = "createFigure" /\ (job[d].push \/ <<d, r>> \notin raced) =>
              IF job[d].push THEN obj[r][op[2]] # 0 ELSE file[d][r][op[2]] # 0
      <3>1. SUFFICES ASSUME op[1] = "createFigure", job[d].push \/ <<d, r>> \notin raced
                     PROVE  IF job[d].push THEN obj[r][op[2]] # 0 ELSE file[d][r][op[2]] # 0
        OBVIOUS
      <3>2. op[2] \in Figure
        BY <1>4, <3>1 DEF FigureOps
      <3>3. <<"transfer", op[2]>> \notin job[d].ops
        <4>1. Phase("createFigure") = 2 /\ Phase("transfer") = 1
          BY DEF Phase
        <4> QED
          BY <1>2, <3>1, <4>1
      <3>4. <<"createFigure", op[2]>> \in job[d].ops
        BY <1>2, <1>9, <3>1
      <3> QED
        BY <1>6, <3>1, <3>2, <3>3, <3>4 DEF FigureFirst
    <2>6. Binaries
      <3>1. SUFFICES ASSUME NEW q \in Record, NEW f \in Figure PROVE HasBinary(q, f)'
        OBVIOUS
      <3>2. CASE q # r \/ f # op[2]
        <4>1. \A t \in Store : child'[t][q][f] = child[t][q][f]
          BY <1>3, <2>1, <3>2
        <4> QED
          BY <1>2, <1>3, <1>5, <1>8, <2>1, <4>1 DEF HasBinary, Settled
      <3>3. CASE q = r /\ f = op[2]
        <4>1. CASE job[d].push
          <5>1. Target(d) = Cloud
            BY <4>1 DEF Target
          <5>2. obj[q][f] # 0
            <6>1. op[1] = "updateFigure" => child[Cloud][q][f] # 0
              BY <1>14, <3>3, <5>1 DEF Updating
            <6> QED
              BY <1>5, <2>2, <2>5, <3>3, <4>1, <6>1 DEF HasBinary, Settled
          <5>3. \A e \in Device : child'[e][q][f] = child[e][q][f]
            BY <1>3, <1>8, <2>1, <5>1
          <5> QED
            BY <1>2, <1>5, <2>1, <5>2, <5>3 DEF HasBinary, Settled
        <4>2. CASE ~job[d].push
          <5>1. Target(d) = d
            BY <4>2 DEF Target
          <5>2. Settled(d, q) => file[d][q][f] # 0
            <6>1. op[1] = "updateFigure" => child[d][q][f] # 0
              BY <1>14, <3>3, <5>1 DEF Updating
            <6> QED
              BY <1>5, <2>2, <2>5, <3>3, <4>2, <6>1 DEF HasBinary, Settled
          <5>3. \A t \in Store \ {d} : child'[t][q][f] = child[t][q][f]
            BY <1>3, <2>1, <5>1
          <5> QED
            BY <1>2, <1>3, <1>5, <1>8, <2>1, <5>2, <5>3 DEF HasBinary, Settled
        <4> QED
          BY <4>1, <4>2
      <3> QED
        BY <3>2, <3>3
    <2> QED
      BY <1>7, <2>4, <2>6
  <1>15. CASE op[1] \in Deleting /\ more = {<<"discard", op[2]>>} /\ v = 0 /\ SetChild(Target(d), r, op[2], v)
    <2>1. /\ UNCHANGED <<file, obj>> /\ Target(d) \in Store /\ child'[Target(d)][r][op[2]] = 0
          /\ \A t \in Store, q \in Record, b \in Asset : t # Target(d) \/ q # r \/ b # op[2] => child'[t][q][b] = child[t][q][b]
      <3>1. Target(d) \in Store
        BY JobType
      <3>2. child' = [child EXCEPT ![Target(d)][r][op[2]] = 0]
        BY <1>15 DEF SetChild
      <3> QED
        BY <1>15, <1>10, <3>1, <3>2 DEF SetChild
    <2>2. \A t \in Store, q \in Record, f \in Figure : child'[t][q][f] # 0 => child[t][q][f] # 0
      BY <1>3, <2>1
    <2>3. Binaries
      BY <1>2, <1>3, <1>5, <1>8, <2>1, <2>2 DEF HasBinary, Settled
    <2>4. First
      <3>1. \A f \in Figure : /\ <<"createFigure", f>> \in (job[d].ops \ {op}) \cup more => <<"createFigure", f>> \in job[d].ops
                              /\ <<"discard", f>> \in (job[d].ops \ {op}) \cup more => <<"discard", f>> \in job[d].ops \/ f = op[2]
                              /\ <<"transfer", f>> \in job[d].ops => <<"transfer", f>> \in (job[d].ops \ {op}) \cup more
        BY <1>4, <1>15 DEF Deleting
      <3>2. \A f \in Figure : child[Target(d)][r][f] = 0 => child'[Target(d)][r][f] = 0
        BY <2>1, <2>2
      <3>3. Target(d)' = Target(d)
        BY <1>2 DEF Target
      <3> QED
        BY <1>2, <1>6, <2>1, <3>1, <3>2, <3>3 DEF FigureFirst
    <2> QED
      BY <1>7, <2>3, <2>4
  \* A figure is removed after its row.
  <1>16. CASE op[1] = "discard" /\ more = {} /\ v = 0
              /\ IF job[d].push THEN SetObj(r, op[2], v) ELSE SetFile(d, r, op[2], v)
    <2>1. \A f \in Figure : /\ <<"createFigure", f>> \in (job[d].ops \ {op}) \cup more => <<"createFigure", f>> \in job[d].ops /\ f # op[2]
                            /\ <<"discard", f>> \in (job[d].ops \ {op}) \cup more => <<"discard", f>> \in job[d].ops
                            /\ <<"transfer", f>> \in job[d].ops => <<"transfer", f>> \in (job[d].ops \ {op}) \cup more
      <3>1. ASSUME NEW f \in Figure, <<"createFigure", f>> \in job[d].ops PROVE f # op[2]
        BY <1>2, <1>4, <1>16, <3>1
      <3>2. ASSUME NEW f \in Figure PROVE <<"transfer", f>> # op
        BY <1>16, <1>9
      <3> QED
        BY <1>16, <3>1, <3>2
    <2>2. op[2] \in Figure /\ (job[d].push \/ <<d, r>> \notin raced) => child[Target(d)][r][op[2]] = 0
      <3>1. <<"discard", op[2]>> \in job[d].ops
        BY <1>2, <1>16, <1>9
      <3> QED
        BY <1>6, <3>1 DEF FigureFirst
    <2>3. CASE job[d].push
      <3>1. /\ UNCHANGED <<child, file>>
            /\ \A q \in Record, b \in Asset : q # r \/ b # op[2] => obj'[q][b] = obj[q][b]
        BY <1>4, <1>16, <2>3, SetObjType DEF SetObj
      <3>2. Binaries
        BY <1>2, <1>3, <1>5, <2>2, <2>3, <3>1 DEF HasBinary, Settled, Target
      <3>3. First
        BY <1>2, <1>3, <1>6, <2>1, <2>3, <3>1 DEF FigureFirst, Target
      <3> QED
        BY <1>7, <3>2, <3>3
    <2>4. CASE ~job[d].push
      <3>1. /\ UNCHANGED <<child, obj>>
            /\ \A e \in Device, q \in Record, b \in Asset : e # d \/ q # r \/ b # op[2] => file'[e][q][b] = file[e][q][b]
        BY SMTT(40), <1>4, <1>16, <2>4, SetFileType DEF SetFile
      <3>2. Binaries
        BY <1>2, <1>3, <1>5, <2>2, <2>4, <3>1 DEF HasBinary, Settled, Target
      <3>3. First
        BY <1>2, <1>3, <1>6, <2>1, <2>4, <3>1 DEF FigureFirst, Target
      <3> QED
        BY <1>7, <3>2, <3>3
    <2> QED
      BY <2>3, <2>4
  <1>17. Creating(d) \cap Updating(d) = {}
    BY DEF Creating, Updating
  <1> HIDE DEF First, Binaries
  <1> QED
    BY <1>1, <1>11, <1>12, <1>13, <1>14, <1>15, <1>16, <1>17 DEF WroteChild

\* The planned writes of figures, before the first.
LEMMA FigurePlan ==
    ASSUME TypeOK, OneSync, FiguresInv, NEW d \in Device, NEW r \in Record, loadBundle(d, r)
    PROVE  FiguresFirst'
  <1> DEFINE want == child[Source(d)][r]
             have == child[Target(d)][r]
  <1>1. \A e \in Device \ {d} : job'[e] = job[e] /\ job[e].rec = NoRecord
    <2>1. job[d].pc = "next" /\ \A e \in Device \ {d} : job'[e] = job[e]
      BY LoadJob
    <2> QED
      BY <2>1, OnlyReplacing
  <1>2. \/ job'[d].rec = r /\ job'[d].ops = PlanReconciliation(have, want)
        \/ job'[d].rec = NoRecord
    BY LoadJob
  <1> HIDE DEF want, have
  <1>3. \A op \in PlanReconciliation(have, want) :
          op[1] # "discard" /\ (op[1] = "createFigure" => <<"transfer", op[2]>> \in PlanReconciliation(have, want))
    BY PlanMeans DEF Planned
  <1>4. ASSUME NEW f \in Figure, job'[d].rec # NoRecord PROVE FigureFirst(d, r, f)'
    <2>1. <<"discard", f>> \notin job'[d].ops /\ (<<"createFigure", f>> \in job'[d].ops => <<"transfer", f>> \in job'[d].ops)
      BY <1>2, <1>3, <1>4
    <2> QED
      BY <2>1 DEF FigureFirst
  <1> QED
    BY <1>1, <1>2, <1>4 DEF FiguresFirst, FigureFirst

\* A command that starts fits, or nothing starts.
LEMMA CommandStarts ==
    ASSUME TypeOK, NEW d \in Device, NEW r \in Record, DeviceOp(d, r), Begun(d, r),
           \A f \in Figure : child[d][r][f] # 0 => file[d][r][f] # 0
    PROVE  StartFits(d, r)
  <1>1. CASE WroteRow(d, r)
    <2>1. SameTurn(d)
      BY <1>1, DeviceRow, WroteNoted DEF Store
    <2> QED
      BY <2>1 DEF SameTurn, Begun
  <1>2. CASE Move(d, r) \/ Delete(d, r) \/ Restore(d, r)
    BY <1>1, <1>2 DEF Move, Delete, Restore
  <1> QED
    BY <1>2, AddFits, EditFits DEF DeviceOp

LEMMA NotedCommands ==
    ASSUME TypeOK, CommandsFit, NEW s \in Store, NEW r \in Record, Noted(s, r),
           s \in Device /\ Begun(s, r) /\ <<s, r>> \notin cut \cup raced => StartFits(s, r)
    PROVE  CommandsFit'
  <1>1. UNCHANGED <<child, file, cut>> /\ raced \subseteq raced'
    BY DEF Noted
  <1>2. ASSUME NEW e \in Device, SameTurn(e) PROVE FitsUnlessCut(e)'
    <2>1. FitsUnlessCut(e) /\ \A a \in Asset : AssetStays(e, cmd[e].rec, a)
      BY <1>1, FiguresInvParts DEF AssetStays
    <2> QED
      BY <1>1, <1>2, <2>1, KeptFits
  <1>3. ASSUME s \in Device, Begun(s, r) PROVE FitsUnlessCut(s)'
    <2>1. SUFFICES ASSUME <<s, r>> \notin cut' \cup raced' PROVE CommandFits(s)'
      BY <1>3 DEF FitsUnlessCut, Begun
    <2>2. StartFits(s, r) /\ cmd'[s].rec = r /\ cmd'[s] # NoCmd
      BY <1>1, <1>3, <2>1, NoCommand DEF Begun
    <2> QED
      BY <1>1, <2>2 DEF StartFits, CommandFits
  <1>4. ASSUME s \in Device, cmd'[s] = NoCmd PROVE FitsUnlessCut(s)'
    BY <1>4, NoCommand DEF FitsUnlessCut
  <1>5. \A e \in Device : FitsUnlessCut(e)'
    BY <1>2, <1>3, <1>4 DEF Noted
  <1> QED
    BY <1>5 DEF CommandsFit, FitsUnlessCut

\* What was at work before an operation still is.
LEMMA NotedSettled ==
    ASSUME TypeOK, NEW s \in Store, NEW r \in Record, Noted(s, r), NEW d \in Device, NEW q \in Record, Settled(d, q)'
    PROVE  Settled(d, q)
  <1>1. cut' = cut /\ raced \subseteq raced' /\ cmd'[d].rec # q /\ <<d, q>> \notin cut' \cup raced'
    BY DEF Noted, Settled
  <1>2. SameTurn(d) \/ cmd[d].at = "idle"
    BY DEF Noted, Begun
  <1>3. cmd[d].at = "idle" => cmd[d].rec = NoRecord
    BY DEF TypeOK
  <1> QED
    BY <1>1, <1>2, <1>3, RecordSyncAssumption DEF Settled, SameTurn

LEMMA NotedFigures ==
    ASSUME TypeOK, FiguresInv, OpsFit', NEW s \in Store, NEW r \in Record, Noted(s, r),
           s \in Device /\ Begun(s, r) /\ <<s, r>> \notin cut \cup raced => StartFits(s, r)
    PROVE  FiguresInv'
  <1>1. UNCHANGED <<child, file, obj, cut>> /\ raced \subseteq raced' /\ SameJobs
    BY DEF Noted
  <1>2. CommandsFit'
    BY NotedCommands DEF FiguresInv
  <1>3. ASSUME NEW d \in Device PROVE JobGoes(d) /\ job'[d].rec \in Record \cup {NoRecord}
    BY <1>1, JobType DEF SameJobs, JobGoes
  <1>4. ASSUME NEW d \in Device, NEW q \in Record PROVE FiguresGo(d, q)
    BY <1>1, NotedSettled DEF FiguresGo, Settled
  <1> QED
    BY <1>1, <1>2, <1>3, <1>4, FiguresStay

\* A step of the command of d.
Worked(d) ==
    LET r == cmd[d].rec IN
    /\ TypeOK' /\ cmd[d].at # "idle" /\ r \in Record /\ UNCHANGED <<obj, raced>> /\ cut \subseteq cut'
    /\ \A e \in Device \ {d} : cmd'[e] = cmd[e]
    /\ Continues(cmd'[d], cmd[d])
    /\ \A s \in Store, q \in Record, a \in Asset : s # d \/ q # r => child'[s][q][a] = child[s][q][a]
    /\ \A e \in Device, q \in Record, a \in Asset : e # d \/ q # r => file'[e][q][a] = file[e][q][a]
    /\ \A e \in Device : job'[e].rec = job[e].rec /\ job'[e].push = job[e].push /\ job'[e].ops = job[e].ops
    /\ <<d, r>> \in cut' \/ (CommandFits(d) => CommandGoes(d))

LEMMA CommandWorks ==
    ASSUME TypeOK, NEW d \in Device,
           \/ CommandWrite(d) \/ commandFails(d) \/ ignoredFailure(d) \/ commandDies(d)
           \/ rollbackRecord(d) \/ deleteAddedRecord(d)
    PROVE  Worked(d)
  <1>1. ASSUME QuietCommand(d), cmd[d].at # "idle",
               \A s \in Store, q \in Record, a \in Asset : s # d \/ q # cmd[d].rec => child'[s][q][a] = child[s][q][a],
               \A e \in Device, q \in Record, a \in Asset : e # d \/ q # cmd[d].rec => file'[e][q][a] = file[e][q][a],
               <<d, cmd[d].rec>> \in cut' \/ (CommandFits(d) => CommandGoes(d))
        PROVE  Worked(d)
    BY <1>1, WorkingType DEF QuietCommand, Worked
  <1>2. ASSUME CommandWrite(d) PROVE Worked(d)
    <2>1. CommandFits(d) => CommandGoes(d)
      BY <1>2, WriteGoes
    <2>2. PICK k \in CmdKind, a \in Asset, v \in Nat :
              PutsRow(d, k, a, v) \/ \E more \in SUBSET (CmdKind \X Asset) : PutsFile(d, k, a, v, more)
      BY <1>2, CommandWrites
    <2>3. CASE PutsRow(d, k, a, v)
      <3>1. /\ QuietCommand(d) /\ cmd[d].at # "idle" /\ UNCHANGED file
            /\ \A s \in Store, q \in Record, b \in Asset : s # d \/ q # cmd[d].rec \/ b # a => child'[s][q][b] = child[s][q][b]
        <4>1. PutChildRow(d, k, a, v)
          BY <2>3 DEF PutsRow
        <4>2. /\ QuietCommand(d) /\ CommandTurn(d, k, a) /\ cmd[d].at # "idle" /\ UNCHANGED <<file, cut>>
              /\ child'[d][cmd[d].rec][a] = v
              /\ \A s \in Store, q \in Record, b \in Asset : s # d \/ q # cmd[d].rec \/ b # a => child'[s][q][b] = child[s][q][b]
              /\ cmd'[d] = Onward(cmd[d], (cmd[d].ops \ {<<k, a>>}) \cup {})
          BY <4>1, PutChildRowType
        <4> QED
          BY <4>2
      <3> QED
        BY <1>1, <2>1, <3>1
    <2>4. ASSUME NEW more \in SUBSET (CmdKind \X Asset), PutsFile(d, k, a, v, more) PROVE Worked(d)
      <3>1. FileWasPut(d, k, a, v, more)
        BY <2>4, PutFileType DEF PutsFile
      <3>2. /\ QuietCommand(d) /\ cmd[d].at # "idle" /\ UNCHANGED child
            /\ \A e \in Device, q \in Record, b \in Asset : e # d \/ q # cmd[d].rec \/ b # a => file'[e][q][b] = file[e][q][b]
        BY <3>1 DEF FileWasPut
      <3> QED
        BY <1>1, <2>1, <3>2
    <2> QED
      BY <2>2, <2>3, <2>4
  <1>3. ASSUME commandFails(d) PROVE Worked(d)
    <2>1. QuietCommand(d) /\ cmd[d].at = "forward" /\ UNCHANGED <<child, file>> /\ (CommandFits(d) => CommandGoes(d))
      BY <1>3, FailsType, FailsGoes
    <2> QED
      BY <1>1, <2>1
  <1>4. ASSUME ignoredFailure(d) \/ commandDies(d) PROVE Worked(d)
    BY <1>1, <1>4, CutShortType
  <1>5. ASSUME TookBack(d), CommandFits(d) => CommandGoes(d) PROVE Worked(d)
    BY <1>5 DEF TookBack, Worked, SameJobs
  <1>6. ASSUME rollbackRecord(d) PROVE Worked(d)
    BY <1>5, <1>6, RollbackType, RollbackGoes
  <1>7. ASSUME deleteAddedRecord(d) PROVE Worked(d)
    BY <1>5, <1>7, DeleteAddedType, DeleteAddedGoes
  <1> QED
    BY <1>2, <1>3, <1>4, <1>6, <1>7

\* What a command is done with has its figures' files.
LEMMA CommandFigures ==
    ASSUME TypeOK, Commands, FiguresInv, OpsFit', NEW d \in Device, Worked(d)
    PROVE  FiguresInv'
  <1>1. PICK r \in Record : r = cmd[d].rec
    BY DEF Worked
  <1>2. /\ TypeOK' /\ cmd[d].at # "idle" /\ UNCHANGED <<obj, raced>> /\ cut \subseteq cut'
        /\ \A e \in Device \ {d} : cmd'[e] = cmd[e]
        /\ cmd'[d] = NoCmd \/ cmd'[d].rec = r
        /\ \A s \in Store, q \in Record, a \in Asset : s # d \/ q # r => child'[s][q][a] = child[s][q][a]
        /\ \A e \in Device, q \in Record, a \in Asset : e # d \/ q # r => file'[e][q][a] = file[e][q][a]
        /\ \A e \in Device : job'[e].rec = job[e].rec /\ job'[e].push = job[e].push /\ job'[e].ops = job[e].ops
        /\ <<d, r>> \in cut' \/ (CommandFits(d) => CommandGoes(d))
    BY <1>1 DEF Worked, Continues, SameCommand
  <1>3. /\ Cloud \in Store /\ Cloud # d /\ Figure \subseteq Asset /\ \A f \in Figure : f \notin DataFile
        /\ \A e \in Device : e \in Store
    BY RecordSyncAssumption DEF Store, Asset
  <1>4. ASSUME <<d, r>> \notin cut' \cup raced' PROVE CommandGoes(d)
    <2>1. FitsUnlessCut(d)
      BY FiguresInvParts DEF FiguresInv
    <2> QED
      BY <1>1, <1>2, <1>4, <2>1 DEF FitsUnlessCut
  <1>5. ASSUME NEW e \in Device PROVE FitsUnlessCut(e)'
    <2>1. CASE e # d
      <3>1. SameTurn(e) /\ FitsUnlessCut(e)
        BY <1>2, <2>1, FiguresInvParts DEF SameTurn, FiguresInv
      <3>2. ASSUME cmd[e].at # "idle" PROVE \A a \in Asset : AssetStays(e, cmd[e].rec, a)
        <4>1. cmd[e].rec \in Record
          BY <3>2, WorkingType
        <4> QED
          BY <1>2, <1>3, <2>1, <4>1 DEF AssetStays
      <3> QED
        BY <1>2, <3>1, <3>2, KeptFits
    <2>2. CASE e = d
      <3>1. SUFFICES ASSUME cmd'[d].at # "idle", <<d, cmd'[d].rec>> \notin cut' \cup raced' PROVE CommandFits(d)'
        BY <2>2 DEF FitsUnlessCut
      <3>2. cmd'[d] # NoCmd /\ cmd'[d].rec = r /\ CommandGoes(d)
        BY <1>2, <1>4, <3>1, NoCommand
      <3> QED
        BY <1>1, <3>2 DEF CommandGoes, CommandFits
    <2> QED
      BY <2>1, <2>2
  <1>6. CommandsFit'
    BY <1>5 DEF CommandsFit, FitsUnlessCut
  <1>7. ASSUME NEW e \in Device PROVE JobGoes(e) /\ job'[e].rec \in Record \cup {NoRecord}
    <2>1. job[e].rec \in Record \cup {NoRecord}
      BY JobType
    <2>2. CASE e # d \/ job[e].rec # r
      BY <1>2, <1>3, <2>1, <2>2 DEF JobGoes
    <2>3. CASE e = d /\ job[e].rec = r
      BY <1>1, <1>2, <2>1, <2>3 DEF JobGoes, Commands
    <2> QED
      BY <2>2, <2>3
  <1>8. ASSUME NEW e \in Device, NEW q \in Record PROVE FiguresGo(e, q)
    <2>1. CASE e # d \/ q # r
      <3>1. \A f \in Figure : child'[e][q][f] = child[e][q][f] /\ file'[e][q][f] = file[e][q][f]
        BY <1>2, <1>3, <2>1
      <3>2. cmd'[e].rec = q \/ <<e, q>> \in cut' \cup raced' \/ Settled(e, q)
        BY <1>1, <1>2, <2>1 DEF Settled
      <3> QED
        BY <3>1, <3>2 DEF FiguresGo
    <2>2. CASE e = d /\ q = r
      <3>1. SUFFICES ASSUME cmd'[d] = NoCmd, <<d, r>> \notin cut' \cup raced', NEW f \in Figure, child'[d][r][f] # 0
                     PROVE  file'[d][r][f] # 0
        BY <1>2, <2>2 DEF FiguresGo
      <3>2. PICK c \in Cmd : c = cmd[d]
        BY <1>2, WorkingType
      <3>3. Over(c, f, child'[d][r][f], file'[d][r][f])
        BY <1>1, <1>3, <1>4, <3>1, <3>2 DEF CommandGoes
      <3>4. f \notin DataFile
        BY <1>3
      <3> QED
        BY <3>1, <3>3, <3>4 DEF Over, OrFetched, FilesGiven
    <2> QED
      BY <2>1, <2>2
  <1> QED
    BY <1>2, <1>3, <1>6, <1>7, <1>8, FiguresStay

LEMMA FiguresStep ==
    ASSUME RowsInv, FiguresInv, NoOverlap, [Next]_vars
    PROVE  FiguresInv'
  <1>1. TypeOK /\ OneSync /\ Commands /\ OpsFit' /\ TypeOK'
    BY OpsStep, TypeStep DEF RowsInv, FiguresInv
  <1>2. (\A e \in Device : e \in Store) /\ Cloud \in Store /\ Cloud \notin Device
    BY RecordSyncAssumption DEF Store
  <1>3. \A e \in Device : job[e].rec \in Record \cup {NoRecord} /\ job'[e].rec \in Record \cup {NoRecord}
    BY <1>1 DEF TypeOK, Job
  \* Neither figures nor commands change, and the jobs write on.
  <1>4. ASSUME UNCHANGED <<child, obj, cmd, cut>>, raced \subseteq raced',
               \A e \in Device, q \in Record, a \in Asset : AssetStays(e, q, a)
        PROVE  CommandsFit' /\ \A e \in Device, q \in Record : FiguresGo(e, q)
    <2>1. ASSUME NEW e \in Device PROVE FitsUnlessCut(e)'
      <3>1. SameTurn(e) /\ FitsUnlessCut(e)
        BY <1>4, FiguresInvParts DEF SameTurn, FiguresInv
      <3>2. cmd[e].at # "idle" => \A a \in Asset : AssetStays(e, cmd[e].rec, a)
        BY <1>1, <1>4, WorkingType
      <3> QED
        BY <1>1, <1>4, <3>1, <3>2, KeptFits
    <2>2. ASSUME NEW e \in Device, NEW q \in Record PROVE FiguresGo(e, q)
      <3>1. \A f \in Figure : child'[e][q][f] = child[e][q][f] /\ file'[e][q][f] = file[e][q][f]
        BY <1>4, RecordSyncAssumption DEF AssetStays, Asset
      <3> QED
        BY <1>4, <3>1 DEF FiguresGo, Settled
    <2> QED
      BY <2>1, <2>2 DEF CommandsFit, FitsUnlessCut
  <1>5. ASSUME UNCHANGED <<child, file, obj, cmd, cut>>, raced \subseteq raced' PROVE CommandsFit' /\ \A e \in Device, q \in Record : FiguresGo(e, q)
    BY <1>4, <1>5 DEF AssetStays
  <1>6. ASSUME UNCHANGED <<child, file, obj, cmd, cut, raced>>,
               \A e \in Device : \/ job'[e].rec = NoRecord
                                 \/ job'[e].rec = job[e].rec /\ job'[e].push = job[e].push /\ job'[e].ops = job[e].ops
        PROVE  FiguresInv'
    BY <1>1, <1>3, <1>5, <1>6, FiguresStay DEF JobGoes
  <1>7. ASSUME UNCHANGED <<child, file, obj, cmd, cut, raced>>, NEW d \in Device, \A e \in Device \ {d} : job'[e] = job[e],
               \/ job'[d].rec = NoRecord
               \/ job'[d].rec = job[d].rec /\ job'[d].push = job[d].push /\ job'[d].ops = job[d].ops
        PROVE  FiguresInv'
    BY <1>6, <1>7
  <1>8. ASSUME NEW d \in Device, Begin(d) \/ listChangedRecords(d) \/ EndPass(d) \/ Complete(d) PROVE FiguresInv'
    BY <1>1, <1>7, <1>8, BeginJob, ListJob, EndPassJob, CompleteJob DEF stores, commands
  <1>9. ASSUME NEW d \in Device, NEW r \in Record, loadBundle(d, r) PROVE FiguresInv'
    <2>1. UNCHANGED <<child, file, obj, cmd, cut>> /\ raced \subseteq raced'
      <3>1. /\ UNCHANGED <<stores, cmd, cut>>
            /\ raced' = (IF job'[d].rec = r /\ ~job[d].push /\ cmd[d].rec = r THEN raced \cup {<<d, r>>} ELSE raced)
        BY <1>1, <1>9, LoadJob
      <3> QED
        BY <3>1 DEF stores
    <2>2. FigureRowsHaveContent'
      BY <2>1 DEF FiguresInv, FigureRowsHaveContent, Settled
    <2> QED
      BY <1>1, <1>5, <1>9, <2>1, <2>2, FigurePlan DEF FiguresInv
  <1>10. ASSUME NEW d \in Device, applyRecord(d) PROVE FiguresInv'
    <2>1. /\ UNCHANGED <<child, file, obj, cmd, cut, raced>> /\ \A e \in Device \ {d} : job'[e] = job[e]
          /\ job'[d].rec = NoRecord \/ (job'[d].rec = job[d].rec /\ job'[d].push = job[d].push /\ job'[d].ops = job[d].ops)
      BY <1>1, <1>10, ApplyJob DEF commands
    <2> QED
      BY <1>7, <2>1
  <1>11. ASSUME NEW d \in Device, ChildWrite(d) PROVE FiguresInv'
    <2>1. PICK op \in OpKind \X Asset, more \in SUBSET (OpKind \X Asset), v \in Nat : WroteChild(d, op, more, v)
      BY <1>1, <1>11, ChildWrites
    <2> QED
      BY <1>1, <2>1, FigureWrite, WroteCommands DEF FiguresInv
  <1>12. ASSUME NEW d \in Device, Refused(d) \/ Fail(d) \/ Release(d) PROVE FiguresInv'
    BY <1>1, <1>7, <1>12, EndedType, Constants DEF stores, commands
  <1>13. ASSUME NEW d \in Device, NEW r \in Record, DeviceOp(d, r) PROVE FiguresInv'
    <2>1. Noted(d, r) /\ AtDevice(d)
      BY <1>1, <1>13, DeviceNoted
    <2>2. ASSUME Begun(d, r), <<d, r>> \notin cut \cup raced PROVE StartFits(d, r)
      <3>1. Settled(d, r)
        BY <1>1, <2>2, RecordSyncAssumption DEF Begun, Settled, TypeOK
      <3>2. \A f \in Figure : child[d][r][f] # 0 => file[d][r][f] # 0
        BY <3>1 DEF FiguresInv, FigureRowsHaveContent
      <3> QED
        BY <1>1, <1>13, <2>2, <3>2, CommandStarts
    <2> QED
      BY <1>1, <1>2, <2>1, <2>2, NotedFigures
  <1>14. ASSUME NEW r \in Record, WebOp(r) PROVE FiguresInv'
    <2>1. Noted(Cloud, r)
      BY <1>1, <1>2, <1>14, WebRow, WroteNoted
    <2> QED
      BY <1>1, <1>2, <2>1, NotedFigures
  <1>15. ASSUME NEW d \in Device, NEW r \in Record, NEW a \in DataFile, Fetch(d, r, a) \/ fetchAllDataFiles(d, r, a)
         PROVE  FiguresInv'
    <2>1. /\ UNCHANGED <<child, obj, job, cmd, cut, raced>>
          /\ \A e \in Device, q \in Record, b \in Asset : e # d \/ q # r \/ b # a => file'[e][q][b] = file[e][q][b]
      BY <1>1, <1>15, FetchType
    <2>2. "fetch" \in Features
      BY <1>15 DEF Fetch, fetchAllDataFiles, download
    <2>3. \A e \in Device, q \in Record, b \in Asset : AssetStays(e, q, b)
      BY <2>1, <2>2 DEF AssetStays
    <2>4. \A e \in Device, q \in Record, f \in Figure : file'[e][q][f] = file[e][q][f]
      BY <2>1, RecordSyncAssumption DEF Asset
    <2>5. \A e \in Device : JobGoes(e)
      BY <1>3, <2>1, <2>4, RecordSyncAssumption DEF JobGoes
    <2> QED
      BY <1>1, <1>3, <1>4, <2>1, <2>3, <2>5, FiguresStay
  <1>16. ASSUME NEW d \in Device,
                \/ CommandWrite(d) \/ commandFails(d) \/ ignoredFailure(d) \/ commandDies(d)
                \/ rollbackRecord(d) \/ deleteAddedRecord(d)
         PROVE  FiguresInv'
    BY <1>1, <1>16, CommandWorks, CommandFigures
  <1>17. CASE Tick \/ UNCHANGED vars
    <2>1. UNCHANGED <<child, file, obj, job, cmd, cut, raced>>
      BY <1>17 DEF Tick, stores, vars, commands
    <2> QED
      BY <1>6, <2>1
  <1> QED
    BY <1>8, <1>9, <1>10, <1>11, <1>12, <1>13, <1>14, <1>15, <1>16, <1>17, Steps

LEMMA InitFigures ==
    ASSUME Init
    PROVE  FiguresInv
  <1>1. PICK held \in {{}} \cup {{d} : d \in IF "alt" \in Features THEN Device ELSE {}} :
         /\ child = [s \in Store |-> [r \in Record |-> [a \in Asset |->
                     IF s \notin held THEN 0 ELSE IF a \in Figure THEN Captioned ELSE 1]]]
         /\ file = [d \in Device |-> [r \in Record |-> [a \in Asset |-> IF d \in held THEN 1 ELSE 0]]]
    BY DEF Init
  <1>2. \A d \in Device : job[d].rec = NoRecord /\ job[d].ops = {}
    BY Constants DEF Init
  <1>3. \A d \in Device : cmd[d].at = "idle"
    BY NoCommand DEF Init
  <1>4. OpsFit /\ FiguresFirst /\ CommandsFit
    BY <1>2, <1>3 DEF OpsFit, FiguresFirst, CommandsFit
  <1>5. Cloud \notin held /\ Cloud \in Store /\ Figure \subseteq Asset /\ \A d \in Device : d \in Store
    BY <1>1, RecordSyncAssumption DEF Store, Asset
  <1>6. FigureRowsHaveContent
    BY <1>1, <1>5 DEF FigureRowsHaveContent
  <1> QED
    BY <1>4, <1>6 DEF FiguresInv

\* The inductive invariant of figures, for any number of devices whose syncs do not overlap.
THEOREM FiguresInvariance ==
    ASSUME NoOverlap
    PROVE  Spec => [](RowsInv /\ FiguresInv)
  <1>1. Init => RowsInv /\ FiguresInv
    BY InitRows, InitFigures
  <1>2. RowsInv /\ FiguresInv /\ [Next]_vars => RowsInv' /\ FiguresInv'
    BY RowsStep, FiguresStep
  <1> QED
    BY <1>1, <1>2, PTL DEF Spec

\* A figure row always has its binary, in S3 for the cloud and on disk for a device whose commands
\* are done (edit.go:85, 107, 115, edit_support.go:77, add.go:163), wherever a sync is interrupted
\* (service.go:677, 704) or a command fails, unless it is cut short or a pull replaces its record:
\* for any number of devices whose syncs do not overlap.
THEOREM FigureRowsHaveContentHolds ==
    ASSUME NoOverlap
    PROVE  Spec => []FigureRowsHaveContent
  <1>1. FiguresInv => FigureRowsHaveContent
    BY DEF FiguresInv
  <1> QED
    BY <1>1, FiguresInvariance, PTL

=============================================================================
