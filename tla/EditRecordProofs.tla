-------------------------- MODULE EditRecordProofs --------------------------
(* EditRecord for any number of assets, commands, failing calls and crashes. *)
EXTENDS EditRecord, WellFoundedInduction, TLAPS

(***************************************************************************)
(* The inductive invariant.  While a command runs, rows, temporary files   *)
(* and files are at every step a function of what was there before it and  *)
(* of how far it has come, so that undoing the one and the other leads     *)
(* back; with a second failing call only what is left of that holds.       *)
(***************************************************************************)

Creating == pc \in {"copy", "create"}
Adding == Creating \/ pc \in {"deleteRecord", "deleteCopies"}
Forward == pc \in {"update", "stage", "upsert", "backup", "commit", "remove"}
Undoing == pc \in {"restore", "cleanup", "rollback", "rollbackRecord"}
Finishing == pc \in {"deleteFiles", "succeed"}

PcOK == pc = "idle" \/ Adding \/ Forward \/ Undoing \/ Finishing

\* What was there before the command.
WasRecord == before[1][1]
WasRows == before[1][2]
WasFiles == before[1][3]
WasTemps == before[2]
WasBackups == before[3]

\* A running command's number is on nothing that was there before it.
Older == 0..(command - 1)

\* A content is in its place or aside, not in both, and nothing is moved aside
\* that the running command has written.
OnceOnly ==
    /\ \A n \in Names : files[n] # None => files[n] \notin backups[n]
    /\ pc # "idle" => \A n \in Names : backups[n] \subseteq Older
    /\ Adding \/ Forward \/ Undoing => \A n \in Names : good[n] \in Older \cup {None}

\* Without its record there are no rows, and nothing to keep.
RowsHaveRecord ==
    /\ record = None => rows = Nothing /\ good = Nothing
    /\ Creating \/ Forward \/ Undoing \/ Finishing => record # None

\* pc records add: what is there is what has been copied; its undoing.
AddOK ==
    /\ Adding =>
          /\ good = Nothing /\ before = <<<<None, Nothing, Nothing>>, temps, backups>>
          /\ \A n \in Names : files[n] # None => n \in staged
    /\ Creating =>
          /\ ~failed /\ record.text = command /\ todo # {} /\ todo \subseteq InputNames
          /\ \A n \in Names : rows[n] = IF n \in InputNames \ todo THEN RowOf(n, command) ELSE None
          /\ \A n \in InputNames \ todo : files[n] = command
    /\ pc = "create" => files[First(todo)] = command
    /\ pc \in {"deleteRecord", "deleteCopies"} => failed /\ lately >= 1
    /\ pc = "deleteCopies" =>
          /\ todo # {}
          /\ lately <= 1 => record = None /\ rows = Nothing /\ \A n \in Names : files[n] # None => n \in todo

\* pc records edit remembers what was there.
Remembers ==
    Forward \/ Undoing =>
        /\ before = <<<<WasRecord, WasRows, WasFiles>>, WasTemps, WasBackups>>
        /\ old = [record |-> WasRecord, rows |-> WasRows]
        /\ WasRecord # None /\ WasRecord \in {None} \cup [text : 0..command, upd : 0..command]
        /\ WasRows \in [Names -> {None} \cup [hash : (0..command) \cup {None}]]
        /\ \A n \in Names : WasRows[n] # None => (WasRows[n].hash = None <=> n \notin DataFiles)
        /\ WasFiles \in [Names -> Older \cup {None}]
        /\ {WasTemps, WasBackups} \subseteq [Names -> SUBSET Older]
        /\ \A n \in Names : WasFiles[n] # None => WasFiles[n] \notin WasBackups[n]

\* How far it has come.
CommittedNames == {committed[i].name : i \in DOMAIN committed}
Touched == done.created \cup done.updated \cup done.deleted

Stages ==
    /\ Forward => ~failed /\ lately = 0
    /\ Undoing => failed /\ lately >= 1
    /\ Finishing => ~failed
    /\ Forward /\ pc # "update" => record.text = command
    /\ pc = "update" => Everything = before /\ Touched = {} /\ staged = {}
    /\ pc \in {"update", "stage", "upsert", "cleanup", "rollback", "rollbackRecord"} => committed = <<>>
    /\ pc \in {"commit", "restore"} => committed # <<>>
    /\ Forward \/ Undoing => staged \subseteq InputNames
    /\ pc \in {"stage", "upsert", "backup", "commit"} => todo # {} /\ todo \subseteq InputNames
    /\ pc = "stage" => Touched = {}
    /\ pc = "upsert" => InputNames \ todo \subseteq Touched /\ done.deleted = {}
    /\ pc \in {"backup", "commit", "remove"} => InputNames \subseteq Touched
    /\ pc \in {"backup", "commit"} => done.deleted = {}
    /\ pc = "remove" => /\ Present(WasRows) \ InputNames \subseteq todo \cup Touched
                        /\ todo \cap InputNames = {} /\ InputNames \subseteq CommittedNames
    /\ pc = "backup" => InputNames \ todo \subseteq CommittedNames /\ CommittedNames \cap todo = {}
    /\ pc = "commit" => /\ InputNames \ Rest \subseteq CommittedNames /\ CommittedNames \cap Rest = {}
                        /\ committed[Len(committed)].name = First(todo)
    /\ pc \in {"remove", "deleteFiles"} => done.deleted \cap InputNames = {}
    /\ pc = "rollback" => todo # {}

\* The rows, until and after the roll back of each.
RowsOK ==
    /\ Forward \/ pc \in {"restore", "cleanup"} =>
          \A n \in Names : rows[n] = IF n \notin Touched THEN WasRows[n]
                                     ELSE IF input[n] = None THEN None ELSE RowOf(n, command)
    /\ pc \in {"rollback", "rollbackRecord"} /\ lately <= 1 =>
          \A n \in Names : n \in todo \/ rows[n] = WasRows[n]
    /\ pc = "rollbackRecord" => todo = {}

\* The staged files.
TempsOK ==
    /\ Forward \/ pc \in {"restore", "cleanup"} =>
          \A n \in Names : /\ temps[n] \ {command} = WasTemps[n]
                           /\ n \notin staged => temps[n] = WasTemps[n]
    /\ pc \in {"rollback", "rollbackRecord"} /\ lately <= 1 => temps = WasTemps

\* The files: new ones in their place, the old ones of those aside.
FilesOK ==
    Forward \/ Undoing =>
        /\ lately <= 1 => \A n \in Names \ CommittedNames : files[n] = WasFiles[n] /\ backups[n] = WasBackups[n]
        /\ \A i \in DOMAIN committed : LET c == committed[i] IN
              /\ c.backup = WasFiles[c.name] /\ c.name \in InputNames
              /\ backups[c.name] = WasBackups[c.name] \cup ({c.backup} \ {None})
              /\ files[c.name] = IF pc = "commit" /\ i = Len(committed) THEN None ELSE command
              /\ \A j \in DOMAIN committed : committed[j].name = c.name => j = i

\* A command that cannot fail any more has stored its input.
FinishOK ==
    Finishing =>
        /\ record.text = command
        /\ \A n \in Names : rows[n] = IF input[n] = None THEN None ELSE RowOf(n, command)
        /\ \A n \in InputNames : files[n] = command
        /\ \A n \in Names \ InputNames : good[n] = None

IInv ==
    /\ TypeOK /\ PcOK /\ OnceOnly /\ RowsHaveRecord /\ AddOK /\ Remembers /\ Stages
    /\ RowsOK /\ TempsOK /\ FilesOK /\ FinishOK
    /\ FailedCommandIsUndone /\ SuccessIsExact /\ NothingIsLost


-----------------------------------------------------------------------------
(* Names, and the order of the loops *)

LEMMA NamesLemma == Names = {Assets[i] : i \in DOMAIN Assets}
  BY DEF Names, ToSet

\* A loop takes one of the names that are left.
LEMMA FirstIsLeft ==
    ASSUME NEW S \in SUBSET Names, S # {}
    PROVE  First(S) \in S
  <1> DEFINE I == {i \in DOMAIN Assets : Assets[i] \in S}
             R == {ss \in Nat \X Nat : ss[1] < ss[2]}
  <1>1. I \subseteq Nat /\ I # {}
    BY AssetsAssumption, NamesLemma
  <1>2. IsWellFoundedOn(R, Nat)
    BY NatLessThanWellFounded DEF OpToRel
  <1>3. \A x, y \in Nat : y < x => <<y, x>> \in R
    OBVIOUS
  <1>4. \E x \in I : \A y \in I : x <= y
    <2> HIDE DEF R, I
    <2>1. PICK x \in I : \A y \in I : ~(<<y, x>> \in R)
      BY <1>1, <1>2, WFMin
    <2>2. ASSUME NEW y \in I PROVE x <= y
      <3>1. x \in Nat /\ y \in Nat /\ ~(y < x)
        BY <1>1, <1>3, <2>1
      <3> QED
        BY <3>1
    <2> QED
      BY <2>2
  <1>5. Min(I) \in I
    BY <1>4 DEF Min
  <1> QED
    BY <1>5 DEF First

\* What the names of a loop become.
LEMMA RestLemma ==
    ASSUME TypeOK, todo # {}
    PROVE  First(todo) \in todo /\ First(todo) \in Names /\ Rest \subseteq todo /\ Rest \subseteq Names
           /\ First(todo) \notin Rest /\ todo = Rest \cup {First(todo)}
  BY FirstIsLeft DEF TypeOK, Rest

\* The values for nothing are none of the others.
LEMMA Distinct ==
    /\ \A c \in Nat : c # None
    /\ \A t, u : t \in Nat /\ u \in Nat => [text |-> t, upd |-> u] # None
    /\ \A n, c : c \in Nat => /\ RowOf(n, c) # None /\ RowOf(n, c) \in [hash : Nat \cup {None}]
                              /\ RowOf(n, c).hash = None <=> n \notin DataFiles
  BY AssetsAssumption DEF RowOf

LEMMA NothingLemma == Nothing \in [Names -> {None}] /\ \A n \in Names : Nothing[n] = None
  BY DEF Nothing

\* What a step leaves alone.
LEMMA SameBefore ==
    ASSUME before' = before
    PROVE  /\ WasRecord' = WasRecord /\ WasRows' = WasRows /\ WasFiles' = WasFiles
           /\ WasTemps' = WasTemps /\ WasBackups' = WasBackups
  BY DEF WasRecord, WasRows, WasFiles, WasTemps, WasBackups

LEMMA SameInput ==
    ASSUME input' = input
    PROVE  InputNames' = InputNames
  BY DEF InputNames

LEMMA SameCommitted ==
    ASSUME committed' = committed
    PROVE  CommittedNames' = CommittedNames
  BY DEF CommittedNames

Committed == [name : Names, backup : (0..command) \cup {None}]

\* One more file is committed, or the last one is taken back.
LEMMA Push ==
    ASSUME NEW C, NEW s \in Seq(C), NEW c \in C
    PROVE  /\ Append(s, c) \in Seq(C) /\ Append(s, c) # <<>>
           /\ DOMAIN Append(s, c) = (DOMAIN s) \cup {Len(s) + 1} /\ Len(Append(s, c)) = Len(s) + 1
           /\ \A i \in DOMAIN s : Append(s, c)[i] = s[i] /\ i # Len(s) + 1
           /\ Append(s, c)[Len(s) + 1] = c
  OBVIOUS

LEMMA Pop ==
    ASSUME NEW C, NEW s \in Seq(C), s # <<>>
    PROVE  /\ Front(s) \in Seq(C) /\ Len(Front(s)) = Len(s) - 1 /\ Len(s) \in DOMAIN s
           /\ DOMAIN Front(s) = (DOMAIN s) \ {Len(s)} /\ (Len(s) = 1 <=> Front(s) = <<>>)
           /\ \A i \in DOMAIN Front(s) : Front(s)[i] = s[i]
           /\ Last(s) = s[Len(s)] /\ Last(s) \in C
  <1>1. Len(s) \in Nat \ {0} /\ DOMAIN s = 1..Len(s) /\ Len(s) - 1 \in Nat
    OBVIOUS
  <1>2. Front(s) = [i \in 1..(Len(s) - 1) |-> s[i]]
    BY <1>1 DEF Front
  <1>3. Front(s) \in Seq(C) /\ Len(Front(s)) = Len(s) - 1
    BY <1>1, <1>2
  <1>4. Len(s) = 1 <=> Front(s) = <<>>
    BY <1>1, <1>3
  <1>5. DOMAIN Front(s) = (DOMAIN s) \ {Len(s)} /\ \A i \in DOMAIN Front(s) : Front(s)[i] = s[i]
    BY <1>1, <1>2
  <1> QED
    BY <1>1, <1>3, <1>4, <1>5 DEF Last

-----------------------------------------------------------------------------
(* Starting *)

\* The command's number is new.
LEMMA NewNumber ==
    ASSUME IInv
    PROVE  /\ command \in Nat /\ command + 1 \in Nat /\ command + 1 # None
           /\ 0..command \subseteq 0..(command + 1) /\ 0..((command + 1) - 1) = 0..command
           /\ \A t \in 0..(command + 1) : t # None
  BY AssetsAssumption DEF IInv, TypeOK

LEMMA StartAdd ==
    ASSUME IInv, NEW contents \in SUBSET Names, runAdd(contents)
    PROVE  IInv'
  <1> USE DEF Start, runAdd
  <1>1. /\ pc = "idle" /\ record = None /\ files = Nothing /\ rows = Nothing /\ good = Nothing
        /\ command' = command + 1 /\ files' = Nothing /\ rows' = Nothing /\ good' = Nothing
        /\ temps' = temps /\ backups' = backups /\ committed' = <<>> /\ staged' = {} /\ done' = NoMutations
        /\ record' = [text |-> command + 1, upd |-> command + 1] /\ ~failed' /\ lately' = 0 /\ faults' = faults
        /\ before' = <<<<None, Nothing, Nothing>>, temps, backups>>
    BY DEF IInv, RowsHaveRecord, Everything, store
  <1>2. InputNames' = contents /\ input' \in [Names -> {command', None}] /\ \A n \in Names : input'[n] # None <=> n \in contents
    BY NewNumber DEF InputNames
  <1>3. pc' = (IF contents = {} THEN "succeed" ELSE "copy") /\ todo' = contents
    BY DEF Goto
  <1>4. command' \in 0..MaxCommands /\ record' # None /\ record'.text = command'
    BY <1>1, NewNumber, Distinct, AssetsAssumption DEF IInv, TypeOK
  <1>5. TypeOK'
    <2>1. /\ record' \in [text : 0..command', upd : 0..command']
          /\ {files', good'} \subseteq [Names -> (0..command') \cup {None}]
          /\ rows' \in [Names -> {None}]
      BY <1>1, NewNumber, NothingLemma
    <2>2. {temps', backups'} \subseteq [Names -> SUBSET (0..command')]
      BY <1>1, NewNumber DEF IInv, TypeOK
    <2>3. done' \in [created : SUBSET Names, updated : SUBSET Names, deleted : SUBSET Names] /\ committed' \in Seq(Committed')
      BY <1>1 DEF NoMutations
    <2>4. \A n \in Names : rows'[n] = None
      BY <2>1
    <2>5. todo' \cup staged' \subseteq Names /\ lately' \in 0..faults' /\ faults' \in 0..MaxFaults
      BY <1>1, <1>3 DEF IInv, TypeOK
    <2>6. rows' \in [Names -> {None} \cup [hash : (0..command') \cup {None}]]
      BY <2>1
    <2>7. command' \in 0..MaxCommands /\ failed' \in BOOLEAN /\ input' \in [Names -> {command', None}]
      BY <1>1, <1>2, <1>4
    <2> HIDE DEF Start, runAdd
    <2> QED
      BY <2>1, <2>2, <2>3, <2>4, <2>5, <2>6, <2>7 DEF TypeOK, Committed
  <1>6. PcOK' /\ OnceOnly'
    BY <1>1, <1>3, NewNumber, NothingLemma DEF IInv, TypeOK, PcOK, Adding, Creating, Forward, Undoing, Finishing, OnceOnly, Older
  <1>7. RowsHaveRecord'
    BY <1>1, <1>4 DEF RowsHaveRecord
  <1>8. AddOK'
    BY <1>1, <1>2, <1>3, <1>4, NothingLemma DEF AddOK, Adding, Creating
  <1>9. Remembers' /\ Stages' /\ RowsOK' /\ TempsOK' /\ FilesOK'
    BY <1>1, <1>3 DEF Remembers, Stages, RowsOK, TempsOK, FilesOK, Forward, Undoing, Finishing
  <1>10. FinishOK'
    BY <1>1, <1>2, <1>3, <1>4, NothingLemma DEF FinishOK, Finishing
  <1>11. (FailedCommandIsUndone /\ SuccessIsExact /\ NothingIsLost)'
    BY <1>1, <1>3, NothingLemma DEF FailedCommandIsUndone, SuccessIsExact, NothingIsLost, Ended
  <1> QED
    BY <1>5, <1>6, <1>7, <1>8, <1>9, <1>10, <1>11 DEF IInv

LEMMA StartEdit ==
    ASSUME IInv, NEW contents \in SUBSET Names, runEdit(contents)
    PROVE  IInv'
  <1> USE DEF Start, runEdit
  <1>1. /\ pc = "idle" /\ record # None /\ record' = record /\ files' = files /\ rows' = rows /\ good' = good
        /\ command' = command + 1 /\ pc' = "update" /\ todo' = {} /\ old' = [record |-> record, rows |-> rows]
        /\ temps' = temps /\ backups' = backups /\ committed' = <<>> /\ staged' = {} /\ done' = NoMutations
        /\ ~failed' /\ lately' = 0 /\ faults' = faults
        /\ before' = Everything
    BY DEF Goto
  <1>2. input' \in [Names -> {command', None}]
    BY NewNumber
  <1>3. command' \in 0..MaxCommands
    BY <1>1, NewNumber, AssetsAssumption DEF IInv, TypeOK
  <1>4. /\ WasRecord' = record /\ WasRows' = rows /\ WasFiles' = files /\ WasTemps' = temps /\ WasBackups' = backups
    BY <1>1 DEF WasRecord, WasRows, WasFiles, WasTemps, WasBackups, Everything, store
  <1>5. TypeOK'
    <2>1. /\ record' \in {None} \cup [text : 0..command', upd : 0..command']
          /\ {files', good'} \subseteq [Names -> (0..command') \cup {None}]
          /\ rows' \in [Names -> {None} \cup [hash : (0..command') \cup {None}]]
      BY <1>1, NewNumber DEF IInv, TypeOK
    <2>2. {temps', backups'} \subseteq [Names -> SUBSET (0..command')]
      BY <1>1, NewNumber DEF IInv, TypeOK
    <2>3. done' \in [created : SUBSET Names, updated : SUBSET Names, deleted : SUBSET Names] /\ committed' \in Seq(Committed')
      BY <1>1 DEF NoMutations
    <2>4. \A n \in Names : rows'[n] # None => (rows'[n].hash = None <=> n \notin DataFiles)
      BY <1>1 DEF IInv, TypeOK
    <2>5. todo' \cup staged' \subseteq Names /\ lately' \in 0..faults' /\ faults' \in 0..MaxFaults
      BY <1>1 DEF IInv, TypeOK
    <2>6. command' \in 0..MaxCommands /\ failed' \in BOOLEAN /\ input' \in [Names -> {command', None}]
      BY <1>1, <1>2, <1>3
    <2> HIDE DEF Start, runEdit
    <2> QED
      BY <2>1, <2>2, <2>3, <2>4, <2>5, <2>6 DEF TypeOK, Committed
  <1>6. PcOK' /\ OnceOnly'
    BY <1>1, NewNumber DEF IInv, TypeOK, PcOK, Adding, Creating, Forward, Undoing, Finishing, OnceOnly, Older
  <1>7. RowsHaveRecord'
    BY <1>1 DEF IInv, RowsHaveRecord
  <1>8. AddOK' /\ FinishOK'
    BY <1>1 DEF AddOK, Adding, Creating, FinishOK, Finishing
  <1>9. Remembers'
    BY <1>1, <1>4, NewNumber DEF Remembers, IInv, TypeOK, OnceOnly, Older, Everything, store
  <1>10. Stages'
    BY <1>1 DEF Stages, Forward, Undoing, Finishing, NoMutations, Touched, Everything, store
  <1>11. RowsOK' /\ TempsOK'
    BY <1>1, <1>4, NewNumber DEF IInv, TypeOK, RowsOK, TempsOK, Touched, NoMutations
  <1>12. FilesOK'
    BY <1>1, <1>4 DEF FilesOK
  <1>13. (FailedCommandIsUndone /\ SuccessIsExact /\ NothingIsLost)'
    BY <1>1 DEF IInv, FailedCommandIsUndone, SuccessIsExact, NothingIsLost, Ended
  <1> QED
    BY <1>5, <1>6, <1>7, <1>8, <1>9, <1>10, <1>11, <1>12, <1>13 DEF IInv

-----------------------------------------------------------------------------
(* pc records add *)

\* What is only of an edit.
LEMMA AddFrame ==
    ASSUME Adding' \/ pc' = "idle" \/ (pc' = "succeed" /\ ~failed')
    PROVE  Remembers' /\ Stages' /\ RowsOK' /\ TempsOK' /\ FilesOK'
  BY DEF Adding, Creating, Remembers, Stages, RowsOK, TempsOK, FilesOK, Forward, Undoing, Finishing

\* What is only of a running command.
LEMMA Unended ==
    ASSUME pc' # "idle", NothingIsLost'
    PROVE  (FailedCommandIsUndone /\ SuccessIsExact /\ NothingIsLost)'
  BY DEF FailedCommandIsUndone, SuccessIsExact, Ended

\* The numbers of a state.
LEMMA Numbers ==
    ASSUME TypeOK
    PROVE  /\ command \in Nat /\ command \in 0..command /\ None \notin 0..command /\ command # None
           /\ Older \subseteq 0..command /\ command \notin Older /\ None \notin Older
           /\ \A n \in Names : input[n] # None => input[n] = command
           /\ faults \in Nat /\ lately \in Nat /\ lately <= faults
  BY AssetsAssumption DEF TypeOK, Older

\* A call that fails, and one that does not.
LEMMA Faults ==
    ASSUME TypeOK
    PROVE  /\ Fault => faults' \in 0..MaxFaults /\ lately' \in 0..faults' /\ lately' = lately + 1 /\ lately' >= 1
           /\ NoFault => faults' \in 0..MaxFaults /\ lately' \in 0..faults' /\ lately' = lately
  BY AssetsAssumption DEF TypeOK, Fault, NoFault

LEMMA CopyStep ==
    ASSUME IInv, copyInto
    PROVE  IInv'
  <1> DEFINE n == First(todo)
  <1>1. /\ pc = "copy" /\ n \in todo /\ n \in InputNames /\ n \in Names /\ input[n] = command
    BY RestLemma, Numbers DEF copyInto, IInv, AddOK, Creating, InputNames
  <1>2. /\ record' = record /\ rows' = rows /\ temps' = temps /\ backups' = backups /\ input' = input
        /\ committed' = committed /\ command' = command /\ before' = before /\ good' = good /\ done' = done
    BY DEF copyInto
  <1>3. InputNames' = InputNames
    BY <1>2, SameInput
  <1>4. CASE /\ files' = [files EXCEPT ![n] = command] /\ staged' = staged \cup {n}
             /\ pc' = "create" /\ todo' = todo /\ failed' = failed /\ NoFault
    <2> USE DEF NoFault
    <2>1. TypeOK'
      BY <1>1, <1>2, <1>4, Numbers DEF IInv, TypeOK
    <2>2. PcOK' /\ OnceOnly'
      BY <1>1, <1>2, <1>4, Numbers DEF IInv, TypeOK, PcOK, Adding, Creating, Forward, Undoing, Finishing, OnceOnly, Older
    <2>3. RowsHaveRecord'
      BY <1>1, <1>2, <1>4 DEF IInv, RowsHaveRecord, Creating
    <2>4. AddOK' /\ FinishOK'
      BY <1>1, <1>2, <1>3, <1>4 DEF IInv, TypeOK, AddOK, Adding, Creating, FinishOK, Finishing
    <2>5. NothingIsLost'
      BY <1>1, <1>2, NothingLemma DEF IInv, NothingIsLost, AddOK, Adding, Creating
    <2> QED
      BY <1>4, <2>1, <2>2, <2>3, <2>4, <2>5, AddFrame, Unended DEF IInv, Adding, Creating
  <1>5. CASE Fault /\ FailAdd /\ UNCHANGED <<files, staged>>
    <2>0. faults' \in 0..MaxFaults /\ lately' \in 0..faults' /\ lately' >= 1
      BY <1>5, Faults DEF IInv
    <2> USE DEF FailAdd, Goto
    <2>1. TypeOK'
      BY <1>2, <1>5, <2>0 DEF IInv, TypeOK
    <2>2. PcOK' /\ OnceOnly' /\ RowsHaveRecord'
      BY <1>1, <1>2, <1>5 DEF IInv, PcOK, Adding, Creating, Forward, Undoing, Finishing, OnceOnly, Older, RowsHaveRecord
    <2>3. AddOK' /\ FinishOK' /\ NothingIsLost'
      BY <1>1, <1>2, <1>5, <2>0 DEF IInv, AddOK, Adding, Creating, FinishOK, Finishing, NothingIsLost
    <2> QED
      BY <1>5, <2>1, <2>2, <2>3, AddFrame, Unended DEF IInv, Adding
  <1> QED
    BY <1>1, <1>4, <1>5 DEF copyInto

LEMMA CreateStep ==
    ASSUME IInv, createAssetRow
    PROVE  IInv'
  <1> DEFINE n == First(todo)
  <1>1. /\ pc = "create" /\ n \in todo /\ n \in InputNames /\ n \in Names /\ input[n] = command
    BY RestLemma, Numbers DEF createAssetRow, IInv, AddOK, Creating, InputNames
  <1>2. /\ record' = record /\ files' = files /\ temps' = temps /\ backups' = backups /\ input' = input /\ staged' = staged
        /\ committed' = committed /\ command' = command /\ before' = before /\ good' = good /\ done' = done
    BY DEF createAssetRow
  <1>3. InputNames' = InputNames
    BY <1>2, SameInput
  <1>4. CASE /\ rows' = [rows EXCEPT ![n] = RowOf(n, command)] /\ failed' = failed /\ NoFault
             /\ IF Rest # {} THEN Goto("copy", Rest) ELSE Goto("succeed", {})
    <2> USE DEF NoFault
    <2>0. /\ (pc' = "copy" /\ Rest # {}) \/ (pc' = "succeed" /\ Rest = {})
          /\ todo' = Rest
      BY <1>4 DEF Goto
    <2>1. RowOf(n, command) # None /\ RowOf(n, command) \in [hash : (0..command) \cup {None}]
          /\ (RowOf(n, command).hash = None <=> n \notin DataFiles)
      BY Distinct, Numbers DEF IInv, RowOf
    <2>2. TypeOK'
      BY <1>1, <1>2, <1>4, <2>0, <2>1, RestLemma DEF IInv, TypeOK
    <2>3. PcOK' /\ OnceOnly'
      BY <1>1, <1>2, <2>0 DEF IInv, PcOK, Adding, Creating, Forward, Undoing, Finishing, OnceOnly, Older
    <2>4. RowsHaveRecord'
      BY <1>1, <1>2, <1>4 DEF IInv, RowsHaveRecord, Creating
    <2>5. ~failed' /\ record'.text = command'
      BY <1>1, <1>2, <1>4 DEF IInv, AddOK, Creating
    <2>6. \A m \in Names : rows'[m] = IF m \in InputNames' \ todo' THEN RowOf(m, command) ELSE None
      BY <1>1, <1>3, <1>4, <2>0, RestLemma DEF IInv, TypeOK, AddOK, Creating
    <2>7. \A m \in InputNames' \ todo' : files'[m] = command
      BY <1>1, <1>2, <1>3, <2>0, RestLemma DEF IInv, AddOK, Creating
    <2>8. AddOK'
      BY <1>1, <1>2, <1>3, <2>0, <2>5, <2>6, <2>7, RestLemma DEF IInv, AddOK, Adding, Creating
    <2>9. FinishOK'
      BY <1>1, <1>2, <1>3, <2>0, <2>5, <2>6, <2>7, NothingLemma DEF IInv, AddOK, Adding, Creating, FinishOK, Finishing, InputNames
    <2>10. NothingIsLost'
      BY <1>2 DEF IInv, NothingIsLost
    <2> QED
      BY <2>0, <2>2, <2>3, <2>4, <2>5, <2>8, <2>9, <2>10, AddFrame, Unended DEF IInv, Adding, Creating
  <1>5. CASE Fault /\ FailAdd /\ UNCHANGED rows
    <2>0. faults' \in 0..MaxFaults /\ lately' \in 0..faults' /\ lately' >= 1
      BY <1>5, Faults DEF IInv
    <2> USE DEF FailAdd, Goto
    <2>1. TypeOK'
      BY <1>2, <1>5, <2>0 DEF IInv, TypeOK
    <2>2. PcOK' /\ OnceOnly' /\ RowsHaveRecord'
      BY <1>1, <1>2, <1>5 DEF IInv, PcOK, Adding, Creating, Forward, Undoing, Finishing, OnceOnly, Older, RowsHaveRecord
    <2>3. AddOK' /\ FinishOK' /\ NothingIsLost'
      BY <1>1, <1>2, <1>5, <2>0 DEF IInv, AddOK, Adding, Creating, FinishOK, Finishing, NothingIsLost
    <2> QED
      BY <1>5, <2>1, <2>2, <2>3, AddFrame, Unended DEF IInv, Adding
  <1> QED
    BY <1>1, <1>4, <1>5 DEF createAssetRow

LEMMA DeleteRecordStep ==
    ASSUME IInv, rollbackAddRecord
    PROVE  IInv'
  <1>1. /\ pc = "deleteRecord" /\ failed /\ lately >= 1 /\ good = Nothing
        /\ before = <<<<None, Nothing, Nothing>>, temps, backups>>
        /\ \A n \in Names : files[n] # None => n \in staged
    BY DEF rollbackAddRecord, IInv, AddOK, Adding
  <1>2. /\ files' = files /\ temps' = temps /\ backups' = backups /\ input' = input /\ staged' = staged /\ failed' = failed
        /\ committed' = committed /\ command' = command /\ before' = before /\ good' = good /\ done' = done
    BY DEF rollbackAddRecord
  <1>3. /\ (pc' = "deleteCopies" /\ staged # {}) \/ (pc' = "idle" /\ staged = {})
        /\ todo' = staged
    BY DEF rollbackAddRecord, LoopOver, Goto
  <1>4. /\ faults' \in 0..MaxFaults /\ lately' \in 0..faults' /\ lately' >= 1
        /\ (record' = None /\ rows' = Nothing) \/ (record' = record /\ rows' = rows /\ lately' > 1)
    BY <1>1, Faults, Numbers DEF rollbackAddRecord, IInv
  <1>5. TypeOK'
    BY <1>2, <1>3, <1>4, NothingLemma DEF IInv, TypeOK
  <1>6. PcOK' /\ OnceOnly' /\ RowsHaveRecord'
    BY <1>1, <1>2, <1>3, <1>4 DEF IInv, PcOK, Adding, Creating, Forward, Undoing, Finishing, OnceOnly, Older, RowsHaveRecord
  <1>7. AddOK' /\ FinishOK'
    BY <1>1, <1>2, <1>3, <1>4 DEF IInv, AddOK, Adding, Creating, FinishOK, Finishing
  <1>8. SuccessIsExact' /\ NothingIsLost'
    BY <1>1, <1>2, NothingLemma DEF SuccessIsExact, Ended, NothingIsLost
  <1>9. FailedCommandIsUndone'
    <2>1. pc' = "idle" => files = Nothing
      BY <1>1, <1>3, NothingLemma DEF IInv, TypeOK, Nothing
    <2> QED
      BY <1>1, <1>2, <1>4, <2>1 DEF FailedCommandIsUndone, Ended, Everything, store
  <1> QED
    BY <1>3, <1>5, <1>6, <1>7, <1>8, <1>9, AddFrame DEF IInv, Adding

LEMMA DeleteCopyStep ==
    ASSUME IInv, rollbackAddFile
    PROVE  IInv'
  <1> DEFINE n == First(todo)
  <1>1. /\ pc = "deleteCopies" /\ failed /\ lately >= 1 /\ good = Nothing
        /\ before = <<<<None, Nothing, Nothing>>, temps, backups>>
        /\ \A m \in Names : files[m] # None => m \in staged
        /\ lately <= 1 => record = None /\ rows = Nothing /\ \A m \in Names : files[m] # None => m \in todo
        /\ todo # {} /\ n \in Names
    BY RestLemma DEF rollbackAddFile, IInv, AddOK, Adding
  <1>2. /\ record' = record /\ rows' = rows /\ temps' = temps /\ backups' = backups /\ input' = input /\ staged' = staged
        /\ committed' = committed /\ command' = command /\ before' = before /\ good' = good /\ done' = done /\ failed' = failed
    BY DEF rollbackAddFile
  <1>3. /\ (pc' = "deleteCopies" /\ Rest # {}) \/ (pc' = "idle" /\ Rest = {})
        /\ todo' = Rest
    BY <1>1 DEF rollbackAddFile, Advance, Goto
  <1>4. /\ faults' \in 0..MaxFaults /\ lately' \in 0..faults' /\ lately' >= 1
        /\ (files' = [files EXCEPT ![n] = None] /\ lately' = lately) \/ (files' = files /\ lately' > 1)
    BY <1>1, Faults, Numbers DEF rollbackAddFile, IInv
  <1>5. \A m \in Names : files'[m] # None => files'[m] = files[m] /\ (lately' <= 1 => m # n)
    BY <1>4 DEF IInv, TypeOK
  <1>6. TypeOK'
    BY <1>1, <1>2, <1>3, <1>4, RestLemma DEF IInv, TypeOK
  <1>7. PcOK' /\ OnceOnly' /\ RowsHaveRecord'
    BY <1>1, <1>2, <1>3, <1>5 DEF IInv, PcOK, Adding, Creating, Forward, Undoing, Finishing, OnceOnly, Older, RowsHaveRecord
  <1>8. lately' <= 1 => \A m \in Names : files'[m] # None => m \in Rest
    BY <1>1, <1>4, <1>5, RestLemma DEF IInv
  <1>9. AddOK' /\ FinishOK'
    BY <1>1, <1>2, <1>3, <1>4, <1>5, <1>8 DEF IInv, AddOK, Adding, Creating, FinishOK, Finishing
  <1>10. SuccessIsExact' /\ NothingIsLost'
    BY <1>1, <1>2, NothingLemma DEF SuccessIsExact, Ended, NothingIsLost
  <1>11. FailedCommandIsUndone'
    <2>1. pc' = "idle" /\ lately' <= 1 => files' = Nothing
      BY <1>3, <1>6, <1>8 DEF TypeOK, Nothing
    <2> QED
      BY <1>1, <1>2, <1>4, <2>1 DEF FailedCommandIsUndone, Ended, Everything, store
  <1> QED
    BY <1>3, <1>6, <1>7, <1>9, <1>10, <1>11, AddFrame DEF IInv, Adding

-----------------------------------------------------------------------------
(* pc records edit *)

\* What an edit goes on remembering, and what is not of an edit.
LEMMA EditFrame ==
    ASSUME IInv, Forward \/ Undoing, before' = before, old' = old, command' = command
    PROVE  /\ Remembers'
           /\ Forward' \/ Undoing' \/ Finishing' \/ pc' = "idle" => AddOK' /\ PcOK'
           /\ Forward' \/ Undoing' \/ pc' = "idle" => FinishOK'
           /\ WasRecord' = WasRecord /\ WasRows' = WasRows /\ WasFiles' = WasFiles
           /\ WasTemps' = WasTemps /\ WasBackups' = WasBackups
  <1>1. /\ WasRecord' = WasRecord /\ WasRows' = WasRows /\ WasFiles' = WasFiles
        /\ WasTemps' = WasTemps /\ WasBackups' = WasBackups
    BY SameBefore
  <1>2. Remembers'
    BY <1>1 DEF IInv, Remembers, Older
  <1>3. Forward' \/ Undoing' \/ Finishing' \/ pc' = "idle" => AddOK' /\ PcOK'
    BY DEF AddOK, PcOK, Adding, Creating, Forward, Undoing, Finishing
  <1>4. Forward' \/ Undoing' \/ pc' = "idle" => FinishOK'
    BY DEF FinishOK, Forward, Undoing, Finishing
  <1> QED
    BY <1>1, <1>2, <1>3, <1>4

\* The edit fails where nothing is half done.
LEMMA EditFails ==
    ASSUME IInv, pc \in {"stage", "upsert", "backup", "remove"}, Fault, FailEdit,
           UNCHANGED <<record, rows, files, temps, backups, input, old, done, staged, committed, command, before, good>>
    PROVE  IInv'
  <1>1. /\ record' = record /\ rows' = rows /\ files' = files /\ temps' = temps /\ backups' = backups /\ input' = input
        /\ old' = old /\ done' = done /\ staged' = staged /\ committed' = committed /\ command' = command
        /\ before' = before /\ good' = good
    OBVIOUS
  <1>2. /\ (pc' = "cleanup" /\ committed = <<>>) \/ (pc' = "restore" /\ committed # <<>>)
        /\ todo' = {} /\ failed' = TRUE
    BY <1>1 DEF FailEdit, Goto
  <1>3. faults' \in 0..MaxFaults /\ lately' \in 0..faults' /\ lately' >= 1
    BY Faults DEF IInv
  <1>4. Forward /\ Undoing' /\ ~Forward'
    BY <1>2 DEF Forward, Undoing
  <1>5. InputNames' = InputNames /\ CommittedNames' = CommittedNames
    BY <1>1, SameInput, SameCommitted
  <1>6. TypeOK'
    BY <1>1, <1>2, <1>3 DEF IInv, TypeOK
  <1>7. OnceOnly' /\ RowsHaveRecord'
    BY <1>1, <1>2, <1>4 DEF IInv, OnceOnly, Older, RowsHaveRecord, Forward
  <1>8. Stages'
    BY <1>1, <1>2, <1>3, <1>4, <1>5 DEF IInv, Stages, Finishing
  <1>9. RowsOK' /\ TempsOK'
    BY <1>1, <1>2, <1>4, EditFrame DEF IInv, RowsOK, TempsOK, Touched, Forward
  <1>10. FilesOK'
    <2>1. pc # "commit" /\ pc' # "commit" /\ lately <= 1
      BY <1>2, <1>4 DEF IInv, Stages
    <2>2. \A n \in Names \ CommittedNames : files[n] = WasFiles[n] /\ backups[n] = WasBackups[n]
      BY <1>4, <2>1 DEF IInv, FilesOK
    <2>3. \A i \in DOMAIN committed : LET c == committed[i] IN
              /\ c.backup = WasFiles[c.name] /\ c.name \in InputNames
              /\ backups[c.name] = WasBackups[c.name] \cup ({c.backup} \ {None})
              /\ files[c.name] = command
              /\ \A j \in DOMAIN committed : committed[j].name = c.name => j = i
      BY <1>4, <2>1 DEF IInv, FilesOK
    <2>4. WasFiles' = WasFiles /\ WasBackups' = WasBackups
      BY <1>1, SameBefore
    <2> QED
      BY <1>1, <1>5, <2>1, <2>2, <2>3, <2>4 DEF FilesOK
  <1>11. NothingIsLost'
    BY <1>1 DEF IInv, NothingIsLost
  <1> QED
    BY <1>1, <1>2, <1>4, <1>6, <1>7, <1>8, <1>9, <1>10, <1>11, EditFrame, Unended DEF IInv

LEMMA UpdateStep ==
    ASSUME IInv, UpdateRecord
    PROVE  IInv'
  <1>1. /\ pc = "update" /\ Forward /\ committed = <<>> /\ staged = {} /\ Touched = {} /\ done.deleted = {}
        /\ Everything = before /\ ~failed /\ lately = 0 /\ record # None
    BY DEF UpdateRecord, IInv, Stages, Forward, RowsHaveRecord, Touched
  <1>2. /\ rows' = rows /\ files' = files /\ temps' = temps /\ backups' = backups /\ input' = input
        /\ old' = old /\ done' = done /\ staged' = staged /\ committed' = committed /\ command' = command
        /\ before' = before /\ good' = good
    BY DEF UpdateRecord
  <1>3. /\ InputNames' = InputNames /\ CommittedNames' = CommittedNames /\ CommittedNames = {} /\ old.rows = WasRows
        /\ rows = WasRows /\ files = WasFiles /\ temps = WasTemps /\ backups = WasBackups /\ InputNames \subseteq Names
    BY <1>1, <1>2, SameInput, SameCommitted
       DEF CommittedNames, Everything, store, WasRows, WasFiles, WasTemps, WasBackups, IInv, Remembers, InputNames
  <1>4. CASE /\ record' = [text |-> command, upd |-> command] /\ failed' = failed /\ NoFault
             /\ LoopOver("stage", InputNames, "remove", Present(old.rows) \ InputNames)
    <2>1. \/ pc' = "stage" /\ InputNames # {} /\ todo' = InputNames
          \/ pc' = "remove" /\ InputNames = {} /\ todo' = Present(old.rows) \ InputNames
      BY <1>4 DEF LoopOver, Goto
    <2>2. /\ faults' \in 0..MaxFaults /\ lately' \in 0..faults' /\ lately' = 0
          /\ record' # None /\ record'.text = command
      BY <1>1, <1>4, Faults, Distinct, Numbers DEF IInv
    <2>3. Forward' /\ ~Undoing' /\ ~Finishing'
      BY <2>1 DEF Forward, Undoing, Finishing
    <2>4. TypeOK'
      BY <1>2, <1>3, <1>4, <2>1, <2>2, Numbers DEF IInv, TypeOK, Present
    <2>5. OnceOnly' /\ RowsHaveRecord'
      BY <1>1, <1>2, <2>2, <2>1 DEF IInv, OnceOnly, Older, RowsHaveRecord
    <2>6. Stages'
      BY <1>1, <1>2, <1>3, <1>4, <2>1, <2>2, <2>3, EditFrame DEF Stages, Touched
    <2>7. RowsOK' /\ TempsOK'
      BY <1>1, <1>2, <1>3, <2>1, EditFrame DEF IInv, Stages, RowsOK, TempsOK, Touched
    <2>8. FilesOK'
      BY <1>1, <1>2, <1>3, EditFrame DEF FilesOK
    <2>9. NothingIsLost'
      BY <1>2 DEF IInv, NothingIsLost
    <2> QED
      BY <1>1, <1>2, <2>1, <2>3, <2>4, <2>5, <2>6, <2>7, <2>8, <2>9, EditFrame, Unended DEF IInv
  <1>5. CASE Fault /\ failed' = TRUE /\ Goto("idle", {}) /\ record' = record
    <2>1. pc' = "idle" /\ todo' = {} /\ ~Forward' /\ ~Undoing' /\ ~Finishing' /\ ~Adding' /\ ~Creating'
      BY <1>5 DEF Goto, Forward, Undoing, Finishing, Adding, Creating
    <2>2. TypeOK'
      BY <1>2, <1>5, <2>1, Faults DEF IInv, TypeOK
    <2>3. OnceOnly' /\ RowsHaveRecord' /\ NothingIsLost' /\ SuccessIsExact'
      BY <1>1, <1>2, <1>5, <2>1 DEF IInv, OnceOnly, Older, RowsHaveRecord, NothingIsLost, SuccessIsExact, Ended
    <2>4. FailedCommandIsUndone'
      BY <1>1, <1>2, <1>5 DEF FailedCommandIsUndone, Everything, store
    <2> QED
      BY <1>1, <1>2, <2>1, <2>2, <2>3, <2>4, EditFrame, AddFrame DEF IInv
  <1> QED
    BY <1>1, <1>4, <1>5 DEF UpdateRecord

LEMMA StageStep ==
    ASSUME IInv, stageEditInputFiles
    PROVE  IInv'
  <1> DEFINE n == First(todo)
  <1>1. /\ pc = "stage" /\ Forward /\ committed = <<>> /\ Touched = {} /\ ~failed /\ lately = 0
        /\ staged \subseteq InputNames /\ todo # {} /\ todo \subseteq InputNames /\ record # None /\ record.text = command
        /\ n \in todo /\ n \in InputNames /\ n \in Names /\ input[n] = command /\ Rest \subseteq todo
    BY RestLemma, Numbers DEF stageEditInputFiles, IInv, Stages, Forward, RowsHaveRecord, InputNames
  <1>2. /\ record' = record /\ rows' = rows /\ files' = files /\ backups' = backups /\ input' = input
        /\ old' = old /\ done' = done /\ command' = command /\ before' = before /\ good' = good
    BY DEF stageEditInputFiles, store
  <1>3. InputNames' = InputNames /\ Touched' = Touched
    BY <1>2, SameInput DEF Touched
  <1>4. CASE /\ temps' = [temps EXCEPT ![n] = @ \cup {command}] /\ staged' = staged \cup {n}
             /\ Advance("upsert", InputNames) /\ failed' = failed /\ committed' = committed /\ NoFault
    <2>1. /\ (pc' = "stage" /\ todo' = Rest /\ Rest # {}) \/ (pc' = "upsert" /\ todo' = InputNames)
      BY <1>1, <1>4 DEF Advance, Goto
    <2>2. Forward' /\ ~Undoing' /\ ~Finishing' /\ CommittedNames' = CommittedNames
      BY <1>4, <2>1, SameCommitted DEF Forward, Undoing, Finishing
    <2>3. faults' \in 0..MaxFaults /\ lately' \in 0..faults' /\ lately' = 0
      BY <1>1, <1>4, Faults DEF IInv
    <2>4. TypeOK'
      <3>1. temps' \in [Names -> SUBSET (0..command)] /\ todo' \cup staged' \subseteq Names
        BY <1>1, <1>4, <2>1, Numbers DEF IInv, TypeOK, InputNames
      <3> QED
        BY <1>2, <1>4, <2>3, <3>1 DEF IInv, TypeOK
    <2>5. OnceOnly' /\ RowsHaveRecord'
      BY <1>1, <1>2, <2>1 DEF IInv, OnceOnly, Older, RowsHaveRecord
    <2>6. Stages'
      BY <1>1, <1>2, <1>3, <1>4, <2>1, <2>2, <2>3 DEF Stages, Touched
    <2>7. RowsOK'
      BY <1>1, <1>2, <1>3, <2>1, EditFrame DEF IInv, RowsOK
    <2>8. TempsOK'
      BY <1>1, <1>2, <1>4, <2>1, EditFrame DEF IInv, TypeOK, TempsOK
    <2>9. FilesOK'
      BY <1>1, <1>2, <1>4, <2>2, <2>3, EditFrame DEF IInv, FilesOK
    <2>10. NothingIsLost'
      BY <1>2 DEF IInv, NothingIsLost
    <2> QED
      BY <1>1, <1>2, <2>1, <2>2, <2>4, <2>5, <2>6, <2>7, <2>8, <2>9, <2>10, EditFrame, Unended DEF IInv
  <1>5. CASE Fault /\ UNCHANGED <<temps, staged, committed>> /\ FailEdit
    BY <1>1, <1>2, <1>5, EditFails
  <1> QED
    BY <1>1, <1>4, <1>5 DEF stageEditInputFiles

LEMMA UpsertStep ==
    ASSUME IInv, upsertEditRows
    PROVE  IInv'
  <1> DEFINE n == First(todo)
  <1>1. /\ pc = "upsert" /\ Forward /\ committed = <<>> /\ ~failed /\ lately = 0
        /\ InputNames \ todo \subseteq Touched /\ done.deleted = {}
        /\ staged \subseteq InputNames /\ todo # {} /\ todo \subseteq InputNames /\ record # None /\ record.text = command
        /\ n \in todo /\ n \in InputNames /\ n \in Names /\ input[n] = command /\ todo = Rest \cup {n}
    BY RestLemma, Numbers DEF upsertEditRows, IInv, Stages, Forward, RowsHaveRecord, InputNames
  <1>2. /\ record' = record /\ temps' = temps /\ files' = files /\ backups' = backups /\ input' = input
        /\ old' = old /\ staged' = staged /\ command' = command /\ before' = before /\ good' = good
    BY DEF upsertEditRows
  <1>3. InputNames' = InputNames
    BY <1>2, SameInput
  <1>4. CASE /\ rows' = [rows EXCEPT ![n] = RowOf(n, command)]
             /\ done' = IF old.rows[n] = None THEN [done EXCEPT !.created = @ \cup {n}]
                        ELSE [done EXCEPT !.updated = @ \cup {n}]
             /\ Advance("backup", InputNames) /\ failed' = failed /\ committed' = committed /\ NoFault
    <2>1. (pc' = "upsert" /\ todo' = Rest /\ Rest # {}) \/ (pc' = "backup" /\ todo' = InputNames /\ Rest = {})
      BY <1>1, <1>4 DEF Advance, Goto
    <2>2. Forward' /\ ~Undoing' /\ ~Finishing' /\ CommittedNames' = {} /\ CommittedNames = {}
      BY <1>1, <1>4, <2>1, SameCommitted DEF Forward, Undoing, Finishing, CommittedNames
    <2>3. faults' \in 0..MaxFaults /\ lately' \in 0..faults' /\ lately' = 0
      BY <1>1, <1>4, Faults DEF IInv
    <2>4. /\ done' \in [created : SUBSET Names, updated : SUBSET Names, deleted : SUBSET Names]
          /\ Touched' = Touched \cup {n} /\ done'.deleted = {}
      BY <1>1, <1>4 DEF IInv, TypeOK, Touched
    <2>5. RowOf(n, command) # None /\ RowOf(n, command) \in [hash : (0..command) \cup {None}]
          /\ (RowOf(n, command).hash = None <=> n \notin DataFiles)
      BY Distinct, Numbers DEF IInv, RowOf
    <2>6. TypeOK'
      <3>1. rows' \in [Names -> {None} \cup [hash : (0..command) \cup {None}]]
        BY <1>4, <2>5 DEF IInv, TypeOK
      <3>2. \A m \in Names : rows'[m] # None => (rows'[m].hash = None <=> m \notin DataFiles)
        BY <1>4, <2>5 DEF IInv, TypeOK
      <3>3. todo' \subseteq Names
        BY <1>1, <2>1, RestLemma DEF InputNames, IInv
      <3> QED
        BY <1>2, <1>4, <2>3, <2>4, <3>1, <3>2, <3>3 DEF IInv, TypeOK
    <2>7. OnceOnly' /\ RowsHaveRecord'
      BY <1>1, <1>2, <2>1 DEF IInv, OnceOnly, Older, RowsHaveRecord
    <2>8. Stages'
      BY <1>1, <1>2, <1>3, <1>4, <2>1, <2>2, <2>3, <2>4 DEF Stages
    <2>9. RowsOK'
      <3>1. \A m \in Names : rows'[m] = IF m \notin Touched' THEN WasRows[m]
                                        ELSE IF input[m] = None THEN None ELSE RowOf(m, command)
        BY <1>1, <1>4, <2>4, Numbers DEF IInv, TypeOK, RowsOK
      <3> QED
        BY <1>1, <1>2, <2>1, <3>1, SameBefore DEF RowsOK
    <2>10. TempsOK'
      BY <1>1, <1>2, <2>1, EditFrame DEF IInv, TempsOK
    <2>11. FilesOK'
      BY <1>1, <1>2, <1>4, <2>2, <2>3, EditFrame DEF IInv, FilesOK
    <2>12. NothingIsLost'
      BY <1>2 DEF IInv, NothingIsLost
    <2> QED
      BY <1>1, <1>2, <2>1, <2>2, <2>6, <2>7, <2>8, <2>9, <2>10, <2>11, <2>12, EditFrame, Unended DEF IInv
  <1>5. CASE Fault /\ UNCHANGED <<rows, done, committed>> /\ FailEdit
    BY <1>1, <1>2, <1>5, EditFails
  <1> QED
    BY <1>1, <1>4, <1>5 DEF upsertEditRows

LEMMA BackupStep ==
    ASSUME IInv, backupExistingFileForEdit
    PROVE  IInv'
  <1> DEFINE n == First(todo)
             c == [name |-> n, backup |-> files[n]]
  <1>1. /\ pc = "backup" /\ Forward /\ ~failed /\ lately = 0
        /\ InputNames \subseteq Touched /\ done.deleted = {}
        /\ InputNames \ todo \subseteq CommittedNames /\ CommittedNames \cap todo = {}
        /\ staged \subseteq InputNames /\ todo # {} /\ todo \subseteq InputNames /\ record # None /\ record.text = command
        /\ n \in todo /\ n \in InputNames /\ n \in Names /\ Rest \subseteq todo /\ n \notin Rest /\ todo = Rest \cup {n}
    BY RestLemma DEF backupExistingFileForEdit, IInv, Stages, Forward, RowsHaveRecord, InputNames
  <1>2. /\ record' = record /\ rows' = rows /\ temps' = temps /\ input' = input
        /\ old' = old /\ done' = done /\ staged' = staged /\ command' = command /\ before' = before /\ good' = good
    BY DEF backupExistingFileForEdit
  <1>3. InputNames' = InputNames /\ Touched' = Touched
    BY <1>2, SameInput DEF Touched
  <1>4. CASE /\ files' = [files EXCEPT ![n] = None]
             /\ backups' = [backups EXCEPT ![n] = IF files[n] = None THEN @ ELSE @ \cup {files[n]}]
             /\ committed' = Append(committed, c)
             /\ pc' = "commit" /\ UNCHANGED <<todo, failed>> /\ NoFault
    <2>1. /\ files[n] = WasFiles[n] /\ backups[n] = WasBackups[n] /\ n \notin CommittedNames
          /\ files[n] \in Older \cup {None}
      BY <1>1 DEF IInv, FilesOK, Remembers
    <2>2. /\ committed \in Seq(Committed) /\ c \in Committed
      BY <1>1, <2>1, Numbers DEF IInv, TypeOK, Committed
    <2>3. /\ committed' \in Seq(Committed) /\ committed' # <<>>
          /\ DOMAIN committed' = (DOMAIN committed) \cup {Len(committed) + 1} /\ Len(committed') = Len(committed) + 1
          /\ \A i \in DOMAIN committed : committed'[i] = committed[i] /\ i # Len(committed) + 1
          /\ committed'[Len(committed) + 1] = c
      BY <1>4, <2>2, Push
    <2>4. CommittedNames' = CommittedNames \cup {n}
      BY <2>3 DEF CommittedNames
    <2> HIDE DEF c
    <2>5. c.name = n /\ c.backup = files[n]
      BY DEF c
    <2>6. faults' \in 0..MaxFaults /\ lately' \in 0..faults' /\ lately' = 0
      BY <1>1, <1>4, Faults DEF IInv
    <2>7. Forward' /\ ~Undoing' /\ ~Finishing' /\ Rest' = Rest
      BY <1>4 DEF Forward, Undoing, Finishing, Rest
    <2>8. \A m \in Names : /\ m # n => files'[m] = files[m] /\ backups'[m] = backups[m]
                           /\ files'[n] = None /\ backups'[n] = WasBackups[n] \cup ({files[n]} \ {None})
      <3>1. None \notin WasBackups[n]
        BY <1>1, Numbers DEF IInv, Remembers
      <3> QED
        BY <1>1, <1>4, <2>1, <3>1 DEF IInv, TypeOK
    <2>9. TypeOK'
      <3>1. files' \in [Names -> (0..command) \cup {None}]
        BY <1>4 DEF IInv, TypeOK
      <3>2. backups' \in [Names -> SUBSET (0..command)]
        BY <1>4, <2>1, Numbers DEF IInv, TypeOK
      <3> QED
        BY <1>2, <1>4, <2>3, <2>6, <3>1, <3>2 DEF IInv, TypeOK, Committed
    <2>10. OnceOnly'
      BY <1>1, <1>2, <1>4, <2>1, <2>7, <2>8, Numbers DEF IInv, OnceOnly, Older, Forward, Adding, Creating
    <2>11. RowsHaveRecord'
      BY <1>1, <1>2, <2>7 DEF RowsHaveRecord
    <2>12. Stages'
      BY <1>1, <1>2, <1>3, <1>4, <2>3, <2>4, <2>5, <2>6, <2>7 DEF Stages
    <2>13. RowsOK' /\ TempsOK'
      BY <1>1, <1>2, <1>3, <1>4, <2>7, EditFrame DEF IInv, RowsOK, TempsOK
    <2>14. FilesOK'
      <3>1. \A m \in Names \ CommittedNames' : files'[m] = WasFiles[m] /\ backups'[m] = WasBackups[m]
        BY <1>1, <2>4, <2>8 DEF IInv, FilesOK
      <3>2. ASSUME NEW i \in DOMAIN committed
            PROVE  LET d == committed[i] IN
                   /\ d.backup = WasFiles[d.name] /\ d.name \in InputNames /\ d.name # n
                   /\ backups'[d.name] = WasBackups[d.name] \cup ({d.backup} \ {None})
                   /\ files'[d.name] = command
                   /\ \A j \in DOMAIN committed : committed[j].name = d.name => j = i
        BY <1>1, <2>1, <2>8 DEF IInv, FilesOK, CommittedNames, InputNames
      <3>3. ASSUME NEW i \in DOMAIN committed'
            PROVE  LET d == committed'[i] IN
                   /\ d.backup = WasFiles[d.name] /\ d.name \in InputNames
                   /\ backups'[d.name] = WasBackups[d.name] \cup ({d.backup} \ {None})
                   /\ files'[d.name] = IF i = Len(committed') THEN None ELSE command
                   /\ \A j \in DOMAIN committed' : committed'[j].name = d.name => j = i
        <4>1. CASE i = Len(committed) + 1
          <5>1. committed'[i].name = n /\ committed'[i].backup = files[n] /\ i = Len(committed')
            BY <2>3, <2>5, <4>1
          <5>2. \A j \in DOMAIN committed' : committed'[j].name = n => j = i
            BY <2>1, <2>3, <4>1, <3>2
          <5> QED
            BY <1>1, <2>1, <2>8, <5>1, <5>2
        <4>2. CASE i \in DOMAIN committed
          <5>1. committed'[i] = committed[i] /\ i # Len(committed')
            BY <2>3, <4>2
          <5>2. \A j \in DOMAIN committed' : committed'[j].name = committed[i].name => j = i
            BY <2>3, <2>5, <4>2, <3>2
          <5> QED
            BY <3>2, <4>2, <5>1, <5>2
        <4> QED
          BY <2>3, <4>1, <4>2
      <3>4. pc' = "commit" /\ WasFiles' = WasFiles /\ WasBackups' = WasBackups /\ command' = command
        BY <1>2, <1>4, SameBefore
      <3> QED
        BY <1>3, <3>1, <3>3, <3>4 DEF FilesOK
    <2>15. NothingIsLost'
      BY <1>1, <1>2, <1>4 DEF IInv, TypeOK, NothingIsLost
    <2> QED
      BY <1>1, <1>2, <1>4, <2>7, <2>9, <2>10, <2>11, <2>12, <2>13, <2>14, <2>15, EditFrame, Unended DEF IInv
  <1>5. CASE Fault /\ UNCHANGED <<files, backups, committed>> /\ FailEdit
    BY <1>1, <1>2, <1>5, EditFails
  <1> QED
    BY <1>1, <1>4, <1>5 DEF backupExistingFileForEdit

\* The last of the committed files, and the others.
LEMMA LastCommitted ==
    ASSUME IInv, pc \in {"commit", "restore"}, NEW c, c = Last(committed)
    PROVE  /\ c.name \in InputNames /\ c.name \in Names /\ c.backup = WasFiles[c.name]
           /\ c.backup \in Older \cup {None}
           /\ backups[c.name] = WasBackups[c.name] \cup ({c.backup} \ {None})
           /\ files[c.name] = IF pc = "commit" THEN None ELSE command
           /\ Front(committed) \in Seq(Committed) /\ (Len(committed) = 1 <=> Front(committed) = <<>>)
           /\ {Front(committed)[i].name : i \in DOMAIN Front(committed)} = CommittedNames \ {c.name}
           /\ \A i \in DOMAIN Front(committed) : LET d == Front(committed)[i] IN
                 /\ d.backup = WasFiles[d.name] /\ d.name \in InputNames /\ d.name # c.name
                 /\ backups[d.name] = WasBackups[d.name] \cup ({d.backup} \ {None})
                 /\ files[d.name] = command
                 /\ \A j \in DOMAIN Front(committed) : Front(committed)[j].name = d.name => j = i
  <1> DEFINE front == Front(committed)
             k == Len(committed)
  <1>1. committed \in Seq(Committed) /\ committed # <<>>
    BY DEF IInv, TypeOK, Committed, Stages
  <1>2. /\ front \in Seq(Committed) /\ k \in DOMAIN committed /\ DOMAIN front = (DOMAIN committed) \ {k}
        /\ (k = 1 <=> front = <<>>) /\ c = committed[k]
        /\ \A i \in DOMAIN front : front[i] = committed[i]
    BY <1>1, Pop
  <1> HIDE DEF front, k
  <1>3. ASSUME NEW i \in DOMAIN committed
        PROVE  LET d == committed[i] IN
               /\ d.backup = WasFiles[d.name] /\ d.name \in InputNames
               /\ backups[d.name] = WasBackups[d.name] \cup ({d.backup} \ {None})
               /\ files[d.name] = IF pc = "commit" /\ i = k THEN None ELSE command
               /\ \A j \in DOMAIN committed : committed[j].name = d.name => j = i
    BY DEF IInv, FilesOK, Forward, Undoing, k
  <1>4. /\ c.name \in InputNames /\ c.name \in Names /\ c.backup = WasFiles[c.name]
        /\ backups[c.name] = WasBackups[c.name] \cup ({c.backup} \ {None})
        /\ files[c.name] = IF pc = "commit" THEN None ELSE command
    BY <1>2, <1>3 DEF InputNames
  <1>5. c.backup \in Older \cup {None}
    BY <1>4 DEF IInv, Remembers, Forward, Undoing
  <1>6. ASSUME NEW i \in DOMAIN front
        PROVE  LET d == front[i] IN
               /\ d.backup = WasFiles[d.name] /\ d.name \in InputNames /\ d.name # c.name
               /\ backups[d.name] = WasBackups[d.name] \cup ({d.backup} \ {None})
               /\ files[d.name] = command
               /\ \A j \in DOMAIN front : front[j].name = d.name => j = i
    <2>1. front[i] = committed[i] /\ i \in DOMAIN committed /\ i # k
      BY <1>2
    <2> QED
      BY <1>2, <1>3, <2>1
  <1>7. {front[i].name : i \in DOMAIN front} = CommittedNames \ {c.name}
    BY <1>2, <1>6 DEF CommittedNames
  <1> QED
    BY <1>2, <1>4, <1>5, <1>6, <1>7 DEF front, k

LEMMA CommitStep ==
    ASSUME IInv, commitStagedFiles
    PROVE  IInv'
  <1> DEFINE n == First(todo)
             c == Last(committed)
             front == Front(committed)
  <1>1. /\ pc = "commit" /\ Forward /\ ~failed /\ lately = 0 /\ committed # <<>>
        /\ InputNames \subseteq Touched /\ done.deleted = {}
        /\ InputNames \ Rest \subseteq CommittedNames /\ CommittedNames \cap Rest = {}
        /\ staged \subseteq InputNames /\ todo # {} /\ todo \subseteq InputNames /\ record # None /\ record.text = command
        /\ n \in todo /\ n \in InputNames /\ n \in Names /\ input[n] = command /\ Rest \subseteq todo /\ n \notin Rest
        /\ c.name = n
    BY RestLemma, Numbers DEF commitStagedFiles, IInv, Stages, Forward, RowsHaveRecord, InputNames, Last
  <1>2. /\ record' = record /\ rows' = rows /\ input' = input
        /\ old' = old /\ done' = done /\ staged' = staged /\ command' = command /\ before' = before /\ good' = good
    BY DEF commitStagedFiles
  <1>3. InputNames' = InputNames /\ Touched' = Touched
    BY <1>2, SameInput DEF Touched
  <1>4. /\ c.backup = WasFiles[n] /\ c.backup \in Older \cup {None} /\ files[n] = None
        /\ backups[n] = WasBackups[n] \cup ({c.backup} \ {None})
        /\ front \in Seq(Committed)
        /\ {front[i].name : i \in DOMAIN front} = CommittedNames \ {n}
    BY <1>1, LastCommitted
  <1>5. ASSUME NEW i \in DOMAIN front
        PROVE  LET d == front[i] IN
               /\ d.backup = WasFiles[d.name] /\ d.name \in InputNames /\ d.name # n
               /\ backups[d.name] = WasBackups[d.name] \cup ({d.backup} \ {None})
               /\ files[d.name] = command
               /\ \A j \in DOMAIN front : front[j].name = d.name => j = i
    BY <1>1, LastCommitted
  <1>6. \A m \in Names : m \notin CommittedNames => files[m] = WasFiles[m] /\ backups[m] = WasBackups[m]
    BY <1>1 DEF IInv, FilesOK
  <1> HIDE DEF c, front
  <1>7. CASE /\ files' = [files EXCEPT ![n] = command] /\ temps' = [temps EXCEPT ![n] = @ \ {command}]
             /\ IF Rest # {} THEN Goto("backup", Rest) ELSE Goto("remove", Present(old.rows) \ InputNames)
             /\ UNCHANGED <<backups, committed, failed>> /\ NoFault
    <2>1. \/ pc' = "backup" /\ todo' = Rest /\ Rest # {}
          \/ pc' = "remove" /\ todo' = Present(WasRows) \ InputNames /\ Rest = {}
      BY <1>1, <1>7 DEF Goto, IInv, Remembers
    <2>2. Forward' /\ ~Undoing' /\ ~Finishing' /\ CommittedNames' = CommittedNames /\ pc' # "commit"
      BY <1>7, <2>1, SameCommitted DEF Forward, Undoing, Finishing
    <2>3. faults' \in 0..MaxFaults /\ lately' \in 0..faults' /\ lately' = 0
      BY <1>1, <1>7, Faults DEF IInv
    <2>4. TypeOK'
      <3>1. files' \in [Names -> (0..command) \cup {None}]
        BY <1>7, Numbers DEF IInv, TypeOK
      <3>2. temps' \in [Names -> SUBSET (0..command)]
        BY <1>7, Numbers DEF IInv, TypeOK
      <3>3. todo' \subseteq Names
        BY <1>1, <2>1 DEF InputNames, Present
      <3> QED
        BY <1>2, <1>7, <2>3, <3>1, <3>2, <3>3 DEF IInv, TypeOK
    <2>5. OnceOnly'
      <3>1. \A m \in Names : backups'[m] \subseteq Older /\ (good[m] \in Older \cup {None})
        BY <1>1, <1>7 DEF IInv, OnceOnly
      <3>2. \A m \in Names : files'[m] # None => files'[m] \notin backups'[m]
        BY <1>7, <3>1, Numbers DEF IInv, TypeOK, OnceOnly
      <3> QED
        BY <1>2, <3>1, <3>2 DEF OnceOnly, Older
    <2>6. RowsHaveRecord'
      BY <1>1, <1>2, <2>2 DEF RowsHaveRecord
    <2>7. Stages'
      BY <1>1, <1>2, <1>3, <1>7, <2>1, <2>2, <2>3, EditFrame DEF Stages
    <2>8. RowsOK'
      BY <1>1, <1>2, <1>3, <2>1, EditFrame DEF IInv, RowsOK
    <2>9. TempsOK'
      <3>1. \A m \in Names : /\ temps'[m] \ {command} = WasTemps[m]
                             /\ m \notin staged => temps'[m] = WasTemps[m]
        BY <1>1, <1>7 DEF IInv, TypeOK, TempsOK
      <3> QED
        BY <1>1, <1>2, <2>1, <3>1, SameBefore DEF TempsOK
    <2>10. FilesOK'
      <3>1. \A m \in Names : m # n => files'[m] = files[m]
        BY <1>7 DEF IInv, TypeOK
      <3>2. files'[n] = command
        BY <1>1, <1>7 DEF IInv, TypeOK
      <3>3. \A m \in Names \ CommittedNames : files'[m] = WasFiles[m] /\ backups'[m] = WasBackups[m]
        BY <1>1, <1>6, <1>7, <3>1 DEF Last
      <3>4. ASSUME NEW i \in DOMAIN committed
            PROVE  LET d == committed[i] IN
                   /\ d.backup = WasFiles[d.name] /\ d.name \in InputNames
                   /\ backups'[d.name] = WasBackups[d.name] \cup ({d.backup} \ {None})
                   /\ files'[d.name] = command
                   /\ \A j \in DOMAIN committed : committed[j].name = d.name => j = i
        <4>1. LET d == committed[i] IN
              /\ d.backup = WasFiles[d.name] /\ d.name \in InputNames
              /\ backups[d.name] = WasBackups[d.name] \cup ({d.backup} \ {None})
              /\ files[d.name] = IF i = Len(committed) THEN None ELSE command
              /\ \A j \in DOMAIN committed : committed[j].name = d.name => j = i
          BY <1>1 DEF IInv, FilesOK
        <4>2. i = Len(committed) => committed[i].name = n
          BY <1>1 DEF c, Last
        <4> QED
          BY <1>7, <3>1, <3>2, <4>1, <4>2 DEF InputNames
      <3> QED
        BY <1>2, <1>3, <1>7, <2>2, <3>3, <3>4, SameBefore DEF FilesOK
    <2>11. NothingIsLost'
      BY <1>2, <1>4, <1>7 DEF IInv, TypeOK, NothingIsLost
    <2> QED
      BY <1>1, <1>2, <2>1, <2>2, <2>4, <2>5, <2>6, <2>7, <2>8, <2>9, <2>10, <2>11, EditFrame, Unended DEF IInv
  <1>8. ASSUME faults' \in 0..MaxFaults, lately' \in 0..faults',
               \/ lately' = 1 /\ files' = Back(c).files /\ backups' = Back(c).backups
               \/ lately' = 2 /\ files' = files /\ backups' = backups,
               temps' = temps, committed' = front, FailEdit
        PROVE  IInv'
    <2>1. /\ (pc' = "cleanup" /\ front = <<>>) \/ (pc' = "restore" /\ front # <<>>)
          /\ todo' = {} /\ failed' = TRUE
      BY <1>8 DEF FailEdit, Goto
    <2>2. /\ Undoing' /\ ~Forward' /\ ~Finishing' /\ CommittedNames' = CommittedNames \ {n} /\ pc' # "commit"
          /\ lately' >= 1
      <3>1. CommittedNames' = {front[i].name : i \in DOMAIN front}
        BY <1>8 DEF CommittedNames
      <3>2. lately' >= 1
        BY <1>8
      <3> QED
        BY <1>4, <2>1, <3>1, <3>2 DEF Forward, Undoing, Finishing
    <2>3. \/ lately' = 1 /\ files'[n] = WasFiles[n] /\ backups'[n] = WasBackups[n]
          \/ lately' = 2 /\ files'[n] = None /\ backups'[n] = backups[n]
      <3>1. WasFiles[n] \notin WasBackups[n] /\ None \notin WasBackups[n]
        BY <1>1, Numbers DEF IInv, Remembers
      <3>2. CASE lately' = 1 /\ files' = Back(c).files /\ backups' = Back(c).backups
        <4>1. files'[n] = WasFiles[n]
          BY <1>1, <1>4, <3>2 DEF Back, IInv, TypeOK
        <4>2. backups'[n] = backups[n] \ {c.backup}
          BY <1>1, <3>2 DEF Back, IInv, TypeOK
        <4> QED
          BY <1>4, <3>1, <3>2, <4>1, <4>2
      <3> QED
        BY <1>4, <1>8, <3>2
    <2>4. \A m \in Names : m # n => files'[m] = files[m] /\ backups'[m] = backups[m]
      BY <1>1, <1>8 DEF Back, IInv, TypeOK
    <2>5. TypeOK'
      <3>1. files' \in [Names -> (0..command) \cup {None}]
        BY <1>1, <1>4, <1>8, Numbers DEF Back, IInv, TypeOK
      <3>2. backups' \in [Names -> SUBSET (0..command)]
        BY <1>1, <1>8 DEF Back, IInv, TypeOK
      <3> QED
        BY <1>2, <1>4, <1>8, <2>1, <3>1, <3>2 DEF IInv, TypeOK, Committed
    <2>6. OnceOnly'
      <3>1. \A m \in Names : backups'[m] \subseteq Older /\ (good[m] \in Older \cup {None})
        BY <1>1, <1>4, <2>3, <2>4 DEF IInv, OnceOnly
      <3>2. WasFiles[n] # None => WasFiles[n] \notin WasBackups[n]
        BY <1>1 DEF IInv, Remembers
      <3>3. \A m \in Names : files'[m] # None => files'[m] \notin backups'[m]
        BY <2>3, <2>4, <3>2 DEF IInv, OnceOnly
      <3> QED
        BY <1>2, <3>1, <3>3 DEF OnceOnly, Older
    <2>7. RowsHaveRecord'
      BY <1>1, <1>2, <2>2 DEF RowsHaveRecord
    <2>8. Stages'
      BY <1>1, <1>2, <1>3, <1>8, <2>1, <2>2 DEF Stages
    <2>9. RowsOK' /\ TempsOK'
      BY <1>1, <1>2, <1>3, <1>8, <2>1, EditFrame DEF IInv, RowsOK, TempsOK
    <2>10. FilesOK'
      <3>1. lately' <= 1 => \A m \in Names \ CommittedNames' : files'[m] = WasFiles[m] /\ backups'[m] = WasBackups[m]
        BY <1>6, <2>2, <2>3, <2>4
      <3>2. ASSUME NEW i \in DOMAIN front
            PROVE  LET d == front[i] IN
                   /\ d.backup = WasFiles[d.name] /\ d.name \in InputNames
                   /\ backups'[d.name] = WasBackups[d.name] \cup ({d.backup} \ {None})
                   /\ files'[d.name] = command
                   /\ \A j \in DOMAIN front : front[j].name = d.name => j = i
        BY <1>5, <2>4 DEF InputNames
      <3> QED
        BY <1>2, <1>3, <1>8, <2>2, <3>1, <3>2, SameBefore DEF FilesOK
    <2>11. NothingIsLost'
      BY <1>2, <1>4, <2>3, <2>4 DEF IInv, NothingIsLost
    <2> QED
      BY <1>1, <1>2, <2>1, <2>2, <2>5, <2>6, <2>7, <2>8, <2>9, <2>10, <2>11, EditFrame, Unended DEF IInv
  <1>9. CASE Fault /\ files' = Back(c).files /\ backups' = Back(c).backups /\ committed' = front /\ FailEdit /\ temps' = temps
    BY <1>1, <1>8, <1>9, Faults DEF IInv
  <1>10. CASE /\ faults + 1 < MaxFaults /\ faults' = faults + 2 /\ lately' = lately + 2
              /\ committed' = front /\ FailEdit /\ files' = files /\ backups' = backups /\ temps' = temps
    <2>1. faults' \in 0..MaxFaults /\ lately' \in 0..faults' /\ lately' = 2
      BY <1>1, <1>10, AssetsAssumption DEF IInv, TypeOK
    <2> QED
      BY <1>8, <1>10, <2>1
  <1> QED
    BY <1>1, <1>7, <1>9, <1>10 DEF commitStagedFiles, c, front

LEMMA RemoveStep ==
    ASSUME IInv, deleteRemovedEditRows
    PROVE  IInv'
  <1> DEFINE n == First(todo)
  <1>1. /\ pc = "remove" /\ Forward /\ ~failed /\ lately = 0
        /\ InputNames \subseteq Touched /\ InputNames \subseteq CommittedNames
        /\ Present(WasRows) \ InputNames \subseteq todo \cup Touched
        /\ todo \cap InputNames = {} /\ done.deleted \cap InputNames = {}
        /\ staged \subseteq InputNames /\ record # None /\ record.text = command
        /\ todo # {} => n \in todo /\ n \in Names /\ n \notin InputNames /\ todo = Rest \cup {n}
    BY RestLemma DEF deleteRemovedEditRows, IInv, Stages, Forward, RowsHaveRecord
  <1>2. /\ record' = record /\ files' = files /\ temps' = temps /\ backups' = backups /\ input' = input
        /\ old' = old /\ staged' = staged /\ command' = command /\ before' = before
    BY DEF deleteRemovedEditRows
  <1>3. InputNames' = InputNames
    BY <1>2, SameInput
  <1>4. \A m \in Names : rows[m] = IF m \notin Touched THEN WasRows[m]
                                   ELSE IF input[m] = None THEN None ELSE RowOf(m, command)
    BY <1>1 DEF IInv, RowsOK
  <1>5. \A m \in InputNames : files[m] = command
    BY <1>1 DEF IInv, FilesOK, CommittedNames
  <1>6. CASE /\ todo = {} /\ Goto("deleteFiles", {})
             /\ good' = [m \in Names |-> IF m \in InputNames THEN files[m] ELSE None]
             /\ UNCHANGED <<rows, done, failed, committed>> /\ NoFault
    <2>1. pc' = "deleteFiles" /\ todo' = {} /\ Finishing' /\ ~Forward' /\ ~Undoing' /\ ~Adding' /\ ~Creating'
      BY <1>6 DEF Goto, Forward, Undoing, Finishing, Adding, Creating
    <2>2. faults' \in 0..MaxFaults /\ lately' \in 0..faults'
      BY <1>6, Faults DEF IInv
    <2>3. TypeOK'
      <3>1. good' \in [Names -> (0..command) \cup {None}]
        BY <1>6 DEF IInv, TypeOK
      <3> QED
        BY <1>2, <1>6, <2>1, <2>2, <3>1 DEF IInv, TypeOK
    <2>4. OnceOnly' /\ RowsHaveRecord'
      BY <1>1, <1>2, <2>1 DEF IInv, OnceOnly, Older, RowsHaveRecord
    <2>5. Stages'
      BY <1>1, <1>3, <1>6, <2>1 DEF Stages
    <2>6. RowsOK' /\ TempsOK' /\ FilesOK'
      BY <2>1 DEF RowsOK, TempsOK, FilesOK
    <2>7. \A m \in Names : rows[m] = IF input[m] = None THEN None ELSE RowOf(m, command)
      BY <1>1, <1>4, <1>6 DEF InputNames, Present
    <2>8. FinishOK' /\ NothingIsLost'
      BY <1>1, <1>2, <1>3, <1>5, <1>6, <2>7 DEF FinishOK, NothingIsLost
    <2> QED
      BY <1>1, <1>2, <2>1, <2>3, <2>4, <2>5, <2>6, <2>8, EditFrame, Unended DEF IInv
  <1>7. CASE /\ todo # {} /\ todo' = Rest /\ UNCHANGED pc
             /\ rows' = [rows EXCEPT ![n] = None]
             /\ done' = [done EXCEPT !.deleted = @ \cup {n}]
             /\ UNCHANGED <<failed, good, committed>> /\ NoFault
    <2>1. pc' = "remove" /\ Forward' /\ ~Undoing' /\ ~Finishing' /\ CommittedNames' = CommittedNames
      BY <1>1, <1>7, SameCommitted DEF Forward, Undoing, Finishing
    <2>2. faults' \in 0..MaxFaults /\ lately' \in 0..faults' /\ lately' = 0
      BY <1>1, <1>7, Faults DEF IInv
    <2>3. /\ done' \in [created : SUBSET Names, updated : SUBSET Names, deleted : SUBSET Names]
          /\ Touched' = Touched \cup {n} /\ done'.deleted \cap InputNames = {}
      BY <1>1, <1>7 DEF IInv, TypeOK, Touched
    <2>4. TypeOK'
      <3>1. rows' \in [Names -> {None} \cup [hash : (0..command) \cup {None}]]
            /\ \A m \in Names : rows'[m] # None => (rows'[m].hash = None <=> m \notin DataFiles)
        BY <1>7 DEF IInv, TypeOK
      <3> QED
        BY <1>1, <1>2, <1>7, <2>2, <2>3, <3>1 DEF IInv, TypeOK
    <2>5. OnceOnly' /\ RowsHaveRecord'
      BY <1>1, <1>2, <1>7, <2>1 DEF IInv, OnceOnly, Older, RowsHaveRecord
    <2>6. Stages'
      BY <1>1, <1>2, <1>3, <1>7, <2>1, <2>2, <2>3, EditFrame DEF Stages
    <2>7. RowsOK'
      <3>1. \A m \in Names : rows'[m] = IF m \notin Touched' THEN WasRows[m]
                                        ELSE IF input[m] = None THEN None ELSE RowOf(m, command)
        BY <1>1, <1>4, <1>7, <2>3 DEF IInv, TypeOK, InputNames
      <3> QED
        BY <1>2, <2>1, <3>1, SameBefore DEF RowsOK
    <2>8. TempsOK'
      BY <1>1, <1>2, <2>1, EditFrame DEF IInv, TempsOK
    <2>9. FilesOK'
      BY <1>1, <1>2, <1>3, <1>7, <2>1, <2>2, EditFrame DEF IInv, FilesOK
    <2>10. NothingIsLost'
      BY <1>2, <1>7 DEF IInv, NothingIsLost
    <2> QED
      BY <1>1, <1>2, <2>1, <2>4, <2>5, <2>6, <2>7, <2>8, <2>9, <2>10, EditFrame, Unended DEF IInv
  <1>8. CASE todo # {} /\ Fault /\ UNCHANGED <<rows, done, good, committed>> /\ FailEdit
    BY <1>1, <1>2, <1>8, EditFails
  <1> QED
    BY <1>1, <1>6, <1>7, <1>8 DEF deleteRemovedEditRows

\* The last steps of a command that succeeds.
LEMMA Finish ==
    ASSUME pc' \in {"idle", "succeed"}, ~failed'
    PROVE  AddOK' /\ PcOK' /\ Remembers' /\ Stages' /\ RowsOK' /\ TempsOK' /\ FilesOK' /\ FailedCommandIsUndone'
  BY DEF AddOK, PcOK, Adding, Creating, Remembers, Stages, RowsOK, TempsOK, FilesOK, Forward, Undoing, Finishing,
         FailedCommandIsUndone

LEMMA DeleteFilesStep ==
    ASSUME IInv, deleteEditFiles
    PROVE  IInv'
  <1>1. /\ pc = "deleteFiles" /\ Finishing /\ ~failed /\ done.deleted \cap InputNames = {} /\ record # None
        /\ record.text = command
    BY DEF deleteEditFiles, IInv, Stages, Finishing, RowsHaveRecord, FinishOK
  <1>2. /\ record' = record /\ rows' = rows /\ temps' = temps /\ backups' = backups /\ input' = input
        /\ old' = old /\ done' = done /\ staged' = staged /\ command' = command /\ before' = before /\ good' = good
        /\ committed' = committed /\ failed' = failed /\ pc' = "succeed" /\ todo' = {}
    BY DEF deleteEditFiles, Goto
  <1>3. /\ files' \in [Names -> (0..command) \cup {None}]
        /\ \A m \in Names : files'[m] = files[m] \/ (files'[m] = None /\ m \notin InputNames)
    BY <1>1 DEF deleteEditFiles, IInv, TypeOK
  <1>4. faults' \in 0..MaxFaults /\ lately' \in 0..faults'
    BY Faults DEF deleteEditFiles, IInv
  <1>5. TypeOK'
    BY <1>2, <1>3, <1>4 DEF IInv, TypeOK
  <1>6. OnceOnly' /\ RowsHaveRecord' /\ FinishOK'
    BY <1>1, <1>2, <1>3, SameInput
       DEF IInv, OnceOnly, Older, RowsHaveRecord, FinishOK, Adding, Creating, Forward, Undoing, InputNames
  <1>7. NothingIsLost'
    <2>1. pc = "deleteFiles" => \A m \in Names : good[m] # None => good[m] \in {files[m]} \cup backups[m]
      BY DEF IInv, NothingIsLost
    <2>2. \A m \in Names : m \notin InputNames => good[m] = None
      BY <1>1 DEF IInv, FinishOK
    <2> QED
      BY <1>1, <1>2, <1>3, <2>1, <2>2 DEF NothingIsLost
  <1> QED
    BY <1>1, <1>2, <1>5, <1>6, <1>7, Finish, Unended DEF IInv

LEMMA FinalizeStep ==
    ASSUME IInv, finalizeCommittedFiles
    PROVE  IInv'
  <1>1. /\ pc = "succeed" /\ Finishing /\ ~failed /\ record # None
    BY DEF finalizeCommittedFiles, IInv, Stages, Finishing, RowsHaveRecord
  <1>2. /\ record' = record /\ rows' = rows /\ files' = files /\ temps' = temps /\ input' = input
        /\ old' = old /\ done' = done /\ staged' = staged /\ command' = command /\ before' = before
        /\ committed' = committed /\ failed' = failed /\ pc' = "idle" /\ todo' = {}
        /\ good' = [m \in Names |-> IF m \in InputNames THEN files[m] ELSE None]
    BY DEF finalizeCommittedFiles, Goto, store
  <1>3. /\ backups' \in [Names -> SUBSET (0..command)]
        /\ \A m \in Names : backups'[m] \subseteq backups[m]
    BY DEF finalizeCommittedFiles, IInv, TypeOK
  <1>4. faults' \in 0..MaxFaults /\ lately' \in 0..faults'
    BY Faults DEF finalizeCommittedFiles, IInv
  <1>5. TypeOK'
    <2>1. good' \in [Names -> (0..command) \cup {None}]
      BY <1>2 DEF IInv, TypeOK
    <2> QED
      BY <1>2, <1>3, <1>4, <2>1 DEF IInv, TypeOK
  <1>6. OnceOnly' /\ RowsHaveRecord' /\ FinishOK'
    BY <1>1, <1>2, <1>3
       DEF IInv, OnceOnly, RowsHaveRecord, FinishOK, Adding, Creating, Forward, Undoing, Finishing
  <1>7. SuccessIsExact'
    BY <1>1, <1>2, Numbers DEF IInv, FinishOK, SuccessIsExact, Ended, InputNames
  <1>8. NothingIsLost'
    BY <1>2 DEF NothingIsLost
  <1> QED
    BY <1>1, <1>2, <1>5, <1>6, <1>7, <1>8, Finish DEF IInv

-----------------------------------------------------------------------------
(* Undoing an edit *)

LEMMA RestoreStep ==
    ASSUME IInv, restoreCommittedFile
    PROVE  IInv'
  <1> DEFINE c == Last(committed)
             n == c.name
             front == Front(committed)
  <1>1. /\ pc = "restore" /\ Undoing /\ failed /\ lately >= 1 /\ staged \subseteq InputNames /\ record # None
    BY DEF restoreCommittedFile, IInv, Stages, Undoing, RowsHaveRecord
  <1>2. /\ record' = record /\ rows' = rows /\ temps' = temps /\ input' = input /\ failed' = failed
        /\ old' = old /\ done' = done /\ staged' = staged /\ command' = command /\ before' = before /\ good' = good
        /\ committed' = front
    BY DEF restoreCommittedFile
  <1>3. InputNames' = InputNames /\ Touched' = Touched
    BY <1>2, SameInput DEF Touched
  <1>4. /\ n \in InputNames /\ n \in Names /\ c.backup = WasFiles[n] /\ c.backup \in Older \cup {None}
        /\ files[n] = command /\ backups[n] = WasBackups[n] \cup ({c.backup} \ {None})
        /\ front \in Seq(Committed) /\ (Len(committed) = 1 <=> front = <<>>)
        /\ {front[i].name : i \in DOMAIN front} = CommittedNames \ {n}
    BY <1>1, LastCommitted
  <1>5. ASSUME NEW i \in DOMAIN front
        PROVE  LET d == front[i] IN
               /\ d.backup = WasFiles[d.name] /\ d.name \in InputNames /\ d.name # n
               /\ backups[d.name] = WasBackups[d.name] \cup ({d.backup} \ {None})
               /\ files[d.name] = command
               /\ \A j \in DOMAIN front : front[j].name = d.name => j = i
    BY <1>1, LastCommitted
  <1>6. /\ (pc' = "cleanup" /\ front = <<>> /\ todo' = {}) \/ (pc' = "restore" /\ front # <<>> /\ todo' = todo)
    BY <1>1, <1>4 DEF restoreCommittedFile, Goto
  <1>7. /\ faults' \in 0..MaxFaults /\ lately' \in 0..faults'
        /\ \/ lately' = lately /\ files' = [files EXCEPT ![n] = c.backup]
              /\ backups' = [backups EXCEPT ![n] = @ \ {c.backup}]
           \/ lately' > 1 /\ c.backup # None /\ files' = [files EXCEPT ![n] = None] /\ backups' = backups
           \/ lately' > 1 /\ c.backup = None /\ files' = files /\ backups' = backups
    BY <1>1, Faults, Numbers DEF restoreCommittedFile, IInv
  <1> HIDE DEF c, front
  <1>8. \A m \in Names : m # n => files'[m] = files[m] /\ backups'[m] = backups[m]
    BY <1>7 DEF IInv, TypeOK
  <1>9. WasFiles[n] # None => WasFiles[n] \notin WasBackups[n]
    BY <1>1, <1>4 DEF IInv, Remembers
  <1>10. \/ lately' = lately /\ files'[n] = WasFiles[n] /\ backups'[n] = WasBackups[n]
         \/ lately' > 1 /\ files'[n] = None /\ backups'[n] = backups[n]
         \/ lately' > 1 /\ files'[n] = files[n] /\ backups'[n] = backups[n]
    <2>1. None \notin WasBackups[n]
      BY <1>1, <1>4, Numbers DEF IInv, Remembers
    <2>2. n \in DOMAIN files /\ n \in DOMAIN backups
      BY <1>4 DEF IInv, TypeOK
    <2>3. CASE /\ lately' = lately /\ files' = [files EXCEPT ![n] = c.backup]
               /\ backups' = [backups EXCEPT ![n] = @ \ {c.backup}]
      <3>1. files'[n] = c.backup /\ backups'[n] = backups[n] \ {c.backup}
        BY <2>2, <2>3
      <3>2. backups'[n] = WasBackups[n]
        BY <1>4, <1>9, <2>1, <3>1
      <3> QED
        BY <1>4, <2>3, <3>1, <3>2
    <2>4. CASE lately' > 1 /\ c.backup # None /\ files' = [files EXCEPT ![n] = None] /\ backups' = backups
      BY <2>2, <2>4
    <2>5. CASE lately' > 1 /\ c.backup = None /\ files' = files /\ backups' = backups
      BY <2>5
    <2> QED
      BY <1>7, <2>3, <2>4, <2>5
  <1>11. /\ Undoing' /\ ~Forward' /\ ~Finishing' /\ ~Adding' /\ CommittedNames' = CommittedNames \ {n}
         /\ pc' # "commit" /\ lately' >= 1
    <2>1. CommittedNames' = {front[i].name : i \in DOMAIN front}
      BY <1>2 DEF CommittedNames
    <2>2. lately' >= 1
      BY <1>1, <1>7
    <2> QED
      BY <1>4, <1>6, <2>1, <2>2 DEF Forward, Undoing, Finishing, Adding, Creating
  <1>12. TypeOK'
    <2>1. files' \in [Names -> (0..command) \cup {None}]
      BY <1>4, <1>7, Numbers DEF IInv, TypeOK
    <2>2. backups' \in [Names -> SUBSET (0..command)]
      <3>1. backups \in [Names -> SUBSET (0..command)]
        BY DEF IInv, TypeOK
      <3>2. CASE backups' = backups
        BY <3>1, <3>2
      <3>3. CASE backups' = [backups EXCEPT ![n] = @ \ {c.backup}]
        <4>1. backups[n] \ {c.backup} \in SUBSET (0..command)
          BY <1>4, <3>1
        <4> QED
          BY <3>1, <3>3, <4>1
      <3> QED
        BY <1>7, <3>2, <3>3
    <2> QED
      BY <1>2, <1>4, <1>6, <1>7, <2>1, <2>2 DEF IInv, TypeOK, Committed
  <1>13. OnceOnly'
    <2>1. \A m \in Names : backups[m] \subseteq Older /\ (good[m] \in Older \cup {None})
      BY <1>1 DEF IInv, OnceOnly
    <2>2. \A m \in Names : backups'[m] \subseteq Older
      BY <1>4, <1>8, <1>10, <2>1
    <2>3. \A m \in Names : files'[m] # None => files'[m] \notin backups'[m]
      BY <1>4, <1>8, <1>9, <1>10 DEF IInv, OnceOnly
    <2> QED
      BY <1>2, <2>1, <2>2, <2>3 DEF OnceOnly, Older
  <1>14. RowsHaveRecord'
    BY <1>1, <1>2 DEF RowsHaveRecord
  <1>15. Stages'
    BY <1>1, <1>2, <1>3, <1>6, <1>11 DEF Stages
  <1>16. RowsOK' /\ TempsOK'
    BY <1>1, <1>2, <1>3, <1>6, EditFrame DEF IInv, RowsOK, TempsOK, Forward
  <1>17. FilesOK'
    <2>1. lately' <= 1 => \A m \in Names \ CommittedNames' : files'[m] = WasFiles[m] /\ backups'[m] = WasBackups[m]
      <3>1. lately <= 1 => \A m \in Names \ CommittedNames : files[m] = WasFiles[m] /\ backups[m] = WasBackups[m]
        BY <1>1 DEF IInv, FilesOK
      <3>2. lately' <= 1 => lately <= 1 /\ files'[n] = WasFiles[n] /\ backups'[n] = WasBackups[n]
        BY <1>7, <1>10 DEF IInv, TypeOK
      <3> QED
        BY <1>8, <1>11, <3>1, <3>2
    <2>2. ASSUME NEW i \in DOMAIN front
          PROVE  LET d == front[i] IN
                 /\ d.backup = WasFiles[d.name] /\ d.name \in InputNames
                 /\ backups'[d.name] = WasBackups[d.name] \cup ({d.backup} \ {None})
                 /\ files'[d.name] = command
                 /\ \A j \in DOMAIN front : front[j].name = d.name => j = i
      BY <1>5, <1>8 DEF InputNames
    <2> QED
      BY <1>2, <1>3, <1>11, <2>1, <2>2, SameBefore DEF FilesOK
  <1>18. NothingIsLost'
    <2>1. good[n] # command
      BY <1>1, <1>4, Numbers DEF IInv, OnceOnly
    <2>2. good[n] # None => good[n] \in backups[n]
      BY <1>4, <2>1 DEF IInv, NothingIsLost
    <2> QED
      BY <1>2, <1>4, <1>8, <1>10, <2>2 DEF IInv, NothingIsLost
  <1> QED
    BY <1>1, <1>2, <1>6, <1>11, <1>12, <1>13, <1>14, <1>15, <1>16, <1>17, <1>18, EditFrame, Unended DEF IInv

LEMMA CleanupStep ==
    ASSUME IInv, cleanupStagedFiles
    PROVE  IInv'
  <1>1. /\ pc = "cleanup" /\ Undoing /\ failed /\ lately >= 1 /\ staged \subseteq InputNames /\ record # None
        /\ committed = <<>>
    BY DEF cleanupStagedFiles, IInv, Stages, Undoing, RowsHaveRecord
  <1>2. /\ record' = record /\ rows' = rows /\ files' = files /\ backups' = backups /\ input' = input /\ failed' = failed
        /\ old' = old /\ done' = done /\ staged' = staged /\ command' = command /\ before' = before /\ good' = good
        /\ committed' = committed
    BY DEF cleanupStagedFiles, store
  <1>3. InputNames' = InputNames /\ CommittedNames' = CommittedNames /\ CommittedNames = {}
    BY <1>1, <1>2, SameInput, SameCommitted DEF CommittedNames
  <1>4. /\ (pc' = "rollback" /\ Touched # {}) \/ (pc' = "rollbackRecord" /\ Touched = {})
        /\ todo' = Touched
    BY DEF cleanupStagedFiles, LoopOver, Goto, Touched
  <1>5. /\ faults' \in 0..MaxFaults /\ lately' \in 0..faults' /\ lately' >= 1
        /\ \/ lately' = lately
              /\ temps' = [m \in Names |-> IF m \in staged THEN temps[m] \ {input[m]} ELSE temps[m]]
           \/ lately' > 1 /\ temps' = temps
    BY <1>1, Faults, Numbers DEF cleanupStagedFiles, IInv
  <1>6. Undoing' /\ ~Forward' /\ ~Finishing'
    BY <1>4 DEF Forward, Undoing, Finishing
  <1>7. temps' \in [Names -> SUBSET (0..command)]
    BY <1>5 DEF IInv, TypeOK
  <1>8. TypeOK'
    BY <1>2, <1>4, <1>5, <1>7 DEF IInv, TypeOK, Touched
  <1>9. OnceOnly' /\ RowsHaveRecord'
    BY <1>1, <1>2, <1>4 DEF IInv, OnceOnly, Older, RowsHaveRecord
  <1>10. Stages'
    BY <1>1, <1>2, <1>3, <1>4, <1>5, <1>6 DEF Stages
  <1>11. RowsOK'
    <2>1. \A m \in Names : m \notin Touched => rows[m] = WasRows[m]
      BY <1>1 DEF IInv, RowsOK
    <2>2. \A m \in Names : m \in todo' \/ rows'[m] = WasRows'[m]
      BY <1>2, <1>4, <2>1, SameBefore
    <2>3. pc' = "rollbackRecord" => todo' = {}
      BY <1>4
    <2> QED
      BY <1>4, <1>6, <2>2, <2>3 DEF RowsOK
  <1>12. TempsOK'
    <2>1. \A m \in staged : m \in Names /\ input[m] = command
      BY <1>1, Numbers DEF IInv, InputNames, TypeOK
    <2>2. lately' <= 1 => \A m \in Names : temps'[m] = WasTemps[m]
      <3>1. \A m \in Names : temps[m] \ {command} = WasTemps[m] /\ (m \notin staged => temps[m] = WasTemps[m])
        BY <1>1 DEF IInv, TempsOK
      <3>2. lately' \in Nat
        BY <1>5
      <3>3. lately' <= 1 => temps' = [m \in Names |-> IF m \in staged THEN temps[m] \ {input[m]} ELSE temps[m]]
        BY <1>5, <3>2
      <3> QED
        BY <2>1, <3>1, <3>3
    <2>3. WasTemps \in [Names -> SUBSET Older]
      BY <1>1 DEF IInv, Remembers
    <2>4. lately' <= 1 => temps' = WasTemps
      BY <1>7, <2>2, <2>3
    <2> QED
      BY <1>2, <1>4, <2>4, SameBefore DEF TempsOK, Forward
  <1>13. FilesOK'
    <2>1. lately' <= 1 => lately <= 1
      BY <1>5 DEF IInv, TypeOK
    <2>2. lately <= 1 => \A m \in Names : files[m] = WasFiles[m] /\ backups[m] = WasBackups[m]
      BY <1>1, <1>3 DEF IInv, FilesOK
    <2>3. WasFiles' = WasFiles /\ WasBackups' = WasBackups
      BY <1>2, SameBefore
    <2> QED
      BY <1>1, <1>2, <1>3, <2>1, <2>2, <2>3 DEF FilesOK
  <1>14. NothingIsLost'
    BY <1>2 DEF IInv, NothingIsLost
  <1> QED
    BY <1>1, <1>2, <1>4, <1>6, <1>8, <1>9, <1>10, <1>11, <1>12, <1>13, <1>14, EditFrame, Unended DEF IInv

LEMMA RollbackStep ==
    ASSUME IInv, rollbackRepository
    PROVE  IInv'
  <1> DEFINE n == First(todo)
  <1>1. /\ pc = "rollback" /\ Undoing /\ failed /\ lately >= 1 /\ staged \subseteq InputNames /\ record # None
        /\ committed = <<>> /\ old.rows = WasRows /\ WasRows \in [Names -> {None} \cup [hash : (0..command) \cup {None}]]
        /\ \A m \in Names : WasRows[m] # None => (WasRows[m].hash = None <=> m \notin DataFiles)
        /\ n \in Names /\ n \in todo /\ todo = Rest \cup {n} /\ Rest \subseteq Names
    BY RestLemma DEF rollbackRepository, IInv, Stages, Undoing, RowsHaveRecord, Remembers
  <1>2. /\ record' = record /\ temps' = temps /\ files' = files /\ backups' = backups /\ input' = input /\ failed' = failed
        /\ old' = old /\ done' = done /\ staged' = staged /\ command' = command /\ before' = before /\ good' = good
        /\ committed' = committed
    BY DEF rollbackRepository
  <1>3. InputNames' = InputNames /\ CommittedNames' = CommittedNames
    BY <1>2, SameInput, SameCommitted
  <1>4. /\ (pc' = "rollback" /\ Rest # {}) \/ (pc' = "rollbackRecord" /\ Rest = {})
        /\ todo' = Rest
    BY <1>1 DEF rollbackRepository, Advance, Goto
  <1>5. /\ faults' \in 0..MaxFaults /\ lately' \in 0..faults' /\ lately' >= 1
        /\ \/ lately' = lately /\ rows' = [rows EXCEPT ![n] = WasRows[n]]
           \/ lately' > 1 /\ rows' = rows
    BY <1>1, Faults, Numbers DEF rollbackRepository, IInv
  <1>6. Undoing' /\ ~Forward' /\ ~Finishing'
    BY <1>4 DEF Forward, Undoing, Finishing
  <1>7. TypeOK'
    <2>1. rows' \in [Names -> {None} \cup [hash : (0..command) \cup {None}]]
          /\ \A m \in Names : rows'[m] # None => (rows'[m].hash = None <=> m \notin DataFiles)
      BY <1>1, <1>5 DEF IInv, TypeOK
    <2> QED
      BY <1>1, <1>2, <1>4, <1>5, <2>1 DEF IInv, TypeOK
  <1>8. OnceOnly' /\ RowsHaveRecord'
    BY <1>1, <1>2, <1>4 DEF IInv, OnceOnly, Older, RowsHaveRecord
  <1>9. Stages'
    BY <1>1, <1>2, <1>3, <1>4, <1>5, <1>6 DEF Stages
  <1>10. lately' <= 1 => lately <= 1
    BY <1>5 DEF IInv, TypeOK
  <1>11. RowsOK'
    <2>1. lately' <= 1 => \A m \in Names : m \in Rest \/ rows'[m] = WasRows[m]
      BY <1>1, <1>5, <1>10 DEF IInv, TypeOK, RowsOK
    <2> QED
      BY <1>2, <1>4, <2>1, SameBefore DEF RowsOK, Forward
  <1>12. TempsOK' /\ FilesOK'
    BY <1>1, <1>2, <1>3, <1>4, <1>10, SameBefore DEF IInv, TempsOK, FilesOK, Forward
  <1>13. NothingIsLost'
    BY <1>2 DEF IInv, NothingIsLost
  <1> QED
    BY <1>1, <1>2, <1>4, <1>6, <1>7, <1>8, <1>9, <1>11, <1>12, <1>13, EditFrame, Unended DEF IInv

LEMMA RollbackRecordStep ==
    ASSUME IInv, rollbackRecord
    PROVE  IInv'
  <1>1. /\ pc = "rollbackRecord" /\ Undoing /\ failed /\ lately >= 1 /\ committed = <<>> /\ todo = {} /\ record # None
        /\ old.record = WasRecord /\ WasRecord # None
        /\ WasRecord \in {None} \cup [text : 0..command, upd : 0..command]
        /\ before = <<<<WasRecord, WasRows, WasFiles>>, WasTemps, WasBackups>>
    BY DEF rollbackRecord, IInv, Stages, Undoing, Remembers, RowsOK, RowsHaveRecord
  <1>2. /\ rows' = rows /\ temps' = temps /\ files' = files /\ backups' = backups /\ input' = input /\ failed' = failed
        /\ old' = old /\ done' = done /\ staged' = staged /\ command' = command /\ before' = before /\ good' = good
        /\ committed' = committed /\ pc' = "idle" /\ todo' = {}
    BY DEF rollbackRecord, Goto
  <1>3. /\ faults' \in 0..MaxFaults /\ lately' \in 0..faults'
        /\ \/ lately' = lately /\ record' = WasRecord
           \/ lately' > 1 /\ record' = record
    BY <1>1, Faults, Numbers DEF rollbackRecord, IInv
  <1>4. TypeOK'
    BY <1>1, <1>2, <1>3 DEF IInv, TypeOK
  <1>5. OnceOnly' /\ RowsHaveRecord' /\ SuccessIsExact' /\ NothingIsLost'
    BY <1>1, <1>2, <1>3 DEF IInv, OnceOnly, RowsHaveRecord, Adding, Creating, Forward, Undoing, Finishing,
                            SuccessIsExact, Ended, NothingIsLost
  <1>6. FailedCommandIsUndone'
    <2>1. lately' <= 1 => lately <= 1 /\ record' = WasRecord
      BY <1>3
    <2>2. lately <= 1 => \A m \in Names : rows[m] = WasRows[m] /\ files[m] = WasFiles[m] /\ backups[m] = WasBackups[m]
      BY <1>1 DEF IInv, RowsOK, FilesOK, CommittedNames
    <2>3. lately <= 1 => rows = WasRows /\ files = WasFiles /\ backups = WasBackups
      BY <1>1, <2>2 DEF IInv, TypeOK, Remembers
    <2>4. lately <= 1 => temps = WasTemps
      BY <1>1 DEF IInv, TempsOK
    <2> QED
      BY <1>1, <1>2, <2>1, <2>3, <2>4 DEF FailedCommandIsUndone, Everything, store
  <1> QED
    BY <1>1, <1>2, <1>4, <1>5, <1>6, EditFrame, AddFrame DEF IInv

-----------------------------------------------------------------------------
(* Crashes, and the theorems *)

LEMMA CrashStep ==
    ASSUME IInv, Crash
    PROVE  IInv'
  <1>1. /\ record' = record /\ rows' = rows /\ files' = files /\ temps' = temps /\ backups' = backups
        /\ command' = command /\ good' = good /\ pc' = "idle" /\ todo' = {} /\ input' = Nothing /\ done' = NoMutations
        /\ staged' = {} /\ committed' = <<>> /\ failed' = TRUE /\ before' = None /\ lately' = 0
        /\ faults' \in 0..MaxFaults
    BY AssetsAssumption DEF Crash, Everything, store, IInv, TypeOK
  <1>2. TypeOK'
    <2>1. done' \in [created : SUBSET Names, updated : SUBSET Names, deleted : SUBSET Names]
          /\ committed' \in Seq(Committed) /\ input' \in [Names -> {command', None}]
      BY <1>1, NothingLemma DEF NoMutations
    <2> QED
      BY <1>1, <2>1 DEF IInv, TypeOK, Committed
  <1>3. PcOK' /\ OnceOnly' /\ RowsHaveRecord' /\ AddOK' /\ FinishOK'
    BY <1>1 DEF IInv, PcOK, OnceOnly, RowsHaveRecord, AddOK, FinishOK, Adding, Creating, Forward, Undoing, Finishing
  <1>4. FailedCommandIsUndone' /\ SuccessIsExact' /\ NothingIsLost'
    BY <1>1 DEF IInv, FailedCommandIsUndone, SuccessIsExact, Ended, NothingIsLost
  <1> QED
    BY <1>1, <1>2, <1>3, <1>4, AddFrame DEF IInv

LEMMA InitIInv == Init => IInv
  <1> SUFFICES ASSUME Init PROVE IInv
    OBVIOUS
  <1>1. /\ pc = "idle" /\ todo = {} /\ input = Nothing /\ done = NoMutations /\ staged = {} /\ committed = <<>>
        /\ command = 0 /\ faults = 0 /\ lately = 0 /\ before = None /\ good = files /\ failed = FALSE
        /\ temps = [n \in Names |-> {}] /\ backups = [n \in Names |-> {}]
    BY DEF Init
  <1>2. /\ record \in {None} \cup [text : 0..0, upd : 0..0] /\ files \in [Names -> (0..0) \cup {None}]
        /\ rows \in [Names -> {None} \cup [hash : (0..0) \cup {None}]]
        /\ \A n \in Names : rows[n] # None => (rows[n].hash = None <=> n \notin DataFiles)
        /\ record = None => rows = Nothing /\ files = Nothing
    <2>1. CASE record = None /\ rows = Nothing /\ files = Nothing
      BY <2>1, NothingLemma
    <2>2. CASE /\ record = [text |-> 0, upd |-> 0]
               /\ files \in [Names -> {0, None}]
               /\ rows = [n \in Names |-> IF files[n] = None THEN None ELSE RowOf(n, files[n])]
      <3>1. \A n \in Names : /\ RowOf(n, 0) \in [hash : (0..0) \cup {None}]
                             /\ RowOf(n, 0).hash = None <=> n \notin DataFiles
        BY AssetsAssumption DEF RowOf
      <3>2. record # None
        BY <2>2, Distinct
      <3> QED
        BY <2>2, <3>1, <3>2
    <2> QED
      BY <2>1, <2>2 DEF Init
  <1>3. TypeOK
    <2>1. done \in [created : SUBSET Names, updated : SUBSET Names, deleted : SUBSET Names]
          /\ committed \in Seq(Committed) /\ input \in [Names -> {command, None}]
      BY <1>1, NothingLemma DEF NoMutations
    <2>2. command \in 0..MaxCommands /\ faults \in 0..MaxFaults /\ lately \in 0..faults /\ failed \in BOOLEAN
      <3>1. MaxCommands \in Nat /\ MaxFaults \in Nat
        BY AssetsAssumption
      <3>2. 0 \in 0..MaxCommands /\ 0 \in 0..MaxFaults /\ 0 \in 0..0
        BY <3>1
      <3>3. command = 0 /\ faults = 0 /\ lately = 0 /\ failed = FALSE
        BY <1>1
      <3> QED
        BY <3>2, <3>3
    <2>3. {files, good} \subseteq [Names -> (0..command) \cup {None}]
      BY <1>1, <1>2
    <2>4. {temps, backups} \subseteq [Names -> SUBSET (0..command)]
      BY <1>1
    <2>5. todo \cup staged \subseteq Names
      BY <1>1
    <2>6. /\ record \in {None} \cup [text : 0..command, upd : 0..command]
          /\ rows \in [Names -> {None} \cup [hash : (0..command) \cup {None}]]
      BY <1>1, <1>2
    <2> QED
      BY <1>2, <2>1, <2>2, <2>3, <2>4, <2>5, <2>6 DEF TypeOK, Committed
  <1>4. PcOK /\ OnceOnly /\ RowsHaveRecord /\ AddOK /\ FinishOK
    BY <1>1, <1>2 DEF PcOK, OnceOnly, RowsHaveRecord, AddOK, FinishOK, Adding, Creating, Forward, Undoing, Finishing
  <1>5. Remembers /\ Stages /\ RowsOK /\ TempsOK /\ FilesOK
    BY <1>1 DEF Remembers, Stages, RowsOK, TempsOK, FilesOK, Forward, Undoing, Finishing
  <1>6. FailedCommandIsUndone /\ SuccessIsExact /\ NothingIsLost
    BY <1>1 DEF FailedCommandIsUndone, SuccessIsExact, Ended, NothingIsLost
  <1> QED
    BY <1>3, <1>4, <1>5, <1>6 DEF IInv

LEMMA Inductive ==
    ASSUME IInv, [Next]_vars
    PROVE  IInv'
  <1>1. CASE UNCHANGED vars
    <2>1. /\ UNCHANGED <<record, rows, files, temps, backups, pc, todo, input, old, done, staged, committed, failed>>
          /\ UNCHANGED <<command, faults, lately, before, good>>
      BY <1>1 DEF vars, store, progress, history
    <2>2. Adding' = Adding /\ Creating' = Creating /\ Forward' = Forward /\ Undoing' = Undoing /\ Finishing' = Finishing
          /\ Older' = Older /\ Touched' = Touched /\ Rest' = Rest
      BY <2>1 DEF Adding, Creating, Forward, Undoing, Finishing, Older, Touched, Rest
    <2>3. InputNames' = InputNames /\ CommittedNames' = CommittedNames
          /\ WasRecord' = WasRecord /\ WasRows' = WasRows /\ WasFiles' = WasFiles /\ WasTemps' = WasTemps
          /\ WasBackups' = WasBackups
      BY <2>1, SameInput, SameCommitted, SameBefore
    <2>4. TypeOK' /\ PcOK' /\ OnceOnly' /\ RowsHaveRecord' /\ AddOK' /\ Remembers'
      BY <2>1, <2>2, <2>3 DEF IInv, TypeOK, PcOK, OnceOnly, RowsHaveRecord, AddOK, Remembers
    <2>5. Stages'
      BY <2>1, <2>2, <2>3 DEF IInv, Stages, Everything, store
    <2>6. RowsOK' /\ TempsOK' /\ FilesOK' /\ FinishOK'
      BY <2>1, <2>2, <2>3 DEF IInv, RowsOK, TempsOK, FilesOK, FinishOK
    <2>7. FailedCommandIsUndone' /\ SuccessIsExact' /\ NothingIsLost'
      BY <2>1, <2>3 DEF IInv, FailedCommandIsUndone, SuccessIsExact, NothingIsLost, Ended, Everything, store
    <2> QED
      BY <2>4, <2>5, <2>6, <2>7 DEF IInv
  <1>2. CASE \E contents \in SUBSET Names : runAdd(contents) \/ runEdit(contents)
    BY <1>2, StartAdd, StartEdit
  <1>3. CASE AddStep
    BY <1>3, CopyStep, CreateStep, DeleteRecordStep, DeleteCopyStep DEF AddStep
  <1>4. CASE EditStep
    BY <1>4, UpdateStep, StageStep, UpsertStep, BackupStep, CommitStep, RemoveStep, DeleteFilesStep, FinalizeStep,
       RestoreStep, CleanupStep, RollbackStep, RollbackRecordStep DEF EditStep
  <1>5. CASE Crash
    BY <1>5, CrashStep
  <1> QED
    BY <1>1, <1>2, <1>3, <1>4, <1>5 DEF Next

\* The inductive invariant holds of every reachable state.
THEOREM Invariance == Spec => []IInv
<1> QED
  BY InitIInv, Inductive, PTL DEF Spec

\* Every reachable state is well typed.
THEOREM TypeCorrect == Spec => []TypeOK
<1>1. IInv => TypeOK
  BY DEF IInv
<1> QED
  BY <1>1, Invariance, PTL

\* A command that one failing call stopped leaves everything as it was, whichever
\* call it was and whatever earlier commands have left behind.
THEOREM FailedCommandIsUndoneHolds == Spec => []FailedCommandIsUndone
<1>1. IInv => FailedCommandIsUndone
  BY DEF IInv
<1> QED
  BY <1>1, Invariance, PTL

\* A command that succeeds leaves exactly its input.
THEOREM SuccessIsExactHolds == Spec => []SuccessIsExact
<1>1. IInv => SuccessIsExact
  BY DEF IInv
<1> QED
  BY <1>1, Invariance, PTL

\* What the last successful command stored is in its place or in a backup, at
\* every moment, with any number of crashes and failing roll backs.
THEOREM NothingIsLostHolds == Spec => []NothingIsLost
<1>1. IInv => NothingIsLost
  BY DEF IInv
<1> QED
  BY <1>1, Invariance, PTL
=============================================================================
