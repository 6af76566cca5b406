-------------------------- MODULE RestoreDBProofs --------------------------
(* RestoreDB for any number of entries, processes and faults, where commands *)
(* run one after the other.                                                *)
EXTENDS RestoreDB, WellFoundedInduction, TLAPS

(***************************************************************************)
(* The inductive invariant.  Every command finds what the last one left,   *)
(* so the files and the marker tell at every moment how to go on (Disk);   *)
(* what a running command has done and still has to do is in Working.      *)
(***************************************************************************)

\* The states of one entry.  Before the replacement, in the middle, after it:
Intact(e) == live[e] = before[e] /\ backup[e] = "none"
Moved(e) == live[e] = "none" /\ backup[e] = before[e]
Promoted(e) == live[e] = after[e] /\ staged[e] = "none" /\ backup[e] = before[e]

\* The new entry is in its place, the backup may be gone.
Committed(e) == live[e] = after[e] /\ staged[e] = "none" /\ backup[e] \in {"none", before[e]}

\* CompleteReplacement can put the new entry in its place.
Forwardable(e) == Committed(e) \/ (staged[e] = after[e] /\ (Intact(e) \/ Moved(e)))

\* RestoreReplacementBackup can put the old entry in its place.
Undoable(e) ==
    IF before[e] # "none" THEN backup[e] = before[e] \/ Intact(e) ELSE backup[e] = "none"

\* It has.
Undone(e) == Intact(e)

Clean == backup = Nothing /\ "backup" \notin dirs

\* Recoveries have died over a new store whose staging directory is gone.
Mixed == "staging" \notin dirs /\ faults >= 2 /\ (live[Database] # "none" \/ backup[Database] # "none")

Committing(rollbackOnly) ==
    [phase |-> "committing", rollbackOnly |-> rollbackOnly, staged |-> Present(after), original |-> Present(before)]

Alone == \A p, q \in Proc : proc[p].pc # "idle" /\ proc[q].pc # "idle" => p = q

\* The stores that are compared, and the end of the restore.
Stores ==
    /\ before \in [Entry -> {"none", "old"}] /\ before[Database] = "old"
    /\ after \in [Entry -> {"none", "new"}] /\ (after # Nothing => after[Database] = "new")
    /\ after = Nothing => live = before /\ marker.phase = "none" /\ outcome = "none"
    /\ marker.phase # "none" => outcome = "none"
    /\ outcome = "committed" => live = after
    /\ outcome = "aborted" => live = before

\* What the marker says of the files.
Disk ==
    /\ marker.phase = "none" => Clean /\ live[Database] # "none" /\ (faults <= 1 => live \in {before, after})
    /\ marker.phase = "staging" => Clean /\ live = before
    /\ marker.phase = "committing" => marker \in {Committing(TRUE), Committing(FALSE)}
    /\ marker = Committing(FALSE) => ("staging" \in dirs /\ (\A e \in Entry : Forwardable(e))) \/ (\A e \in Entry : Committed(e)) \/ Mixed
    /\ marker = Committing(TRUE) => (\A e \in Entry : Undoable(e))
    /\ marker.phase = "done" => live \in {before, after}

\* What an interrupted restore has cost.
Cost ==
    /\ marker.phase = "committing" /\ (\A p \in Proc : proc[p].role = "recover") => faults >= 1
    /\ /\ marker = Committing(FALSE) /\ "staging" \notin dirs
       /\ \A p \in Proc : proc[p].pc \notin {"cleanBackup", "unmark"}
       => faults >= 2

\* The steps of restore-db before it is decided.
Replacing == {"mkBackup", "backup", "promote", "commit", "dropBackup", "markRollback"}
Restoring == {"markStaging", "markCommitting", "undo", "abort"} \cup Replacing
Cleaning == {"cleanStaging", "cleanBackup", "unmark"}

Role(p) ==
    LET c == proc[p] IN
    /\ c.pc \in {"idle", "read", "sweep", "forward", "opened"} => c.role = "recover"
    /\ c.pc \in Restoring => c.role = "commit"
    /\ c.pc = "back" => c.role \in {"recover", "abort"}
    /\ c.pc = "markDone" => c.role \in {"commit", "abort"}
    /\ c.role # "recover" => outcome = "none"
    /\ c.role = "recover" => c.moved = {} /\ c.promoted = {} /\ c.cleanupBackup
    /\ c.pc # "idle" /\ c.cmd = "restore" /\ c.role = "recover" => after = Nothing
    /\ c.role # "recover" => after # Nothing

MarkerAt(p) ==
    LET c == proc[p] IN
    /\ c.pc \in {"opened", "markStaging"} => marker.phase = "none"
    /\ c.pc \in {"sweep", "markCommitting"} => marker.phase = "staging"
    /\ c.pc \in Replacing \cup {"forward"} => marker = Committing(FALSE)
    /\ c.pc = "undo" => marker = Committing(TRUE)
    /\ c.pc \in {"abort", "back", "markDone"} => marker.phase = "committing"
    /\ c.pc \in Cleaning => \/ marker.phase = "done"
                            \/ c.role = "recover" /\ marker.phase = "committing"
                            \/ c.role = "recover" /\ marker.phase = "staging" /\ c.pc = "unmark"
    /\ c.pc \in {"markStaging", "markCommitting"} =>
          c.mk = [phase |-> "staging", rollbackOnly |-> FALSE, staged |-> Present(after), original |-> Present(before)]
    /\ c.pc \in Replacing \cup {"forward", "back", "undo", "abort", "markDone"} => c.mk = marker

\* The lists of replaceContents, before and during its roll back.
Lists(p) ==
    LET c == proc[p] IN
    \A e \in Entry :
        /\ e \in c.promoted /\ before[e] # "none" => e \in c.moved
        /\ e \in c.moved => before[e] # "none" /\ backup[e] = before[e]
        /\ e \notin c.moved => Undoable(e)
        /\ e \notin c.moved /\ c.cleanupBackup /\ before[e] # "none" => live[e] = before[e]

Working(p) ==
    LET c == proc[p] IN
    /\ c.pc \in Restoring => "staging" \in dirs
    /\ c.pc \in {"markStaging", "markCommitting", "mkBackup"} => staged = after /\ live = before /\ backup = Nothing
    /\ c.pc \in {"markStaging", "markCommitting", "mkBackup", "backup"} => c.promoted = {}
    /\ c.pc \in {"markStaging", "markCommitting", "mkBackup"} => c.moved = {}
    /\ c.pc \in {"markStaging", "markCommitting"} \cup Replacing => c.cleanupBackup
    /\ c.pc = "backup" =>
          /\ \A e \in Entry : staged[e] = after[e] /\ (e < c.i => Moved(e)) /\ (e >= c.i => Intact(e))
          /\ c.moved = {e \in Present(before) : e < c.i}
    /\ c.pc = "promote" =>
          /\ \A e \in Entry : (e < c.i => Promoted(e)) /\ (e >= c.i => staged[e] = after[e] /\ Moved(e))
          /\ c.moved = Present(before) /\ c.promoted = {e \in Present(after) : e < c.i}
    /\ c.pc = "commit" => (\A e \in Entry : Promoted(e)) /\ c.moved = Present(before) /\ c.promoted = Present(after)
    /\ c.pc = "dropBackup" => (\A e \in Entry : Committed(e))
    /\ c.pc = "markDone" => IF c.role = "commit" THEN (\A e \in Entry : Committed(e)) ELSE (\A e \in Entry : Undone(e))
    /\ c.pc = "markRollback" => (\A e \in Entry : Forwardable(e))
    /\ c.pc \in {"markRollback", "undo"} => Lists(p)
    /\ c.pc = "abort" => (\A e \in Entry : Undoable(e))
    /\ c.pc = "forward" => /\ "staging" \in dirs /\ c.i >= 1
                           /\ \A e \in Entry : Forwardable(e) /\ (e < c.i => Committed(e))
    /\ c.pc = "back" /\ marker = Committing(TRUE) =>
          \A e \in Entry : Undoable(e) /\ (e > c.i => Undone(e))
    /\ c.pc = "back" /\ marker = Committing(FALSE) =>
          c.role = "recover" /\ Mixed /\ (c.i = 0 => live[Database] # "none")
    /\ c.pc \in Cleaning =>
          /\ live[Database] # "none"
          /\ marker = Committing(FALSE) => (\A e \in Entry : Committed(e)) \/ Mixed
          /\ marker = Committing(TRUE) => (\A e \in Entry : Undone(e))
          /\ c.role = "commit" => live = after
          /\ c.role = "abort" => live = before
    /\ c.pc \in {"cleanBackup", "unmark"} => "staging" \notin dirs
    /\ c.pc = "unmark" => Clean

RoleOK == \A p \in Proc : Role(p)
MarkerOK == \A p \in Proc : MarkerAt(p)
WorkingOK == \A p \in Proc : Working(p)

IInv == TypeOK /\ Alone /\ Stores /\ Disk /\ Cost /\ RoleOK /\ MarkerOK /\ WorkingOK

-----------------------------------------------------------------------------
(* Types *)

\* A process, and what it becomes.
LEMMA ProcessType ==
    ASSUME TypeOK, NEW p \in Proc
    PROVE  /\ proc[p] \in Process /\ proc[p].pc \in PcState /\ proc[p].cmd \in {"none", "open", "restore"}
           /\ proc[p].i \in 0..(N + 1) /\ proc[p].mk \in Marker /\ proc[p].moved \subseteq Entry
           /\ proc[p].promoted \subseteq Entry /\ proc[p].cleanupBackup \in BOOLEAN
           /\ proc[p].role \in {"recover", "commit", "abort"}
  BY DEF TypeOK, Process

LEMMA Constants ==
    /\ Database \in Entry /\ Nothing \in Tree /\ Idle \in Process /\ NoMarker \in Marker
    /\ \A e \in Entry : e \in Nat /\ e >= 1 /\ e <= N /\ e + 1 \in 0..(N + 1) /\ e - 1 \in 0..(N + 1) /\ Nothing[e] = "none"
    /\ N \in Nat /\ N >= 1
    /\ Idle.pc = "idle" /\ Idle.role = "recover" /\ Idle.cmd = "none"
    /\ Idle.moved = {} /\ Idle.promoted = {} /\ Idle.cleanupBackup
    /\ NoMarker.phase = "none"
  <1>1. N \in Nat /\ N >= 1
    BY RestoreAssumption
  <1>2. NoMarker \in Marker
    BY DEF NoMarker, Marker
  <1>3. Idle \in Process
    BY <1>1, <1>2 DEF Idle, Process, PcState
  <1> QED
    BY <1>1, <1>2, <1>3 DEF Database, Entry, Nothing, Tree, Idle, NoMarker

\* What stays of a process that goes on, and of the others.
Same(p) ==
    /\ proc' \in [Proc -> Process] /\ \A q \in Proc \ {p} : proc'[q] = proc[q]
    /\ proc'[p].cmd = proc[p].cmd
Kept(p) ==
    /\ proc'[p].moved = proc[p].moved /\ proc'[p].promoted = proc[p].promoted
    /\ proc'[p].cleanupBackup = proc[p].cleanupBackup

LEMMA GotoType ==
    ASSUME TypeOK, NEW p \in Proc, NEW l \in PcState, Goto(p, l)
    PROVE  Same(p) /\ Kept(p) /\ proc'[p].pc = l /\ proc'[p].i = proc[p].i /\ proc'[p].mk = proc[p].mk /\ proc'[p].role = proc[p].role
  BY DEF TypeOK, Process, Goto, Same, Kept

LEMMA GotoAtType ==
    ASSUME TypeOK, NEW p \in Proc, NEW l \in PcState, NEW i \in 0..(N + 1), GotoAt(p, l, i)
    PROVE  Same(p) /\ Kept(p) /\ proc'[p].pc = l /\ proc'[p].i = i /\ proc'[p].mk = proc[p].mk /\ proc'[p].role = proc[p].role
  BY ZenonT(60) DEF TypeOK, Process, GotoAt, Same, Kept

LEMMA WriteMarkerType ==
    ASSUME TypeOK, NEW p \in Proc, NEW from, NEW mk \in Marker, NEW to \in PcState, writeRestoreMarker(p, from, mk, to)
    PROVE  /\ Same(p) /\ Kept(p) /\ proc'[p].pc = to /\ proc'[p].i = 1 /\ proc'[p].mk = mk /\ proc'[p].role = proc[p].role
           /\ proc[p].pc = from /\ marker' = mk /\ UNCHANGED <<files, History, faults>>
  <1>1. 1 \in 0..(N + 1)
    BY RestoreAssumption
  <1> QED
    BY ZenonT(60), <1>1 DEF TypeOK, Process, writeRestoreMarker, Same, Kept

\* The process goes idle.
LEMMA IdleType ==
    ASSUME TypeOK, NEW p \in Proc, proc' = [proc EXCEPT ![p] = Idle]
    PROVE  proc' \in [Proc -> Process] /\ (\A q \in Proc \ {p} : proc'[q] = proc[q]) /\ proc'[p] = Idle
  BY Constants DEF TypeOK

-----------------------------------------------------------------------------
(* What the steps have in common                                            *)

LEMMA CommittingFields ==
    /\ Committing(TRUE).phase = "committing" /\ Committing(FALSE).phase = "committing"
    /\ Committing(TRUE).rollbackOnly = TRUE /\ Committing(FALSE).rollbackOnly = FALSE
    /\ \A b \in BOOLEAN : Committing(b).staged = Present(after) /\ Committing(b).original = Present(before)
    /\ \A b \in BOOLEAN : Committing(b) \in Marker
    /\ UNCHANGED <<before, after>> => Committing(TRUE)' = Committing(TRUE) /\ Committing(FALSE)' = Committing(FALSE)
  BY DEF Committing, Present, Marker

\* A marker is known by its fields.
LEMMA SameMarker ==
    ASSUME NEW m \in Marker, NEW n \in Marker,
           m.phase = n.phase, m.rollbackOnly = n.rollbackOnly, m.staged = n.staged, m.original = n.original
    PROVE  m = n
  BY DEF Marker

\* The running process decides, the others are idle.
LEMMA Running ==
    ASSUME IInv, NEW p \in Proc, proc[p].pc # "idle", \A q \in Proc \ {p} : proc'[q] = proc[q],
           Role(p)', MarkerAt(p)', Working(p)'
    PROVE  Alone' /\ RoleOK' /\ MarkerOK' /\ WorkingOK'
  <1>1. ASSUME NEW q \in Proc \ {p} 
              PROVE  /\ proc'[q].pc = "idle" /\ proc'[q].role = "recover"
                     /\ proc'[q].moved = {} /\ proc'[q].promoted = {} /\ proc'[q].cleanupBackup
    BY DEF IInv, Alone, RoleOK, Role
  <1>2. ASSUME NEW q \in Proc \ {p} PROVE Role(q)' /\ MarkerAt(q)' /\ Working(q)'
    BY <1>1 DEF Role, MarkerAt, Working, Restoring, Replacing, Cleaning
  <1>3. Alone'
    BY <1>1 DEF Alone
  <1> QED
    BY <1>2, <1>3 DEF RoleOK, MarkerOK, WorkingOK

\* Nobody else has a role.
LEMMA OneRole ==
    ASSUME IInv, NEW p \in Proc, proc[p].pc # "idle"
    PROVE  /\ (\A q \in Proc : proc[q].role = "recover") <=> proc[p].role = "recover"
           /\ \A S : "idle" \notin S => ((\A q \in Proc : proc[q].pc \notin S) <=> proc[p].pc \notin S)
  BY DEF IInv, Alone, RoleOK, Role

\* The same of the next state.
LEMMA OneRoleNext ==
    ASSUME IInv, NEW p \in Proc, proc[p].pc # "idle", \A q \in Proc \ {p} : proc'[q] = proc[q]
    PROVE  /\ (\A q \in Proc : proc'[q].role = "recover") <=> proc'[p].role = "recover"
           /\ \A S : "idle" \notin S => ((\A q \in Proc : proc'[q].pc \notin S) <=> proc'[p].pc \notin S)
  BY DEF IInv, Alone, RoleOK, Role

\* A step that leaves files and marker alone.
LEMMA DiskStays ==
    ASSUME TypeOK, Stores, Disk, UNCHANGED <<files, marker, History>>, faults' \in {faults, faults + 1}
    PROVE  Stores' /\ Disk'
  <1>1. UNCHANGED <<live, staged, backup, dirs, marker, outcome, before, after>> /\ faults \in Nat
    BY DEF files, History, TypeOK
  <1>2. Committing(TRUE)' = Committing(TRUE) /\ Committing(FALSE)' = Committing(FALSE)
    BY <1>1, CommittingFields
  <1>3. Stores'
    BY <1>1 DEF Stores
  <1>4. /\ Clean' = Clean /\ (Mixed => Mixed') /\ \A e \in Entry : /\ Forwardable(e)' <=> Forwardable(e)
                                                                   /\ Committed(e)' <=> Committed(e)
                                                                   /\ Undoable(e)' <=> Undoable(e)
    BY <1>1 DEF Clean, Mixed, Forwardable, Committed, Undoable, Intact, Moved
  <1>5. faults' <= 1 => faults <= 1
    BY <1>1
  <1>6. Disk'
    BY <1>1, <1>2, <1>4, <1>5 DEF Disk
  <1> QED
    BY <1>3, <1>6

LEMMA TypeStays ==
    ASSUME TypeOK, proc' \in [Proc -> Process], UNCHANGED <<files, marker, History>>, faults' \in {faults, faults + 1}
    PROVE  TypeOK'
  BY DEF TypeOK, files, History

LEMMA Parts ==
    ASSUME IInv, NEW p \in Proc
    PROVE  TypeOK /\ Alone /\ Stores /\ Disk /\ Cost /\ Role(p) /\ MarkerAt(p) /\ Working(p)
  BY DEF IInv, RoleOK, MarkerOK, WorkingOK

-----------------------------------------------------------------------------
(* Steps that leave files and marker alone                                  *)

LEMMA StartStep ==
    ASSUME IInv, ~Overlap, NEW p \in Proc, NEW cmd \in {"open", "restore"}, Start(p, cmd)
    PROVE  IInv'
  <1>1. /\ UNCHANGED <<files, marker, History, faults>> /\ \A q \in Proc : proc[q].pc = "idle"
        /\ cmd = "restore" => after = Nothing
    BY DEF Start
  <1>2. /\ proc' \in [Proc -> Process] /\ (\A q \in Proc \ {p} : proc'[q] = proc[q])
        /\ proc'[p].pc = "read" /\ proc'[p].role = "recover" /\ proc'[p].cmd = cmd
        /\ proc'[p].moved = {} /\ proc'[p].promoted = {} /\ proc'[p].cleanupBackup
    BY ZenonT(60), Constants DEF Start, IInv, TypeOK, Idle, Process, PcState
  <1>3. TypeOK' /\ Stores' /\ Disk'
    BY <1>1, <1>2, TypeStays, DiskStays DEF IInv
  <1>4. \A q \in Proc : /\ proc[q].role = "recover" /\ proc'[q].role = "recover" /\ proc'[q].pc \in {"idle", "read"}
                        /\ proc'[q].moved = {} /\ proc'[q].promoted = {} /\ proc'[q].cleanupBackup
    BY <1>1, <1>2 DEF IInv, RoleOK, Role
  <1>5. Cost'
    <2>1. UNCHANGED <<marker, dirs, faults>> /\ Committing(FALSE)' = Committing(FALSE)
      BY <1>1, CommittingFields DEF files, History
    <2> QED
      BY <1>1, <1>4, <2>1 DEF IInv, Cost
  <1>6. Alone'
    BY <1>1, <1>2 DEF Alone
  <1>7. UNCHANGED <<outcome, after>>
    BY <1>1 DEF History
  <1>8. ASSUME NEW q \in Proc PROVE Role(q)' /\ MarkerAt(q)' /\ Working(q)'
    <2>1. Role(q)'
      BY <1>1, <1>2, <1>4, <1>7 DEF Role, Restoring, Replacing
    <2> QED
      BY <2>1, <1>4 DEF MarkerAt, Working, Restoring, Replacing, Cleaning
  <1> QED
    BY <1>3, <1>5, <1>6, <1>8 DEF IInv, RoleOK, MarkerOK, WorkingOK

LEMMA CrashStep ==
    ASSUME IInv, NEW p \in Proc, Crash(p)
    PROVE  IInv'
  <1>1. /\ UNCHANGED <<files, marker, History>> /\ proc[p].pc # "idle" /\ faults' = faults + 1
        /\ proc' = [proc EXCEPT ![p] = Idle] /\ faults \in Nat
    BY DEF Crash, Fault, IInv, TypeOK
  <1>2. proc' \in [Proc -> Process] /\ (\A q \in Proc \ {p} : proc'[q] = proc[q]) /\ proc'[p] = Idle
    BY <1>1, IdleType DEF IInv
  <1>3. TypeOK' /\ Stores' /\ Disk'
    BY <1>1, <1>2, TypeStays, DiskStays DEF IInv
  <1>4. UNCHANGED <<marker, dirs, outcome, before, after>> /\ Committing(FALSE)' = Committing(FALSE)
    BY <1>1, CommittingFields DEF files, History
  <1>5. Cost'
    <2>1. ASSUME marker = Committing(FALSE), "staging" \notin dirs PROVE faults' >= 2
      <3>1. CASE proc[p].pc \in {"cleanBackup", "unmark"}
        <4>1. proc[p].role = "recover" /\ marker.phase = "committing"
          BY <2>1, <3>1, Parts, CommittingFields DEF MarkerAt, Cleaning
        <4>2. faults >= 1
          BY <4>1, <1>1, OneRole, Parts DEF Cost
        <4> QED
          BY <1>1, <4>2
      <3>2. CASE proc[p].pc \notin {"cleanBackup", "unmark"}
        <4>1. \A q \in Proc : proc[q].pc \notin {"cleanBackup", "unmark"}
          BY <1>1, <3>2, OneRole
        <4>2. faults >= 2
          BY <2>1, <4>1, Parts DEF Cost
        <4> QED
          BY <1>1, <4>2
      <3> QED
        BY <3>1, <3>2
    <2>2. faults' >= 1
      BY <1>1
    <2> QED
      BY <1>4, <2>1, <2>2 DEF Cost
  <1>6. Role(p)' /\ MarkerAt(p)' /\ Working(p)'
    BY <1>2, Constants DEF Role, MarkerAt, Working, Restoring, Replacing, Cleaning
  <1> QED
    BY <1>1, <1>2, <1>3, <1>5, <1>6, Running DEF IInv

\* The costs, as the running process sees them.
CostAt(p) ==
    /\ marker.phase = "committing" /\ proc[p].role = "recover" => faults >= 1
    /\ marker = Committing(FALSE) /\ "staging" \notin dirs /\ proc[p].pc \notin {"cleanBackup", "unmark"} => faults >= 2

LEMMA CostNow ==
    ASSUME IInv, NEW p \in Proc, proc[p].pc # "idle"
    PROVE  CostAt(p)
  BY OneRole DEF IInv, Cost, CostAt

\* What is left to show of a step of the running process.
LEMMA Finish ==
    ASSUME IInv, NEW p \in Proc, proc[p].pc # "idle", \A q \in Proc \ {p} : proc'[q] = proc[q],
           TypeOK', Stores', Disk', CostAt(p)', Role(p)', MarkerAt(p)', Working(p)'
    PROVE  IInv'
  <1>1. Cost'
    <2>1. "idle" \notin {"cleanBackup", "unmark"}
      OBVIOUS
    <2> QED
      BY <2>1, OneRoleNext DEF Cost, CostAt
  <1>2. Alone' /\ RoleOK' /\ MarkerOK' /\ WorkingOK'
    BY Running
  <1> QED
    BY <1>1, <1>2 DEF IInv

\* The files and the marker are as they were.
LEMMA Frame ==
    ASSUME UNCHANGED <<files, marker, History>>
    PROVE  /\ UNCHANGED <<live, staged, backup, dirs, marker, outcome, before, after>>
           /\ Committing(TRUE)' = Committing(TRUE) /\ Committing(FALSE)' = Committing(FALSE)
           /\ Present(before)' = Present(before) /\ Present(after)' = Present(after)
           /\ Clean' <=> Clean
           /\ faults' = faults => (Mixed' <=> Mixed)
           /\ \A e \in Entry : /\ Forwardable(e)' <=> Forwardable(e)
                               /\ Committed(e)' <=> Committed(e)
                               /\ Undoable(e)' <=> Undoable(e)
                               /\ Undone(e)' <=> Undone(e)
                               /\ Moved(e)' <=> Moved(e)
                               /\ Promoted(e)' <=> Promoted(e)
                               /\ Intact(e)' <=> Intact(e)
  <1>1. UNCHANGED <<live, staged, backup, dirs, marker, outcome, before, after>>
    BY DEF files, History
  <1> QED
    BY <1>1, CommittingFields DEF Clean, Mixed, Forwardable, Committed, Undoable, Intact, Moved, Undone, Promoted, Present

\* The stores that are compared have a database.
LEMMA Databases ==
    ASSUME TypeOK, Stores
    PROVE  /\ before[Database] = "old" /\ (after # Nothing => after[Database] = "new")
           /\ marker.phase # "none" => after # Nothing
           /\ (\A e \in Entry : Committed(e)) => live = after
           /\ (\A e \in Entry : Undone(e)) => live = before
  BY Constants DEF Stores, TypeOK, Tree, Committed, Undone, Intact

LEMMA recoverInterruptedRestoreStep ==
    ASSUME IInv, NEW p \in Proc, recoverInterruptedRestore(p)
    PROVE  IInv'
  <1>1. /\ UNCHANGED <<files, marker, History>> /\ faults' = faults /\ proc[p].pc = "read"
    BY DEF recoverInterruptedRestore
  <1>2. TypeOK /\ Stores /\ Disk /\ CostAt(p) /\ Role(p) /\ proc[p].role = "recover"
    BY <1>1, Parts, CostNow DEF Role
  <1>3. N \in 0..(N + 1) /\ 1 \in 0..(N + 1) /\ marker \in Marker /\ marker.phase \in {"none", "staging", "committing", "done"}
    BY <1>2, Constants DEF TypeOK, Marker
  <1>4. PICK l \in {"opened", "sweep", "back", "forward", "cleanStaging"} :
           /\ proc' = [proc EXCEPT ![p].pc = l, ![p].mk = marker, ![p].i = IF l = "back" THEN N ELSE 1]
           /\ marker.phase = "none" => l = "opened"
           /\ marker.phase = "staging" => l = "sweep"
           /\ marker.phase = "committing" => l = recoverCommittingRestore(marker)
           /\ marker.phase = "done" => l = "cleanStaging"
    <2>1. recoverCommittingRestore(marker) \in {"opened", "sweep", "back", "forward", "cleanStaging"}
      BY <1>3 DEF recoverCommittingRestore, Marker
    <2>2. CASE marker.phase = "none"
      BY <2>2 DEF recoverInterruptedRestore
    <2>3. CASE marker.phase = "staging"
      BY <2>3 DEF recoverInterruptedRestore
    <2>4. CASE marker.phase = "committing"
      BY <2>1, <2>4 DEF recoverInterruptedRestore
    <2>5. CASE marker.phase = "done"
      BY <2>5 DEF recoverInterruptedRestore
    <2> QED
      BY <1>3, <2>2, <2>3, <2>4, <2>5
  <1>5. /\ proc' \in [Proc -> Process] /\ (\A q \in Proc \ {p} : proc'[q] = proc[q])
        /\ proc'[p].pc = l /\ proc'[p].mk = marker /\ proc'[p].i = (IF l = "back" THEN N ELSE 1)
        /\ proc'[p].role = "recover" /\ proc'[p].cmd = proc[p].cmd /\ Kept(p)
    <2>1. proc[p] \in Process /\ l \in PcState /\ (IF l = "back" THEN N ELSE 1) \in 0..(N + 1)
      BY <1>2, <1>3, <1>4 DEF TypeOK, PcState
    <2>2. proc'[p] = [proc[p] EXCEPT !.pc = l, !.mk = marker, !.i = IF l = "back" THEN N ELSE 1]
      BY <1>2, <1>4 DEF TypeOK
    <2>3. \A q \in Proc \ {p} : proc'[q] = proc[q]
      BY <1>2, <1>4 DEF TypeOK
    <2>4. proc'[p] \in Process
      BY <2>1, <2>2, <1>3 DEF Process
    <2>5. proc' \in [Proc -> Process]
      BY <1>2, <1>4, <2>3, <2>4 DEF TypeOK
    <2> QED
      BY <1>2, <2>1, <2>2, <2>3, <2>5 DEF Process, Kept
  <1>6. TypeOK' /\ Stores' /\ Disk'
    BY <1>1, <1>2, <1>5, TypeStays, DiskStays
  <1>7. Role(p)'
    BY <1>1, <1>2, <1>5, Frame DEF Role, Restoring, Replacing, Kept
  <1>8. CostAt(p)'
    BY <1>1, <1>2, <1>5, Frame DEF CostAt
  <1>9. marker.phase # "none" => live[Database] # "none" \/ marker.phase = "committing"
    <2>1. CASE marker.phase = "staging"
      BY <1>2, <2>1, Databases DEF Disk
    <2>2. CASE marker.phase = "done"
      BY <1>2, <2>2, Databases DEF Disk
    <2> QED
      BY <1>3, <2>1, <2>2
  <1>10. MarkerAt(p)' /\ Working(p)'
    <2>1. CASE marker.phase = "none"
      BY <1>1, <1>4, <1>5, <2>1, Frame DEF MarkerAt, Working, Restoring, Replacing, Cleaning
    <2>2. CASE marker.phase = "staging"
      BY <1>1, <1>4, <1>5, <2>2, Frame DEF MarkerAt, Working, Restoring, Replacing, Cleaning
    <2>3. CASE marker.phase = "done"
      BY <1>1, <1>4, <1>5, <1>9, <2>3, Frame, CommittingFields DEF MarkerAt, Working, Restoring, Replacing, Cleaning
    <2>4. CASE marker.phase = "committing" /\ marker = Committing(TRUE)
      <3>1. l = "back" /\ \A e \in Entry : Undoable(e) /\ ~(e > N)
        <4>1. l = "back"
          BY <1>4, <2>4, CommittingFields DEF recoverCommittingRestore
        <4>2. \A e \in Entry : Undoable(e)
          BY <1>2, <2>4 DEF Disk
        <4>3. \A e \in Entry : ~(e > N)
          BY Constants DEF Entry
        <4> QED
          BY <4>1, <4>2, <4>3
      <3> QED
        BY <1>1, <1>5, <2>4, <3>1, Frame, CommittingFields DEF MarkerAt, Working, Restoring, Replacing, Cleaning
    <2>5. CASE marker.phase = "committing" /\ marker = Committing(FALSE) /\ "staging" \in dirs
      <3>1. l = "forward"
        BY <1>4, <2>5, CommittingFields DEF recoverCommittingRestore
      <3>2. \A e \in Entry : Forwardable(e) /\ ~(e < 1)
        BY <1>2, <2>5, Constants DEF Disk, Forwardable, Mixed
      <3>3. proc'[p].i = 1 /\ proc'[p].pc = "forward" /\ proc'[p].role = "recover" /\ proc'[p].mk = marker
        BY <1>5, <3>1
      <3>4. MarkerAt(p)'
        BY <1>1, <2>5, <3>3, Frame, CommittingFields DEF MarkerAt, Restoring, Replacing, Cleaning
      <3>5. Working(p)'
        BY <1>1, <2>5, <3>3, <3>2, Frame DEF Working, Restoring, Replacing, Cleaning
      <3> QED
        BY <3>4, <3>5
    <2>6. CASE marker.phase = "committing" /\ marker = Committing(FALSE) /\ "staging" \notin dirs
      <3>1. (\A e \in Entry : Committed(e)) \/ Mixed
        BY <1>2, <2>6 DEF Disk
      <3>2. Mixed
        <4>1. faults >= 2
          BY <1>1, <1>2, <2>6 DEF CostAt
        <4>2. (\A e \in Entry : Committed(e)) => live[Database] # "none"
          BY <1>2, <2>6, Databases
        <4> QED
          BY <2>6, <3>1, <4>1, <4>2 DEF Mixed
      <3>3. CASE "backup" \notin dirs /\ live[Database] # "none"
        <4>1. l = "cleanStaging"
          BY <1>4, <2>6, <3>3, CommittingFields DEF recoverCommittingRestore
        <4> QED
          BY <1>1, <1>5, <2>6, <3>2, <3>3, <4>1, Frame, CommittingFields DEF MarkerAt, Working, Restoring, Replacing, Cleaning
      <3>4. CASE ~("backup" \notin dirs /\ live[Database] # "none")
        <4>1. l = "back" /\ N # 0
          <5>1. N # 0
            BY Constants
          <5> QED
            BY <1>4, <2>6, <3>4, <5>1, CommittingFields DEF recoverCommittingRestore
        <4> QED
          BY <1>1, <1>5, <2>6, <3>2, <4>1, Frame, CommittingFields DEF MarkerAt, Working, Restoring, Replacing, Cleaning
      <3> QED
        BY <3>3, <3>4
    <2>7. marker.phase = "committing" => marker = Committing(TRUE) \/ marker = Committing(FALSE)
      BY <1>2 DEF Disk
    <2> QED
      BY <1>3, <2>1, <2>2, <2>3, <2>4, <2>5, <2>6, <2>7
  <1> QED
    BY <1>1, <1>5, <1>6, <1>7, <1>8, <1>10, Finish

-----------------------------------------------------------------------------
(* Recovery                                                                 *)

LEMMA sweepStagingStep ==
    ASSUME IInv, NEW p \in Proc, sweepStaging(p)
    PROVE  IInv'
  <1>1. /\ proc[p].pc = "sweep" /\ staged' = Nothing /\ dirs' = dirs \ {"staging"} /\ Goto(p, "unmark")
        /\ UNCHANGED <<live, backup, marker, outcome, before, after, faults>>
    BY DEF sweepStaging, History
  <1>2. TypeOK /\ Stores /\ Disk /\ CostAt(p) /\ Role(p) /\ MarkerAt(p) /\ proc[p].role = "recover" /\ marker.phase = "staging"
    BY <1>1, Parts, CostNow DEF Role, MarkerAt
  <1>3. /\ Same(p) /\ Kept(p) /\ proc'[p].pc = "unmark" /\ proc'[p].i = proc[p].i /\ proc'[p].mk = proc[p].mk
        /\ proc'[p].role = "recover"
    BY <1>1, <1>2, GotoType DEF PcState
  <1>4. TypeOK'
    BY <1>1, <1>2, <1>3, Constants DEF TypeOK, Same
  <1>5. Stores'
    BY <1>1, <1>2 DEF Stores
  <1>6. Clean' /\ live' = before' /\ live'[Database] # "none" /\ marker' # Committing(TRUE)' /\ marker' # Committing(FALSE)'
    BY <1>1, <1>2, Databases, CommittingFields DEF Disk, Clean
  <1>7. Disk'
    BY <1>1, <1>2, <1>6 DEF Disk
  <1>8. CostAt(p)'
    BY <1>1, <1>2, <1>6 DEF CostAt
  <1>9. Role(p)'
    BY <1>1, <1>2, <1>3 DEF Role, Restoring, Replacing, Same, Kept
  <1>10. MarkerAt(p)'
    BY <1>1, <1>2, <1>3 DEF MarkerAt, Restoring, Replacing, Cleaning
  <1>11. Working(p)'
    BY <1>1, <1>2, <1>3, <1>6 DEF Working, Restoring, Replacing, Cleaning
  <1> QED
    BY <1>1, <1>3, <1>4, <1>5, <1>7, <1>8, <1>9, <1>10, <1>11, Finish DEF Same

LEMMA cleanupRestoreStagingStep ==
    ASSUME IInv, NEW p \in Proc, cleanupRestoreStaging(p)
    PROVE  IInv'
  <1>1. /\ proc[p].pc = "cleanStaging" /\ staged' = Nothing /\ dirs' = dirs \ {"staging"} /\ Goto(p, "cleanBackup")
        /\ UNCHANGED <<live, backup, marker, outcome, before, after, faults>>
    BY DEF cleanupRestoreStaging, History
  <1>2. /\ TypeOK /\ Stores /\ Disk /\ CostAt(p) /\ Role(p)
        /\ marker.phase = "done" \/ (proc[p].role = "recover" /\ marker.phase = "committing")
    BY <1>1, Parts, CostNow DEF MarkerAt, Cleaning
  <1>3. /\ Same(p) /\ Kept(p) /\ proc'[p].pc = "cleanBackup" /\ proc'[p].i = proc[p].i /\ proc'[p].mk = proc[p].mk
        /\ proc'[p].role = proc[p].role
    BY <1>1, <1>2, GotoType DEF PcState
  <1>4. TypeOK'
    BY <1>1, <1>2, <1>3, Constants DEF TypeOK, Same
  <1>5. Stores'
    BY <1>1, <1>2 DEF Stores
  <1>6. /\ live[Database] # "none"
        /\ marker = Committing(FALSE) => (\A e \in Entry : Committed(e)) \/ Mixed
        /\ marker = Committing(TRUE) => (\A e \in Entry : Undone(e))
        /\ proc[p].role = "commit" => live = after
        /\ proc[p].role = "abort" => live = before
    BY <1>1, Parts DEF Working, Cleaning
  <1>7. Committing(TRUE)' = Committing(TRUE) /\ Committing(FALSE)' = Committing(FALSE)
    BY <1>1, CommittingFields
  <1>8. /\ (\A e \in Entry : Committed(e)) \/ Mixed => (\A e \in Entry : Committed(e)') \/ Mixed'
        /\ \A e \in Entry : (Undone(e) => Undone(e)') /\ (Undoable(e) => Undoable(e)')
    BY <1>1, Constants DEF Committed, Mixed, Undone, Undoable, Intact
  <1>9. Disk'
    BY <1>1, <1>2, <1>6, <1>7, <1>8 DEF Disk
  <1>10. CostAt(p)'
    BY <1>1, <1>2, <1>3 DEF CostAt
  <1>11. Role(p)'
    BY <1>1, <1>2, <1>3 DEF Role, Restoring, Replacing, Same, Kept
  <1>12. MarkerAt(p)'
    BY <1>1, <1>2, <1>3 DEF MarkerAt, Restoring, Replacing, Cleaning
  <1>13. Working(p)'
    BY <1>1, <1>3, <1>6, <1>7, <1>8 DEF Working, Restoring, Replacing, Cleaning
  <1> QED
    BY <1>1, <1>3, <1>4, <1>5, <1>9, <1>10, <1>11, <1>12, <1>13, Finish DEF Same

LEMMA cleanupCompletedRestoreStep ==
    ASSUME IInv, NEW p \in Proc, cleanupCompletedRestore(p)
    PROVE  IInv'
  <1>1. /\ proc[p].pc = "cleanBackup"
        /\ UNCHANGED <<live, staged, marker, outcome, before, after, faults>>
    BY DEF cleanupCompletedRestore, RemoveBackup, History
  <1>2. /\ TypeOK /\ Stores /\ Disk /\ CostAt(p) /\ Role(p)
        /\ marker.phase = "done" \/ (proc[p].role = "recover" /\ marker.phase = "committing")
    BY <1>1, Parts, CostNow DEF MarkerAt, Cleaning
  <1>3. /\ live[Database] # "none" /\ "staging" \notin dirs
        /\ marker = Committing(FALSE) => (\A e \in Entry : Committed(e)) \/ Mixed
        /\ marker = Committing(TRUE) => (\A e \in Entry : Undone(e))
        /\ proc[p].role = "commit" => live = after
        /\ proc[p].role = "abort" => live = before
    BY <1>1, Parts DEF Working, Cleaning
  <1>4. Committing(TRUE)' = Committing(TRUE) /\ Committing(FALSE)' = Committing(FALSE)
    BY <1>1, CommittingFields
  <1>5. CASE \E e \in Present(backup) : backup' = [backup EXCEPT ![e] = "none"] /\ UNCHANGED <<dirs, proc>>
    <2>1. PICK e \in Present(backup) : backup' = [backup EXCEPT ![e] = "none"] /\ UNCHANGED <<dirs, proc>>
      BY <1>5
    <2>2. TypeOK'
      BY <1>1, <1>2, <2>1 DEF TypeOK, Tree, Present
    <2>3. Stores'
      BY <1>1, <1>2 DEF Stores
    <2>4. \A x \in Entry : backup'[x] = "none" \/ backup'[x] = backup[x]
      BY <1>2, <2>1 DEF TypeOK, Tree, Present
    <2>5. /\ (\A x \in Entry : Committed(x)) \/ Mixed => (\A x \in Entry : Committed(x)') \/ Mixed'
          /\ \A x \in Entry : (Undone(x) => Undone(x)') /\ (Undone(x) => Undoable(x)')
      BY <1>1, <1>3, <2>1, <2>4, Constants DEF Committed, Mixed, Undone, Undoable, Intact
    <2>6. Disk'
      BY <1>1, <1>2, <1>3, <1>4, <2>1, <2>5 DEF Disk
    <2>7. CostAt(p)'
      BY <1>1, <1>2, <2>1 DEF CostAt
    <2>8. Role(p)'
      BY <1>1, <1>2, <2>1 DEF Role
    <2>9. MarkerAt(p)'
      BY <1>1, <1>2, <2>1 DEF MarkerAt, Restoring, Replacing, Cleaning
    <2>10. Working(p)'
      BY <1>1, <1>3, <1>4, <2>1, <2>5 DEF Working, Restoring, Replacing, Cleaning
    <2> QED
      BY <1>1, <2>1, <2>2, <2>3, <2>6, <2>7, <2>8, <2>9, <2>10, Finish
  <1>6. CASE Present(backup) = {} /\ dirs' = dirs \ {"backup"} /\ Goto(p, "unmark") /\ UNCHANGED backup
    <2>1. /\ Same(p) /\ Kept(p) /\ proc'[p].pc = "unmark" /\ proc'[p].i = proc[p].i /\ proc'[p].mk = proc[p].mk
          /\ proc'[p].role = proc[p].role
      BY <1>6, <1>2, GotoType DEF PcState
    <2>2. TypeOK'
      BY <1>1, <1>2, <1>6, <2>1 DEF TypeOK, Same
    <2>3. Stores'
      BY <1>1, <1>2 DEF Stores
    <2>4. backup = Nothing
      BY <1>2, <1>6 DEF TypeOK, Tree, Present, Nothing
    <2>5. /\ (\A x \in Entry : Committed(x)) \/ Mixed => (\A x \in Entry : Committed(x)') \/ Mixed'
          /\ \A x \in Entry : (Undone(x) => Undone(x)') /\ (Undone(x) => Undoable(x)')
      BY <1>1, <1>3, <1>6, Constants DEF Committed, Mixed, Undone, Undoable, Intact
    <2>6. Disk'
      BY <1>1, <1>2, <1>3, <1>4, <1>6, <2>5 DEF Disk
    <2>7. CostAt(p)'
      BY <1>1, <1>2, <2>1 DEF CostAt
    <2>8. Role(p)'
      BY <1>1, <1>2, <2>1 DEF Role, Restoring, Replacing, Same, Kept
    <2>9. MarkerAt(p)'
      BY <1>1, <1>2, <2>1 DEF MarkerAt, Restoring, Replacing, Cleaning
    <2>10. Clean' /\ "staging" \notin dirs'
      BY <1>3, <1>6, <2>4 DEF Clean, Nothing
    <2>11. Working(p)'
      BY <1>1, <1>3, <1>4, <2>1, <2>5, <2>10 DEF Working, Restoring, Replacing, Cleaning
    <2> QED
      BY <1>1, <2>1, <2>2, <2>3, <2>6, <2>7, <2>8, <2>9, <2>11, Finish DEF Same
  <1> QED
    BY <1>5, <1>6 DEF cleanupCompletedRestore, RemoveBackup

LEMMA removeRestoreMarkerStep ==
    ASSUME IInv, NEW p \in Proc, removeRestoreMarker(p)
    PROVE  IInv'
  <1>1. proc[p].pc = "unmark" /\ marker' = NoMarker /\ UNCHANGED <<live, staged, backup, dirs, before, after, faults>>
    BY DEF removeRestoreMarker, files
  <1>2. /\ TypeOK /\ Stores /\ Disk /\ CostAt(p) /\ Role(p)
        /\ marker.phase = "done" \/ (proc[p].role = "recover" /\ marker.phase \in {"committing", "staging"})
    BY <1>1, Parts, CostNow DEF MarkerAt, Cleaning
  <1>3. /\ live[Database] # "none" /\ "staging" \notin dirs /\ Clean
        /\ marker = Committing(FALSE) => (\A e \in Entry : Committed(e)) \/ Mixed
        /\ marker = Committing(TRUE) => (\A e \in Entry : Undone(e))
        /\ proc[p].role = "commit" => live = after
        /\ proc[p].role = "abort" => live = before
    BY <1>1, Parts DEF Working, Cleaning
  <1>4. outcome = "none" /\ after # Nothing
    BY <1>2, Databases DEF Stores
  <1>5. faults <= 1 => live \in {before, after}
    <2>1. CASE marker.phase = "done"
      BY <1>2, <2>1 DEF Disk
    <2>2. CASE marker.phase = "staging"
      BY <1>2, <2>2 DEF Disk
    <2>3. CASE marker.phase = "committing"
      <3>1. marker = Committing(TRUE) \/ marker = Committing(FALSE)
        BY <1>2, <2>3 DEF Disk
      <3>2. faults <= 1 => ~Mixed
        BY <1>2 DEF Mixed, TypeOK
      <3> QED
        BY <1>2, <1>3, <3>1, <3>2, Databases
    <2> QED
      BY <1>2, <2>1, <2>2, <2>3
  <1>6. /\ proc' \in [Proc -> Process] /\ (\A q \in Proc \ {p} : proc'[q] = proc[q])
        /\ outcome' \in {"none", "committed", "aborted"}
        /\ outcome' = "committed" => live = after
        /\ outcome' = "aborted" => live = before
        /\ proc'[p].pc \in {"idle", "opened"} /\ proc'[p].role = "recover"
        /\ proc'[p].moved = {} /\ proc'[p].promoted = {} /\ proc'[p].cleanupBackup
        /\ proc'[p].pc # "idle" => proc'[p].cmd = proc[p].cmd /\ proc[p].role = "recover"
    <2>1. CASE proc[p].role = "recover"
      <3>1. Goto(p, "opened") /\ outcome' = outcome
        BY <2>1 DEF removeRestoreMarker
      <3>2. Same(p) /\ Kept(p) /\ proc'[p].pc = "opened" /\ proc'[p].role = proc[p].role
        BY <1>2, <3>1, GotoType DEF PcState
      <3> QED
        BY <1>2, <1>4, <2>1, <3>1, <3>2 DEF Same, Kept, Role
    <2>2. CASE proc[p].role = "commit"
      <3>1. proc' = [proc EXCEPT ![p] = Idle] /\ outcome' = "committed"
        BY <2>2 DEF removeRestoreMarker
      <3>2. proc' \in [Proc -> Process] /\ (\A q \in Proc \ {p} : proc'[q] = proc[q]) /\ proc'[p] = Idle
        BY <1>2, <3>1, IdleType
      <3> QED
        BY <1>3, <2>2, <3>1, <3>2, Constants
    <2>3. CASE proc[p].role = "abort"
      <3>1. proc' = [proc EXCEPT ![p] = Idle] /\ outcome' = "aborted"
        BY <2>3 DEF removeRestoreMarker
      <3>2. proc' \in [Proc -> Process] /\ (\A q \in Proc \ {p} : proc'[q] = proc[q]) /\ proc'[p] = Idle
        BY <1>2, <3>1, IdleType
      <3> QED
        BY <1>3, <2>3, <3>1, <3>2, Constants
    <2> QED
      BY <1>2, <2>1, <2>2, <2>3, ProcessType
  <1>7. TypeOK'
    BY <1>1, <1>2, <1>6, Constants DEF TypeOK
  <1>8. NoMarker.phase = "none" /\ marker' # Committing(TRUE)' /\ marker' # Committing(FALSE)' /\ marker'.phase = "none"
    BY <1>1, CommittingFields, Constants
  <1>9. Stores'
    BY <1>1, <1>2, <1>4, <1>6, <1>8 DEF Stores
  <1>10. Clean'
    BY <1>1, <1>3 DEF Clean, Nothing
  <1>11. Disk'
    BY <1>1, <1>3, <1>5, <1>8, <1>10 DEF Disk
  <1>12. CostAt(p)'
    BY <1>8 DEF CostAt
  <1>13. Role(p)'
    BY <1>1, <1>2, <1>6 DEF Role, Restoring, Replacing
  <1>14. MarkerAt(p)' /\ Working(p)'
    BY <1>6, <1>8 DEF MarkerAt, Working, Restoring, Replacing, Cleaning
  <1> QED
    BY <1>1, <1>6, <1>7, <1>9, <1>11, <1>12, <1>13, <1>14, Finish

LEMMA ExitStep ==
    ASSUME IInv, NEW p \in Proc, Exit(p)
    PROVE  IInv'
  <1>1. /\ UNCHANGED <<files, marker, History>> /\ faults' = faults
        /\ proc[p].pc = "opened" /\ proc' = [proc EXCEPT ![p] = Idle]
    BY DEF Exit
  <1>2. proc' \in [Proc -> Process] /\ (\A q \in Proc \ {p} : proc'[q] = proc[q]) /\ proc'[p] = Idle
    BY <1>1, IdleType DEF IInv
  <1>3. TypeOK' /\ Stores' /\ Disk'
    BY <1>1, <1>2, TypeStays, DiskStays DEF IInv
  <1>4. marker.phase = "none"
    BY <1>1, Parts DEF MarkerAt
  <1>5. CostAt(p)'
    BY <1>1, <1>4, Frame, CommittingFields DEF CostAt
  <1>6. Role(p)' /\ MarkerAt(p)' /\ Working(p)'
    BY <1>2, Constants DEF Role, MarkerAt, Working, Restoring, Replacing, Cleaning
  <1> QED
    BY <1>1, <1>2, <1>3, <1>5, <1>6, Finish

LEMMA rolledForwardStep ==
    ASSUME IInv, NEW p \in Proc, rolledForward(p)
    PROVE  IInv'
  <1>1. /\ UNCHANGED <<files, marker, History>> /\ faults' = faults /\ proc[p].pc = "forward" /\ proc[p].i = N + 1
    BY DEF rolledForward
  <1>2. TypeOK /\ Stores /\ Disk /\ CostAt(p) /\ Role(p) /\ proc[p].role = "recover" /\ marker = Committing(FALSE)
    BY <1>1, Parts, CostNow DEF Role, MarkerAt
  <1>3. \A e \in Entry : Committed(e)
    <2>1. \A e \in Entry : e < N + 1
      BY Constants
    <2> QED
      BY <1>1, <2>1, Parts DEF Working
  <1>4. live[Database] # "none"
    BY <1>2, <1>3, CommittingFields, Databases
  <1>5. Goto(p, "cleanStaging")
    BY <1>4 DEF rolledForward
  <1>6. /\ Same(p) /\ Kept(p) /\ proc'[p].pc = "cleanStaging" /\ proc'[p].i = proc[p].i /\ proc'[p].mk = proc[p].mk
        /\ proc'[p].role = "recover"
    BY <1>2, <1>5, GotoType DEF PcState
  <1>7. TypeOK' /\ Stores' /\ Disk'
    BY <1>1, <1>2, <1>6, TypeStays, DiskStays DEF Same
  <1>8. CostAt(p)'
    BY <1>1, <1>2, <1>6, Frame DEF CostAt
  <1>9. Role(p)'
    BY <1>1, <1>2, <1>6, Frame DEF Role, Restoring, Replacing, Same, Kept
  <1>10. MarkerAt(p)'
    BY <1>1, <1>2, <1>6, Frame, CommittingFields DEF MarkerAt, Restoring, Replacing, Cleaning
  <1>11. Working(p)'
    BY <1>1, <1>2, <1>3, <1>4, <1>6, Frame, CommittingFields DEF Working, Restoring, Replacing, Cleaning
  <1> QED
    BY <1>1, <1>6, <1>7, <1>8, <1>9, <1>10, <1>11, Finish DEF Same

LEMMA CompleteReplacementStep ==
    ASSUME IInv, NEW p \in Proc, CompleteReplacement(p)
    PROVE  IInv'
  <1>e. PICK e \in Entry : e = proc[p].i
    BY DEF CompleteReplacement
  <1> DEFINE promoted == staged[e] = "none" /\ e \in proc[p].mk.staged
  <1>1. /\ proc[p].pc = "forward"
        /\ \/ /\ live[e] # "none" /\ promoted
              /\ GotoAt(p, "forward", e + 1)
              /\ UNCHANGED files
           \/ /\ live[e] # "none" /\ ~promoted
              /\ live' = [live EXCEPT ![e] = "none"]
              /\ backup' = [backup EXCEPT ![e] = IF @ = "none" THEN live[e] ELSE @]
              /\ dirs' = dirs \cup {"backup"}
              /\ UNCHANGED <<staged, proc>>
           \/ /\ live[e] = "none"
              /\ live' = [live EXCEPT ![e] = staged[e]]
              /\ staged' = [staged EXCEPT ![e] = "none"]
              /\ GotoAt(p, "forward", e + 1)
              /\ UNCHANGED <<backup, dirs>>
        /\ UNCHANGED <<marker, outcome, before, after, faults>>
    BY <1>e DEF CompleteReplacement, History
  <1>2. TypeOK /\ Stores /\ Disk /\ CostAt(p) /\ Role(p) /\ proc[p].role = "recover" /\ marker = Committing(FALSE) /\ proc[p].mk = marker
    BY <1>1, Parts, CostNow DEF Role, MarkerAt
  <1>3. "staging" \in dirs /\ e >= 1 /\ \A x \in Entry : Forwardable(x) /\ (x < e => Committed(x))
    BY <1>e, <1>1, Parts DEF Working
  <1>4. e + 1 \in 0..(N + 1) /\ e + 1 >= 1
    BY <1>1, Constants
  <1>5. Committing(TRUE)' = Committing(TRUE) /\ Committing(FALSE)' = Committing(FALSE) /\ marker' = marker
    BY <1>1, CommittingFields
  <1>6. live \in Tree /\ staged \in Tree /\ backup \in Tree /\ before \in Tree /\ after \in Tree
    BY <1>2 DEF TypeOK
  <1>7. promoted <=> staged[e] = "none" /\ after[e] # "none"
    <2>1. proc[p].mk.staged = Present(after)
      BY <1>2, CommittingFields
    <2> QED
      BY <2>1 DEF Present
  <1> HIDE DEF promoted
  <1>8. /\ live' \in Tree /\ staged' \in Tree /\ backup' \in Tree /\ dirs' \in {dirs, dirs \cup {"backup"}}
        /\ \A x \in Entry : Forwardable(x)'
        /\ \A x \in Entry : Committed(x) => Committed(x)'
        /\ proc' = proc \/ (GotoAt(p, "forward", e + 1) /\ Committed(e)')
    <2>1. CASE live[e] # "none" /\ promoted /\ GotoAt(p, "forward", e + 1) /\ UNCHANGED files
      <3>1. UNCHANGED <<live, staged, backup, dirs>>
        BY <2>1 DEF files
      <3>2. Committed(e)
        BY <1>1, <1>3, <1>7, <2>1 DEF Forwardable
      <3>3. \A x \in Entry : (Forwardable(x) <=> Forwardable(x)') /\ (Committed(x) <=> Committed(x)')
        BY <1>1, <3>1 DEF Forwardable, Committed, Intact, Moved
      <3> QED
        BY <1>1, <1>3, <1>6, <2>1, <3>1, <3>2, <3>3
    <2>2. CASE /\ live[e] # "none" /\ ~promoted
               /\ live' = [live EXCEPT ![e] = "none"]
               /\ backup' = [backup EXCEPT ![e] = IF @ = "none" THEN live[e] ELSE @]
               /\ dirs' = dirs \cup {"backup"}
               /\ UNCHANGED <<staged, proc>>
      <3>1. \A x \in Entry \ {e} : live'[x] = live[x] /\ backup'[x] = backup[x]
        BY <1>6, <2>2 DEF Tree
      <3>2. live'[e] = "none" /\ backup'[e] = (IF backup[e] = "none" THEN live[e] ELSE backup[e])
        BY <1>1, <1>6, <2>2 DEF Tree
      <3>3. ~Committed(e)
        BY <1>7, <2>2 DEF Committed
      <3>4. Forwardable(e)'
        BY <1>1, <1>3, <2>2, <3>2, <3>3 DEF Forwardable, Intact, Moved
      <3>5. ASSUME NEW x \in Entry \ {e} PROVE Forwardable(x)' /\ (Committed(x) => Committed(x)')
        BY <1>1, <1>3, <2>2, <3>1 DEF Forwardable, Committed, Intact, Moved
      <3>6. live' \in Tree /\ staged' \in Tree /\ backup' \in Tree
        BY <1>1, <1>6, <2>2 DEF Tree
      <3> QED
        BY <2>2, <3>3, <3>4, <3>5, <3>6
    <2>3. CASE /\ live[e] = "none"
               /\ live' = [live EXCEPT ![e] = staged[e]]
               /\ staged' = [staged EXCEPT ![e] = "none"]
               /\ GotoAt(p, "forward", e + 1)
               /\ UNCHANGED <<backup, dirs>>
      <3>1. \A x \in Entry \ {e} : live'[x] = live[x] /\ staged'[x] = staged[x]
        BY <1>6, <2>3 DEF Tree
      <3>2. live'[e] = staged[e] /\ staged'[e] = "none" /\ backup'[e] = backup[e]
        BY <1>1, <1>6, <2>3 DEF Tree
      <3>3. Committed(e)'
        BY <1>1, <1>3, <2>3, <3>2 DEF Forwardable, Committed, Intact, Moved
      <3>4. ASSUME NEW x \in Entry \ {e} PROVE Forwardable(x)' /\ (Committed(x) => Committed(x)')
        BY <1>1, <1>3, <2>3, <3>1 DEF Forwardable, Committed, Intact, Moved
      <3>5. live' \in Tree /\ staged' \in Tree /\ backup' \in Tree
        BY <1>1, <1>6, <2>3 DEF Tree
      <3> QED
        BY <2>3, <3>3, <3>4, <3>5 DEF Forwardable
    <2> QED
      BY <1>1, <2>1, <2>2, <2>3
  <1>9. /\ proc' \in [Proc -> Process] /\ (\A q \in Proc \ {p} : proc'[q] = proc[q])
        /\ proc'[p].pc = "forward" /\ proc'[p].role = "recover" /\ proc'[p].mk = proc[p].mk /\ Kept(p) /\ proc'[p].cmd = proc[p].cmd
        /\ proc'[p].i >= 1 /\ \A x \in Entry : x < proc'[p].i => Committed(x)'
    <2>1. CASE proc' = proc
      BY <1>e, <1>1, <1>2, <1>3, <1>8, <2>1 DEF TypeOK, Kept
    <2>2. CASE GotoAt(p, "forward", e + 1) /\ Committed(e)'
      <3>1. Same(p) /\ Kept(p) /\ proc'[p].pc = "forward" /\ proc'[p].i = e + 1 /\ proc'[p].mk = proc[p].mk /\ proc'[p].role = proc[p].role
        BY <1>2, <1>4, <2>2, GotoAtType DEF PcState
      <3>2. \A x \in Entry : x < e + 1 => x < e \/ x = e
        BY <1>1, Constants
      <3> QED
        BY <1>2, <1>3, <1>4, <1>8, <2>2, <3>1, <3>2 DEF Same
    <2> QED
      BY <1>8, <2>1, <2>2
  <1>10. TypeOK'
    BY <1>1, <1>2, <1>8, <1>9 DEF TypeOK
  <1>11. Stores'
    BY <1>1, <1>2, <1>5, CommittingFields, Databases DEF Stores
  <1>12. "staging" \in dirs'
    BY <1>3, <1>8
  <1>13. Disk'
    BY <1>2, <1>5, <1>8, <1>12, CommittingFields DEF Disk
  <1>14. CostAt(p)'
    BY <1>1, <1>2, <1>5, <1>9, <1>12 DEF CostAt
  <1>15. Role(p)'
    BY <1>1, <1>2, <1>9 DEF Role, Restoring, Replacing, Kept
  <1>16. MarkerAt(p)'
    BY <1>2, <1>5, <1>9 DEF MarkerAt, Restoring, Replacing, Cleaning
  <1>17. Working(p)'
    BY <1>8, <1>9, <1>12 DEF Working, Restoring, Replacing, Cleaning
  <1>18. proc[p].pc # "idle"
    BY <1>1
  <1> QED
    BY <1>9, <1>10, <1>11, <1>13, <1>14, <1>15, <1>16, <1>17, <1>18, Finish

LEMMA RestoreReplacementBackupStep ==
    ASSUME IInv, NEW p \in Proc, RestoreReplacementBackup(p)
    PROVE  IInv'
  <1>e. PICK e \in Entry : e = proc[p].i
    BY DEF RestoreReplacementBackup
  <1> DEFINE inPlace == backup[e] = "none" /\ e \in proc[p].mk.original
             Leaves == inPlace /\ GotoAt(p, "back", e - 1) /\ UNCHANGED <<live, backup>>
             Clears == ~inPlace /\ live[e] # "none" /\ live' = [live EXCEPT ![e] = "none"] /\ UNCHANGED <<backup, proc>>
             Renames == /\ ~inPlace /\ live[e] = "none"
                        /\ live' = [live EXCEPT ![e] = backup[e]]
                        /\ backup' = [backup EXCEPT ![e] = "none"]
                        /\ GotoAt(p, "back", e - 1)
  <1>1. /\ proc[p].pc = "back" /\ (Leaves \/ Clears \/ Renames)
        /\ UNCHANGED <<staged, dirs, marker, outcome, before, after, faults>>
    BY <1>e DEF RestoreReplacementBackup, History
  <1>2. /\ TypeOK /\ Stores /\ Disk /\ CostAt(p) /\ Role(p) /\ proc[p].role \in {"recover", "abort"} /\ marker.phase = "committing"
        /\ proc[p].mk = marker
    BY <1>1, Parts, CostNow DEF Role, MarkerAt
  <1>3. /\ marker = Committing(TRUE) => \A x \in Entry : Undoable(x) /\ (x > e => Undone(x))
        /\ marker = Committing(FALSE) => proc[p].role = "recover" /\ Mixed
    BY <1>e, <1>1, Parts DEF Working
  <1>4. e - 1 \in 0..(N + 1)
    BY <1>1, Constants
  <1>5. Committing(TRUE)' = Committing(TRUE) /\ Committing(FALSE)' = Committing(FALSE) /\ marker' = marker
    BY <1>1, CommittingFields
  <1>6. live \in Tree /\ backup \in Tree /\ before \in Tree
    BY <1>2 DEF TypeOK
  <1>7. marker = Committing(TRUE) \/ marker = Committing(FALSE)
    BY <1>2 DEF Disk
  <1>8. inPlace <=> backup[e] = "none" /\ before[e] # "none"
    BY <1>1, <1>2, <1>7, CommittingFields DEF Present
  <1> HIDE DEF inPlace
  <1>9. /\ live' \in Tree /\ backup' \in Tree
        /\ proc' = proc \/ GotoAt(p, "back", e - 1)
        /\ \A x \in Entry \ {e} : live'[x] = live[x] /\ backup'[x] = backup[x]
        /\ Clears => live'[e] = "none" /\ backup'[e] = backup[e]
        /\ Leaves => live'[e] = live[e] /\ backup'[e] = backup[e]
        /\ Renames => live'[e] = backup[e] /\ backup'[e] = "none"
        /\ proc' # proc => Leaves \/ Renames
    BY <1>1, <1>6 DEF Tree
  <1>10. ASSUME marker = Committing(TRUE) PROVE /\ \A x \in Entry : Undoable(x)' /\ (x > e => Undone(x)')
                                                /\ proc' # proc => Undone(e)'
    <2>1. \A x \in Entry \ {e} : Undoable(x)' /\ (x > e => Undone(x)')
      BY <1>1, <1>3, <1>9, <1>10 DEF Undoable, Undone, Intact
    <2>2. Undoable(e) /\ ~(e > e)
      BY <1>1, <1>3, <1>10, Constants
    <2>3. Undoable(e)' /\ (proc' # proc => Undone(e)')
      <3>1. CASE Leaves
        <4>1. inPlace /\ live'[e] = live[e] /\ backup'[e] = backup[e] /\ before' = before
          BY <1>1, <1>9, <3>1
        <4> QED
          BY <1>8, <2>2, <4>1 DEF Undoable, Undone, Intact
      <3>2. CASE Clears
        <4>1. ~inPlace /\ live'[e] = "none" /\ backup'[e] = backup[e] /\ proc' = proc /\ before' = before
          BY <1>1, <1>9, <3>2
        <4> QED
          BY <1>8, <2>2, <4>1 DEF Undoable, Undone, Intact
      <3>3. CASE Renames
        <4>1. ~inPlace /\ live'[e] = backup[e] /\ backup'[e] = "none" /\ before' = before
          BY <1>1, <1>9, <3>3
        <4> QED
          BY <1>8, <2>2, <4>1 DEF Undoable, Undone, Intact
      <3> QED
        BY <1>1, <3>1, <3>2, <3>3
    <2> QED
      BY <2>1, <2>2, <2>3
  <1>11. ASSUME marker = Committing(FALSE) PROVE Mixed' /\ (proc' # proc /\ e - 1 = 0 => live'[Database] # "none")
    <2>1. Mixed
      BY <1>3, <1>11
    <2>2. CASE e # Database
      <3>1. e - 1 # 0 /\ live'[Database] = live[Database] /\ backup'[Database] = backup[Database]
        BY <1>1, <1>9, <2>2, Constants DEF Database
      <3> QED
        BY <1>1, <2>1, <3>1 DEF Mixed
    <2>3. CASE e = Database
      <3>1. before[e] = "old"
        BY <1>2, <2>3, Databases
      <3>2. CASE Leaves
        BY <1>1, <1>8, <1>9, <2>1, <2>3, <3>1, <3>2 DEF Mixed
      <3>3. CASE Clears
        BY <1>1, <1>8, <1>9, <2>1, <2>3, <3>1, <3>3 DEF Mixed
      <3>4. CASE Renames
        BY <1>1, <1>8, <1>9, <2>1, <2>3, <3>1, <3>4 DEF Mixed
      <3> QED
        BY <1>1, <3>2, <3>3, <3>4
    <2> QED
      BY <2>2, <2>3
  <1>12. /\ proc' \in [Proc -> Process] /\ (\A q \in Proc \ {p} : proc'[q] = proc[q])
         /\ proc'[p].pc = "back" /\ proc'[p].role = proc[p].role /\ proc'[p].mk = proc[p].mk /\ Kept(p) /\ proc'[p].cmd = proc[p].cmd
         /\ proc'[p].i = e \/ (proc' # proc /\ proc'[p].i = e - 1)
    <2>1. CASE proc' = proc
      BY <1>e, <1>1, <1>2, <2>1 DEF TypeOK, Kept
    <2>2. CASE proc' # proc
      <3>1. GotoAt(p, "back", e - 1)
        BY <1>9, <2>2
      <3>2. Same(p) /\ Kept(p) /\ proc'[p].pc = "back" /\ proc'[p].i = e - 1 /\ proc'[p].mk = proc[p].mk /\ proc'[p].role = proc[p].role
        BY <1>2, <1>4, <3>1, GotoAtType DEF PcState
      <3> QED
        BY <2>2, <3>2 DEF Same
    <2> QED
      BY <2>1, <2>2
  <1>13. TypeOK'
    BY <1>1, <1>2, <1>9, <1>12 DEF TypeOK
  <1>14. Stores'
    BY <1>1, <1>2, <1>5, Databases DEF Stores
  <1>15. Disk'
    BY <1>2, <1>5, <1>7, <1>10, <1>11, CommittingFields DEF Disk
  <1>16. CostAt(p)'
    BY <1>1, <1>2, <1>5, <1>12 DEF CostAt
  <1>17. Role(p)'
    BY <1>1, <1>2, <1>12 DEF Role, Restoring, Replacing, Kept
  <1>18. MarkerAt(p)'
    BY <1>2, <1>5, <1>12 DEF MarkerAt, Restoring, Replacing, Cleaning
  <1>19. marker = Committing(TRUE) => \A x \in Entry : Undoable(x)' /\ (x > proc'[p].i => Undone(x)')
    <2>1. \A x \in Entry : x > e - 1 => x > e \/ x = e
      BY <1>1, Constants
    <2> QED
      BY <1>1, <1>10, <1>12, <2>1
  <1>20. marker = Committing(FALSE) => proc'[p].role = "recover" /\ Mixed' /\ (proc'[p].i = 0 => live'[Database] # "none")
    <2>1. e # 0
      BY <1>1, Constants
    <2> QED
      BY <1>3, <1>11, <1>12, <2>1
  <1>21. Working(p)'
    BY <1>5, <1>12, <1>19, <1>20 DEF Working, Restoring, Replacing, Cleaning
  <1>22. proc[p].pc # "idle"
    BY <1>1
  <1> QED
    BY <1>12, <1>13, <1>14, <1>15, <1>16, <1>17, <1>18, <1>21, <1>22, Finish

LEMMA rolledBackStep ==
    ASSUME IInv, NEW p \in Proc, rolledBack(p)
    PROVE  IInv'
  <1>1. /\ UNCHANGED <<files, marker, History>> /\ faults' = faults /\ proc[p].pc = "back" /\ proc[p].i = 0
    BY DEF rolledBack
  <1>2. /\ TypeOK /\ Stores /\ Disk /\ CostAt(p) /\ Role(p) /\ proc[p].role \in {"recover", "abort"} /\ marker.phase = "committing"
        /\ proc[p].mk = marker
    BY <1>1, Parts, CostNow DEF Role, MarkerAt
  <1>3. marker = Committing(TRUE) => \A x \in Entry : Undone(x)
    <2>1. \A x \in Entry : x > 0
      BY Constants
    <2> QED
      BY <1>1, <2>1, Parts DEF Working
  <1>4. marker = Committing(FALSE) => proc[p].role = "recover" /\ Mixed /\ live[Database] # "none"
    BY <1>1, Parts DEF Working
  <1>5. marker = Committing(TRUE) \/ marker = Committing(FALSE)
    BY <1>2 DEF Disk
  <1>6. Committing(TRUE) # Committing(FALSE)
    BY CommittingFields
  <1>7. live[Database] # "none"
    BY <1>2, <1>3, <1>4, <1>5, Databases
  <1>8. PICK l \in {"markDone", "cleanStaging"} : Goto(p, l) /\ (l = "markDone" <=> proc[p].role = "abort")
    BY <1>2, <1>7 DEF rolledBack
  <1>9. /\ Same(p) /\ Kept(p) /\ proc'[p].pc = l /\ proc'[p].i = proc[p].i /\ proc'[p].mk = proc[p].mk
        /\ proc'[p].role = proc[p].role
    BY <1>2, <1>8, GotoType DEF PcState
  <1>10. TypeOK' /\ Stores' /\ Disk'
    BY <1>1, <1>2, <1>9, TypeStays, DiskStays DEF Same
  <1>11. CostAt(p)'
    BY <1>1, <1>2, <1>9, Frame DEF CostAt
  <1>12. Role(p)'
    BY <1>1, <1>2, <1>8, <1>9, Frame DEF Role, Restoring, Replacing, Same, Kept
  <1>13. MarkerAt(p)'
    BY <1>1, <1>2, <1>8, <1>9, Frame, CommittingFields DEF MarkerAt, Restoring, Replacing, Cleaning
  <1>14. Working(p)'
    <2>1. CASE marker = Committing(TRUE)
      <3>1. live = before
        BY <1>2, <1>3, <2>1, Databases
      <3> QED
        BY <1>1, <1>2, <1>3, <1>6, <1>7, <1>8, <1>9, <2>1, <3>1, Frame DEF Working, Restoring, Replacing, Cleaning
    <2>2. CASE marker = Committing(FALSE)
      BY <1>1, <1>2, <1>4, <1>6, <1>7, <1>8, <1>9, <2>2, Frame DEF Working, Restoring, Replacing, Cleaning
    <2> QED
      BY <1>5, <2>1, <2>2
  <1> QED
    BY <1>1, <1>9, <1>10, <1>11, <1>12, <1>13, <1>14, Finish DEF Same

-----------------------------------------------------------------------------
(* restore-db                                                               *)

LEMMA stageStoreStep ==
    ASSUME IInv, NEW p \in Proc, stageStore(p)
    PROVE  IInv'
  <1>1. /\ proc[p].pc = "opened" /\ proc[p].cmd = "restore" /\ dirs' = dirs \cup {"staging"} /\ before' = live
        /\ UNCHANGED <<live, backup, marker, outcome, faults>>
    BY DEF stageStore
  <1>2. PICK t \in [Entry -> {"none", "new"}] :
           /\ t[Database] = "new" /\ staged' = t /\ after' = t
           /\ proc' = [proc EXCEPT ![p].pc = "markStaging", ![p].role = "commit",
                         ![p].mk = [phase |-> "staging", rollbackOnly |-> FALSE,
                                    staged |-> Present(t), original |-> Present(live)]]
    BY DEF stageStore
  <1>3. /\ TypeOK /\ Stores /\ Disk /\ Role(p) /\ proc[p].role = "recover" /\ after = Nothing /\ marker.phase = "none"
        /\ proc[p].moved = {} /\ proc[p].promoted = {} /\ proc[p].cleanupBackup
    BY <1>1, Parts DEF Role, MarkerAt
  <1>4. Clean /\ live = before /\ live[Database] # "none" /\ outcome = "none"
    BY <1>3 DEF Disk, Stores
  <1> DEFINE mk == [phase |-> "staging", rollbackOnly |-> FALSE, staged |-> Present(t), original |-> Present(live)]
  <1>5. mk \in Marker /\ mk = [phase |-> "staging", rollbackOnly |-> FALSE, staged |-> Present(after)', original |-> Present(before)']
    BY <1>1, <1>2 DEF Marker, Present
  <1> HIDE DEF mk
  <1>6. /\ proc' \in [Proc -> Process] /\ (\A q \in Proc \ {p} : proc'[q] = proc[q])
        /\ proc'[p].pc = "markStaging" /\ proc'[p].role = "commit" /\ proc'[p].mk = mk
        /\ proc'[p].moved = {} /\ proc'[p].promoted = {} /\ proc'[p].cleanupBackup
    <2>1. proc' = [proc EXCEPT ![p].pc = "markStaging", ![p].role = "commit", ![p].mk = mk]
      BY <1>2 DEF mk
    <2>2. "markStaging" \in PcState
      BY DEF PcState
    <2> QED
      BY <1>3, <1>5, <2>1, <2>2 DEF TypeOK, Process
  <1>7. t \in Tree /\ t # Nothing
    BY <1>2, Constants DEF Tree
  <1>8. TypeOK'
    BY <1>1, <1>2, <1>3, <1>6, <1>7 DEF TypeOK
  <1>9. Stores'
    BY <1>1, <1>2, <1>3, <1>4, <1>7 DEF Stores
  <1>10. Clean'
    BY <1>1, <1>4 DEF Clean, Nothing
  <1>11. marker' # Committing(TRUE)' /\ marker' # Committing(FALSE)' /\ marker'.phase = "none"
    BY <1>1, <1>3 DEF Committing
  <1>12. Disk'
    BY <1>1, <1>4, <1>10, <1>11 DEF Disk
  <1>13. CostAt(p)'
    BY <1>11 DEF CostAt
  <1>14. Role(p)'
    BY <1>1, <1>2, <1>4, <1>6, <1>7 DEF Role, Restoring, Replacing
  <1>15. MarkerAt(p)'
    BY <1>5, <1>6, <1>11 DEF MarkerAt, Restoring, Replacing, Cleaning
  <1>16. "staging" \in dirs' /\ staged' = after' /\ live' = before' /\ backup' = Nothing'
    BY <1>1, <1>2, <1>4 DEF Clean, Nothing
  <1>17. Working(p)'
    BY <1>6, <1>16 DEF Working, Restoring, Replacing, Cleaning
  <1> QED
    BY <1>1, <1>6, <1>8, <1>9, <1>12, <1>13, <1>14, <1>15, <1>17, Finish

LEMMA markStagingStep ==
    ASSUME IInv, NEW p \in Proc, markStaging(p)
    PROVE  IInv'
  <1> DEFINE mk == proc[p].mk
  <1>1. TypeOK /\ mk \in Marker
    BY Parts, ProcessType
  <1>2. /\ Same(p) /\ Kept(p) /\ proc'[p].pc = "markCommitting" /\ proc'[p].i = 1 /\ proc'[p].mk = mk /\ proc'[p].role = proc[p].role
        /\ proc[p].pc = "markStaging" /\ marker' = mk /\ UNCHANGED <<live, staged, backup, dirs, outcome, before, after, faults>>
    <2>1. "markCommitting" \in PcState
      BY DEF PcState
    <2> QED
      BY <1>1, <2>1, WriteMarkerType DEF markStaging, files, History
  <1>3. /\ Stores /\ Disk /\ Role(p) /\ proc[p].role = "commit" /\ marker.phase = "none" /\ after # Nothing /\ outcome = "none"
        /\ mk = [phase |-> "staging", rollbackOnly |-> FALSE, staged |-> Present(after), original |-> Present(before)]
    BY <1>2, Parts DEF Role, MarkerAt, Restoring
  <1>4. /\ "staging" \in dirs /\ staged = after /\ live = before /\ backup = Nothing /\ proc[p].promoted = {} /\ proc[p].moved = {}
        /\ proc[p].cleanupBackup
    BY <1>2, Parts DEF Working, Restoring
  <1>5. Clean
    BY <1>3 DEF Disk
  <1> HIDE DEF mk
  <1>6. marker'.phase = "staging" /\ marker' # Committing(TRUE)' /\ marker' # Committing(FALSE)'
    BY <1>2, <1>3 DEF Committing
  <1>7. TypeOK'
    BY <1>1, <1>2 DEF TypeOK, Same
  <1>8. Stores'
    BY <1>2, <1>3 DEF Stores
  <1>9. Clean' /\ Nothing' = Nothing
    BY <1>2, <1>5 DEF Clean, Nothing
  <1>10. Disk'
    BY <1>2, <1>4, <1>6, <1>9 DEF Disk
  <1>11. CostAt(p)'
    BY <1>6 DEF CostAt
  <1>12. Role(p)'
    BY <1>2, <1>3 DEF Role, Restoring, Replacing
  <1>13. MarkerAt(p)'
    BY <1>2, <1>3, <1>6 DEF MarkerAt, Restoring, Replacing, Cleaning, Present
  <1>14. Working(p)'
    BY <1>2, <1>4, <1>9 DEF Working, Restoring, Replacing, Cleaning, Kept
  <1> QED
    BY <1>2, <1>7, <1>8, <1>10, <1>11, <1>12, <1>13, <1>14, Finish DEF Same

LEMMA markStagingFailsStep ==
    ASSUME IInv, NEW p \in Proc, markStagingFails(p)
    PROVE  IInv'
  <1>1. /\ proc[p].pc = "markStaging" /\ marker' \in {marker, proc[p].mk} /\ staged' = Nothing /\ dirs' = dirs \ {"staging"}
        /\ proc' = [proc EXCEPT ![p] = Idle] /\ faults' = faults + 1
        /\ UNCHANGED <<live, backup, outcome, before, after>>
    BY DEF markStagingFails, Fault, History
  <1>2. proc' \in [Proc -> Process] /\ (\A q \in Proc \ {p} : proc'[q] = proc[q]) /\ proc'[p] = Idle
    BY <1>1, IdleType DEF IInv
  <1>3. /\ TypeOK /\ Stores /\ Disk /\ marker.phase = "none" /\ after # Nothing /\ outcome = "none"
        /\ proc[p].mk = [phase |-> "staging", rollbackOnly |-> FALSE, staged |-> Present(after), original |-> Present(before)]
    BY <1>1, Parts DEF Role, MarkerAt, Restoring
  <1>4. live = before /\ backup = Nothing
    BY <1>1, Parts DEF Working
  <1>5. Clean /\ live[Database] # "none"
    BY <1>3 DEF Disk
  <1>6. marker' \in Marker /\ faults \in Nat
    BY <1>1, <1>3, ProcessType DEF TypeOK
  <1>7. marker'.phase \in {"none", "staging"} /\ marker' # Committing(TRUE)' /\ marker' # Committing(FALSE)'
    BY <1>1, <1>3 DEF Committing
  <1>8. TypeOK'
    BY <1>1, <1>2, <1>3, <1>6, Constants DEF TypeOK
  <1>9. Stores'
    BY <1>1, <1>3 DEF Stores
  <1>10. Clean'
    BY <1>1, <1>5 DEF Clean, Nothing
  <1>11. Disk'
    BY <1>1, <1>4, <1>5, <1>7, <1>10 DEF Disk
  <1>12. CostAt(p)'
    BY <1>7 DEF CostAt
  <1>13. Role(p)' /\ MarkerAt(p)' /\ Working(p)'
    BY <1>2, Constants DEF Role, MarkerAt, Working, Restoring, Replacing, Cleaning
  <1> QED
    BY <1>1, <1>2, <1>8, <1>9, <1>11, <1>12, <1>13, Finish

\* A step of restore-db while its marker is committing.
LEMMA RestoreRunning ==
    ASSUME IInv, NEW p \in Proc, proc[p].pc \in Replacing \cup {"undo"}
    PROVE  /\ TypeOK /\ Stores /\ Disk /\ Role(p) /\ proc[p].role = "commit" /\ after # Nothing /\ outcome = "none"
           /\ marker = (IF proc[p].pc = "undo" THEN Committing(TRUE) ELSE Committing(FALSE)) /\ proc[p].mk = marker
           /\ "staging" \in dirs
  BY Parts DEF Role, MarkerAt, Working, Restoring

\* What such a step has to show.
LEMMA RestoreGoesOn ==
    ASSUME IInv, NEW p \in Proc, proc[p].pc \in Replacing \cup {"undo"}, TypeOK',
           \A q \in Proc \ {p} : proc'[q] = proc[q], proc'[p].role = "commit", proc'[p].mk = marker', "staging" \in dirs',
           UNCHANGED <<outcome, before, after>>,
           \/ marker' = Committing(FALSE) /\ (\A e \in Entry : Forwardable(e)') /\ proc'[p].pc \in Replacing \cup {"abort", "markDone"}
           \/ marker' = Committing(TRUE) /\ (\A e \in Entry : Undoable(e)') /\ proc'[p].pc \in {"undo", "abort"},
           Working(p)'
    PROVE  IInv'
  <1>1. /\ Stores /\ Role(p) /\ proc[p].role = "commit" /\ after # Nothing /\ outcome = "none" /\ proc[p].pc # "idle"
    BY RestoreRunning DEF Replacing
  <1>2. Committing(TRUE)' = Committing(TRUE) /\ Committing(FALSE)' = Committing(FALSE)
    BY CommittingFields
  <1>3. marker'.phase = "committing" /\ Committing(TRUE) # Committing(FALSE)
    BY CommittingFields
  <1>4. Stores'
    BY <1>1, <1>3 DEF Stores
  <1>5. Disk'
    BY <1>2, <1>3 DEF Disk
  <1>6. CostAt(p)'
    BY DEF CostAt
  <1>7. Role(p)'
    BY <1>1 DEF Role, Restoring, Replacing
  <1>8. MarkerAt(p)'
    BY <1>2, <1>3 DEF MarkerAt, Restoring, Replacing, Cleaning
  <1> QED
    BY <1>1, <1>4, <1>5, <1>6, <1>7, <1>8, Finish

LEMMA markCommittingStep ==
    ASSUME IInv, NEW p \in Proc, markCommitting(p)
    PROVE  IInv'
  <1>1. proc[p].pc = "markCommitting"
    BY DEF markCommitting, writeRestoreMarker
  <1>2. /\ TypeOK /\ Stores /\ Role(p) /\ proc[p].role = "commit" /\ after # Nothing /\ outcome = "none"
        /\ proc[p].mk = [phase |-> "staging", rollbackOnly |-> FALSE, staged |-> Present(after), original |-> Present(before)]
    BY <1>1, Parts DEF Role, MarkerAt, Restoring
  <1>3. /\ "staging" \in dirs /\ staged = after /\ live = before /\ backup = Nothing /\ proc[p].promoted = {} /\ proc[p].moved = {}
        /\ proc[p].cleanupBackup
    BY <1>1, Parts DEF Working, Restoring
  <1> DEFINE mk == Committing(FALSE)
  <1>4. [proc[p].mk EXCEPT !.phase = "committing"] = mk
    <2>1. proc[p].mk \in Marker /\ mk \in Marker
      BY <1>2, ProcessType, CommittingFields
    <2>2. mk.phase = "committing" /\ mk.rollbackOnly = FALSE /\ mk.staged = Present(after) /\ mk.original = Present(before)
      BY CommittingFields
    <2> DEFINE new == [proc[p].mk EXCEPT !.phase = "committing"]
    <2>3. new \in Marker /\ new.phase = "committing" /\ new.rollbackOnly = FALSE /\ new.staged = Present(after) /\ new.original = Present(before)
      <3>1. proc[p].mk.rollbackOnly = FALSE /\ proc[p].mk.staged = Present(after) /\ proc[p].mk.original = Present(before)
        BY <1>2
      <3> HIDE DEF mk
      <3> QED
        BY <2>1, <3>1 DEF Marker
    <2> HIDE DEF mk, new
    <2>4. new = mk
      BY <2>1, <2>2, <2>3, SameMarker
    <2> QED
      BY <2>4 DEF new
  <1>5. /\ Same(p) /\ Kept(p) /\ proc'[p].pc = "mkBackup" /\ proc'[p].mk = Committing(FALSE) /\ proc'[p].role = proc[p].role
        /\ marker' = Committing(FALSE) /\ UNCHANGED <<live, staged, backup, dirs, outcome, before, after, faults>>
    <2>1. "mkBackup" \in PcState /\ mk \in Marker
      BY CommittingFields DEF PcState
    <2>2. writeRestoreMarker(p, "markCommitting", mk, "mkBackup")
      BY <1>4 DEF markCommitting
    <2>3. mk = Committing(FALSE)
      OBVIOUS
    <2> HIDE DEF mk
    <2>4. /\ Same(p) /\ Kept(p) /\ proc'[p].pc = "mkBackup" /\ proc'[p].mk = mk /\ proc'[p].role = proc[p].role
          /\ marker' = mk /\ UNCHANGED <<files, History, faults>>
      BY <1>2, <2>1, <2>2, WriteMarkerType
    <2> QED
      BY <2>3, <2>4 DEF files, History
  <1>6. /\ Committing(TRUE)' = Committing(TRUE) /\ Committing(FALSE)' = Committing(FALSE) /\ Committing(TRUE) # Committing(FALSE)
        /\ marker'.phase = "committing" /\ Committing(FALSE) \in Marker
    BY <1>5, CommittingFields
  <1>7. \A e \in Entry : Forwardable(e)'
    BY <1>3, <1>5, Constants DEF Forwardable, Intact
  <1>8. TypeOK'
    BY <1>2, <1>5, <1>6 DEF TypeOK, Same
  <1>9. Stores'
    BY <1>2, <1>5, <1>6 DEF Stores
  <1>10. Disk'
    BY <1>3, <1>5, <1>6, <1>7 DEF Disk
  <1>11. CostAt(p)'
    BY <1>2, <1>3, <1>5 DEF CostAt
  <1>12. Role(p)'
    BY <1>2, <1>5 DEF Role, Restoring, Replacing
  <1>13. MarkerAt(p)'
    BY <1>5, <1>6 DEF MarkerAt, Restoring, Replacing, Cleaning
  <1>14. Nothing' = Nothing
    BY DEF Nothing
  <1>15. Working(p)'
    BY <1>3, <1>5, <1>14 DEF Working, Restoring, Replacing, Cleaning, Kept
  <1> QED
    BY <1>1, <1>5, <1>8, <1>9, <1>10, <1>11, <1>12, <1>13, <1>15, Finish DEF Same

LEMMA createReplacementBackupDirStep ==
    ASSUME IInv, NEW p \in Proc, createReplacementBackupDir(p)
    PROVE  IInv'
  <1>1. /\ proc[p].pc = "mkBackup" /\ dirs' = dirs \cup {"backup"} /\ GotoAt(p, "backup", 1)
        /\ UNCHANGED <<live, staged, backup, marker, outcome, before, after, faults>>
    BY DEF createReplacementBackupDir, History
  <1>2. TypeOK /\ proc[p].role = "commit" /\ marker = Committing(FALSE) /\ proc[p].mk = marker /\ "staging" \in dirs
    BY <1>1, RestoreRunning DEF Replacing
  <1>3. staged = after /\ live = before /\ backup = Nothing /\ proc[p].promoted = {} /\ proc[p].moved = {} /\ proc[p].cleanupBackup
    BY <1>1, Parts DEF Working, Replacing
  <1>4. /\ Same(p) /\ Kept(p) /\ proc'[p].pc = "backup" /\ proc'[p].i = 1 /\ proc'[p].mk = proc[p].mk /\ proc'[p].role = proc[p].role
    <2>1. "backup" \in PcState /\ 1 \in 0..(N + 1)
      BY Constants DEF PcState
    <2> QED
      BY <1>1, <1>2, <2>1, GotoAtType
  <1>5. TypeOK'
    BY <1>1, <1>2, <1>4 DEF TypeOK, Same
  <1>6. \A e \in Entry : staged'[e] = after'[e] /\ Intact(e)' /\ ~(e < 1) /\ e >= 1
    BY <1>1, <1>3, Constants DEF Intact
  <1>7. \A e \in Entry : Forwardable(e)'
    BY <1>6 DEF Forwardable
  <1>8. {e \in Present(before) : e < 1} = {}
    BY Constants DEF Present
  <1>9. Working(p)'
    <2>1. Present(before)' = Present(before)
      BY <1>1 DEF Present
    <2> QED
      BY <1>1, <1>2, <1>3, <1>4, <1>6, <1>8, <2>1 DEF Working, Restoring, Replacing, Cleaning, Kept
  <1> QED
    BY <1>1, <1>2, <1>4, <1>5, <1>7, <1>9, RestoreGoesOn DEF Same, Replacing

LEMMA backupExistingStep ==
    ASSUME IInv, NEW p \in Proc, backupExisting(p)
    PROVE  IInv'
  <1>1. PICK e \in Entry : e = proc[p].i
    BY DEF backupExisting
  <1>2. /\ proc[p].pc = "backup"
        /\ IF live[e] = "none" THEN UNCHANGED <<live, backup>>
           ELSE /\ backup' = [backup EXCEPT ![e] = live[e]]
                /\ live' = [live EXCEPT ![e] = "none"]
        /\ proc' = [proc EXCEPT ![p].i = IF e = N THEN 1 ELSE e + 1,
                                ![p].pc = IF e = N THEN "promote" ELSE @,
                                ![p].moved = IF live[e] = "none" THEN @ ELSE @ \cup {e}]
        /\ UNCHANGED <<staged, dirs, marker, outcome, before, after, faults>>
    BY <1>1 DEF backupExisting, History
  <1>3. TypeOK /\ proc[p].role = "commit" /\ marker = Committing(FALSE) /\ proc[p].mk = marker /\ "staging" \in dirs
    BY <1>2, RestoreRunning DEF Replacing
  <1>4. /\ \A x \in Entry : staged[x] = after[x] /\ (x < e => Moved(x)) /\ (x >= e => Intact(x))
        /\ proc[p].moved = {x \in Present(before) : x < e} /\ proc[p].promoted = {} /\ proc[p].cleanupBackup
    BY <1>1, <1>2, Parts DEF Working, Replacing
  <1>5. live \in Tree /\ backup \in Tree /\ live[e] = before[e] /\ backup[e] = "none"
    BY <1>3, <1>4, Constants DEF TypeOK, Intact
  <1>6. /\ live' \in Tree /\ backup' \in Tree /\ live'[e] = "none" /\ backup'[e] = before[e]
        /\ \A x \in Entry \ {e} : live'[x] = live[x] /\ backup'[x] = backup[x]
    BY <1>2, <1>5 DEF Tree
  <1>7. \A x \in Entry : (x < e + 1 => Moved(x)') /\ (x >= e + 1 => Intact(x)') /\ staged'[x] = after'[x]
    <2>1. Moved(e)'
      BY <1>2, <1>6 DEF Moved
    <2>2. \A x \in Entry \ {e} : (Moved(x) => Moved(x)') /\ (Intact(x) => Intact(x)')
      BY <1>2, <1>6 DEF Moved, Intact
    <2>3. \A x \in Entry : /\ x < e + 1 => x = e \/ x < e
                           /\ x >= e + 1 => x # e /\ x >= e
      BY Constants
    <2> QED
      BY <1>2, <1>4, <2>1, <2>2, <2>3
  <1> DEFINE moved == IF live[e] = "none" THEN proc[p].moved ELSE proc[p].moved \cup {e}
  <1>8. moved = {x \in Present(before) : x < e + 1}
    BY <1>4, <1>5, Constants DEF Present
  <1> HIDE DEF moved
  <1>9. /\ proc' \in [Proc -> Process] /\ (\A q \in Proc \ {p} : proc'[q] = proc[q])
        /\ proc'[p].i = (IF e = N THEN 1 ELSE e + 1) /\ proc'[p].pc = (IF e = N THEN "promote" ELSE "backup")
        /\ proc'[p].moved = moved
        /\ proc'[p].promoted = proc[p].promoted /\ proc'[p].cleanupBackup = proc[p].cleanupBackup
        /\ proc'[p].mk = proc[p].mk /\ proc'[p].role = proc[p].role
    <2>1. /\ proc[p] \in Process /\ (IF e = N THEN 1 ELSE e + 1) \in 0..(N + 1) /\ {"promote", "backup"} \subseteq PcState
          /\ moved \subseteq Entry
      BY <1>3, <1>8, Constants DEF TypeOK, PcState, Present
    <2>2. proc'[p] = [proc[p] EXCEPT !.i = IF e = N THEN 1 ELSE e + 1, !.pc = IF e = N THEN "promote" ELSE "backup", !.moved = moved]
      BY <1>2, <1>3 DEF TypeOK, moved
    <2>3. proc'[p] \in Process
      BY <2>1, <2>2 DEF Process
    <2>4. \A q \in Proc \ {p} : proc'[q] = proc[q]
      BY <1>2, <1>3 DEF TypeOK
    <2>5. proc' \in [Proc -> Process]
      BY <1>2, <1>3, <2>3, <2>4 DEF TypeOK
    <2> QED
      BY <2>1, <2>2, <2>4, <2>5 DEF Process
  <1>10. TypeOK'
    BY <1>2, <1>3, <1>6, <1>9 DEF TypeOK
  <1>11. \A x \in Entry : Forwardable(x)'
    <2>1. \A x \in Entry : x < e + 1 \/ x >= e + 1
      BY Constants
    <2> QED
      BY <1>7, <2>1 DEF Forwardable
  <1>12. Present(before)' = Present(before) /\ Present(after)' = Present(after)
    BY <1>2 DEF Present
  <1>13. Working(p)'
    <2>1. CASE e = N
      <3>1. \A x \in Entry : Moved(x)' /\ ~(x < 1) /\ x >= 1 /\ x < e + 1
        BY <1>7, <2>1, Constants
      <3>2. moved = Present(before) /\ {x \in Present(after) : x < 1} = {}
        BY <1>8, <3>1 DEF Present
      <3> QED
        BY <1>2, <1>3, <1>4, <1>7, <1>9, <1>12, <2>1, <3>1, <3>2 DEF Working, Restoring, Replacing, Cleaning
    <2>2. CASE e # N
      BY <1>2, <1>3, <1>4, <1>7, <1>8, <1>9, <1>12, <2>2 DEF Working, Restoring, Replacing, Cleaning
    <2> QED
      BY <2>1, <2>2
  <1> QED
    BY ZenonT(60), <1>2, <1>3, <1>9, <1>10, <1>11, <1>13, RestoreGoesOn DEF Replacing

LEMMA promoteStagedStep ==
    ASSUME IInv, NEW p \in Proc, promoteStaged(p)
    PROVE  IInv'
  <1>1. PICK e \in Entry : e = proc[p].i
    BY DEF promoteStaged
  <1>2. /\ proc[p].pc = "promote"
        /\ IF staged[e] = "none" THEN UNCHANGED <<live, staged>>
           ELSE /\ live' = [live EXCEPT ![e] = staged[e]]
                /\ staged' = [staged EXCEPT ![e] = "none"]
        /\ proc' = [proc EXCEPT ![p].i = IF e = N THEN 1 ELSE e + 1,
                                ![p].pc = IF e = N THEN "commit" ELSE @,
                                ![p].promoted = IF staged[e] = "none" THEN @ ELSE @ \cup {e}]
        /\ UNCHANGED <<backup, dirs, marker, outcome, before, after, faults>>
    BY <1>1 DEF promoteStaged, History
  <1>3. TypeOK /\ proc[p].role = "commit" /\ marker = Committing(FALSE) /\ proc[p].mk = marker /\ "staging" \in dirs
    BY <1>2, RestoreRunning DEF Replacing
  <1>4. /\ \A x \in Entry : (x < e => Promoted(x)) /\ (x >= e => staged[x] = after[x] /\ Moved(x))
        /\ proc[p].promoted = {x \in Present(after) : x < e} /\ proc[p].moved = Present(before) /\ proc[p].cleanupBackup
    BY <1>1, <1>2, Parts DEF Working, Replacing
  <1>5. live \in Tree /\ staged \in Tree /\ staged[e] = after[e] /\ live[e] = "none" /\ backup[e] = before[e]
    BY <1>3, <1>4, Constants DEF TypeOK, Moved
  <1>6. /\ live' \in Tree /\ staged' \in Tree /\ live'[e] = after[e] /\ staged'[e] = "none"
        /\ \A x \in Entry \ {e} : live'[x] = live[x] /\ staged'[x] = staged[x]
    BY <1>2, <1>5 DEF Tree
  <1>7. \A x \in Entry : (x < e + 1 => Promoted(x)') /\ (x >= e + 1 => staged'[x] = after'[x] /\ Moved(x)')
    <2>1. Promoted(e)'
      BY <1>2, <1>5, <1>6 DEF Promoted
    <2>2. \A x \in Entry \ {e} : (Promoted(x) => Promoted(x)') /\ (staged[x] = after[x] /\ Moved(x) => staged'[x] = after'[x] /\ Moved(x)')
      BY <1>2, <1>6 DEF Moved, Promoted
    <2>3. \A x \in Entry : /\ x < e + 1 => x = e \/ x < e
                           /\ x >= e + 1 => x # e /\ x >= e
      BY Constants
    <2> QED
      BY <1>4, <2>1, <2>2, <2>3
  <1> DEFINE promoted == IF staged[e] = "none" THEN proc[p].promoted ELSE proc[p].promoted \cup {e}
  <1>8. promoted = {x \in Present(after) : x < e + 1}
    BY <1>4, <1>5, Constants DEF Present
  <1> HIDE DEF promoted
  <1>9. /\ proc' \in [Proc -> Process] /\ (\A q \in Proc \ {p} : proc'[q] = proc[q])
        /\ proc'[p].i = (IF e = N THEN 1 ELSE e + 1) /\ proc'[p].pc = (IF e = N THEN "commit" ELSE "promote")
        /\ proc'[p].promoted = promoted
        /\ proc'[p].moved = proc[p].moved /\ proc'[p].cleanupBackup = proc[p].cleanupBackup
        /\ proc'[p].mk = proc[p].mk /\ proc'[p].role = proc[p].role
    <2>1. /\ proc[p] \in Process /\ (IF e = N THEN 1 ELSE e + 1) \in 0..(N + 1) /\ {"promote", "commit"} \subseteq PcState
          /\ promoted \subseteq Entry
      BY <1>3, <1>8, Constants DEF TypeOK, PcState, Present
    <2>2. proc'[p] = [proc[p] EXCEPT !.i = IF e = N THEN 1 ELSE e + 1, !.pc = IF e = N THEN "commit" ELSE "promote", !.promoted = promoted]
      BY <1>2, <1>3 DEF TypeOK, promoted
    <2>3. proc'[p] \in Process
      BY <2>1, <2>2 DEF Process
    <2>4. \A q \in Proc \ {p} : proc'[q] = proc[q]
      BY <1>2, <1>3 DEF TypeOK
    <2>5. proc' \in [Proc -> Process]
      BY <1>2, <1>3, <2>3, <2>4 DEF TypeOK
    <2> QED
      BY <2>1, <2>2, <2>4, <2>5 DEF Process
  <1>10. TypeOK'
    BY <1>2, <1>3, <1>6, <1>9 DEF TypeOK
  <1>11. \A x \in Entry : Forwardable(x)'
    <2>1. \A x \in Entry : x < e + 1 \/ x >= e + 1
      BY Constants
    <2> QED
      BY <1>7, <2>1 DEF Forwardable, Committed, Promoted
  <1>12. Present(before)' = Present(before) /\ Present(after)' = Present(after)
    BY <1>2 DEF Present
  <1>13. Working(p)'
    <2>1. CASE e = N
      <3>1. \A x \in Entry : Promoted(x)' /\ x < e + 1
        BY <1>7, <2>1, Constants
      <3>2. promoted = Present(after)
        BY <1>8, <3>1 DEF Present
      <3> QED
        BY <1>2, <1>3, <1>4, <1>9, <1>12, <2>1, <3>1, <3>2 DEF Working, Restoring, Replacing, Cleaning
    <2>2. CASE e # N
      BY <1>2, <1>3, <1>4, <1>7, <1>8, <1>9, <1>12, <2>2 DEF Working, Restoring, Replacing, Cleaning
    <2> QED
      BY <2>1, <2>2
  <1> QED
    BY ZenonT(60), <1>2, <1>3, <1>9, <1>10, <1>11, <1>13, RestoreGoesOn DEF Replacing

LEMMA commitReplacementStep ==
    ASSUME IInv, NEW p \in Proc, commitReplacement(p)
    PROVE  IInv'
  <1>1. UNCHANGED <<files, marker, History>> /\ faults' = faults /\ proc[p].pc = "commit" /\ Goto(p, "dropBackup")
    BY DEF commitReplacement
  <1>2. TypeOK /\ proc[p].role = "commit" /\ marker = Committing(FALSE) /\ proc[p].mk = marker /\ "staging" \in dirs
    BY <1>1, RestoreRunning DEF Replacing
  <1>3. /\ Same(p) /\ Kept(p) /\ proc'[p].pc = "dropBackup" /\ proc'[p].mk = proc[p].mk /\ proc'[p].role = proc[p].role
    BY <1>1, <1>2, GotoType DEF PcState
  <1>4. TypeOK'
    BY <1>1, <1>2, <1>3, TypeStays DEF Same
  <1>5. (\A e \in Entry : Committed(e)) /\ proc[p].cleanupBackup
    BY <1>1, Parts DEF Working, Replacing, Committed, Promoted
  <1>6. \A e \in Entry : Committed(e)' /\ Forwardable(e)'
    BY <1>1, <1>5, Frame DEF Forwardable
  <1>7. Working(p)'
    BY <1>1, <1>2, <1>3, <1>5, <1>6, Frame DEF Working, Restoring, Replacing, Cleaning, Kept
  <1> QED
    BY <1>1, <1>2, <1>3, <1>4, <1>6, <1>7, Frame, RestoreGoesOn DEF Same, Replacing

LEMMA dropBackupStep ==
    ASSUME IInv, NEW p \in Proc, dropBackup(p)
    PROVE  IInv'
  <1>1. proc[p].pc = "dropBackup" /\ UNCHANGED <<live, staged, marker, outcome, before, after, faults>>
    BY DEF dropBackup, RemoveBackup, History
  <1>2. TypeOK /\ proc[p].role = "commit" /\ marker = Committing(FALSE) /\ proc[p].mk = marker /\ "staging" \in dirs
    BY <1>1, RestoreRunning DEF Replacing
  <1>3. (\A e \in Entry : Committed(e)) /\ proc[p].cleanupBackup
    BY <1>1, Parts DEF Working, Replacing
  <1>4. /\ proc' \in [Proc -> Process] /\ (\A q \in Proc \ {p} : proc'[q] = proc[q])
        /\ proc'[p].pc \in {"dropBackup", "markDone"} /\ proc'[p].mk = proc[p].mk /\ proc'[p].role = proc[p].role
        /\ proc'[p].cleanupBackup
        /\ backup' \in Tree /\ (\A e \in Entry : backup'[e] = backup[e] \/ backup'[e] = "none")
        /\ dirs' \in {dirs, dirs \ {"backup"}}
    <2>1. CASE \E e \in Present(backup) : backup' = [backup EXCEPT ![e] = "none"] /\ UNCHANGED <<dirs, proc>>
      <3>1. PICK e \in Present(backup) : backup' = [backup EXCEPT ![e] = "none"] /\ UNCHANGED <<dirs, proc>>
        BY <2>1
      <3> QED
        BY <1>1, <1>2, <1>3, <3>1 DEF TypeOK, Tree, Present
    <2>2. CASE Present(backup) = {} /\ dirs' = dirs \ {"backup"} /\ Goto(p, "markDone") /\ UNCHANGED backup
      <3>1. Same(p) /\ Kept(p) /\ proc'[p].pc = "markDone" /\ proc'[p].mk = proc[p].mk /\ proc'[p].role = proc[p].role
        BY <1>2, <2>2, GotoType DEF PcState
      <3> QED
        BY <1>2, <1>3, <2>2, <3>1 DEF TypeOK, Same, Kept
    <2>3. \/ (\E e \in Present(backup) : backup' = [backup EXCEPT ![e] = "none"] /\ UNCHANGED <<dirs, proc>>)
          \/ (Present(backup) = {} /\ dirs' = dirs \ {"backup"} /\ Goto(p, "markDone") /\ UNCHANGED backup)
      BY DEF dropBackup, RemoveBackup
    <2> QED
      BY <2>1, <2>2, <2>3
  <1>5. TypeOK'
    BY <1>1, <1>2, <1>4 DEF TypeOK
  <1>6. \A e \in Entry : Committed(e)' /\ Forwardable(e)'
    BY <1>1, <1>3, <1>4 DEF Committed, Forwardable
  <1>7. "staging" \in dirs'
    BY <1>2, <1>4
  <1>8. Working(p)'
    BY <1>2, <1>4, <1>6, <1>7 DEF Working, Restoring, Replacing, Cleaning
  <1> QED
    BY <1>1, <1>2, <1>4, <1>5, <1>6, <1>7, <1>8, RestoreGoesOn DEF Replacing

LEMMA dropBackupFailsStep ==
    ASSUME IInv, NEW p \in Proc, dropBackupFails(p)
    PROVE  IInv'
  <1>1. UNCHANGED <<files, marker, History>> /\ faults' = faults + 1 /\ proc[p].pc = "dropBackup" /\ Goto(p, "markDone")
    BY DEF dropBackupFails, Fault
  <1>2. TypeOK /\ proc[p].role = "commit" /\ marker = Committing(FALSE) /\ proc[p].mk = marker /\ "staging" \in dirs
    BY <1>1, RestoreRunning DEF Replacing
  <1>3. /\ Same(p) /\ Kept(p) /\ proc'[p].pc = "markDone" /\ proc'[p].mk = proc[p].mk /\ proc'[p].role = proc[p].role
    BY <1>1, <1>2, GotoType DEF PcState
  <1>4. TypeOK'
    BY <1>1, <1>2, <1>3, TypeStays DEF Same
  <1>5. \A e \in Entry : Committed(e)
    BY <1>1, Parts DEF Working
  <1>6. \A e \in Entry : Committed(e)' /\ Forwardable(e)'
    BY <1>1, <1>5, Frame DEF Forwardable
  <1>7. Working(p)'
    BY <1>1, <1>2, <1>3, <1>6, Frame DEF Working, Restoring, Replacing, Cleaning, Kept
  <1> QED
    BY <1>1, <1>2, <1>3, <1>4, <1>6, <1>7, Frame, RestoreGoesOn DEF Same, Replacing

LEMMA markDoneStep ==
    ASSUME IInv, NEW p \in Proc, markDone(p)
    PROVE  IInv'
  <1>1. proc[p].pc = "markDone"
    BY DEF markDone, writeRestoreMarker
  <1>2. /\ TypeOK /\ Stores /\ Role(p) /\ proc[p].role \in {"commit", "abort"} /\ after # Nothing /\ outcome = "none" /\ proc[p].mk = marker
    BY <1>1, Parts DEF Role, MarkerAt
  <1>3. /\ proc[p].role = "commit" => live = after
        /\ proc[p].role = "abort" => live = before
    BY <1>1, <1>2, Parts, Databases DEF Working
  <1>4. live[Database] # "none"
    BY <1>2, <1>3, Databases
  <1> DEFINE mk == [proc[p].mk EXCEPT !.phase = "done"]
  <1>5. mk \in Marker /\ mk.phase = "done"
    BY <1>2, ProcessType DEF Marker
  <1>6. /\ Same(p) /\ Kept(p) /\ proc'[p].pc = "cleanStaging" /\ proc'[p].mk = mk /\ proc'[p].role = proc[p].role
        /\ marker' = mk /\ UNCHANGED <<live, staged, backup, dirs, outcome, before, after, faults>>
    <2>1. "cleanStaging" \in PcState /\ writeRestoreMarker(p, "markDone", mk, "cleanStaging")
      BY DEF PcState, markDone
    <2> HIDE DEF mk
    <2> QED
      BY <1>2, <1>5, <2>1, WriteMarkerType DEF files, History
  <1> HIDE DEF mk
  <1>7. marker'.phase = "done" /\ marker' # Committing(TRUE)' /\ marker' # Committing(FALSE)'
    BY <1>5, <1>6 DEF Committing
  <1>8. TypeOK'
    BY <1>2, <1>5, <1>6 DEF TypeOK, Same
  <1>9. Stores'
    BY <1>2, <1>6 DEF Stores
  <1>10. Disk'
    BY <1>2, <1>3, <1>6, <1>7 DEF Disk
  <1>11. CostAt(p)'
    BY <1>7 DEF CostAt
  <1>12. Role(p)'
    BY <1>2, <1>6 DEF Role, Restoring, Replacing
  <1>13. MarkerAt(p)'
    BY <1>6, <1>7 DEF MarkerAt, Restoring, Replacing, Cleaning
  <1>14. Working(p)'
    BY <1>3, <1>4, <1>6, <1>7 DEF Working, Restoring, Replacing, Cleaning
  <1> QED
    BY <1>1, <1>6, <1>8, <1>9, <1>10, <1>11, <1>12, <1>13, <1>14, Finish DEF Same

LEMMA replaceFailsStep ==
    ASSUME IInv, NEW p \in Proc, replaceFails(p)
    PROVE  IInv'
  <1>1. /\ UNCHANGED <<files, marker, History>> /\ faults' = faults + 1 /\ proc[p].pc \in {"mkBackup", "backup", "promote", "commit"}
        /\ Goto(p, IF proc[p].pc = "mkBackup" THEN "abort" ELSE "markRollback")
    BY DEF replaceFails, Fault
  <1>2. TypeOK /\ Disk /\ proc[p].role = "commit" /\ marker = Committing(FALSE) /\ proc[p].mk = marker /\ "staging" \in dirs
    BY <1>1, RestoreRunning DEF Replacing
  <1> DEFINE to == IF proc[p].pc = "mkBackup" THEN "abort" ELSE "markRollback"
  <1>3. /\ Same(p) /\ Kept(p) /\ proc'[p].pc = to /\ proc'[p].mk = proc[p].mk /\ proc'[p].role = proc[p].role
    <2>1. to \in PcState /\ Goto(p, to)
      BY <1>1 DEF PcState
    <2> HIDE DEF to
    <2> QED
      BY <1>2, <2>1, GotoType
  <1>4. TypeOK'
    BY <1>1, <1>2, <1>3, TypeStays DEF Same
  <1>5. (\A e \in Entry : Forwardable(e)) /\ proc[p].cleanupBackup
    BY <1>1, <1>2, Parts DEF Disk, Mixed, Forwardable, Working, Replacing
  <1>6. \A e \in Entry : Forwardable(e)'
    BY <1>1, <1>5, Frame
  <1>7. proc[p].pc = "mkBackup" => \A e \in Entry : Undoable(e)
    <2>1. proc[p].pc = "mkBackup" => live = before /\ backup = Nothing
      BY Parts DEF Working
    <2> QED
      BY <2>1, Constants DEF Undoable, Intact
  <1>8. proc[p].pc # "mkBackup" => Lists(p)
    <2>1. CASE proc[p].pc = "backup"
      <3>1. /\ \A e \in Entry : (e < proc[p].i => Moved(e)) /\ (e >= proc[p].i => Intact(e))
            /\ proc[p].moved = {e \in Present(before) : e < proc[p].i} /\ proc[p].promoted = {}
        BY <2>1, Parts DEF Working
      <3>2. \A e \in Entry : e < proc[p].i \/ e >= proc[p].i
        BY <1>2, ProcessType, Constants
      <3> QED
        BY <3>1, <3>2 DEF Lists, Present, Moved, Intact, Undoable
    <2>2. CASE proc[p].pc \in {"promote", "commit"}
      <3>1. (\A e \in Entry : backup[e] = before[e]) /\ proc[p].moved = Present(before)
        <4>1. CASE proc[p].pc = "promote"
          <5>1. \A e \in Entry : e < proc[p].i \/ e >= proc[p].i
            BY <1>2, ProcessType, Constants
          <5> QED
            BY <4>1, <5>1, Parts DEF Working, Promoted, Moved
        <4>2. CASE proc[p].pc = "commit"
          BY <4>2, Parts DEF Working, Promoted
        <4> QED
          BY <2>2, <4>1, <4>2
      <3> QED
        BY <3>1 DEF Lists, Present, Undoable
    <2> QED
      BY <1>1, <2>1, <2>2
  <1>9. Working(p)'
    <2>1. CASE proc[p].pc = "mkBackup"
      BY <1>1, <1>2, <1>3, <1>7, <2>1, Frame DEF Working, Restoring, Replacing, Cleaning
    <2>2. CASE proc[p].pc # "mkBackup"
      <3>1. Lists(p)'
        BY <1>1, <1>3, <1>8, <2>2, Frame DEF Lists, Kept
      <3> QED
        BY <1>1, <1>2, <1>3, <1>5, <1>6, <2>2, <3>1, Frame DEF Working, Restoring, Replacing, Cleaning, Kept
    <2> QED
      BY <2>1, <2>2
  <1> QED
    BY <1>1, <1>2, <1>3, <1>4, <1>6, <1>9, Frame, RestoreGoesOn DEF Same, Replacing

\* What the lists promise.
LEMMA ListsUndoable ==
    ASSUME NEW p \in Proc, Lists(p)
    PROVE  \A e \in Entry : Undoable(e)
  BY DEF Lists, Undoable

LEMMA markRestoreRollbackOnlyStep ==
    ASSUME IInv, NEW p \in Proc, markRestoreRollbackOnly(p)
    PROVE  IInv'
  <1>1. proc[p].pc = "markRollback"
    BY DEF markRestoreRollbackOnly, writeRestoreMarker
  <1>2. TypeOK /\ proc[p].role = "commit" /\ marker = Committing(FALSE) /\ proc[p].mk = marker /\ "staging" \in dirs
    BY <1>1, RestoreRunning DEF Replacing
  <1>3. Lists(p)
    BY <1>1, Parts DEF Working
  <1> DEFINE mk == [proc[p].mk EXCEPT !.rollbackOnly = TRUE]
  <1>4. mk \in Marker /\ mk = Committing(TRUE)
    <2>1. /\ mk \in Marker /\ mk.phase = marker.phase /\ mk.rollbackOnly = TRUE
          /\ mk.staged = marker.staged /\ mk.original = marker.original
      BY <1>2, ProcessType DEF Marker
    <2> HIDE DEF mk
    <2>2. /\ marker.phase = "committing" /\ marker.staged = Present(after) /\ marker.original = Present(before)
          /\ Committing(TRUE) \in Marker
          /\ Committing(TRUE).phase = "committing" /\ Committing(TRUE).rollbackOnly = TRUE
          /\ Committing(TRUE).staged = Present(after) /\ Committing(TRUE).original = Present(before)
      BY <1>2, CommittingFields
    <2> QED
      BY <2>1, <2>2, SameMarker
  <1>5. /\ Same(p) /\ Kept(p) /\ proc'[p].pc = "undo" /\ proc'[p].mk = mk /\ proc'[p].role = proc[p].role
        /\ marker' = mk /\ UNCHANGED <<live, staged, backup, dirs, outcome, before, after, faults>>
    <2>1. "undo" \in PcState /\ writeRestoreMarker(p, "markRollback", mk, "undo")
      BY DEF PcState, markRestoreRollbackOnly
    <2> HIDE DEF mk
    <2> QED
      BY ZenonT(60), <1>2, <1>4, <2>1, WriteMarkerType DEF files, History
  <1> HIDE DEF mk
  <1>6. TypeOK'
    BY <1>2, <1>4, <1>5 DEF TypeOK, Same
  <1>7. Lists(p)'
    BY <1>3, <1>5 DEF Lists, Kept, Undoable, Intact
  <1>8. \A e \in Entry : Undoable(e)'
    BY <1>7 DEF Lists, Undoable
  <1>9. Committing(TRUE)' = Committing(TRUE) /\ Committing(FALSE)' = Committing(FALSE) /\ Committing(TRUE) # Committing(FALSE)
    BY <1>5, CommittingFields
  <1>10. Working(p)'
    BY <1>2, <1>5, <1>7 DEF Working, Restoring, Replacing, Cleaning
  <1> QED
    BY <1>1, <1>2, <1>4, <1>5, <1>6, <1>8, <1>10, RestoreGoesOn DEF Same, Replacing

LEMMA rollbackFailsStep ==
    ASSUME IInv, NEW p \in Proc, rollbackFails(p)
    PROVE  IInv'
  <1>1. UNCHANGED <<files, marker, History>> /\ faults' = faults + 1 /\ proc[p].pc \in {"markRollback", "undo"} /\ Goto(p, "abort")
    BY DEF rollbackFails, Fault
  <1>2. /\ TypeOK /\ Disk /\ proc[p].role = "commit" /\ proc[p].mk = marker /\ "staging" \in dirs
        /\ marker = (IF proc[p].pc = "undo" THEN Committing(TRUE) ELSE Committing(FALSE))
    BY <1>1, RestoreRunning DEF Replacing
  <1>3. /\ Same(p) /\ Kept(p) /\ proc'[p].pc = "abort" /\ proc'[p].mk = proc[p].mk /\ proc'[p].role = proc[p].role
    BY <1>1, <1>2, GotoType DEF PcState
  <1>4. TypeOK'
    BY <1>1, <1>2, <1>3, TypeStays DEF Same
  <1>5. \A e \in Entry : Undoable(e)
    BY <1>1, Parts, ListsUndoable DEF Working
  <1>6. proc[p].pc = "markRollback" => \A e \in Entry : Forwardable(e)
    BY Parts DEF Working
  <1>7. Working(p)'
    BY <1>1, <1>2, <1>3, <1>5, Frame DEF Working, Restoring, Replacing, Cleaning
  <1> QED
    BY <1>1, <1>2, <1>3, <1>4, <1>5, <1>6, <1>7, Frame, RestoreGoesOn DEF Same, Replacing

LEMMA abortFailedRestorePromotionStep ==
    ASSUME IInv, NEW p \in Proc, abortFailedRestorePromotion(p)
    PROVE  IInv'
  <1> DEFINE mk == [proc[p].mk EXCEPT !.rollbackOnly = TRUE]
  <1>1. /\ proc[p].pc = "abort" /\ marker' = mk
        /\ proc' = [proc EXCEPT ![p].pc = "back", ![p].i = N, ![p].mk = mk, ![p].role = "abort"]
        /\ UNCHANGED <<live, staged, backup, dirs, outcome, before, after, faults>>
    BY DEF abortFailedRestorePromotion, files, History
  <1>2. /\ TypeOK /\ Stores /\ Disk /\ Role(p) /\ proc[p].role = "commit" /\ after # Nothing /\ outcome = "none"
        /\ marker.phase = "committing" /\ proc[p].mk = marker
    BY <1>1, Parts DEF Role, MarkerAt, Restoring
  <1>3. \A e \in Entry : Undoable(e)
    BY <1>1, Parts DEF Working
  <1>4. mk \in Marker /\ mk = Committing(TRUE)
    <2>1. /\ mk \in Marker /\ mk.phase = marker.phase /\ mk.rollbackOnly = TRUE
          /\ mk.staged = marker.staged /\ mk.original = marker.original
      BY <1>2, ProcessType DEF Marker
    <2> HIDE DEF mk
    <2>2. marker = Committing(TRUE) \/ marker = Committing(FALSE)
      BY <1>2 DEF Disk
    <2>3. /\ marker.phase = "committing" /\ marker.staged = Present(after) /\ marker.original = Present(before)
          /\ Committing(TRUE) \in Marker
          /\ Committing(TRUE).phase = "committing" /\ Committing(TRUE).rollbackOnly = TRUE
          /\ Committing(TRUE).staged = Present(after) /\ Committing(TRUE).original = Present(before)
      BY <2>2, CommittingFields
    <2> QED
      BY <2>1, <2>3, SameMarker
  <1> HIDE DEF mk
  <1>5. /\ proc' \in [Proc -> Process] /\ (\A q \in Proc \ {p} : proc'[q] = proc[q])
        /\ proc'[p].pc = "back" /\ proc'[p].i = N /\ proc'[p].mk = mk /\ proc'[p].role = "abort"
    <2>1. "back" \in PcState /\ N \in 0..(N + 1)
      BY Constants DEF PcState
    <2> QED
      BY <1>1, <1>2, <1>4, <2>1 DEF TypeOK, Process
  <1>6. /\ Committing(TRUE)' = Committing(TRUE) /\ Committing(FALSE)' = Committing(FALSE) /\ Committing(TRUE) # Committing(FALSE)
        /\ marker' = Committing(TRUE) /\ marker'.phase = "committing"
    BY <1>1, <1>4, CommittingFields
  <1>7. \A e \in Entry : Undoable(e)' /\ ~(e > N)
    BY <1>1, <1>3, Constants DEF Undoable, Intact
  <1>8. TypeOK'
    BY <1>1, <1>2, <1>4, <1>5 DEF TypeOK
  <1>9. Stores'
    BY <1>1, <1>2 DEF Stores
  <1>10. Disk'
    BY <1>6, <1>7 DEF Disk
  <1>11. CostAt(p)'
    BY <1>5, <1>6 DEF CostAt
  <1>12. Role(p)'
    BY <1>1, <1>2, <1>5 DEF Role, Restoring, Replacing
  <1>13. MarkerAt(p)'
    BY <1>1, <1>5, <1>6 DEF MarkerAt, Restoring, Replacing, Cleaning
  <1>14. Working(p)'
    BY <1>5, <1>6, <1>7 DEF Working, Restoring, Replacing, Cleaning
  <1> QED
    BY <1>1, <1>5, <1>8, <1>9, <1>10, <1>11, <1>12, <1>13, <1>14, Finish

\* A set of entries has a last one.
LEMMA LastEntry ==
    ASSUME NEW S \in SUBSET Entry, S # {}
    PROVE  (CHOOSE x \in S : \A y \in S : y <= x) \in S
  <1> DEFINE R == {ss \in Nat \X Nat : ss[1] < ss[2]}
             T == {N - x : x \in S}
  <1>1. IsWellFoundedOn(R, Nat)
    BY NatLessThanWellFounded DEF OpToRel
  <1>2. \A x, y \in Nat : y < x => <<y, x>> \in R
    OBVIOUS
  <1>3. S \subseteq Nat /\ (\A x \in S : x <= N) /\ N \in Nat
    BY Constants
  <1>4. T \subseteq Nat /\ T # {} /\ \A x \in S : N - x \in T
    <2>1. \A x \in S : N - x \in Nat
      BY <1>3
    <2> QED
      BY <2>1
  <1> HIDE DEF R
  <1>5. PICK m \in T : \A y \in T : ~(<<y, m>> \in R)
    <2> HIDE DEF T
    <2> QED
      BY <1>1, <1>4, WFMin
  <1>6. PICK x \in S : m = N - x
    BY <1>5
  <1>7. ASSUME NEW y \in S PROVE y <= x
    <2>1. N - y \in T /\ N - y \in Nat /\ N - x \in Nat
      BY <1>3, <1>4
    <2>2. ~(N - y < N - x)
      BY <1>2, <1>5, <1>6, <2>1
    <2> QED
      BY <1>3, <2>2
  <1> QED
    BY <1>7

LEMMA restoreSnapshotContentsStep ==
    ASSUME IInv, NEW p \in Proc, restoreSnapshotContents(p)
    PROVE  IInv'
  <1> DEFINE P == proc[p].promoted
             M == proc[p].moved
             todo == IF P # {} THEN P ELSE M
  <1>1. PICK e : e = CHOOSE x \in todo : \A y \in todo : y <= x
    BY SMTT(40)
  <1> DEFINE passed(failed) ==
                proc' = [proc EXCEPT ![p].promoted = @ \ {e},
                                     ![p].moved = IF P # {} THEN @ ELSE @ \ {e},
                                     ![p].cleanupBackup = @ /\ ~failed]
             Removes == P # {} /\ live' = [live EXCEPT ![e] = "none"] /\ passed(FALSE) /\ UNCHANGED <<backup, dirs, faults>>
             Brings == /\ P = {} /\ todo # {} /\ live' = [live EXCEPT ![e] = backup[e]] /\ backup' = [backup EXCEPT ![e] = "none"]
                       /\ passed(FALSE) /\ UNCHANGED <<dirs, faults>>
             Passes == /\ todo # {} /\ faults' = faults + 1 /\ live' \in {live, [live EXCEPT ![e] = "none"]}
                       /\ passed(TRUE) /\ UNCHANGED <<backup, dirs>>
             Ends == /\ todo = {}
                     /\ backup' = IF proc[p].cleanupBackup THEN Nothing ELSE backup
                     /\ dirs' = IF proc[p].cleanupBackup THEN dirs \ {"backup"} ELSE dirs
                     /\ Goto(p, "abort") /\ UNCHANGED <<live, faults>>
  <1>2. proc[p].pc = "undo" /\ (Removes \/ Brings \/ Passes \/ Ends) /\ UNCHANGED <<staged, marker, outcome, before, after>>
    BY Zenon, <1>1 DEF restoreSnapshotContents, History, Fault
  <1>3. TypeOK /\ proc[p].role = "commit" /\ marker = Committing(TRUE) /\ proc[p].mk = marker /\ "staging" \in dirs
    BY <1>2, RestoreRunning
  <1>4. Lists(p)
    BY <1>2, Parts DEF Working
  <1>5. live \in Tree /\ backup \in Tree /\ before \in Tree /\ P \subseteq Entry /\ M \subseteq Entry /\ faults \in Nat /\ Nothing \in Tree
    BY <1>3, ProcessType, Constants DEF TypeOK
  <1>6. CASE Removes \/ Brings \/ Passes
    <2>1. e \in todo /\ e \in Entry
      <3>1. todo # {} /\ todo \in SUBSET Entry
        BY ZenonT(60), <1>5, <1>6
      <3> HIDE DEF todo
      <3> QED
        BY <1>1, <3>1, LastEntry
    <2>2. PICK failed \in BOOLEAN : passed(failed) /\ (Removes \/ Brings => failed = FALSE) /\ (~Removes /\ ~Brings => failed = TRUE)
      BY <1>6
    <2>3. /\ proc' \in [Proc -> Process] /\ (\A q \in Proc \ {p} : proc'[q] = proc[q])
          /\ proc'[p].pc = "undo" /\ proc'[p].mk = proc[p].mk /\ proc'[p].role = proc[p].role
          /\ proc'[p].promoted = P \ {e}
          /\ proc'[p].moved = (IF P # {} THEN M ELSE M \ {e})
          /\ proc'[p].cleanupBackup => ~failed /\ proc[p].cleanupBackup
      <3>1. proc[p] \in Process /\ proc[p].cleanupBackup \in BOOLEAN
        BY <1>3, ProcessType
      <3> DEFINE keeps == proc[p].cleanupBackup /\ ~failed
                 moved == IF P # {} THEN M ELSE M \ {e}
      <3>2. proc' = [proc EXCEPT ![p].promoted = P \ {e}, ![p].moved = moved, ![p].cleanupBackup = keeps]
        BY <1>3, <2>2 DEF TypeOK
      <3>3. P \ {e} \subseteq Entry /\ moved \subseteq Entry /\ keeps \in BOOLEAN
        BY <1>5, <3>1
      <3> HIDE DEF keeps, moved, passed, Removes, Brings, Passes, Ends
      <3>4. /\ proc' \in [Proc -> Process] /\ (\A q \in Proc \ {p} : proc'[q] = proc[q])
            /\ proc'[p].pc = proc[p].pc /\ proc'[p].mk = proc[p].mk /\ proc'[p].role = proc[p].role
            /\ proc'[p].promoted = P \ {e} /\ proc'[p].moved = moved /\ proc'[p].cleanupBackup = keeps
        BY <1>3, <3>1, <3>2, <3>3 DEF TypeOK, Process
      <3> QED
        BY <1>2, <3>4 DEF keeps, moved
    <2>4. /\ live' \in Tree /\ backup' \in Tree /\ dirs' = dirs /\ faults' \in Nat
          /\ \A x \in Entry \ {e} : live'[x] = live[x] /\ backup'[x] = backup[x]
          /\ P # {} => backup'[e] = backup[e]
          /\ P = {} => \/ live'[e] = backup[e] /\ backup'[e] = "none"
                       \/ failed /\ backup'[e] = backup[e]
      <3>1. CASE Removes
        BY <1>5, <2>1, <3>1 DEF Tree
      <3>2. CASE Brings
        BY <1>5, <2>1, <3>2 DEF Tree
      <3>3. CASE Passes /\ ~Removes /\ ~Brings
        <4>1. failed = TRUE /\ live' \in {live, [live EXCEPT ![e] = "none"]} /\ faults' = faults + 1 /\ UNCHANGED <<backup, dirs>>
          BY <2>2, <3>3
        <4> HIDE DEF Removes, Brings, Passes, Ends, passed
        <4> QED
          BY <1>5, <2>1, <4>1 DEF Tree
      <3> QED
        BY <1>6, <3>1, <3>2, <3>3
    <2>5. UNCHANGED <<staged, marker, outcome, before, after>>
      BY <1>2
    <2> HIDE DEF Removes, Brings, Passes, passed
    <2>6. TypeOK'
      BY <1>3, <2>3, <2>4, <2>5 DEF TypeOK
    <2>7. Lists(p)'
      <3>1. ASSUME NEW x \in Entry \ {e}
            PROVE  /\ x \in proc'[p].promoted /\ before'[x] # "none" => x \in proc'[p].moved
                   /\ x \in proc'[p].moved => before'[x] # "none" /\ backup'[x] = before'[x]
                   /\ x \notin proc'[p].moved => Undoable(x)'
                   /\ x \notin proc'[p].moved /\ proc'[p].cleanupBackup /\ before'[x] # "none" => live'[x] = before'[x]
        <4>1. /\ x \in P /\ before[x] # "none" => x \in M
              /\ x \in M => before[x] # "none" /\ backup[x] = before[x]
              /\ x \notin M => Undoable(x)
              /\ x \notin M /\ proc[p].cleanupBackup /\ before[x] # "none" => live[x] = before[x]
          BY <1>4 DEF Lists
        <4>2. Undoable(x)' <=> Undoable(x)
          BY <2>4, <2>5 DEF Undoable, Intact
        <4> QED
          BY <2>3, <2>4, <2>5, <4>1, <4>2
      <3>2. /\ e \in proc'[p].promoted /\ before'[e] # "none" => e \in proc'[p].moved
            /\ e \in proc'[p].moved => before'[e] # "none" /\ backup'[e] = before'[e]
            /\ e \notin proc'[p].moved => Undoable(e)'
            /\ e \notin proc'[p].moved /\ proc'[p].cleanupBackup /\ before'[e] # "none" => live'[e] = before'[e]
        <4>1. /\ e \in P /\ before[e] # "none" => e \in M
              /\ e \in M => before[e] # "none" /\ backup[e] = before[e]
              /\ e \notin M => Undoable(e)
          BY <1>4, <2>1 DEF Lists
        <4>2. CASE P # {}
          <5>1. e \in P /\ backup'[e] = backup[e] /\ proc'[p].moved = M /\ e \notin proc'[p].promoted
            BY <2>1, <2>3, <2>4, <4>2
          <5>2. e \notin M => before[e] = "none" /\ backup[e] = "none"
            BY <4>1, <5>1 DEF Undoable
          <5> QED
            BY <2>5, <4>1, <5>1, <5>2 DEF Undoable
        <4>3. CASE P = {}
          <5>1. e \in M /\ e \notin proc'[p].moved /\ e \notin proc'[p].promoted
            BY <2>1, <2>3, <4>3
          <5>2. CASE live'[e] = backup[e] /\ backup'[e] = "none"
            BY <2>5, <4>1, <5>1, <5>2 DEF Undoable, Intact
          <5>3. CASE failed /\ backup'[e] = backup[e]
            BY <2>3, <2>5, <4>1, <5>1, <5>3 DEF Undoable
          <5> QED
            BY <2>4, <4>3, <5>2, <5>3
        <4> QED
          BY <4>2, <4>3
      <3> QED
        BY <2>1, <3>1, <3>2 DEF Lists
    <2>8. \A x \in Entry : Undoable(x)'
      BY <2>7 DEF Lists, Undoable
    <2>9. Working(p)'
      BY <1>3, <2>3, <2>4, <2>7 DEF Working, Restoring, Replacing, Cleaning
    <2> QED
      BY <1>2, <1>3, <2>3, <2>4, <2>5, <2>6, <2>8, <2>9, RestoreGoesOn
  <1>7. CASE Ends
    <2>1. /\ Same(p) /\ Kept(p) /\ proc'[p].pc = "abort" /\ proc'[p].mk = proc[p].mk /\ proc'[p].role = proc[p].role
      BY <1>3, <1>7, GotoType DEF PcState
    <2>2. P = {} /\ M = {} /\ dirs' \subseteq dirs /\ "staging" \in dirs' /\ UNCHANGED <<live, faults>>
      BY <1>3, <1>7
    <2>3. backup' \in Tree /\ backup' = (IF proc[p].cleanupBackup THEN Nothing ELSE backup)
      BY <1>5, <1>7
    <2>4. TypeOK'
      BY <1>2, <1>3, <2>1, <2>2, <2>3 DEF TypeOK, Same
    <2>5. \A x \in Entry : Undoable(x)'
      <3>1. ASSUME NEW x \in Entry PROVE Undoable(x) /\ (proc[p].cleanupBackup /\ before[x] # "none" => live[x] = before[x]) /\ Nothing[x] = "none"
        BY <1>4, <2>2, Constants DEF Lists
      <3> QED
        BY <1>2, <2>2, <2>3, <3>1 DEF Undoable, Intact
    <2>6. Working(p)'
      BY <1>3, <2>1, <2>2, <2>5 DEF Working, Restoring, Replacing, Cleaning
    <2> QED
      BY <1>2, <1>3, <2>1, <2>2, <2>4, <2>5, <2>6, RestoreGoesOn DEF Same
  <1> QED
    BY <1>2, <1>6, <1>7

-----------------------------------------------------------------------------
(* The theorems                                                             *)

LEMMA InitIInv == Init => IInv
  <1> SUFFICES ASSUME Init PROVE IInv
    OBVIOUS
  <1>1. /\ live \in [Entry -> {"none", "old"}] /\ live[Database] = "old" /\ staged = Nothing /\ backup = Nothing /\ dirs = {}
        /\ marker = NoMarker /\ proc = [p \in Proc |-> Idle] /\ outcome = "none" /\ before = live /\ after = Nothing /\ faults = 0
    BY DEF Init
  <1>2. live \in Tree /\ NoMarker.phase = "none" /\ NoMarker # Committing(TRUE) /\ NoMarker # Committing(FALSE)
    BY ZenonT(60), <1>1, Constants, CommittingFields DEF Tree
  <1>3. \A p \in Proc : /\ proc[p].pc = "idle" /\ proc[p].role = "recover"
                        /\ proc[p].moved = {} /\ proc[p].promoted = {} /\ proc[p].cleanupBackup
    BY <1>1, Constants
  <1>4. TypeOK
    BY <1>1, <1>2, Constants DEF TypeOK
  <1>5. Alone
    BY <1>3 DEF Alone
  <1>6. Stores
    <2>1. after \in [Entry -> {"none", "new"}]
      BY <1>1 DEF Nothing
    <2> QED
      BY <1>1, <1>2, <2>1 DEF Stores
  <1>7. Disk
    BY <1>1, <1>2 DEF Disk, Clean
  <1>8. Cost
    BY <1>1, <1>2 DEF Cost
  <1>9. ASSUME NEW p \in Proc PROVE Role(p) /\ MarkerAt(p) /\ Working(p)
    BY <1>1, <1>3 DEF Role, MarkerAt, Working, Restoring, Replacing, Cleaning
  <1> QED
    BY <1>4, <1>5, <1>6, <1>7, <1>8, <1>9 DEF IInv, RoleOK, MarkerOK, WorkingOK

LEMMA RecoverStep ==
    ASSUME IInv, NEW p \in Proc, Recover(p)
    PROVE  IInv'
  <1>1. CASE recoverInterruptedRestore(p)
    BY <1>1, recoverInterruptedRestoreStep
  <1>2. CASE sweepStaging(p)
    BY <1>2, sweepStagingStep
  <1>3. CASE CompleteReplacement(p)
    BY <1>3, CompleteReplacementStep
  <1>4. CASE rolledForward(p)
    BY <1>4, rolledForwardStep
  <1>5. CASE RestoreReplacementBackup(p)
    BY <1>5, RestoreReplacementBackupStep
  <1>6. CASE rolledBack(p)
    BY <1>6, rolledBackStep
  <1>7. CASE cleanupRestoreStaging(p)
    BY <1>7, cleanupRestoreStagingStep
  <1>8. CASE cleanupCompletedRestore(p)
    BY <1>8, cleanupCompletedRestoreStep
  <1>9. CASE removeRestoreMarker(p)
    BY <1>9, removeRestoreMarkerStep
  <1>10. CASE Exit(p)
    BY <1>10, ExitStep
  <1> QED
    BY <1>1, <1>2, <1>3, <1>4, <1>5, <1>6, <1>7, <1>8, <1>9, <1>10 DEF Recover

LEMMA RestoreStep ==
    ASSUME IInv, NEW p \in Proc, Restore(p)
    PROVE  IInv'
  <1>1. CASE stageStore(p)
    BY <1>1, stageStoreStep
  <1>2. CASE markStaging(p)
    BY <1>2, markStagingStep
  <1>3. CASE markCommitting(p)
    BY <1>3, markCommittingStep
  <1>4. CASE createReplacementBackupDir(p)
    BY <1>4, createReplacementBackupDirStep
  <1>5. CASE backupExisting(p)
    BY <1>5, backupExistingStep
  <1>6. CASE promoteStaged(p)
    BY <1>6, promoteStagedStep
  <1>7. CASE commitReplacement(p)
    BY <1>7, commitReplacementStep
  <1>8. CASE dropBackup(p)
    BY <1>8, dropBackupStep
  <1>9. CASE markDone(p)
    BY <1>9, markDoneStep
  <1>10. CASE markRestoreRollbackOnly(p)
    BY <1>10, markRestoreRollbackOnlyStep
  <1>11. CASE restoreSnapshotContents(p)
    BY <1>11, restoreSnapshotContentsStep
  <1>12. CASE abortFailedRestorePromotion(p)
    BY <1>12, abortFailedRestorePromotionStep
  <1> QED
    BY <1>1, <1>2, <1>3, <1>4, <1>5, <1>6, <1>7, <1>8, <1>9, <1>10, <1>11, <1>12 DEF Restore

LEMMA FailsStep ==
    ASSUME IInv, NEW p \in Proc, Fails(p)
    PROVE  IInv'
  BY markStagingFailsStep, replaceFailsStep, dropBackupFailsStep, rollbackFailsStep, CrashStep DEF Fails

LEMMA NextStep ==
    ASSUME ~Overlap, IInv, [Next]_vars
    PROVE  IInv'
  <1>1. ASSUME NEW p \in Proc, Start(p, "open") \/ Start(p, "restore") PROVE IInv'
    BY <1>1, StartStep
  <1>2. ASSUME NEW p \in Proc, Recover(p) \/ Restore(p) \/ Fails(p) PROVE IInv'
    BY <1>2, RecoverStep, RestoreStep, FailsStep
  <1>3. CASE UNCHANGED vars
    BY <1>3 DEF vars, IInv, TypeOK, Alone, Stores, Disk, Cost, RoleOK, MarkerOK, WorkingOK, Role, MarkerAt, Working, Lists,
                Clean, Mixed, Committing, Forwardable, Committed, Undoable, Undone, Intact, Moved, Promoted, Present, Nothing
  <1> QED
    BY <1>1, <1>2, <1>3 DEF Next

\* Commands that run one after the other keep what the marker says of the files,
\* however many calls fail and processes die (restore_db.go, restore_recovery.go).
THEOREM Invariance ==
    ASSUME ~Overlap
    PROVE  Spec => []IInv
  <1>1. Init => IInv
    BY InitIInv
  <1>2. IInv /\ [Next]_vars => IInv'
    BY NextStep
  <1> QED
    BY <1>1, <1>2, PTL DEF Spec

\* Types, for any number of entries and processes.
THEOREM TypeCorrect ==
    ASSUME ~Overlap
    PROVE  Spec => []TypeOK
  <1>1. IInv => TypeOK
    BY DEF IInv
  <1> QED
    BY <1>1, Invariance, PTL

\* The store a command opens has its database (requireRestoreLiveDatabase), for
\* any number of entries, crashes and failing calls.
THEOREM DatabaseSurvivesHolds ==
    ASSUME ~Overlap
    PROVE  Spec => []DatabaseSurvives
  <1>1. IInv => DatabaseSurvives
    <2> SUFFICES ASSUME IInv, NEW p \in Proc, proc[p].pc = "opened" PROVE live[Database] # "none"
      BY DEF DatabaseSurvives, Opened
    <2> QED
      BY Parts DEF MarkerAt, Disk
  <1> QED
    BY <1>1, Invariance, PTL

\* A restore that says it was aborted has put the old store back
\* (abortFailedRestorePromotion), whatever failed in its roll back.
THEOREM AbortRestoresOldHolds ==
    ASSUME ~Overlap
    PROVE  Spec => []AbortRestoresOld
  <1>1. IInv => AbortRestoresOld
    BY DEF IInv, Stores, AbortRestoresOld
  <1> QED
    BY <1>1, Invariance, PTL

\* After at most one crash or failing call the store that is opened is entirely the
\* old or entirely the new one, and the one that restore-db announced
\* (recoverInterruptedRestore).
THEOREM OneFaultIsRepairedHolds ==
    ASSUME ~Overlap
    PROVE  Spec => []OneFaultIsRepaired
  <1>1. IInv => OneFaultIsRepaired
    <2> SUFFICES ASSUME IInv, faults <= 1
                 PROVE  /\ Opened => live \in {before, after}
                        /\ outcome = "committed" => live = after
                        /\ outcome = "aborted" => live = before
      BY DEF OneFaultIsRepaired, AllOrNothing
    <2>1. ASSUME NEW p \in Proc, proc[p].pc = "opened" PROVE live \in {before, after}
      BY <2>1, Parts DEF MarkerAt, Disk
    <2>2. Opened => live \in {before, after}
      BY <2>1 DEF Opened
    <2> QED
      BY <2>2 DEF IInv, Stores
  <1> QED
    BY <1>1, Invariance, PTL
=============================================================================
