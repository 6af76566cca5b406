---------------------------- MODULE SyncSession ----------------------------
(***************************************************************************)
(* The sync session of one ~/personal-context/.pc directory:               *)
(* cli/internal/syncengine/session.go.  Every pc process that syncs (or    *)
(* imports chats, or probes the lock during setup) first takes the lock    *)
(* file .pc/sync.lock; taking it, and replacing the lock a dead process    *)
(* left behind, is serialised by an flock on .pc/sync.lock.guard.  A sync  *)
(* then reads the cursor .pc/last_sync and, if all its passes succeed,     *)
(* moves the cursor to the moment it began.                                *)
(*                                                                         *)
(* A member of Proc is a pid of one host, reused by the processes that get *)
(* that pid one after the other; inc[p] counts them, and stands for the    *)
(* started_at field that tells their lock files apart.                     *)
(***************************************************************************)
EXTENDS Naturals

CONSTANTS
    Proc,       \* (host, pid) pairs that run pc on this directory
    NoProc,     \* no process
    HostOf,     \* the hostname a process writes into its lock file
    MaxStarts,  \* bound: processes started under each pid
    MaxFaults,  \* bound: I/O calls that fail
    MaxClock    \* bound: clock readings, in milliseconds

ASSUME ConstantsAssumption ==
    /\ NoProc \notin Proc
    /\ MaxStarts \in [Proc -> Nat]
    /\ MaxFaults \in Nat
    /\ MaxClock \in Nat

VARIABLES
    pc,      \* where each process is
    inc,     \* how many processes have run under each pid
    guard,   \* the process holding the flock on sync.lock.guard
    lock,    \* content of sync.lock
    seen,    \* the lock content recoverStaleLock read first, a local variable
    cursor,  \* content of last_sync, 0 when the file does not exist
    window,  \* the SyncWindow of a running sync, a local variable
    clock,   \* wall clock
    faults   \* I/O calls that have failed

vars == <<pc, inc, guard, lock, seen, cursor, window, clock, faults>>

\* Content of sync.lock: no file, a file whose metadata is missing or does not
\* parse, or the metadata of one process.
LockFile == [kind: {"absent", "blank", "meta"}, owner: Proc \cup {NoProc}, inc: Nat]

Absent == [kind |-> "absent", owner |-> NoProc, inc |-> 0]
Blank  == [kind |-> "blank", owner |-> NoProc, inc |-> 0]
newLockFileMetadata(p) == [kind |-> "meta", owner |-> p, inc |-> inc[p]]

SyncWindow == [last: Nat, started: Nat]
NoWindow == [last |-> 0, started |-> 0]

\* Inside AcquireFileLock: each of these owns the guard.
Acquiring == {"create1", "create2", "writing", "read", "probe", "reread",
              "remove", "granted", "refused"}

\* From the O_EXCL creation that succeeded to the removal of the file.
Owning == {"writing", "granted", "held", "syncing", "releasing"}

PcState == Acquiring \cup Owning \cup {"dead", "idle"}

Goto(p, l) == pc' = [pc EXCEPT ![p] = l]

IOError == faults < MaxFaults /\ faults' = faults + 1

TypeOK ==
    /\ pc \in [Proc -> PcState]
    /\ inc \in [Proc -> Nat]
    /\ guard \in Proc \cup {NoProc}
    /\ lock \in LockFile
    /\ seen \in [Proc -> LockFile]
    /\ cursor \in Nat
    /\ window \in [Proc -> SyncWindow]
    /\ clock \in Nat
    /\ faults \in Nat

Init ==
    /\ pc = [p \in Proc |-> "dead"]
    /\ inc = [p \in Proc |-> 0]
    /\ guard = NoProc
    /\ lock = Absent
    /\ seen = [p \in Proc |-> Absent]
    /\ cursor = 0
    /\ window = [p \in Proc |-> NoWindow]
    /\ clock = 1
    /\ faults = 0

-----------------------------------------------------------------------------
(* Processes and time. *)

Start(p) ==
    /\ pc[p] = "dead"
    /\ inc[p] < MaxStarts[p]
    /\ inc' = [inc EXCEPT ![p] = @ + 1]
    /\ Goto(p, "idle")
    /\ UNCHANGED <<guard, lock, seen, cursor, window, clock, faults>>

Exit(p) ==
    /\ pc[p] = "idle"
    /\ Goto(p, "dead")
    /\ UNCHANGED <<inc, guard, lock, seen, cursor, window, clock, faults>>

\* A kill at any point.  The kernel drops the flock of a dead process, the
\* lock file stays as it is.
Crash(p) ==
    /\ pc[p] \notin {"dead", "idle"}
    /\ Goto(p, "dead")
    /\ guard' = IF guard = p THEN NoProc ELSE guard
    /\ seen' = [seen EXCEPT ![p] = Absent]
    /\ window' = [window EXCEPT ![p] = NoWindow]
    /\ UNCHANGED <<inc, lock, cursor, clock, faults>>

Tick ==
    /\ clock < MaxClock
    /\ clock' = clock + 1
    /\ UNCHANGED <<pc, inc, guard, lock, seen, cursor, window, faults>>

-----------------------------------------------------------------------------
(* AcquireFileLock.  A process that finds the guard taken is refused at    *)
(* once (LOCK_NB) and changes nothing.                                     *)

\* Mutant: the flock is not exclusive.
acquireGuardShared(p) ==
    /\ pc[p] = "idle"
    /\ guard' = p
    /\ Goto(p, "create1")
    /\ UNCHANGED <<inc, lock, seen, cursor, window, clock, faults>>

acquireLockOperationGuard(p) ==
    /\ pc[p] = "idle"
    /\ guard = NoProc
    /\ guard' = p
    /\ Goto(p, "create1")
    /\ UNCHANGED <<inc, lock, seen, cursor, window, clock, faults>>

\* Mutant: the file is opened without O_EXCL.
createFileLockNoExcl(p) ==
    /\ pc[p] \in {"create1", "create2"}
    /\ lock' = Blank
    /\ Goto(p, "writing")
    /\ UNCHANGED <<inc, guard, seen, cursor, window, clock, faults>>

\* os.OpenFile with O_EXCL: the first attempt that finds the file goes on to
\* recoverStaleLock, the second one gives up with ErrSyncLocked.
createFileLock(p) ==
    /\ pc[p] \in {"create1", "create2"}
    /\ IF lock.kind = "absent"
          THEN lock' = Blank /\ Goto(p, "writing")
          ELSE /\ Goto(p, IF pc[p] = "create1" THEN "read" ELSE "refused")
               /\ UNCHANGED lock
    /\ UNCHANGED <<inc, guard, seen, cursor, window, clock, faults>>

writeMetadata(p) ==
    /\ pc[p] = "writing"
    /\ lock' = newLockFileMetadata(p)
    /\ Goto(p, "granted")
    /\ UNCHANGED <<inc, guard, seen, cursor, window, clock, faults>>

\* The write or the fsync fails: createFileLock removes the file and ignores
\* an error of the removal, so the file may stay with or without its content.
writeMetadataFails(p) ==
    /\ pc[p] = "writing"
    /\ lock' \in {Absent, Blank, newLockFileMetadata(p)}
    /\ Goto(p, "refused")
    /\ IOError
    /\ UNCHANGED <<inc, guard, seen, cursor, window, clock>>

\* recoverStaleLock, first read: a file that vanished counts as recovered, one
\* without metadata or of another host stays blocking.
recoverRead(p) ==
    /\ pc[p] = "read"
    /\ IF lock.kind = "meta" /\ HostOf[lock.owner] = HostOf[p]
          THEN Goto(p, "probe") /\ seen' = [seen EXCEPT ![p] = lock]
          ELSE /\ Goto(p, IF lock.kind = "absent" THEN "create2" ELSE "refused")
               /\ UNCHANGED seen
    /\ UNCHANGED <<inc, guard, lock, cursor, window, clock, faults>>

\* kill(pid, 0) answers for the pid, whichever process has it now.
processExists(p) == pc[p] # "dead"

\* Mutant: the answer of kill(pid, 0) is not looked at.
recoverProbeNoCheck(p) ==
    /\ pc[p] = "probe"
    /\ Goto(p, "reread")
    /\ UNCHANGED <<inc, guard, lock, seen, cursor, window, clock, faults>>

recoverProbe(p) ==
    /\ pc[p] = "probe"
    /\ Goto(p, IF processExists(seen[p].owner) THEN "refused" ELSE "reread")
    /\ UNCHANGED <<inc, guard, lock, seen, cursor, window, clock, faults>>

\* Mutant: the lock is removed without reading it again.
recoverNoReread(p) ==
    /\ pc[p] = "reread"
    /\ Goto(p, "remove")
    /\ UNCHANGED <<inc, guard, lock, seen, cursor, window, clock, faults>>

\* Second read: removed only if the bytes are still the ones judged stale.
recoverReread(p) ==
    /\ pc[p] = "reread"
    /\ Goto(p, IF lock = seen[p] THEN "remove" ELSE "create2")
    /\ UNCHANGED <<inc, guard, lock, seen, cursor, window, clock, faults>>

recoverRemove(p) ==
    /\ pc[p] = "remove"
    /\ lock' = Absent
    /\ Goto(p, "create2")
    /\ UNCHANGED <<inc, guard, seen, cursor, window, clock, faults>>

\* Any other I/O error of the acquisition is returned to the caller.
acquireFails(p) ==
    /\ pc[p] \in {"create1", "create2", "read", "probe", "reread", "remove"}
    /\ Goto(p, "refused")
    /\ IOError
    /\ UNCHANGED <<inc, guard, lock, seen, cursor, window, clock>>

\* Mutant: an early return forgets the guard.
releaseGuardOnSuccess(p) ==
    /\ pc[p] \in {"granted", "refused"}
    /\ guard' = IF pc[p] = "granted" THEN NoProc ELSE guard
    /\ Goto(p, IF pc[p] = "granted" THEN "held" ELSE "idle")
    /\ seen' = [seen EXCEPT ![p] = Absent]
    /\ UNCHANGED <<inc, lock, cursor, window, clock, faults>>

\* The deferred guard.Release, whatever AcquireFileLock returns.
releaseGuard(p) ==
    /\ pc[p] \in {"granted", "refused"}
    /\ guard' = NoProc
    /\ Goto(p, IF pc[p] = "granted" THEN "held" ELSE "idle")
    /\ seen' = [seen EXCEPT ![p] = Absent]
    /\ UNCHANGED <<inc, lock, cursor, window, clock, faults>>

-----------------------------------------------------------------------------
(* The work done under the lock. *)

\* Manager.Begin after the lock: read the cursor, then the clock.
Begin(p) ==
    /\ pc[p] = "held"
    /\ window' = [window EXCEPT ![p] = [last |-> cursor, started |-> clock]]
    /\ Goto(p, "syncing")
    /\ UNCHANGED <<inc, guard, lock, seen, cursor, clock, faults>>

\* The cursor cannot be read; or the holder is a chat import or a setup check,
\* which never touch the cursor.
NoSync(p) ==
    /\ pc[p] = "held"
    /\ Goto(p, "releasing")
    /\ UNCHANGED <<inc, guard, lock, seen, cursor, window, clock, faults>>

\* Mutant: one millisecond is added to make the inclusive filter exclusive.
CompleteExclusive(p) ==
    /\ pc[p] = "syncing"
    /\ cursor' = window[p].started + 1
    /\ Goto(p, "releasing")
    /\ UNCHANGED <<inc, guard, lock, seen, window, clock, faults>>

\* Every pass succeeded: temp file, fsync, rename.
Complete(p) ==
    /\ pc[p] = "syncing"
    /\ cursor' = window[p].started
    /\ Goto(p, "releasing")
    /\ UNCHANGED <<inc, guard, lock, seen, window, clock, faults>>

\* A pass, or the cursor write, failed: the cursor keeps its value.
SyncFails(p) ==
    /\ pc[p] = "syncing"
    /\ Goto(p, "releasing")
    /\ IOError
    /\ UNCHANGED <<inc, guard, lock, seen, cursor, window, clock>>

\* FileLock.Release removes the path without taking the guard.
Release(p) ==
    /\ pc[p] = "releasing"
    /\ lock' = Absent
    /\ Goto(p, "idle")
    /\ window' = [window EXCEPT ![p] = NoWindow]
    /\ UNCHANGED <<inc, guard, seen, cursor, clock, faults>>

ReleaseFails(p) ==
    /\ pc[p] = "releasing"
    /\ Goto(p, "idle")
    /\ IOError
    /\ window' = [window EXCEPT ![p] = NoWindow]
    /\ UNCHANGED <<inc, guard, lock, seen, cursor, clock>>

-----------------------------------------------------------------------------
\* Steps a running process takes by itself, when no call fails.
Work(p) ==
    \/ createFileLock(p) \/ writeMetadata(p)
    \/ recoverRead(p) \/ recoverProbe(p) \/ recoverReread(p) \/ recoverRemove(p)
    \/ releaseGuard(p)
    \/ Begin(p) \/ Complete(p) \/ Release(p)

Fault(p) ==
    \/ writeMetadataFails(p) \/ acquireFails(p)
    \/ NoSync(p) \/ SyncFails(p) \/ ReleaseFails(p)
    \/ Crash(p)

Next ==
    \/ Tick
    \/ \E p \in Proc :
          \/ Start(p) \/ Exit(p) \/ acquireLockOperationGuard(p)
          \/ Work(p) \/ Fault(p)

Spec == Init /\ [][Next]_vars

\* A running process keeps executing, and a pc process that is alive keeps
\* asking for the lock (auto-sync follows every command).  The flock has no
\* queue: only a process that finds the guard free whenever it asks is sure to
\* get it, so the fairness is weak.  Nothing is assumed of starts, exits and
\* crashes; I/O errors are transient (MaxFaults).
Fairness ==
    \A p \in Proc : WF_vars(Work(p)) /\ WF_vars(acquireLockOperationGuard(p))

FairSpec == Spec /\ Fairness

-----------------------------------------------------------------------------
(* Properties. *)

\* At most one process is between the creation of sync.lock and its removal
\* (AcquireFileLock: "to prevent concurrent syncs"), whatever crashes, stale
\* locks and pid reuse precede.
MutualExclusion ==
    \A p, q \in Proc : pc[p] \in Owning /\ pc[q] \in Owning => p = q

\* While a process works under the lock the file on disk is its own, so the
\* unguarded os.Remove in Release never deletes another process's lock, and
\* recoverStaleLock never deletes the lock of a running sync.
HolderOwnsLockFile ==
    \A p \in Proc :
        pc[p] \in Owning \ {"writing"} => lock = newLockFileMetadata(p)

\* The cursor a running sync filters by is still the one on disk: no other
\* sync completes between its Begin and its Complete.
WindowIsCurrent ==
    \A p \in Proc : pc[p] = "syncing" => window[p].last = cursor

\* last_sync never moves back, and never past the clock.
CursorMonotone == [][cursor' >= cursor /\ cursor' <= clock]_cursor

\* A lock whose owner is dead and on p's host does not stay forever while p
\* keeps running and the others leave the guard alone in the end: "if a
\* same-host lock points to a PID that no longer exists, the next sync replaces
\* it" (docs/agent-layer/CONTEXT.md).  While others keep asking, p may find the
\* guard taken every time, since LOCK_NB refuses at once.
Recoverable(p) ==
    /\ lock.kind = "meta"
    /\ pc[lock.owner] = "dead"
    /\ HostOf[lock.owner] = HostOf[p]

StaleLockRecovered ==
    \A p \in Proc :
        <>[](pc[p] # "dead" /\ \A q \in Proc \ {p} : pc[q] \notin Acquiring)
            => []<>(~Recoverable(p))

-----------------------------------------------------------------------------
(* The inductive invariant behind the safety properties. *)

\* The guard is held by the one process inside AcquireFileLock.
GuardInv ==
    \A p \in Proc : pc[p] \in Acquiring <=> guard = p

\* A lock file about to be written is the empty one just created.
WritingInv ==
    \A p \in Proc : pc[p] = "writing" => lock = Blank

\* The content recoverStaleLock looks at is metadata; once the probe has found
\* its owner dead, no process that wrote it is running any more.
Ended(f) == pc[f.owner] = "dead" \/ inc[f.owner] # f.inc

SeenInv ==
    \A p \in Proc :
        /\ pc[p] \in {"probe", "reread", "remove"} =>
               seen[p].kind = "meta" /\ seen[p].owner \in Proc
        /\ pc[p] \in {"reread", "remove"} => Ended(seen[p])
        /\ pc[p] = "remove" => lock = seen[p]

\* Metadata is never from the future of its pid.
IncInv ==
    /\ lock.kind = "meta" => lock.owner \in Proc /\ lock.inc <= inc[lock.owner]
    /\ \A p \in Proc :
           seen[p].kind = "meta" =>
               seen[p].owner \in Proc /\ seen[p].inc <= inc[seen[p].owner]

\* Cursor, window and clock are in order.
CursorInv ==
    /\ cursor <= clock
    /\ \A p \in Proc :
           pc[p] = "syncing" =>
               /\ window[p].last <= window[p].started
               /\ window[p].started <= clock

IInv ==
    /\ TypeOK
    /\ GuardInv
    /\ WritingInv
    /\ HolderOwnsLockFile
    /\ SeenInv
    /\ IncInv
    /\ WindowIsCurrent
    /\ CursorInv

=============================================================================
