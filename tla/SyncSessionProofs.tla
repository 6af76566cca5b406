------------------------- MODULE SyncSessionProofs -------------------------
(* Proofs about SyncSession: the safety properties hold for any number of  *)
(* processes, hosts, starts, faults and clock readings.                    *)
EXTENDS SyncSession, TLAPS

\* The initial state satisfies the invariant.
LEMMA InitInv == Init => IInv
  BY ConstantsAssumption
     DEF Init, IInv, TypeOK, GuardInv, WritingInv, HolderOwnsLockFile, SeenInv,
         IncInv, WindowIsCurrent, CursorInv, LockFile, Absent, SyncWindow,
         NoWindow, PcState, Acquiring, Owning

\* Every step preserves the types.
LEMMA StepType == TypeOK /\ [Next]_vars => TypeOK'
  <1> SUFFICES ASSUME TypeOK, [Next]_vars PROVE TypeOK'
    OBVIOUS
  <1>0. NoProc \notin Proc
    BY ConstantsAssumption
  <1> USE <1>0
      DEF TypeOK, Goto, IOError, LockFile, Absent, Blank, newLockFileMetadata,
          SyncWindow, NoWindow, PcState, Acquiring, Owning
  <1>1. CASE Tick
    BY <1>1 DEF Tick
  <1>2. ASSUME NEW p \in Proc, Start(p) PROVE TypeOK'
    BY <1>2 DEF Start
  <1>3. ASSUME NEW p \in Proc, Exit(p) PROVE TypeOK'
    BY <1>3 DEF Exit
  <1>4. ASSUME NEW p \in Proc, acquireLockOperationGuard(p) PROVE TypeOK'
    BY <1>4 DEF acquireLockOperationGuard
  <1>5. ASSUME NEW p \in Proc, createFileLock(p) PROVE TypeOK'
    BY <1>5 DEF createFileLock
  <1>6. ASSUME NEW p \in Proc, writeMetadata(p) PROVE TypeOK'
    BY <1>6 DEF writeMetadata
  <1>7. ASSUME NEW p \in Proc, writeMetadataFails(p) PROVE TypeOK'
    BY <1>7 DEF writeMetadataFails
  <1>8. ASSUME NEW p \in Proc, recoverRead(p) PROVE TypeOK'
    <2>1. pc' \in [Proc -> PcState]
      BY <1>8 DEF recoverRead
    <2>2. seen' \in [Proc -> LockFile]
      <3>1. seen' = [seen EXCEPT ![p] = lock] \/ seen' = seen
        BY <1>8 DEF recoverRead
      <3>2. lock \in LockFile /\ seen \in [Proc -> LockFile]
        OBVIOUS
      <3> HIDE DEF LockFile
      <3> QED
        BY <3>1, <3>2
    <2> QED
      BY <1>8, <2>1, <2>2 DEF recoverRead
  <1>9. ASSUME NEW p \in Proc, recoverProbe(p) PROVE TypeOK'
    BY <1>9 DEF recoverProbe
  <1>10. ASSUME NEW p \in Proc, recoverReread(p) PROVE TypeOK'
    BY <1>10 DEF recoverReread
  <1>11. ASSUME NEW p \in Proc, recoverRemove(p) PROVE TypeOK'
    BY <1>11 DEF recoverRemove
  <1>12. ASSUME NEW p \in Proc, acquireFails(p) PROVE TypeOK'
    BY <1>12 DEF acquireFails
  <1>13. ASSUME NEW p \in Proc, releaseGuard(p) PROVE TypeOK'
    BY <1>13 DEF releaseGuard
  <1>14. ASSUME NEW p \in Proc, Begin(p) PROVE TypeOK'
    BY <1>14 DEF Begin
  <1>15. ASSUME NEW p \in Proc, NoSync(p) PROVE TypeOK'
    BY <1>15 DEF NoSync
  <1>16. ASSUME NEW p \in Proc, Complete(p) PROVE TypeOK'
    BY <1>16 DEF Complete
  <1>17. ASSUME NEW p \in Proc, SyncFails(p) PROVE TypeOK'
    BY <1>17 DEF SyncFails
  <1>18. ASSUME NEW p \in Proc, Release(p) PROVE TypeOK'
    BY <1>18 DEF Release
  <1>19. ASSUME NEW p \in Proc, ReleaseFails(p) PROVE TypeOK'
    BY <1>19 DEF ReleaseFails
  <1>20. ASSUME NEW p \in Proc, Crash(p) PROVE TypeOK'
    BY <1>20 DEF Crash
  <1>21. CASE UNCHANGED vars
    BY <1>21 DEF vars
  <1> QED
    BY <1>1, <1>2, <1>3, <1>4, <1>5, <1>6, <1>7, <1>8, <1>9, <1>10, <1>11,
       <1>12, <1>13, <1>14, <1>15, <1>16, <1>17, <1>18, <1>19, <1>20, <1>21
    DEF Next, Work, Fault

\* Every step preserves the rest of the invariant.  Tick and the steps of one
\* process are taken in turn; USE makes the conjuncts of IInv visible.
LEMMA StepInv == IInv /\ [Next]_vars => IInv'
  <1> SUFFICES ASSUME IInv, [Next]_vars PROVE IInv'
    OBVIOUS
  <1>0. TypeOK'
    BY StepType DEF IInv
  <1>a. NoProc \notin Proc
    BY ConstantsAssumption
  <1> USE <1>0, <1>a
      DEF IInv, TypeOK, GuardInv, WritingInv, HolderOwnsLockFile, SeenInv, Ended,
          IncInv, WindowIsCurrent, CursorInv, Goto, IOError, LockFile, Absent,
          Blank, newLockFileMetadata, SyncWindow, NoWindow, PcState, Acquiring,
          Owning
  <1>1. CASE Tick
    BY <1>1 DEF Tick
  <1>2. ASSUME NEW p \in Proc, acquireLockOperationGuard(p) PROVE IInv'
    BY <1>2 DEF acquireLockOperationGuard
  <1>3. ASSUME NEW p \in Proc, createFileLock(p) PROVE IInv'
    BY <1>3 DEF createFileLock
  <1>4. ASSUME NEW p \in Proc, writeMetadata(p) PROVE IInv'
    BY <1>4 DEF writeMetadata
  <1>5. ASSUME NEW p \in Proc, writeMetadataFails(p) PROVE IInv'
    BY <1>5 DEF writeMetadataFails
  <1>6. ASSUME NEW p \in Proc, recoverRead(p) PROVE IInv'
    BY <1>6 DEF recoverRead
  <1>7. ASSUME NEW p \in Proc, recoverProbe(p) PROVE IInv'
    BY <1>7 DEF recoverProbe, processExists
  <1>8. ASSUME NEW p \in Proc, recoverReread(p) PROVE IInv'
    BY <1>8 DEF recoverReread
  <1>9. ASSUME NEW p \in Proc, recoverRemove(p) PROVE IInv'
    <2> USE <1>9 DEF recoverRemove
    \* The lock about to be removed was written by a process that has ended, so
    \* it is not the lock of a process that owns one.
    <2>1. ASSUME NEW q \in Proc PROVE pc[q] \notin Owning
      <3>1. pc[q] # "writing"
        OBVIOUS
      <3>2. CASE pc[q] \in Owning \ {"writing"}
        <4>1. lock = newLockFileMetadata(q) /\ lock = seen[p] /\ Ended(lock)
          BY <3>2
        <4>2. lock.owner = q /\ lock.inc = inc[q] /\ pc[q] # "dead"
          BY <3>2, <4>1
        <4> QED
          BY <4>1, <4>2
      <3> QED
        BY <3>1, <3>2
    <2>2. WritingInv' /\ HolderOwnsLockFile' /\ WindowIsCurrent'
      BY <2>1
    <2>3. GuardInv' /\ SeenInv' /\ IncInv' /\ CursorInv'
      OBVIOUS
    <2> QED
      BY <2>2, <2>3
  <1>10. ASSUME NEW p \in Proc, acquireFails(p) PROVE IInv'
    BY <1>10 DEF acquireFails
  <1>11. ASSUME NEW p \in Proc, releaseGuard(p) PROVE IInv'
    BY <1>11 DEF releaseGuard
  <1>12. ASSUME NEW p \in Proc, Begin(p) PROVE IInv'
    BY <1>12 DEF Begin
  <1>13. ASSUME NEW p \in Proc, NoSync(p) PROVE IInv'
    BY <1>13 DEF NoSync
  <1>14. ASSUME NEW p \in Proc, Complete(p) PROVE IInv'
    BY <1>14 DEF Complete
  <1>15. ASSUME NEW p \in Proc, SyncFails(p) PROVE IInv'
    BY <1>15 DEF SyncFails
  <1>16. ASSUME NEW p \in Proc, Release(p) PROVE IInv'
    BY <1>16 DEF Release
  <1>17. ASSUME NEW p \in Proc, ReleaseFails(p) PROVE IInv'
    BY <1>17 DEF ReleaseFails
  <1>18. ASSUME NEW p \in Proc, Crash(p) PROVE IInv'
    BY <1>18 DEF Crash
  <1>19. ASSUME NEW p \in Proc, Start(p) PROVE IInv'
    BY <1>19 DEF Start
  <1>20. ASSUME NEW p \in Proc, Exit(p) PROVE IInv'
    BY <1>20 DEF Exit
  <1>21. CASE UNCHANGED vars
    BY <1>21 DEF vars
  <1> QED
    BY <1>1, <1>2, <1>3, <1>4, <1>5, <1>6, <1>7, <1>8, <1>9, <1>10, <1>11, <1>12, <1>13, <1>14, <1>15, <1>16, <1>17, <1>18, <1>19, <1>20, <1>21
    DEF Next, Work, Fault

\* IInv is an inductive invariant of the specification.
LEMMA Invariant == Spec => []IInv
  BY InitInv, StepInv, PTL DEF Spec

\* TypeOK for every number of processes and hosts.
THEOREM TypeCorrect == Spec => []TypeOK
  <1>1. IInv => TypeOK
    BY DEF IInv
  <1> QED
    BY <1>1, Invariant, PTL

\* The work done while owning sync.lock is never done by two processes at once.
THEOREM LockMutualExclusion == Spec => []MutualExclusion
  <1>1. IInv => MutualExclusion
    <2> SUFFICES ASSUME IInv, NEW p \in Proc, NEW q \in Proc,
                        pc[p] \in Owning, pc[q] \in Owning
                 PROVE  p = q
      BY DEF MutualExclusion
    <2>1. CASE pc[p] = "writing" /\ pc[q] = "writing"
      BY <2>1 DEF IInv, GuardInv, Acquiring
    <2>2. CASE (pc[p] = "writing") # (pc[q] = "writing")
      BY <2>2 DEF IInv, WritingInv, HolderOwnsLockFile, Blank, newLockFileMetadata
    <2>3. CASE pc[p] # "writing" /\ pc[q] # "writing"
      BY <2>3 DEF IInv, HolderOwnsLockFile, newLockFileMetadata
    <2> QED
      BY <2>1, <2>2, <2>3
  <1> QED
    BY <1>1, Invariant, PTL

\* Neither Release nor recoverStaleLock removes the lock of a running holder.
THEOREM LockFileIsHolders == Spec => []HolderOwnsLockFile
  <1>1. IInv => HolderOwnsLockFile
    BY DEF IInv
  <1> QED
    BY <1>1, Invariant, PTL

\* A sync works with the cursor that is on disk until it replaces it.
THEOREM WindowStaysCurrent == Spec => []WindowIsCurrent
  <1>1. IInv => WindowIsCurrent
    BY DEF IInv
  <1> QED
    BY <1>1, Invariant, PTL

\* last_sync only moves forward, and never past the clock.
THEOREM CursorNeverMovesBack == Spec => CursorMonotone
  <1>1. IInv /\ [Next]_vars => [cursor' >= cursor /\ cursor' <= clock]_cursor
    <2> SUFFICES ASSUME IInv, [Next]_vars, cursor' # cursor
                 PROVE  cursor' >= cursor /\ cursor' <= clock
      OBVIOUS
    <2>1. PICK p \in Proc : Complete(p)
      BY DEF Next, Work, Fault, Tick, Start, Exit, acquireLockOperationGuard,
             createFileLock, writeMetadata, recoverRead, recoverProbe,
             recoverReread, recoverRemove, releaseGuard, Begin, Release,
             writeMetadataFails, acquireFails, NoSync, SyncFails, ReleaseFails,
             Crash, vars
    <2> QED
      BY <2>1 DEF Complete, IInv, TypeOK, SyncWindow, WindowIsCurrent, CursorInv
  <1> QED
    BY <1>1, Invariant, PTL DEF Spec, CursorMonotone
=============================================================================
