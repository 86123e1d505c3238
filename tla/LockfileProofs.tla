--------------------------- MODULE LockfileProofs ---------------------------
(***************************************************************************)
(* Theorems about Lockfile, for any number of processes, any clock bound,  *)
(* any number of faults.                                                   *)
(***************************************************************************)
EXTENDS Lockfile, TLAPS

\* Every step keeps the types of the variables.
LEMMA TypeStep == TypeOK /\ [Next]_vars => TypeOK'
<1> SUFFICES ASSUME TypeOK, [Next]_vars PROVE TypeOK'
  OBVIOUS
<1> USE ProcAssumption, TimeAssumption DEF TypeOK, Proc, Time, File, LockToken, NoToken,
        Absent, Pc, HoldPc, TryPc, GuardPc, Final
<1> QED
  <2>1. ASSUME NEW p \in Proc, Acquire(p) PROVE TypeOK'
    <3>1. CASE Expire(p)
      BY <3>1 DEF Expire, Goto
    <3>2. CASE NodeCreate(p)
      BY <3>2 DEF NodeCreate, Goto, CreateLock, New
    <3>3. CASE NodeExists(p)
      BY <3>3 DEF NodeExists, Goto
    <3>4. CASE NodeReadLock(p)
      BY <3>4 DEF NodeReadLock, Goto, readJsonFile
    <3>5. CASE PyLook(p)
      BY <3>5 DEF PyLook, Goto, readJsonFile
    <3>6. CASE PyLookExists(p)
      BY <3>6 DEF PyLookExists, Goto
    <3>7. CASE PyStampLock(p)
      BY <3>7 DEF PyStampLock, Goto
    <3>8. CASE PyCreate(p)
      BY <3>8 DEF PyCreate, Goto, CreateLock, New
    <3>9. CASE PyExists(p)
      BY <3>9 DEF PyExists, Goto
    <3>10. CASE WriteBody(p)
      BY <3>10 DEF WriteBody, Goto, Written
    <3> QED
      BY <2>1, <3>1, <3>2, <3>3, <3>4, <3>5, <3>6, <3>7, <3>8, <3>9, <3>10 DEF Acquire
  <2>2. ASSUME NEW p \in Proc, Recover(p) PROVE TypeOK'
    <3>1. CASE CreateGuard(p)
      BY <3>1 DEF CreateGuard, Goto, New
    <3>2. CASE GuardExists(p)
      BY <3>2 DEF GuardExists, Goto, AfterRecovery
    <3>3. CASE ClearRead(p)
      BY <3>3 DEF ClearRead, Goto, AfterRecovery
    <3>4. CASE NodeClearExists(p)
      BY <3>4 DEF NodeClearExists, Goto
    <3>5. CASE ClearUnlink(p)
      BY <3>5 DEF ClearUnlink, Goto
    <3>6. CASE WriteGuard(p)
      BY <3>6 DEF WriteGuard, Goto, Written
    <3>7. CASE PyRecheckExists(p)
      BY <3>7 DEF PyRecheckExists, Goto, LeaveGuard
    <3>8. CASE Recheck(p)
      BY <3>8 DEF Recheck, Goto, LeaveGuard
    <3>9. CASE RemoveLock(p)
      BY <3>9 DEF RemoveLock, Goto, Unlink, Holders, LeaveGuard
    <3>10. CASE NodeDropGuard(p)
      BY <3>10 DEF NodeDropGuard, Goto
    <3>11. CASE RemoveGuard(p)
      BY <3>11 DEF RemoveGuard, Goto, AfterRecovery
    <3> QED
      BY <2>2, <3>1, <3>2, <3>3, <3>4, <3>5, <3>6, <3>7, <3>8, <3>9, <3>10, <3>11 DEF Recover
  <2>3. ASSUME NEW p \in Proc, Release(p) PROVE TypeOK'
    <3>1. CASE Leave(p)
      BY <3>1 DEF Leave, Goto
    <3>2. CASE ReleaseRead(p)
      BY <3>2 DEF ReleaseRead, Goto
    <3>3. CASE ReleaseUnlink(p)
      BY <3>3 DEF ReleaseUnlink, Goto, Unlink, Holders
    <3> QED
      BY <2>3, <3>1, <3>2, <3>3 DEF Release
  <2>4. ASSUME NEW p \in Proc, WriteFails(p) PROVE TypeOK'
    <3>1. CASE NodeWriteFails(p)
      BY <3>1 DEF NodeWriteFails, Goto, Fault
    <3>2. CASE PyWriteFails(p)
      BY <3>2 DEF PyWriteFails, Goto, Fault, Unlink, Holders
    <3>3. CASE PyGuardWriteFails(p)
      BY <3>3 DEF PyGuardWriteFails, Goto, Fault
    <3> QED
      BY <2>4, <3>1, <3>2, <3>3 DEF WriteFails
  <2>5. ASSUME NEW p \in Proc, Start(p) PROVE TypeOK'
    BY <2>5 DEF Start, Goto
  <2>6. ASSUME NEW p \in Proc, Crash(p) PROVE TypeOK'
    BY <2>6 DEF Crash, Goto, Fault
  <2>7. CASE Tick
    BY <2>7 DEF Tick
  <2>8. CASE UNCHANGED vars
    BY <2>8 DEF vars
  <2> QED
    BY <2>1, <2>2, <2>3, <2>4, <2>5, <2>6, <2>7, <2>8 DEF Next, Step, AllQuiet

\* The initial values have their types.
LEMMA TypeInit == Init => TypeOK
  BY TimeAssumption DEF Init, TypeOK, Time, Pc, File, LockToken, NoToken, Absent

\* Type correctness of the specification.
THEOREM TypeCorrect == Spec => []TypeOK
  BY TypeInit, TypeStep, PTL DEF Spec

-----------------------------------------------------------------------------
(* Who owns the two files.                                                 *)

\* A process inside whose file nobody removed owns the file at the path.
Owned == \A p \in Holders \ stolen : lock.owner = p

\* The file at the path belongs to a process inside or to a dead one, and it
\* carries that process's stamp and, once written, its body.
LockOwner ==
    /\ lock # Absent => /\ lock.owner \in Proc
                        /\ pc[lock.owner] \in HoldPc \cup {"failed", "crashed"}
    /\ \A p \in Proc : lock.owner = p /\ pc[p] \in HoldPc =>
         lock.at = stamp[p] /\ (lock.body <=> pc[p] # "write")

\* The same for the guard and the processes in stale recovery.
GuardOwner ==
    /\ guard # Absent => /\ guard.owner \in Proc
                         /\ pc[guard.owner] \in GuardPc \cup {"failed", "crashed"}
    /\ \A p \in Proc : guard.owner = p /\ pc[p] \in GuardPc =>
         guard.at = gstamp[p] /\ (guard.body <=> pc[p] # "guardWrite")

\* What holds whatever the interleaving, the faults and the pauses.
FileInv == TypeOK /\ Owned /\ LockOwner /\ GuardOwner

\* Nothing exists and nobody is inside at the start.
LEMMA FileInit == Init => FileInv
  BY ProcAssumption, TypeInit DEF Init, FileInv, Owned, LockOwner, GuardOwner, Holders, HoldPc,
     GuardPc, Absent

\* Every step keeps the two files with their owners.
LEMMA FileStep == FileInv /\ [Next]_vars => FileInv'
<1> SUFFICES ASSUME FileInv, [Next]_vars PROVE Owned' /\ LockOwner' /\ GuardOwner'
  BY TypeStep DEF FileInv
<1> USE ProcAssumption DEF FileInv, TypeOK, Owned, LockOwner, GuardOwner, Holders, Proc, File,
        Absent, HoldPc, TryPc, GuardPc, Final
<1> QED
  <2>1. ASSUME NEW p \in Proc, Acquire(p) PROVE Owned' /\ LockOwner' /\ GuardOwner'
    <3>1. CASE Expire(p)
      BY <3>1 DEF Expire, Goto
    <3>2. CASE NodeCreate(p)
      BY <3>2 DEF NodeCreate, Goto, CreateLock, New
    <3>3. CASE NodeExists(p)
      BY <3>3 DEF NodeExists, Goto
    <3>4. CASE NodeReadLock(p)
      BY <3>4 DEF NodeReadLock, Goto, readJsonFile
    <3>5. CASE PyLook(p)
      BY <3>5 DEF PyLook, Goto, readJsonFile
    <3>6. CASE PyLookExists(p)
      BY <3>6 DEF PyLookExists, Goto
    <3>7. CASE PyStampLock(p)
      BY <3>7 DEF PyStampLock, Goto
    <3>8. CASE PyCreate(p)
      BY <3>8 DEF PyCreate, Goto, CreateLock, New
    <3>9. CASE PyExists(p)
      BY <3>9 DEF PyExists, Goto
    <3>10. CASE WriteBody(p)
      BY <3>10 DEF WriteBody, Goto, Written
    <3> QED
      BY <2>1, <3>1, <3>2, <3>3, <3>4, <3>5, <3>6, <3>7, <3>8, <3>9, <3>10 DEF Acquire
  <2>2. ASSUME NEW p \in Proc, Recover(p) PROVE Owned' /\ LockOwner' /\ GuardOwner'
    <3>1. CASE CreateGuard(p)
      BY <3>1 DEF CreateGuard, Goto, New
    <3>2. CASE GuardExists(p)
      BY <3>2 DEF GuardExists, Goto, AfterRecovery
    <3>3. CASE ClearRead(p)
      BY <3>3 DEF ClearRead, Goto, AfterRecovery
    <3>4. CASE NodeClearExists(p)
      BY <3>4 DEF NodeClearExists, Goto
    <3>5. CASE ClearUnlink(p)
      BY <3>5 DEF ClearUnlink, Goto
    <3>6. CASE WriteGuard(p)
      BY <3>6 DEF WriteGuard, Goto, Written
    <3>7. CASE PyRecheckExists(p)
      BY <3>7 DEF PyRecheckExists, Goto, LeaveGuard
    <3>8. CASE Recheck(p)
      BY <3>8 DEF Recheck, Goto, LeaveGuard
    <3>9. CASE RemoveLock(p)
      BY <3>9 DEF RemoveLock, Goto, Unlink, LeaveGuard
    <3>10. CASE NodeDropGuard(p)
      BY <3>10 DEF NodeDropGuard, Goto, readJsonFile, NoToken
    <3>11. CASE RemoveGuard(p)
      BY <3>11 DEF RemoveGuard, Goto, AfterRecovery
    <3> QED
      BY <2>2, <3>1, <3>2, <3>3, <3>4, <3>5, <3>6, <3>7, <3>8, <3>9, <3>10, <3>11 DEF Recover
  <2>3. ASSUME NEW p \in Proc, Release(p) PROVE Owned' /\ LockOwner' /\ GuardOwner'
    <3>1. CASE Leave(p)
      BY <3>1 DEF Leave, Goto
    <3>2. CASE ReleaseRead(p)
      BY <3>2 DEF ReleaseRead, Goto, readJsonFile, Mine, NoToken
    <3>3. CASE ReleaseUnlink(p)
      BY <3>3 DEF ReleaseUnlink, Goto, Unlink
    <3> QED
      BY <2>3, <3>1, <3>2, <3>3 DEF Release
  <2>4. ASSUME NEW p \in Proc, WriteFails(p) PROVE Owned' /\ LockOwner' /\ GuardOwner'
    <3>1. CASE NodeWriteFails(p)
      BY <3>1 DEF NodeWriteFails, Goto, Fault
    <3>2. CASE PyWriteFails(p)
      BY <3>2 DEF PyWriteFails, Goto, Fault, Unlink
    <3>3. CASE PyGuardWriteFails(p)
      BY <3>3 DEF PyGuardWriteFails, Goto, Fault
    <3> QED
      BY <2>4, <3>1, <3>2, <3>3 DEF WriteFails
  <2>5. ASSUME NEW p \in Proc, Start(p) PROVE Owned' /\ LockOwner' /\ GuardOwner'
    BY <2>5 DEF Start, Goto
  <2>6. ASSUME NEW p \in Proc, Crash(p) PROVE Owned' /\ LockOwner' /\ GuardOwner'
    BY <2>6 DEF Crash, Goto, Fault
  <2>7. CASE Tick
    BY <2>7 DEF Tick
  <2>8. CASE UNCHANGED vars
    BY <2>8 DEF vars
  <2> QED
    BY <2>1, <2>2, <2>3, <2>4, <2>5, <2>6, <2>7, <2>8 DEF Next, Step, AllQuiet

\* The file invariant holds for ever.
THEOREM FilesCorrect == Spec => []FileInv
  BY FileInit, FileStep, PTL DEF Spec

\* At most one process is inside without having lost its file.
THEOREM Exclusion == Spec => []ExclusionUnlessStolen
<1>1. FileInv => ExclusionUnlessStolen
  BY DEF FileInv, Owned, ExclusionUnlessStolen
<1> QED
  BY <1>1, FilesCorrect, PTL

\* Only a crash or a failed write leaves a file behind.
THEOREM CleanExit == Spec => []NoOrphanFiles
<1>1. FileInv => NoOrphanFiles
  BY DEF FileInv, LockOwner, GuardOwner, NoOrphanFiles
<1> QED
  BY <1>1, FilesCorrect, PTL

-----------------------------------------------------------------------------
(* How a process inside loses its file, in every build and every run.      *)

\* A process inside loses its lock file to the unlink that ends another one's
\* stale recovery, or to a process that was robbed before it and removes what is
\* at the path now: in releaseLock, which read its own file there a call earlier
\* (lockfile.mjs:144-152), or after a failed write (fred_cache.py).  One whose
\* own file is in place robs nobody.
TheftStartsWithRecovery ==
    [][\A q \in stolen' \ stolen : \E p \in Proc \ {q} :
         \/ pc[p] = "unlinkLock" /\ pc'[p] # "unlinkLock"
         \/ p \in stolen /\ pc[p] \in {"write", "relUnlink"} /\ pc'[p] # pc[p]]_vars

\* An unlink of the lock's path by p robs nobody, unless p is in stale recovery
\* or was robbed itself.
LEMMA UnlinkRobs ==
    ASSUME FileInv, NEW p \in Proc, Unlink(p), pc[p] \in HoldPc, p \notin stolen
    PROVE  stolen' = stolen
<1>1. lock.owner = p
  BY DEF FileInv, Owned, Holders
<1> QED
  BY <1>1 DEF Unlink

\* A step that robs q is one of the three unlinks of another process.
LEMMA RobberStep ==
    ASSUME FileInv, [Next]_vars, NEW q \in stolen' \ stolen
    PROVE  \E p \in Proc \ {q} :
             \/ pc[p] = "unlinkLock" /\ pc'[p] # "unlinkLock"
             \/ p \in stolen /\ pc[p] \in {"write", "relUnlink"} /\ pc'[p] # pc[p]
<1> DEFINE Robbed(p) == \/ pc[p] = "unlinkLock" /\ pc'[p] # "unlinkLock"
                        \/ p \in stolen /\ pc[p] \in {"write", "relUnlink"} /\ pc'[p] # pc[p]
<1>0. pc \in [Proc -> Pc]
  BY DEF FileInv, TypeOK
<1>1. ASSUME NEW p \in Proc, Unlink(p) PROVE q # p
  BY <1>1 DEF Unlink
<1>2. ASSUME NEW p \in Proc, RemoveLock(p) PROVE q # p /\ Robbed(p)
  BY <1>0, <1>1, <1>2 DEF RemoveLock, Goto, LeaveGuard
<1>3. ASSUME NEW p \in Proc, ReleaseUnlink(p) PROVE q # p /\ Robbed(p)
  BY <1>0, <1>1, <1>3, UnlinkRobs DEF ReleaseUnlink, Goto, HoldPc
<1>4. ASSUME NEW p \in Proc, PyWriteFails(p) PROVE q # p /\ Robbed(p)
  BY <1>0, <1>1, <1>4, UnlinkRobs DEF PyWriteFails, Goto, HoldPc
<1>5. \E p \in Proc : RemoveLock(p) \/ ReleaseUnlink(p) \/ PyWriteFails(p)
  <2> SUFFICES ASSUME ~ \E p \in Proc : RemoveLock(p) \/ ReleaseUnlink(p) \/ PyWriteFails(p)
               PROVE  stolen' \subseteq stolen
    OBVIOUS
  <2>1. ASSUME NEW p \in Proc, Acquire(p) PROVE stolen' \subseteq stolen
    BY <2>1 DEF Acquire, Expire, NodeCreate, NodeExists, NodeReadLock, PyLook, PyLookExists,
       PyStampLock, PyCreate, PyExists, WriteBody, CreateLock
  <2>2. ASSUME NEW p \in Proc, Recover(p) PROVE stolen' \subseteq stolen
    BY <2>2 DEF Recover, CreateGuard, GuardExists, ClearRead, NodeClearExists, ClearUnlink,
       WriteGuard, PyRecheckExists, Recheck, NodeDropGuard, RemoveGuard
  <2>3. ASSUME NEW p \in Proc, Release(p) PROVE stolen' \subseteq stolen
    BY <2>3 DEF Release, Leave, ReleaseRead
  <2>4. ASSUME NEW p \in Proc, WriteFails(p) PROVE stolen' \subseteq stolen
    BY <2>4 DEF WriteFails, NodeWriteFails, PyGuardWriteFails
  <2>5. ASSUME NEW p \in Proc, Start(p) \/ Crash(p) PROVE stolen' \subseteq stolen
    BY <2>5 DEF Start, Crash
  <2>6. CASE Tick \/ UNCHANGED vars
    BY <2>6 DEF Tick, vars
  <2> QED
    BY <2>1, <2>2, <2>3, <2>4, <2>5, <2>6 DEF Next, Step, AllQuiet
<1> QED
  BY <1>2, <1>3, <1>4, <1>5

\* The first loss of a lock is always the work of a stale recovery, and every
\* further one that of another recovery or of a process that lost its own.
THEOREM TheftHasCause == Spec => TheftStartsWithRecovery
<1>1. FileInv /\ [Next]_vars
        => [\A q \in stolen' \ stolen : \E p \in Proc \ {q} :
              \/ pc[p] = "unlinkLock" /\ pc'[p] # "unlinkLock"
              \/ p \in stolen /\ pc[p] \in {"write", "relUnlink"} /\ pc'[p] # pc[p]]_vars
  BY RobberStep
<1> QED
  BY <1>1, FilesCorrect, PTL DEF Spec, TheftStartsWithRecovery

\* What releaseLock does guarantee, where NoForeignRelease is refuted: it
\* deletes the lock of another process only if its own was taken from it.
ForeignReleaseNeedsTheft ==
    [][\A p \in Proc : pc[p] = "relUnlink" /\ pc'[p] = "done"
                             => lock.owner \in {p, Nobody} \/ p \in stolen]_vars

\* A release finds its own file at the path, or it was robbed while inside.
THEOREM ReleaseIsOwn == Spec => ForeignReleaseNeedsTheft
<1>1. ASSUME FileInv, NEW p \in Proc, pc[p] = "relUnlink"
      PROVE  lock.owner \in {p, Nobody} \/ p \in stolen
  BY <1>1 DEF FileInv, Owned, Holders, HoldPc
<1>2. FileInv /\ [Next]_vars
        => [\A p \in Proc : pc[p] = "relUnlink" /\ pc'[p] = "done"
                               => lock.owner \in {p, Nobody} \/ p \in stolen]_vars
  BY <1>1
<1> QED
  BY <1>2, FilesCorrect, PTL DEF Spec, ForeignReleaseNeedsTheft

-----------------------------------------------------------------------------
(* What the refinement needs where LeaseLock promises more: with the       *)
(* windows closed and the lease kept nobody inside loses its file.         *)

Closed == LeaseKept /\ ~CreateWindow /\ ~UnlinkWindow

\* Which implementation makes which calls; a Python process that asks whether
\* the lock exists has just read null.
Kinds == \A p \in Proc : /\ pc[p] = "readLock" => p \in NodeProc
                         /\ pc[p] \in {"lookExists", "stampLock", "create"} => p \in PyProc
                         /\ pc[p] = "lookExists" => obs[p] = NoToken

\* A Node process keeps the stamp it took when it began to wait.
NodeDeadline == \A p \in NodeProc : pc[p] # "idle" => deadline[p] = stamp[p] + Timeout

\* A lock is created, held and given up before its stamp turns stale.
LeaseInv == \A p \in Stamped : now - stamp[p] <= StaleAfter

\* Nobody was robbed, and nobody is about to be.
NoTheft == stolen = {} /\ \A p \in Proc : pc[p] = "unlinkLock" => Holders = {}

\* Every step keeps the stamps of Node processes and of current holders.
LEMMA StampStep ==
    LeaseKept /\ TypeOK /\ Kinds /\ NodeDeadline /\ LeaseInv /\ [Next]_vars
      => Kinds' /\ NodeDeadline' /\ LeaseInv'
<1> SUFFICES ASSUME LeaseKept, TypeOK, Kinds, NodeDeadline, LeaseInv, [Next]_vars
             PROVE  Kinds' /\ NodeDeadline' /\ LeaseInv'
  OBVIOUS
<1> USE ProcAssumption, TimeAssumption DEF TypeOK, Kinds, NodeDeadline, LeaseInv, Stamped, Holders,
        Proc, Time, HoldPc, TryPc, GuardPc, Final
<1> QED
  <2>1. ASSUME NEW p \in Proc, Acquire(p) PROVE Kinds' /\ NodeDeadline' /\ LeaseInv'
    <3>1. CASE Expire(p)
      BY <3>1 DEF Expire, Goto
    <3>2. CASE NodeCreate(p)
      BY <3>2 DEF NodeCreate, Goto, CreateLock, New
    <3>3. CASE NodeExists(p)
      BY <3>3 DEF NodeExists, Goto
    <3>4. CASE NodeReadLock(p)
      BY <3>4 DEF NodeReadLock, Goto, readJsonFile
    <3>5. CASE PyLook(p)
      BY <3>5 DEF PyLook, Goto, readJsonFile
    <3>6. CASE PyLookExists(p)
      BY <3>6 DEF PyLookExists, Goto
    <3>7. CASE PyStampLock(p)
      BY <3>7 DEF PyStampLock, Goto
    <3>8. CASE PyCreate(p)
      BY <3>8 DEF PyCreate, Goto, CreateLock, New
    <3>9. CASE PyExists(p)
      BY <3>9 DEF PyExists, Goto
    <3>10. CASE WriteBody(p)
      BY <3>10 DEF WriteBody, Goto, Written
    <3> QED
      BY <2>1, <3>1, <3>2, <3>3, <3>4, <3>5, <3>6, <3>7, <3>8, <3>9, <3>10 DEF Acquire
  <2>2. ASSUME NEW p \in Proc, Recover(p) PROVE Kinds' /\ NodeDeadline' /\ LeaseInv'
    <3>1. CASE CreateGuard(p)
      BY <3>1 DEF CreateGuard, Goto, New
    <3>2. CASE GuardExists(p)
      BY <3>2 DEF GuardExists, Goto, AfterRecovery
    <3>3. CASE ClearRead(p)
      BY <3>3 DEF ClearRead, Goto, AfterRecovery
    <3>4. CASE NodeClearExists(p)
      BY <3>4 DEF NodeClearExists, Goto
    <3>5. CASE ClearUnlink(p)
      BY <3>5 DEF ClearUnlink, Goto
    <3>6. CASE WriteGuard(p)
      BY <3>6 DEF WriteGuard, Goto, Written
    <3>7. CASE PyRecheckExists(p)
      BY <3>7 DEF PyRecheckExists, Goto, LeaveGuard
    <3>8. CASE Recheck(p)
      BY <3>8 DEF Recheck, Goto, LeaveGuard
    <3>9. CASE RemoveLock(p)
      BY <3>9 DEF RemoveLock, Goto, Unlink, LeaveGuard
    <3>10. CASE NodeDropGuard(p)
      BY <3>10 DEF NodeDropGuard, Goto
    <3>11. CASE RemoveGuard(p)
      BY <3>11 DEF RemoveGuard, Goto, AfterRecovery
    <3> QED
      BY <2>2, <3>1, <3>2, <3>3, <3>4, <3>5, <3>6, <3>7, <3>8, <3>9, <3>10, <3>11 DEF Recover
  <2>3. ASSUME NEW p \in Proc, Release(p) PROVE Kinds' /\ NodeDeadline' /\ LeaseInv'
    <3>1. CASE Leave(p)
      BY <3>1 DEF Leave, Goto
    <3>2. CASE ReleaseRead(p)
      BY <3>2 DEF ReleaseRead, Goto
    <3>3. CASE ReleaseUnlink(p)
      BY <3>3 DEF ReleaseUnlink, Goto, Unlink
    <3> QED
      BY <2>3, <3>1, <3>2, <3>3 DEF Release
  <2>4. ASSUME NEW p \in Proc, WriteFails(p) PROVE Kinds' /\ NodeDeadline' /\ LeaseInv'
    <3>1. CASE NodeWriteFails(p)
      BY <3>1 DEF NodeWriteFails, Goto, Fault
    <3>2. CASE PyWriteFails(p)
      BY <3>2 DEF PyWriteFails, Goto, Fault, Unlink
    <3>3. CASE PyGuardWriteFails(p)
      BY <3>3 DEF PyGuardWriteFails, Goto, Fault
    <3> QED
      BY <2>4, <3>1, <3>2, <3>3 DEF WriteFails
  <2>5. ASSUME NEW p \in Proc, Start(p) PROVE Kinds' /\ NodeDeadline' /\ LeaseInv'
    BY <2>5 DEF Start, Goto
  <2>6. ASSUME NEW p \in Proc, Crash(p) PROVE Kinds' /\ NodeDeadline' /\ LeaseInv'
    BY <2>6 DEF Crash, Goto, Fault
  <2>7. CASE Tick
    BY <2>7 DEF Tick
  <2>8. CASE UNCHANGED vars
    BY <2>8 DEF vars
  <2> QED
    BY <2>1, <2>2, <2>3, <2>4, <2>5, <2>6, <2>7, <2>8 DEF Next, Step, AllQuiet

\* While the windows are closed no step robs a process inside.
LEMMA TheftStep == Closed /\ FileInv /\ LeaseInv /\ NoTheft /\ [Next]_vars => NoTheft'
<1> SUFFICES ASSUME Closed, FileInv, LeaseInv, NoTheft, [Next]_vars PROVE NoTheft'
  OBVIOUS
<1> USE ProcAssumption DEF Closed, FileInv, TypeOK, Owned, LockOwner, NoTheft, Holders, Proc, HoldPc, TryPc, GuardPc, Final
<1> QED
  <2>1. ASSUME NEW p \in Proc, MayRun(p), Acquire(p) PROVE NoTheft'
    <3>1. CASE Expire(p)
      BY <2>1, <3>1 DEF Expire, Goto, MayRun
    <3>2. CASE NodeCreate(p)
      BY <2>1, <3>2 DEF NodeCreate, Goto, CreateLock, New, MayRun
    <3>3. CASE NodeExists(p)
      BY <2>1, <3>3 DEF NodeExists, Goto, MayRun
    <3>4. CASE NodeReadLock(p)
      BY <2>1, <3>4 DEF NodeReadLock, Goto, readJsonFile, MayRun
    <3>5. CASE PyLook(p)
      BY <2>1, <3>5 DEF PyLook, Goto, readJsonFile, MayRun
    <3>6. CASE PyLookExists(p)
      BY <2>1, <3>6 DEF PyLookExists, Goto, MayRun
    <3>7. CASE PyStampLock(p)
      BY <2>1, <3>7 DEF PyStampLock, Goto, MayRun
    <3>8. CASE PyCreate(p)
      BY <2>1, <3>8 DEF PyCreate, Goto, CreateLock, New, MayRun
    <3>9. CASE PyExists(p)
      BY <2>1, <3>9 DEF PyExists, Goto, MayRun
    <3>10. CASE WriteBody(p)
      BY <2>1, <3>10 DEF WriteBody, Goto, Written, MayRun
    <3> QED
      BY <2>1, <3>1, <3>2, <3>3, <3>4, <3>5, <3>6, <3>7, <3>8, <3>9, <3>10 DEF Acquire
  <2>2. ASSUME NEW p \in Proc, MayRun(p), Recover(p) PROVE NoTheft'
    <3>1. CASE CreateGuard(p)
      BY <2>2, <3>1 DEF CreateGuard, Goto, New, MayRun
    <3>2. CASE GuardExists(p)
      BY <2>2, <3>2 DEF GuardExists, Goto, AfterRecovery, MayRun
    <3>3. CASE ClearRead(p)
      BY <2>2, <3>3 DEF ClearRead, Goto, AfterRecovery, MayRun
    <3>4. CASE NodeClearExists(p)
      BY <2>2, <3>4 DEF NodeClearExists, Goto, MayRun
    <3>5. CASE ClearUnlink(p)
      BY <2>2, <3>5 DEF ClearUnlink, Goto, MayRun
    <3>6. CASE WriteGuard(p)
      BY <2>2, <3>6 DEF WriteGuard, Goto, Written, MayRun
    <3>7. CASE PyRecheckExists(p)
      BY <2>2, <3>7 DEF PyRecheckExists, Goto, LeaveGuard, MayRun
    <3>8. CASE Recheck(p)
      <4>1. stolen' = stolen /\ \A q \in Proc \ {p} : pc'[q] = pc[q]
        BY <3>8 DEF Recheck, Goto
      <4>2. pc'[p] \notin HoldPc
        BY <3>8 DEF Recheck, Goto, LeaveGuard
      <4>3. \A q \in Proc \ {p} : pc[q] # "unlinkLock"
        BY <2>2 DEF MayRun
      <4>4. ASSUME isStale(readJsonFile(lock)), NEW q \in Holders PROVE FALSE
        <5>1. q # p /\ lock.owner = q
          BY <3>8 DEF Recheck
        <5>2. lock.body /\ lock.at = stamp[q]
          BY <2>2, <5>1 DEF MayRun
        <5>3. now - lock.at <= StaleAfter
          BY <5>2 DEF LeaseInv, Stamped
        <5>4. readJsonFile(lock) = [owner |-> q, at |-> lock.at] /\ q # Nobody
          BY <5>1, <5>2 DEF readJsonFile
        <5> QED
          BY <4>4, <5>3, <5>4, TimeAssumption DEF isStale, NoToken, File, Time
      <4>5. pc'[p] = "unlinkLock" => Holders = {}
        BY <3>8, <4>4 DEF Recheck, Goto, LeaveGuard
      <4> QED
        BY <4>1, <4>2, <4>3, <4>5
    <3>9. CASE RemoveLock(p)
      BY <2>2, <3>9 DEF RemoveLock, Goto, Unlink, Holders, LeaveGuard, MayRun
    <3>10. CASE NodeDropGuard(p)
      BY <2>2, <3>10 DEF NodeDropGuard, Goto, MayRun
    <3>11. CASE RemoveGuard(p)
      BY <2>2, <3>11 DEF RemoveGuard, Goto, AfterRecovery, MayRun
    <3> QED
      BY <2>2, <3>1, <3>2, <3>3, <3>4, <3>5, <3>6, <3>7, <3>8, <3>9, <3>10, <3>11 DEF Recover
  <2>3. ASSUME NEW p \in Proc, MayRun(p), Release(p) PROVE NoTheft'
    <3>1. CASE Leave(p)
      BY <2>3, <3>1 DEF Leave, Goto, MayRun
    <3>2. CASE ReleaseRead(p)
      BY <2>3, <3>2 DEF ReleaseRead, Goto, MayRun
    <3>3. CASE ReleaseUnlink(p)
      BY <2>3, <3>3 DEF ReleaseUnlink, Goto, Unlink, Holders, MayRun
    <3> QED
      BY <2>3, <3>1, <3>2, <3>3 DEF Release
  <2>4. ASSUME NEW p \in Proc, MayRun(p), WriteFails(p) PROVE NoTheft'
    <3>1. CASE NodeWriteFails(p)
      BY <2>4, <3>1 DEF NodeWriteFails, Goto, Fault, MayRun
    <3>2. CASE PyWriteFails(p)
      BY <2>4, <3>2 DEF PyWriteFails, Goto, Fault, Unlink, Holders, MayRun
    <3>3. CASE PyGuardWriteFails(p)
      BY <2>4, <3>3 DEF PyGuardWriteFails, Goto, Fault, MayRun
    <3> QED
      BY <2>4, <3>1, <3>2, <3>3 DEF WriteFails
  <2>5. ASSUME NEW p \in Proc, MayRun(p), Start(p) PROVE NoTheft'
    BY <2>5 DEF Start, Goto, MayRun
  <2>6. ASSUME NEW p \in Proc, Crash(p) PROVE NoTheft'
    BY <2>6 DEF Crash, Goto, Fault, MayRun
  <2>7. CASE Tick
    BY <2>7 DEF Tick, MayRun
  <2>8. CASE UNCHANGED vars
    BY <2>8 DEF vars, MayRun
  <2> QED
    BY <2>1, <2>2, <2>3, <2>4, <2>5, <2>6, <2>7, <2>8 DEF Next, Step, AllQuiet

\* Everything that holds when the windows are closed and the lease is kept.
SafeInv == FileInv /\ Kinds /\ NodeDeadline /\ LeaseInv /\ NoTheft

\* Every step keeps all of it.
LEMMA SafeStep == Closed /\ SafeInv /\ [Next]_vars => SafeInv'
<1> SUFFICES ASSUME Closed, SafeInv, [Next]_vars PROVE SafeInv'
  OBVIOUS
<1>1. FileInv'
  BY FileStep DEF SafeInv
<1>2. Kinds' /\ NodeDeadline' /\ LeaseInv'
  BY StampStep DEF FileInv, SafeInv, Closed
<1>3. NoTheft'
  BY TheftStep DEF SafeInv
<1> QED
  BY <1>1, <1>2, <1>3 DEF SafeInv

\* It holds at the start.
LEMMA SafeInit == Init => SafeInv
<1> SUFFICES ASSUME Init PROVE SafeInv
  OBVIOUS
<1>1. Holders = {} /\ Stamped = {}
  BY DEF Init, Stamped, Holders, Proc, HoldPc, TryPc, GuardPc
<1>2. Kinds /\ NodeDeadline
  BY DEF Init, Kinds, NodeDeadline, Proc
<1> QED
  BY <1>1, <1>2, FileInit DEF Init, SafeInv, LeaseInv, NoTheft

-----------------------------------------------------------------------------
(* The lock file implements LeaseLock.                                     *)

\* A step that neither moves p in or out nor changes the owner is a stutter.
LEMMA LeaseStutter ==
    ASSUME TypeOK, NEW p \in Proc, NEW l, Goto(p, l),
           lock'.owner = lock.owner, pc[p] \in HoldPc <=> l \in HoldPc
    PROVE  UNCHANGED Lease!vars
  BY DEF TypeOK, Goto, Holders, Lease!vars

\* A step on which p gives up its place inside.
LEMMA LeaveHolders ==
    ASSUME TypeOK, NEW p \in Proc, NEW l, Goto(p, l), pc[p] \in HoldPc, l \notin HoldPc
    PROVE  p \in Holders /\ Holders' = Holders \ {p}
  BY DEF TypeOK, Goto, Holders

\* A step on which p enters.
LEMMA EnterHolders ==
    ASSUME TypeOK, NEW p \in Proc, NEW l, Goto(p, l), l \in HoldPc
    PROVE  Holders' = Holders \cup {p}
  BY DEF TypeOK, Goto, Holders

\* The step on which p creates the lock is Enter(p).
LEMMA CreateEnters ==
    ASSUME TypeOK, NEW p \in Proc, CreateLock(p)
    PROVE  Lease!Next
<1>1. Holders' = Holders \cup {p}
  BY EnterHolders DEF CreateLock, HoldPc
<1>2. lock.owner = Nobody /\ lock'.owner = p
  BY DEF CreateLock, Absent, New
<1> QED
  BY <1>1, <1>2 DEF Lease!Next, Lease!Enter

\* A step on which p leaves and takes whatever is at the path with it.
LEMMA UnlinkLeaves ==
    ASSUME FileInv, Closed => NoTheft, NEW p \in Proc, NEW l, Goto(p, l), Unlink(p),
           pc[p] \in HoldPc, l \notin HoldPc
    PROVE  Lease!Next
<1>1. p \in Holders /\ Holders' = Holders \ {p}
  BY LeaveHolders DEF FileInv
<1>2. lock'.owner = Nobody
  BY DEF Unlink, Absent
<1>3. CASE Closed
  <2>1. lock.owner = p
    BY <1>1, <1>3 DEF FileInv, Owned, NoTheft
  <2> QED
    BY <1>1, <1>2, <2>1 DEF Lease!Next, Lease!Exit
<1>4. CASE ~Closed
  BY <1>1, <1>2, <1>4 DEF Lease!Next, Lease!ExitAndRevoke, Closed
<1> QED
  BY <1>3, <1>4

\* Every step of the lock file is a step of the abstract lock, or none.
LEMMA LeaseNext ==
    FileInv /\ (Closed => NoTheft) /\ [Next]_vars => [Lease!Next]_Lease!vars
<1> SUFFICES ASSUME FileInv, Closed => NoTheft, [Next]_vars
             PROVE  Lease!Next \/ UNCHANGED Lease!vars
  OBVIOUS
<1>1. TypeOK
  BY DEF FileInv
<1>2. ASSUME NEW p \in Proc, Acquire(p) PROVE Lease!Next \/ UNCHANGED Lease!vars
  <2>1. CASE Expire(p)
    BY <1>1, <2>1, LeaseStutter DEF Expire, HoldPc
  <2>2. CASE NodeCreate(p)
    BY <1>1, <2>2, CreateEnters DEF NodeCreate
  <2>3. CASE NodeExists(p)
    BY <1>1, <2>3, LeaseStutter DEF NodeExists, HoldPc
  <2>4. CASE NodeReadLock(p)
    BY <1>1, <2>4, LeaseStutter DEF NodeReadLock, HoldPc
  <2>5. CASE PyLook(p)
    BY <1>1, <2>5, LeaseStutter DEF PyLook, HoldPc
  <2>6. CASE PyLookExists(p)
    BY <1>1, <2>6, LeaseStutter DEF PyLookExists, HoldPc
  <2>7. CASE PyStampLock(p)
    BY <1>1, <2>7, LeaseStutter DEF PyStampLock, HoldPc
  <2>8. CASE PyCreate(p)
    BY <1>1, <2>8, CreateEnters DEF PyCreate
  <2>9. CASE PyExists(p)
    BY <1>1, <2>9, LeaseStutter DEF PyExists, HoldPc
  <2>10. CASE WriteBody(p)
    BY <1>1, <2>10, LeaseStutter DEF WriteBody, HoldPc, Written, TypeOK, File
  <2> QED
    BY <1>2, <2>1, <2>2, <2>3, <2>4, <2>5, <2>6, <2>7, <2>8, <2>9, <2>10 DEF Acquire
<1>3. ASSUME NEW p \in Proc, Recover(p) PROVE Lease!Next \/ UNCHANGED Lease!vars
  <2>1. CASE CreateGuard(p)
    BY <1>1, <2>1, LeaseStutter DEF CreateGuard, HoldPc
  <2>2. CASE GuardExists(p)
    BY <1>1, <2>2, LeaseStutter DEF GuardExists, HoldPc, AfterRecovery
  <2>3. CASE ClearRead(p)
    BY <1>1, <2>3, LeaseStutter DEF ClearRead, HoldPc, AfterRecovery
  <2>4. CASE NodeClearExists(p)
    BY <1>1, <2>4, LeaseStutter DEF NodeClearExists, HoldPc
  <2>5. CASE ClearUnlink(p)
    BY <1>1, <2>5, LeaseStutter DEF ClearUnlink, HoldPc
  <2>6. CASE WriteGuard(p)
    BY <1>1, <2>6, LeaseStutter DEF WriteGuard, HoldPc
  <2>7. CASE PyRecheckExists(p)
    BY <1>1, <2>7, LeaseStutter DEF PyRecheckExists, HoldPc, LeaveGuard
  <2>8. CASE Recheck(p)
    BY <1>1, <2>8, LeaseStutter DEF Recheck, HoldPc, LeaveGuard
  <2>9. CASE RemoveLock(p)
    <3>1. lock'.owner = Nobody /\ Holders' = Holders
      BY <1>1, <2>9 DEF RemoveLock, Unlink, Absent, LeaveGuard, Goto, Holders, HoldPc, TypeOK
    <3>2. CASE lock.owner = Nobody
      BY <3>1, <3>2 DEF Lease!vars
    <3>3. CASE lock.owner # Nobody /\ lock.owner \notin Holders
      BY <3>1, <3>3 DEF Lease!Next, Lease!Reclaim
    <3>4. CASE lock.owner \in Holders
      <4>1. ~Closed
        BY <2>9, <3>4 DEF RemoveLock, NoTheft
      <4> QED
        BY <3>1, <3>4, <4>1 DEF Lease!Next, Lease!Revoke, Closed
    <3> QED
      BY <3>2, <3>3, <3>4
  <2>10. CASE NodeDropGuard(p)
    BY <1>1, <2>10, LeaseStutter DEF NodeDropGuard, HoldPc
  <2>11. CASE RemoveGuard(p)
    BY <1>1, <2>11, LeaseStutter DEF RemoveGuard, HoldPc, AfterRecovery
  <2> QED
    BY <1>3, <2>1, <2>2, <2>3, <2>4, <2>5, <2>6, <2>7, <2>8, <2>9, <2>10, <2>11 DEF Recover
<1>4. ASSUME NEW p \in Proc, Release(p) PROVE Lease!Next \/ UNCHANGED Lease!vars
  <2>1. CASE Leave(p)
    BY <1>1, <2>1, LeaseStutter DEF Leave, HoldPc
  <2>2. CASE ReleaseRead(p)
    <3>1. CASE readJsonFile(lock) = Mine(p)
      BY <1>1, <2>2, <3>1, LeaseStutter DEF ReleaseRead, HoldPc
    <3>2. CASE readJsonFile(lock) # Mine(p)
      <4>1. lock.owner # p
        BY <2>2, <3>2 DEF ReleaseRead, FileInv, LockOwner, HoldPc, readJsonFile, Mine
      <4>2. p \in Holders /\ Holders' = Holders \ {p} /\ lock' = lock
        BY <1>1, <2>2, <3>2, LeaveHolders DEF ReleaseRead, HoldPc
      <4> QED
        BY <4>1, <4>2 DEF Lease!Next, Lease!Exit
    <3> QED
      BY <3>1, <3>2
  <2>3. CASE ReleaseUnlink(p)
    BY <2>3, UnlinkLeaves DEF ReleaseUnlink, HoldPc
  <2> QED
    BY <1>4, <2>1, <2>2, <2>3 DEF Release
<1>5. ASSUME NEW p \in Proc, WriteFails(p) PROVE Lease!Next \/ UNCHANGED Lease!vars
  <2>1. CASE NodeWriteFails(p)
    <3>1. CASE pc[p] = "write"
      <4>1. p \in Holders /\ Holders' = Holders \ {p} /\ lock' = lock
        BY <1>1, <2>1, <3>1, LeaveHolders DEF NodeWriteFails, HoldPc
      <4> QED
        BY <4>1 DEF Lease!Next, Lease!Abandon
    <3>2. CASE pc[p] = "guardWrite"
      BY <1>1, <2>1, <3>2, LeaseStutter DEF NodeWriteFails, HoldPc
    <3> QED
      BY <2>1, <3>1, <3>2 DEF NodeWriteFails
  <2>2. CASE PyWriteFails(p)
    BY <2>2, UnlinkLeaves DEF PyWriteFails, HoldPc
  <2>3. CASE PyGuardWriteFails(p)
    BY <1>1, <2>3, LeaseStutter DEF PyGuardWriteFails, HoldPc
  <2> QED
    BY <1>5, <2>1, <2>2, <2>3 DEF WriteFails
<1>6. ASSUME NEW p \in Proc, Start(p) PROVE UNCHANGED Lease!vars
  BY <1>1, <1>6, LeaseStutter DEF Start, HoldPc
<1>7. ASSUME NEW p \in Proc, Crash(p) PROVE Lease!Next \/ UNCHANGED Lease!vars
  <2>1. CASE pc[p] \in HoldPc
    <3>1. p \in Holders /\ Holders' = Holders \ {p} /\ lock' = lock
      BY <1>1, <1>7, <2>1, LeaveHolders DEF Crash, HoldPc
    <3> QED
      BY <3>1 DEF Lease!Next, Lease!Abandon
  <2>2. CASE pc[p] \notin HoldPc
    BY <1>1, <1>7, <2>2, LeaseStutter DEF Crash, HoldPc
  <2> QED
    BY <2>1, <2>2
<1>8. CASE Tick
  BY <1>8 DEF Tick, Lease!vars, Holders
<1>9. CASE UNCHANGED vars
  BY <1>9 DEF vars, Lease!vars, Holders
<1> QED
  BY <1>2, <1>3, <1>4, <1>5, <1>6, <1>7, <1>8, <1>9 DEF Next, Step, AllQuiet

\* Every behaviour of the lock file is one of the abstract lock: of the one
\* that may be revoked in general, of the one that may not when Closed.
THEOREM Refinement == Spec => ImplementsLease
<1>1. Init => Lease!Init
  BY DEF Init, Lease!Init, Absent, Holders, HoldPc
<1>2. CASE Closed
  <2>1. SafeInv /\ [Next]_vars => [Lease!Next]_Lease!vars
    BY LeaseNext DEF SafeInv
  <2> QED
    BY <1>1, <1>2, <2>1, SafeInit, SafeStep, PTL DEF Spec, ImplementsLease, Lease!Spec
<1>3. CASE ~Closed
  <2>1. FileInv /\ [Next]_vars => [Lease!Next]_Lease!vars
    BY <1>3, LeaseNext
  <2> QED
    BY <1>1, <2>1, FilesCorrect, PTL DEF Spec, ImplementsLease, Lease!Spec
<1> QED
  BY <1>2, <1>3
=============================================================================
