------------------------------ MODULE Lockfile ------------------------------
(***************************************************************************)
(* The cross-process mutex of mortgage-ops: a JSON file, data/.lock, that  *)
(* the Node writers take through orchestration/lockfile.mjs and that the   *)
(* Python writer (lib/property_persistence.py) takes through the port of   *)
(* that code in lib/fred_cache.py.  The same port, under another file      *)
(* name, guards the FRED cache.                                            *)
(*                                                                         *)
(* A process is one call of withLock / with_cache_lock.  Every action is   *)
(* one call on the file system together with the clock reads and the tests *)
(* that follow it immediately, so that any other process may run between   *)
(* two calls: between the exclusive open and the write of the body,        *)
(* between reading a file and removing it.  CreateWindow, UnlinkWindow and *)
(* LeaseKept close those windows one at a time.                            *)
(***************************************************************************)
EXTENDS Integers

CONSTANTS
    NodeProc,       \* calls of withLock in lockfile.mjs
    PyProc,         \* calls of with_cache_lock in fred_cache.py
    Nobody,         \* owner of a file that does not exist
    StaleAfter,     \* STALE_THRESHOLD_MS: a body older than this is stale
    Timeout,        \* DEFAULT_TIMEOUT_MS: how long an acquire keeps trying
    MaxNow,         \* bound on the clock
    MaxFaults,      \* bound on crashes and failed writes
    CreateWindow,   \* may others run between the open and the write of a body?
    UnlinkWindow,   \* may others run between the re-check and the unlink?
    LeaseKept       \* is every lock given up before its stamp turns stale?

Proc == NodeProc \cup PyProc

ASSUME ProcAssumption == NodeProc \cap PyProc = {} /\ Nobody \notin Proc
\* The code has 30 s and 60 s.
ASSUME TimeAssumption == /\ StaleAfter \in Nat /\ Timeout \in Nat
                         /\ MaxNow \in Nat /\ MaxFaults \in Nat
                         /\ 0 < Timeout /\ Timeout <= StaleAfter
ASSUME WindowAssumption == /\ CreateWindow \in BOOLEAN
                           /\ UnlinkWindow \in BOOLEAN
                           /\ LeaseKept \in BOOLEAN

VARIABLES
    now,        \* the wall clock all processes read
    lock,       \* data/.lock
    guard,      \* data/.lock.stale-recovery
    pc,         \* the call each process is about to make
    stamp,      \* acquired_at of the lock each process creates
    deadline,   \* when each process stops trying
    obs,        \* the lock each process read on finding it taken
    gstamp,     \* acquired_at of the guard each process creates
    faults,     \* crashes and failed writes so far
    stolen      \* history: holders whose lock file another process removed

vars == <<now, lock, guard, pc, stamp, deadline, obs, gstamp, faults, stolen>>

-----------------------------------------------------------------------------
(* Files.  `body' is FALSE between the exclusive open and the write.       *)

Time == 0..MaxNow
Absent == [owner |-> Nobody, at |-> 0, body |-> FALSE]
NoToken == [owner |-> Nobody, at |-> 0]
File == [owner : Proc \cup {Nobody}, at : Time, body : BOOLEAN]
LockToken == [owner : Proc \cup {Nobody}, at : Time]

New(p, t) == [owner |-> p, at |-> t, body |-> FALSE]
\* Mutant: the body is written to the path, not to the open file.
MutantWrittenPath(f, p) == [f EXCEPT !.owner = p, !.body = TRUE]
Written(f, p) == IF f.owner = p THEN [f EXCEPT !.body = TRUE] ELSE f

\* An absent file and one without a body both read as null.
readJsonFile(f) == IF f.body THEN [owner |-> f.owner, at |-> f.at] ELSE NoToken
isStale(t) == t = NoToken \/ now - t.at > StaleAfter
Mine(p) == [owner |-> p, at |-> stamp[p]]

-----------------------------------------------------------------------------
(* Control points.                                                         *)

HoldPc == {"write", "cs", "relRead", "relUnlink"}
GuardPc == {"guardWrite", "recheckExists", "recheck", "unlinkLock",
            "guardDrop", "guardUnlink"}
TryPc == {"guard", "clearRead", "clearExists", "clearUnlink", "guardRetry"}
              \cup GuardPc
Final == {"done", "timedOut", "failed", "crashed"}
Pc == HoldPc \cup TryPc \cup Final
          \cup {"idle", "loop", "readLock", "lookExists", "stampLock", "create"}

Holders == {p \in Proc : pc[p] \in HoldPc}

\* Processes that hold the lock, or that will create it with the stamp they have.
Stamped == Holders \cup {p \in PyProc : \/ pc[p] = "create"
                                        \/ pc[p] \in TryPc /\ obs[p] # NoToken}

Goto(p, l) == pc' = [pc EXCEPT ![p] = l]

\* A Python acquire goes on to its own create; a Node one sleeps and retries.
AfterRecovery(p) == IF p \in NodeProc THEN "loop"
                    ELSE IF obs[p] = NoToken THEN "stampLock" ELSE "create"

\* unlinkSync(LOCK_PATH) removes whatever is at the path by then.
Unlink(p) == /\ lock' = Absent
             /\ stolen' = stolen \cup ({lock.owner} \cap (Holders \ {p}))

-----------------------------------------------------------------------------
Init == /\ now = 0
        /\ lock = Absent
        /\ guard = Absent
        /\ pc = [p \in Proc |-> "idle"]
        /\ stamp = [p \in Proc |-> 0]
        /\ deadline = [p \in Proc |-> 0]
        /\ obs = [p \in Proc |-> NoToken]
        /\ gstamp = [p \in Proc |-> 0]
        /\ faults = 0
        /\ stolen = {}

\* Node stamps its lock here, once; Python before every attempt (StampLock).
Start(p) == /\ pc[p] = "idle"
            /\ now + Timeout <= MaxNow
            /\ Goto(p, "loop")
            /\ stamp' = [stamp EXCEPT ![p] = now]
            /\ deadline' = [deadline EXCEPT ![p] = now + Timeout]
            /\ UNCHANGED <<now, lock, guard, obs, gstamp, faults, stolen>>

Expire(p) == /\ pc[p] = "loop"
             /\ now >= deadline[p]
             /\ Goto(p, "timedOut")
             /\ UNCHANGED <<now, lock, guard, stamp, deadline, obs, gstamp, faults, stolen>>

\* Mutant: the file is opened with 'w', not 'wx'.
MutantCreateTruncating(p) == /\ lock' = New(p, stamp[p])
                             /\ stolen' = stolen \ {p}
                             /\ obs' = [obs EXCEPT ![p] = NoToken]
                             /\ Goto(p, "write")
                             /\ UNCHANGED <<now, guard, stamp, deadline, gstamp, faults>>

\* The exclusive open of the lock: the compare-and-swap of both versions.
CreateLock(p) == /\ lock = Absent
                 /\ lock' = New(p, stamp[p])
                 /\ stolen' = stolen \ {p}
                 /\ obs' = [obs EXCEPT ![p] = NoToken]
                 /\ Goto(p, "write")
                 /\ UNCHANGED <<now, guard, stamp, deadline, gstamp, faults>>

NodeCreate(p) == /\ p \in NodeProc
                 /\ pc[p] = "loop"
                 /\ now < deadline[p]
                 /\ CreateLock(p)

\* Mutant: a loop without a deadline.
MutantExistsForever(p) ==
    /\ p \in NodeProc
    /\ pc[p] = "loop"
    /\ lock # Absent
    /\ Goto(p, "readLock")
    /\ UNCHANGED <<now, lock, guard, stamp, deadline, obs, gstamp, faults, stolen>>

NodeExists(p) == /\ p \in NodeProc
                 /\ pc[p] = "loop"
                 /\ now < deadline[p]
                 /\ lock # Absent
                 /\ Goto(p, "readLock")
                 /\ UNCHANGED <<now, lock, guard, stamp, deadline, obs, gstamp, faults, stolen>>

\* readLock after EEXIST; the lock may have been released in between.
NodeReadLock(p) ==
    /\ pc[p] = "readLock"
    /\ LET seen == readJsonFile(lock) IN
         /\ obs' = [obs EXCEPT ![p] = seen]
         /\ IF isStale(seen)
            THEN Goto(p, "guard") /\ gstamp' = [gstamp EXCEPT ![p] = now]
            ELSE Goto(p, "loop") /\ UNCHANGED gstamp
    /\ UNCHANGED <<now, lock, guard, stamp, deadline, faults, stolen>>

\* One turn of Python's loop starts with the read of the lock ...
PyLook(p) ==
    /\ p \in PyProc
    /\ pc[p] = "loop"
    /\ now < deadline[p]
    /\ LET seen == readJsonFile(lock) IN
         /\ obs' = [obs EXCEPT ![p] = seen]
         /\ Goto(p, IF seen = NoToken THEN "lookExists"
                    ELSE IF isStale(seen) THEN "stampLock" ELSE "loop")
    /\ UNCHANGED <<now, lock, guard, stamp, deadline, gstamp, faults, stolen>>

\* ... and asks after that, in a call of its own, whether the file exists.
PyLookExists(p) ==
    /\ pc[p] = "lookExists"
    /\ IF lock = Absent
       THEN Goto(p, "stampLock") /\ UNCHANGED gstamp
       ELSE Goto(p, "guard") /\ gstamp' = [gstamp EXCEPT ![p] = now]
    /\ UNCHANGED <<now, lock, guard, stamp, deadline, obs, faults, stolen>>

PyStampLock(p) ==
    /\ pc[p] = "stampLock"
    /\ stamp' = [stamp EXCEPT ![p] = now]
    /\ IF obs[p] = NoToken
       THEN Goto(p, "create") /\ UNCHANGED gstamp
       ELSE Goto(p, "guard") /\ gstamp' = [gstamp EXCEPT ![p] = now]
    /\ UNCHANGED <<now, lock, guard, deadline, obs, faults, stolen>>

PyCreate(p) == pc[p] = "create" /\ CreateLock(p)

PyExists(p) == /\ pc[p] = "create"
               /\ lock # Absent
               /\ Goto(p, "loop")
               /\ UNCHANGED <<now, lock, guard, stamp, deadline, obs, gstamp, faults, stolen>>

\* The body goes to the file that was opened, even if it is no longer at the path.
WriteBody(p) == /\ pc[p] = "write"
                /\ lock' = Written(lock, p)
                /\ Goto(p, "cs")
                /\ UNCHANGED <<now, guard, stamp, deadline, obs, gstamp, faults, stolen>>

-----------------------------------------------------------------------------
(* Stale recovery: tryRemoveStaleLock, _try_remove_stale_lock and          *)
(* _try_remove_unreadable_lock.                                            *)

\* The exclusive open of the guard, at the first attempt or Python's second.
CreateGuard(p) == /\ pc[p] \in {"guard", "guardRetry"}
                  /\ guard = Absent
                  /\ guard' = New(p, gstamp[p])
                  /\ Goto(p, "guardWrite")
                  /\ UNCHANGED <<now, lock, stamp, deadline, obs, gstamp, faults, stolen>>

GuardExists(p) == /\ pc[p] \in {"guard", "guardRetry"}
                  /\ guard # Absent
                  /\ Goto(p, IF pc[p] = "guard" THEN "clearRead" ELSE AfterRecovery(p))
                  /\ UNCHANGED <<now, lock, guard, stamp, deadline, obs, gstamp, faults, stolen>>

\* Is the guard in the way stale?  Python takes a null guard for stale at
\* once, Node asks again whether the file exists.
ClearRead(p) ==
    /\ pc[p] = "clearRead"
    /\ LET seen == readJsonFile(guard) IN
         Goto(p, IF seen = NoToken /\ p \in NodeProc THEN "clearExists"
                 ELSE IF isStale(seen) THEN "clearUnlink" ELSE AfterRecovery(p))
    /\ UNCHANGED <<now, lock, guard, stamp, deadline, obs, gstamp, faults, stolen>>

NodeClearExists(p) ==
    /\ pc[p] = "clearExists"
    /\ Goto(p, IF guard = Absent THEN "loop" ELSE "clearUnlink")
    /\ UNCHANGED <<now, lock, guard, stamp, deadline, obs, gstamp, faults, stolen>>

ClearUnlink(p) == /\ pc[p] = "clearUnlink"
                  /\ guard' = Absent
                  /\ Goto(p, IF p \in NodeProc THEN "loop" ELSE "guardRetry")
                  /\ UNCHANGED <<now, lock, stamp, deadline, obs, gstamp, faults, stolen>>

WriteGuard(p) == /\ pc[p] = "guardWrite"
                 /\ guard' = Written(guard, p)
                 /\ Goto(p, IF p \in PyProc /\ obs[p] = NoToken
                            THEN "recheckExists" ELSE "recheck")
                 /\ UNCHANGED <<now, lock, stamp, deadline, obs, gstamp, faults, stolen>>

\* `finally': Node looks whose guard it is first, Python removes it unread.
LeaveGuard(p) == IF p \in NodeProc THEN "guardDrop" ELSE "guardUnlink"

\* Mutant: the early return is outside the try whose finally drops the guard.
MutantRecheckReturns(p) ==
    /\ pc[p] = "recheckExists"
    /\ Goto(p, IF lock = Absent THEN AfterRecovery(p) ELSE "recheck")
    /\ UNCHANGED <<now, lock, guard, stamp, deadline, obs, gstamp, faults, stolen>>

PyRecheckExists(p) ==
    /\ pc[p] = "recheckExists"
    /\ Goto(p, IF lock = Absent THEN LeaveGuard(p) ELSE "recheck")
    /\ UNCHANGED <<now, lock, guard, stamp, deadline, obs, gstamp, faults, stolen>>

\* sameLock(null, null) holds, so a lock that was and is absent passes too.
Recheck(p) ==
    /\ pc[p] = "recheck"
    /\ LET current == readJsonFile(lock) IN
         Goto(p, IF isStale(current) /\ current = obs[p]
                 THEN "unlinkLock" ELSE LeaveGuard(p))
    /\ UNCHANGED <<now, lock, guard, stamp, deadline, obs, gstamp, faults, stolen>>

RemoveLock(p) == /\ pc[p] = "unlinkLock"
                 /\ Unlink(p)
                 /\ Goto(p, LeaveGuard(p))
                 /\ UNCHANGED <<now, guard, stamp, deadline, obs, gstamp, faults>>

NodeDropGuard(p) ==
    /\ pc[p] = "guardDrop"
    /\ Goto(p, IF readJsonFile(guard) = [owner |-> p, at |-> gstamp[p]]
               THEN "guardUnlink" ELSE "loop")
    /\ UNCHANGED <<now, lock, guard, stamp, deadline, obs, gstamp, faults, stolen>>

RemoveGuard(p) == /\ pc[p] = "guardUnlink"
                  /\ guard' = Absent
                  /\ Goto(p, AfterRecovery(p))
                  /\ UNCHANGED <<now, lock, stamp, deadline, obs, gstamp, faults, stolen>>

-----------------------------------------------------------------------------
(* Release, in the finally of withLock, whether fn returned or threw.      *)

Leave(p) == /\ pc[p] = "cs"
            /\ Goto(p, "relRead")
            /\ UNCHANGED <<now, lock, guard, stamp, deadline, obs, gstamp, faults, stolen>>

ReleaseRead(p) ==
    /\ pc[p] = "relRead"
    /\ Goto(p, IF readJsonFile(lock) = Mine(p) THEN "relUnlink" ELSE "done")
    /\ UNCHANGED <<now, lock, guard, stamp, deadline, obs, gstamp, faults, stolen>>

ReleaseUnlink(p) == /\ pc[p] = "relUnlink"
                    /\ Unlink(p)
                    /\ Goto(p, "done")
                    /\ UNCHANGED <<now, guard, stamp, deadline, obs, gstamp, faults>>

-----------------------------------------------------------------------------
(* Faults: a write that fails after the open succeeded, and a crash.       *)

Fault == faults < MaxFaults /\ faults' = faults + 1

\* Node throws and leaves the empty file behind, lock or guard.
NodeWriteFails(p) == /\ p \in NodeProc
                     /\ pc[p] \in {"write", "guardWrite"}
                     /\ Fault
                     /\ Goto(p, "failed")
                     /\ UNCHANGED <<now, lock, guard, stamp, deadline, obs, gstamp, stolen>>

\* Python unlinks the path, then swallows the error of the lock's write ...
PyWriteFails(p) == /\ p \in PyProc
                   /\ pc[p] = "write"
                   /\ Fault
                   /\ Unlink(p)
                   /\ Goto(p, "loop")
                   /\ UNCHANGED <<now, guard, stamp, deadline, obs, gstamp>>

\* ... and raises that of the guard's.
PyGuardWriteFails(p) == /\ p \in PyProc
                        /\ pc[p] = "guardWrite"
                        /\ Fault
                        /\ guard' = Absent
                        /\ Goto(p, "failed")
                        /\ UNCHANGED <<now, lock, stamp, deadline, obs, gstamp, stolen>>

Crash(p) == /\ pc[p] \notin Final \cup {"idle"}
            /\ Fault
            /\ Goto(p, "crashed")
            /\ UNCHANGED <<now, lock, guard, stamp, deadline, obs, gstamp, stolen>>

Tick == /\ now < MaxNow
        /\ LeaseKept => \A p \in Stamped : now + 1 - stamp[p] <= StaleAfter
        /\ now' = now + 1
        /\ UNCHANGED <<lock, guard, pc, stamp, deadline, obs, gstamp, faults, stolen>>

-----------------------------------------------------------------------------
Acquire(p) == \/ Expire(p) \/ NodeCreate(p) \/ NodeExists(p) \/ NodeReadLock(p)
              \/ PyLook(p) \/ PyLookExists(p) \/ PyStampLock(p)
              \/ PyCreate(p) \/ PyExists(p) \/ WriteBody(p)
Recover(p) == \/ CreateGuard(p) \/ GuardExists(p) \/ ClearRead(p)
              \/ NodeClearExists(p) \/ ClearUnlink(p) \/ WriteGuard(p)
              \/ PyRecheckExists(p) \/ Recheck(p) \/ RemoveLock(p)
              \/ NodeDropGuard(p) \/ RemoveGuard(p)
Release(p) == Leave(p) \/ ReleaseRead(p) \/ ReleaseUnlink(p)
WriteFails(p) == NodeWriteFails(p) \/ PyWriteFails(p) \/ PyGuardWriteFails(p)

\* With a window closed, a process inside it finishes before the others run.
MayRun(p) ==
    /\ CreateWindow \/ \A q \in Proc \ {p} : pc[q] \notin {"write", "guardWrite"}
    /\ UnlinkWindow \/ \A q \in Proc \ {p} : pc[q] # "unlinkLock"

Step(p) == MayRun(p) /\ (Acquire(p) \/ Recover(p) \/ Release(p))

\* Nobody is inside a call any more; not a step of the code.
AllQuiet == /\ \A p \in Proc : pc[p] \in Final \cup {"idle"}
            /\ now = MaxNow
            /\ UNCHANGED vars

Next == \/ \E p \in Proc : \/ Step(p)
                           \/ MayRun(p) /\ (Start(p) \/ WriteFails(p))
                           \/ Crash(p)
        \/ Tick
        \/ AllQuiet

Spec == Init /\ [][Next]_vars

\* The operating system runs every started process, and time passes.  Nothing
\* forces a call to start, a write to fail or a process to crash.
FairSpec == Spec /\ WF_vars(Tick) /\ \A p \in Proc : WF_vars(Step(p))
-----------------------------------------------------------------------------
(* Properties.                                                             *)

\* Every variable has its type.
TypeOK == /\ now \in Time
          /\ lock \in File
          /\ guard \in File
          /\ pc \in [Proc -> Pc]
          /\ stamp \in [Proc -> Time]
          /\ deadline \in [Proc -> Time]
          /\ obs \in [Proc -> LockToken]
          /\ gstamp \in [Proc -> Time]
          /\ faults \in 0..MaxFaults
          /\ stolen \subseteq Proc

\* The first line of lockfile.mjs: of the processes between acquireLock and
\* the end of releaseLock, at most one runs its function.
MutualExclusion == \A p, q \in Proc : pc[p] = "cs" /\ pc[q] = "cs" => p = q

\* Whatever the interleaving, faults and pauses: two processes are inside
\* only if somebody removed the file of one of them.  The exclusive open
\* never lets a second process in by itself.
ExclusionUnlessStolen == \A p, q \in Holders \ stolen : p = q

\* Every exit path cleans up: a lock or a guard file is only ever left by a
\* process that crashed or whose write failed, never by one that returned,
\* timed out, or lost its lock to a recovery.
NoOrphanFiles ==
    /\ lock # Absent =>
         pc[lock.owner] \in HoldPc \cup {"failed", "crashed"}
    /\ guard # Absent =>
         pc[guard.owner] \in GuardPc \cup {"failed", "crashed"}

\* data-layer.md:128-131: release never deletes the lock of another process.
NoForeignRelease ==
    [][\A p \in Proc : pc[p] = "relUnlink" /\ pc'[p] = "done"
                             => lock.owner \in {p, Nobody}]_vars

\* Every call of withLock comes to an end: no process waits or retries for
\* ever, whatever the others do, crash included.
Terminates == \A p \in Proc : (pc[p] # "idle") ~> (pc[p] \in Final)

-----------------------------------------------------------------------------
(* The lock file implements LeaseLock: its owner is the process whose file *)
(* is at the path.                                                         *)

Lease == INSTANCE LeaseLock WITH
            owner <- lock.owner,
            inside <- Holders,
            Revocable <- ~(LeaseKept /\ ~CreateWindow /\ ~UnlinkWindow)

\* Always: a lock that may be revoked.  With the windows closed and the
\* lease kept: a lock that is never taken from a process inside.
ImplementsLease == Lease!Spec
=============================================================================
