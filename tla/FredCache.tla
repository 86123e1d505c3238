----------------------------- MODULE FredCache ------------------------------
(***************************************************************************)
(* get_cached_or_fetch of lib/fred_cache.py: one cache file of one series, *)
(* read without the lock, fetched without the lock, and replaced under it  *)
(* through a temporary file whose name all writers share.  The lock is the *)
(* abstract one of LeaseLock, which Lockfile implements.                   *)
(*                                                                         *)
(* A file is an inode, so that the replace moves the very file that others *)
(* may still have open: the inode a process creates bears its name, and    *)
(* content[i].ok says whether _load_cache would accept what is in it.      *)
(***************************************************************************)
EXTENDS Integers

CONSTANTS
    Proc,           \* calls, one to each process
    Nobody,         \* no process, no file
    Seed,           \* the cache file at the start
    Revocable,      \* can the lock be taken from a process inside?
    TTL,            \* CACHE_TTL
    MaxNow,         \* bound on the clock
    MaxFaults       \* bound on crashes and failing calls

ASSUME FredAssumption ==
    /\ Nobody \notin Proc /\ Seed \notin Proc /\ Seed # Nobody
    /\ Revocable \in BOOLEAN
    /\ TTL \in Nat \ {0} /\ MaxNow \in Nat /\ MaxFaults \in Nat

VARIABLES
    pc,
    owner, inside,      \* the lock
    entry,              \* what each call loaded, then what it fetched
    fd,                 \* the inode each call writes to
    content,            \* of every inode
    cache, tmp,         \* the inodes at the two paths
    failed,             \* calls with an exception on its way
    overlapped,         \* history: have two calls written at once?
    now, faults

vars == <<pc, owner, inside, entry, fd, content, cache, tmp, failed, overlapped, now, faults>>
lockVars == <<owner, inside>>
fileVars == <<fd, content, cache, tmp>>

Lease == INSTANCE LeaseLock

-----------------------------------------------------------------------------
Inode == Proc \cup {Seed}
Entry == [at : Nat, by : Proc \cup {Nobody}, ok : BOOLEAN]
\* Nothing _load_cache accepts: no file, an empty or a garbled one.
Bad == [at |-> 0, by |-> Nobody, ok |-> FALSE]
Seeded == [at |-> 0, by |-> Nobody, ok |-> TRUE]
Final == {"served", "returned", "failed", "crashed"}
Writing == {"write", "replace", "syncDir", "unlink"}

Goto(p, l) == pc' = [pc EXCEPT ![p] = l]
Fault == faults < MaxFaults /\ faults' = faults + 1

\* is_fresh: strictly younger than CACHE_TTL.
IsFresh(e) == now - e.at < TTL

Init == /\ pc = [p \in Proc |-> "idle"]
        /\ Lease!Init
        /\ entry = [p \in Proc |-> Bad]
        /\ fd = [p \in Proc |-> Nobody]
        /\ content \in {[i \in Inode |-> Bad], [i \in Inode |-> IF i = Seed THEN Seeded ELSE Bad]}
        /\ cache = Seed /\ tmp = Nobody
        /\ failed = {} /\ overlapped = FALSE
        /\ now = 0 /\ faults = 0

Start(p) == /\ pc[p] = "idle"
            /\ Goto(p, "load")
            /\ UNCHANGED <<lockVars, entry, fileVars, failed, overlapped, now, faults>>

Load(p) == /\ pc[p] = "load"
           /\ entry' = [entry EXCEPT ![p] = content[cache]]
           /\ Goto(p, "check")
           /\ UNCHANGED <<lockVars, fileVars, failed, overlapped, now, faults>>

Check(p) == /\ pc[p] = "check"
            /\ Goto(p, IF entry[p].ok /\ IsFresh(entry[p]) THEN "served" ELSE "fetch")
            /\ UNCHANGED <<lockVars, entry, fileVars, failed, overlapped, now, faults>>

\* Mutant: error envelopes are written through.
MutantAnswer(p) ==
    /\ pc[p] = "fetch"
    /\ \E ok \in BOOLEAN :
         /\ entry' = [entry EXCEPT ![p] = [at |-> now, by |-> p, ok |-> ok]]
         /\ Goto(p, "wait")
    /\ UNCHANGED <<lockVars, fileVars, failed, overlapped, now, faults>>

\* The fetcher answers, with a value or with an error envelope.
Answer(p) ==
    /\ pc[p] = "fetch"
    /\ \E ok \in BOOLEAN :
         /\ entry' = [entry EXCEPT ![p] = [at |-> now, by |-> p, ok |-> ok]]
         /\ Goto(p, IF ok THEN "wait" ELSE "returned")
    /\ UNCHANGED <<lockVars, fileVars, failed, overlapped, now, faults>>

-----------------------------------------------------------------------------
(* _save_cache.                                                            *)

Acquire(p) == /\ pc[p] = "wait"
              /\ Lease!Enter(p)
              /\ Goto(p, "open")
              /\ UNCHANGED <<entry, fileVars, failed, overlapped, now, faults>>

\* Mutant: no deadline behind the lock of a dead owner.
MutantTimeOut(p) == /\ pc[p] = "wait"
                    /\ owner \in inside
                    /\ Goto(p, "failed")
                    /\ UNCHANGED <<lockVars, entry, fileVars, failed, overlapped, now, faults>>

TimeOut(p) == /\ pc[p] = "wait"
              /\ owner # Nobody
              /\ Goto(p, "failed")
              /\ UNCHANGED <<lockVars, entry, fileVars, failed, overlapped, now, faults>>

\* O_CREAT and O_TRUNC: a temporary file that is there is emptied and shared.
OpenTmp(p) ==
    /\ pc[p] = "open"
    /\ LET i == IF tmp = Nobody THEN p ELSE tmp IN
         /\ fd' = [fd EXCEPT ![p] = i]
         /\ content' = [content EXCEPT ![i] = Bad]
         /\ tmp' = i /\ UNCHANGED cache
    /\ overlapped' = (overlapped \/ \E q \in Proc : pc[q] \in Writing)
    /\ Goto(p, "write")
    /\ UNCHANGED <<lockVars, entry, failed, now, faults>>

\* The body goes over what another call may have written from offset 0.
WriteTmp(p) ==
    /\ pc[p] = "write"
    /\ \E e \in {entry[p]} \cup (IF content[fd[p]] = Bad THEN {} ELSE {Bad}) :
         content' = [content EXCEPT ![fd[p]] = e]
    /\ Goto(p, "replace")
    /\ UNCHANGED <<lockVars, entry, fd, cache, tmp, failed, overlapped, now, faults>>

\* os.replace, or FileNotFoundError if another call has moved or removed it.
Replace(p) ==
    /\ pc[p] = "replace"
    /\ IF tmp # Nobody
       THEN cache' = tmp /\ tmp' = Nobody /\ Goto(p, "syncDir") /\ UNCHANGED failed
       ELSE failed' = failed \cup {p} /\ Goto(p, "unlink") /\ UNCHANGED <<cache, tmp>>
    /\ UNCHANGED <<lockVars, entry, fd, content, overlapped, now, faults>>

SyncDir(p) == /\ pc[p] = "syncDir"
              /\ Goto(p, "unlink")
              /\ UNCHANGED <<lockVars, entry, fileVars, failed, overlapped, now, faults>>

\* Mutant: an exception of the save does not reach the caller.
MutantSaveFails(p) == /\ pc[p] \in {"open", "write", "replace", "syncDir"}
                      /\ Fault
                      /\ Goto(p, "unlink")
                      /\ UNCHANGED <<lockVars, entry, fileVars, failed, overlapped, now>>

\* An OSError of the open, the write, an fsync or the replace.
SaveFails(p) == /\ pc[p] \in {"open", "write", "replace", "syncDir"}
                /\ Fault
                /\ failed' = failed \cup {p}
                /\ Goto(p, "unlink")
                /\ UNCHANGED <<lockVars, entry, fileVars, overlapped, now>>

\* Mutant: the temporary file is removed only after a success.
MutantUnlinkTmp(p) == /\ pc[p] = "unlink"
                      /\ tmp' = IF p \in failed THEN tmp ELSE Nobody
                      /\ Goto(p, "release")
                      /\ UNCHANGED <<lockVars, entry, fd, content, cache, failed, overlapped, now, faults>>

\* The finally of the write removes whatever is at the path.
UnlinkTmp(p) == /\ pc[p] = "unlink"
                /\ tmp' = Nobody
                /\ Goto(p, "release")
                /\ UNCHANGED <<lockVars, entry, fd, content, cache, failed, overlapped, now, faults>>

Release(p) == /\ pc[p] = "release"
              /\ Lease!Exit(p) \/ Lease!ExitAndRevoke(p)
              /\ Goto(p, IF p \in failed THEN "failed" ELSE "returned")
              /\ UNCHANGED <<entry, fileVars, failed, overlapped, now, faults>>

-----------------------------------------------------------------------------
Crash(p) == /\ pc[p] \notin Final \cup {"idle"}
            /\ Fault
            /\ Goto(p, "crashed")
            /\ inside' = inside \ {p}
            /\ UNCHANGED <<owner, entry, fileVars, failed, overlapped, now>>

Tick == /\ now < MaxNow
        /\ now' = now + 1
        /\ UNCHANGED <<pc, lockVars, entry, fileVars, failed, overlapped, faults>>

Recover == /\ \E p \in Proc : pc[p] = "wait"
           /\ Lease!Reclaim \/ Lease!Revoke
           /\ UNCHANGED <<pc, entry, fileVars, failed, overlapped, now, faults>>

Step(p) == \/ Load(p) \/ Check(p) \/ Answer(p) \/ Acquire(p) \/ TimeOut(p)
           \/ OpenTmp(p) \/ WriteTmp(p) \/ Replace(p) \/ SyncDir(p)
           \/ UnlinkTmp(p) \/ Release(p)

AllQuiet == (\A p \in Proc : pc[p] \in Final) /\ UNCHANGED vars

Next == \/ \E p \in Proc : Start(p) \/ Step(p) \/ SaveFails(p) \/ Crash(p)
        \/ Tick \/ Recover
        \/ AllQuiet

Spec == Init /\ [][Next]_vars

\* A started call runs on, and its fetcher answers.
FairSpec == Spec /\ \A p \in Proc : WF_vars(Step(p))
-----------------------------------------------------------------------------
(* Properties.                                                             *)

Pc == Final \cup Writing \cup {"idle", "load", "check", "fetch", "wait", "open", "release"}

\* Every variable has its type.
TypeOK == /\ pc \in [Proc -> Pc]
          /\ owner \in Proc \cup {Nobody} /\ inside \subseteq Proc
          /\ entry \in [Proc -> Entry] /\ content \in [Inode -> Entry]
          /\ fd \in [Proc -> Inode \cup {Nobody}]
          /\ cache \in Inode /\ tmp \in Inode \cup {Nobody}
          /\ failed \subseteq Proc
          /\ now \in Nat /\ faults \in Nat

\* The cache file is the one that was there or a whole entry with a value: not
\* half a write, not an error envelope.
WholeFile == cache = Seed \/ content[cache].ok

\* A call that got through its replace has left exactly what it fetched in the
\* cache, as long as no two calls have written at the same time.
WriteThrough == overlapped \/ \A p \in Proc :
    pc[p] \in {"syncDir", "unlink"} /\ p \notin failed => content[cache] = entry[p]

\* Where the lock can be taken away: the cache file is torn only after two
\* calls have written at the same time.
TornOnlyByOverlap == overlapped \/ WholeFile

\* A temporary file is left behind only by a call that crashed.
TmpHasOwner == tmp # Nobody => \E p \in Proc : pc[p] \in {"write", "replace", "unlink", "crashed"}

\* Every call that was started ends, also behind the lock of a dead owner.
EveryCallEnds == \A p \in Proc : (pc[p] # "idle") ~> (pc[p] \in Final)
=============================================================================
