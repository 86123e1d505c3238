------------------------------ MODULE DbWriter ------------------------------
(***************************************************************************)
(* The commands that share data/mortgage-ops.duckdb:                       *)
(*   - the writers of orchestration/db-write.mjs (insert-loan,             *)
(*     insert-scenario, insert-report, render-markdown) and write_listing  *)
(*     of lib/property_persistence.py, which all take data/.lock;          *)
(*   - `db-write.mjs query' and init-db.mjs, which open the database for   *)
(*     writing without taking the lock;                                    *)
(*   - read_latest_for_zpid, which opens it read-only.                     *)
(* The lock is the abstract one of LeaseLock, which Lockfile implements.   *)
(* DuckDB is external: one process may have the file open for writing, or  *)
(* any number for reading, and any other open fails at once.               *)
(***************************************************************************)
EXTENDS Integers, Sequences

CONSTANTS
    Proc,           \* processes, each runs one command
    Nobody,         \* no process
    Jobs,           \* the commands they may run
    Revocable,      \* can the lock be taken from a process inside?
    MaxFaults       \* bound on crashes and failing calls

InsertJob == {"loan", "scenario", "report"}
RenderJob == {"renderLoans", "renderScenarios", "renderAll"}
LockJob == InsertJob \cup RenderJob \cup {"listing"}    \* WRITE_COMMANDS and write_listing
FreeJob == {"query", "init"}                            \* open for writing, no lock
ReadJob == {"readLatest"}
Tables == InsertJob \cup {"listing"}

ASSUME JobAssumption == Jobs \subseteq LockJob \cup FreeJob \cup ReadJob
None == "none"          \* read_latest_for_zpid returned None
ASSUME DbAssumption == /\ Nobody \notin Proc /\ None \notin Proc
                       /\ Revocable \in BOOLEAN /\ MaxFaults \in Nat

\* A view that was truncated and not written yet.
Torn == <<[table |-> "loan", by |-> Nobody]>>

VARIABLES
    pc, job,        \* of each process: its next step, its command
    owner, inside,  \* the lock
    rw, ro,         \* the process with the database open for writing, the readers
    schema,         \* tables that exist
    rows,           \* committed rows of all tables, in commit order
    pending,        \* rows of the open transaction
    snap,           \* what each rendering process selected
    loansMd, scenariosMd,
    acked,          \* processes that reported success
    conflicts,      \* processes whose open failed because the file was in use
    got,            \* what each reader returned
    unreported,     \* history: processes whose report of success failed
    faults

vars == <<pc, job, owner, inside, rw, ro, schema, rows, pending, snap,
          loansMd, scenariosMd, acked, conflicts, got, unreported, faults>>
lockVars == <<owner, inside>>
dbVars == <<rw, ro, schema, rows, pending>>
viewVars == <<snap, loansMd, scenariosMd>>
outVars == <<acked, conflicts, got, unreported>>

Lease == INSTANCE LeaseLock

-----------------------------------------------------------------------------
Final == {"done", "timedOut", "crashed"}
Row(p) == [table |-> job[p], by |-> p]
InTable(s, t) == SelectSeq(s, LAMBDA r : r.table = t)
Of(t) == InTable(rows, t)
Listed == {i \in DOMAIN rows : rows[i].table = "listing"}

Goto(p, l) == pc' = [pc EXCEPT ![p] = l]
Fault == faults < MaxFaults /\ faults' = faults + 1

\* The first step of a command once its database is open, and the step after
\* its last: `finally' closes the database, then withLock releases.
Body(p) == CASE job[p] \in InsertJob -> "begin"
             [] job[p] \in {"renderLoans", "renderAll"} -> "selectLoans"
             [] job[p] = "renderScenarios" -> "selectScenarios"
             [] job[p] = "listing" -> "ensure"
             [] OTHER -> job[p]
AfterClose(p) == IF job[p] \in LockJob THEN "release" ELSE "done"

Init == /\ pc = [p \in Proc |-> "idle"]
        /\ job \in [Proc -> Jobs]
        /\ Lease!Init
        /\ rw = Nobody /\ ro = {}
        /\ schema \in {{}, InsertJob}
        /\ rows = <<>> /\ pending = <<>>
        /\ snap = [p \in Proc |-> <<>>]
        /\ loansMd = <<>> /\ scenariosMd = <<>>
        /\ acked = {} /\ conflicts = {}
        /\ got = [p \in Proc |-> None]
        /\ unreported = {}
        /\ faults = 0

Start(p) == /\ pc[p] = "idle"
            /\ Goto(p, IF job[p] \in LockJob THEN "waiting" ELSE "open")
            /\ UNCHANGED <<job, lockVars, dbVars, viewVars, outVars, faults>>

\* withLock: in, or out of time.
Acquire(p) == /\ pc[p] = "waiting"
              /\ Lease!Enter(p)
              /\ Goto(p, "open")
              /\ UNCHANGED <<job, dbVars, viewVars, outVars, faults>>

\* Mutant: no deadline behind the lock of a dead owner.
MutantTimeOut(p) == /\ pc[p] = "waiting"
                    /\ owner \in inside
                    /\ Goto(p, "timedOut")
                    /\ UNCHANGED <<job, lockVars, dbVars, viewVars, outVars, faults>>

TimeOut(p) == /\ pc[p] = "waiting"
              /\ owner # Nobody
              /\ Goto(p, "timedOut")
              /\ UNCHANGED <<job, lockVars, dbVars, viewVars, outVars, faults>>

\* Database.create, duckdb.connect.
Open(p) == /\ pc[p] = "open"
           /\ job[p] \notin ReadJob
           /\ rw = Nobody /\ ro = {}
           /\ rw' = p
           /\ Goto(p, Body(p))
           /\ UNCHANGED <<job, lockVars, ro, schema, rows, pending, viewVars, outVars, faults>>

\* Mutant: a failed open does not reach the finally of withLock.
MutantOpenConflict(p) == /\ pc[p] = "open"
                         /\ job[p] \notin ReadJob
                         /\ rw # Nobody \/ ro # {}
                         /\ conflicts' = conflicts \cup {p}
                         /\ Goto(p, "done")
                         /\ UNCHANGED <<job, lockVars, dbVars, viewVars, acked, got, unreported, faults>>

\* The open throws before the try that closes the database.
OpenConflict(p) == /\ pc[p] = "open"
                   /\ job[p] \notin ReadJob
                   /\ rw # Nobody \/ ro # {}
                   /\ conflicts' = conflicts \cup {p}
                   /\ Goto(p, AfterClose(p))
                   /\ UNCHANGED <<job, lockVars, dbVars, viewVars, acked, got, unreported, faults>>

-----------------------------------------------------------------------------
(* cmdInsertLoan, cmdInsertScenario, cmdInsertReport.                      *)

\* A payload that is refused, before the transaction.
Refuse(p) == /\ pc[p] = "begin"
             /\ Goto(p, "close")
             /\ UNCHANGED <<job, lockVars, dbVars, viewVars, outVars, faults>>

Begin(p) == /\ pc[p] = "begin"
            /\ Goto(p, "insert")
            /\ UNCHANGED <<job, lockVars, dbVars, viewVars, outVars, faults>>

\* Mutant: no BEGIN, the INSERT commits by itself.
MutantInsertAuto(p) == /\ pc[p] = "insert"
                       /\ job[p] \in schema
                       /\ rows' = Append(rows, Row(p))
                       /\ Goto(p, "commit")
                       /\ UNCHANGED <<job, lockVars, rw, ro, schema, pending, viewVars, outVars, faults>>

Insert(p) == /\ pc[p] = "insert"
             /\ job[p] \in schema
             /\ pending' = <<Row(p)>>
             /\ Goto(p, "commit")
             /\ UNCHANGED <<job, lockVars, rw, ro, schema, rows, viewVars, outVars, faults>>

\* No table, or a CHECK of the table refuses the row.
InsertFails(p) == /\ pc[p] = "insert"
                  /\ Goto(p, "rollback")
                  /\ UNCHANGED <<job, lockVars, dbVars, viewVars, outVars, faults>>

\* Mutant: success is reported without a COMMIT.
MutantNoCommit(p) == /\ pc[p] = "commit"
                     /\ Goto(p, "report")
                     /\ UNCHANGED <<job, lockVars, dbVars, viewVars, outVars, faults>>

Commit(p) == /\ pc[p] = "commit"
             /\ rows' = rows \o pending
             /\ pending' = <<>>
             /\ Goto(p, "report")
             /\ UNCHANGED <<job, lockVars, rw, ro, schema, viewVars, outVars, faults>>

CommitFails(p) == /\ pc[p] = "commit"
                  /\ Fault
                  /\ Goto(p, "rollback")
                  /\ UNCHANGED <<job, lockVars, dbVars, viewVars, outVars>>

\* console.log of {ok: true}, inside the same try as the COMMIT.
Report(p) == /\ pc[p] = "report"
             /\ acked' = acked \cup {p}
             /\ Goto(p, "close")
             /\ UNCHANGED <<job, lockVars, dbVars, viewVars, conflicts, got, unreported, faults>>

ReportFails(p) == /\ pc[p] = "report"
                  /\ Fault
                  /\ job[p] # "listing"
                  /\ Goto(p, IF job[p] \in InsertJob THEN "rollback" ELSE "close")
                  /\ unreported' = unreported \cup {p}
                  /\ UNCHANGED <<job, lockVars, dbVars, viewVars, acked, conflicts, got>>

Rollback(p) == /\ pc[p] = "rollback"
               /\ pending' = <<>>
               /\ Goto(p, "close")
               /\ UNCHANGED <<job, lockVars, rw, ro, schema, rows, viewVars, outVars, faults>>

-----------------------------------------------------------------------------
(* cmdRenderMarkdown: select, truncate and write, one view after another.  *)

SelectLoans(p) == /\ pc[p] = "selectLoans"
                  /\ Goto(p, IF "loan" \in schema THEN "truncateLoans" ELSE "close")
                  /\ snap' = [snap EXCEPT ![p] = Of("loan")]
                  /\ UNCHANGED <<job, lockVars, dbVars, loansMd, scenariosMd, outVars, faults>>

TruncateLoans(p) == /\ pc[p] = "truncateLoans"
                    /\ loansMd' = Torn
                    /\ Goto(p, "writeLoans")
                    /\ UNCHANGED <<job, lockVars, dbVars, snap, scenariosMd, outVars, faults>>

WriteLoans(p) == /\ pc[p] = "writeLoans"
                 /\ loansMd' = snap[p]
                 /\ Goto(p, IF job[p] = "renderAll" THEN "selectScenarios" ELSE "report")
                 /\ UNCHANGED <<job, lockVars, dbVars, snap, scenariosMd, outVars, faults>>

\* Mutant: the database is closed as soon as the loans are rendered.
MutantSelectCloses(p) ==
    /\ pc[p] = "selectScenarios"
    /\ Goto(p, IF "scenario" \in schema THEN "truncateScenarios" ELSE "close")
    /\ snap' = [snap EXCEPT ![p] = Of("scenario")]
    /\ rw' = Nobody
    /\ UNCHANGED <<job, lockVars, ro, schema, rows, pending, loansMd, scenariosMd, outVars, faults>>

SelectScenarios(p) ==
    /\ pc[p] = "selectScenarios"
    /\ Goto(p, IF "scenario" \in schema THEN "truncateScenarios" ELSE "close")
    /\ snap' = [snap EXCEPT ![p] = Of("scenario")]
    /\ UNCHANGED <<job, lockVars, dbVars, loansMd, scenariosMd, outVars, faults>>

TruncateScenarios(p) == /\ pc[p] = "truncateScenarios"
                        /\ scenariosMd' = Torn
                        /\ Goto(p, "writeScenarios")
                        /\ UNCHANGED <<job, lockVars, dbVars, snap, loansMd, outVars, faults>>

WriteScenarios(p) == /\ pc[p] = "writeScenarios"
                     /\ scenariosMd' = snap[p]
                     /\ Goto(p, "report")
                     /\ UNCHANGED <<job, lockVars, dbVars, snap, loansMd, outVars, faults>>

-----------------------------------------------------------------------------
(* write_listing, query, init-db.  Outside a transaction every statement   *)
(* commits by itself; write_listing reports success by returning.          *)

EnsureSchema(p) == /\ pc[p] = "ensure"
                   /\ schema' = schema \cup {"listing"}
                   /\ Goto(p, "append")
                   /\ UNCHANGED <<job, lockVars, rw, ro, rows, pending, viewVars, outVars, faults>>

\* Mutant: a BEGIN in front of the INSERT, and no COMMIT.
MutantAppendPending(p) ==
    /\ pc[p] = "append"
    /\ pending' = <<Row(p)>>
    /\ Goto(p, "report")
    /\ UNCHANGED <<job, lockVars, rw, ro, schema, rows, viewVars, outVars, faults>>

Append1(p) == /\ pc[p] = "append"
              /\ rows' = Append(rows, Row(p))
              /\ Goto(p, "report")
              /\ UNCHANGED <<job, lockVars, rw, ro, schema, pending, viewVars, outVars, faults>>

Query(p) == /\ pc[p] = "query"
            /\ Goto(p, "report") \/ Goto(p, "close")
            /\ UNCHANGED <<job, lockVars, dbVars, viewVars, outVars, faults>>

\* One DDL statement after another; those that find their table do nothing.
InitDb(p) ==
    /\ pc[p] = "init"
    /\ LET missing == SelectSeq(<<"loan", "scenario", "report">>, LAMBDA t : t \notin schema) IN
         IF missing = <<>>
         THEN Goto(p, "report") /\ UNCHANGED schema
         ELSE schema' = schema \cup {Head(missing)} /\ UNCHANGED pc
    /\ UNCHANGED <<job, lockVars, rw, ro, rows, pending, viewVars, outVars, faults>>

-----------------------------------------------------------------------------
(* read_latest_for_zpid: every failure to open or to select returns None.  *)

OpenRead(p) == /\ pc[p] = "open"
               /\ job[p] \in ReadJob
               /\ IF rw = Nobody
                  THEN ro' = ro \cup {p} /\ Goto(p, "select") /\ UNCHANGED conflicts
                  ELSE conflicts' = conflicts \cup {p} /\ Goto(p, "done") /\ UNCHANGED ro
               /\ UNCHANGED <<job, lockVars, rw, schema, rows, pending, viewVars,
                              acked, got, unreported, faults>>

\* The row stored last, ORDER BY analyzed_at DESC LIMIT 1, if there is one.
SelectLatest(p) == /\ pc[p] = "select"
                   /\ \/ Listed = {} /\ got' = [got EXCEPT ![p] = None]
                      \/ \E i \in Listed :
                            /\ \A j \in Listed : j <= i
                            /\ got' = [got EXCEPT ![p] = rows[i].by]
                   /\ ro' = ro \ {p}
                   /\ Goto(p, "done")
                   /\ UNCHANGED <<job, lockVars, rw, schema, rows, pending, viewVars,
                                  acked, conflicts, unreported, faults>>

-----------------------------------------------------------------------------
(* The two finally blocks, crashes, and the lock's environment.            *)

\* db.close rolls back what was not committed.
Close(p) == /\ pc[p] = "close"
            /\ rw' = Nobody
            /\ pending' = <<>>
            /\ Goto(p, AfterClose(p))
            /\ UNCHANGED <<job, lockVars, ro, schema, rows, viewVars, outVars, faults>>

Release(p) == /\ pc[p] = "release"
              /\ Lease!Exit(p) \/ Lease!ExitAndRevoke(p)
              /\ Goto(p, "done")
              /\ UNCHANGED <<job, dbVars, viewVars, outVars, faults>>

\* The operating system drops the database lock of a dead process, DuckDB
\* drops its transaction; the lock file stays.
Crash(p) == /\ pc[p] \notin Final \cup {"idle"}
            /\ Fault
            /\ Goto(p, "crashed")
            /\ rw' = IF rw = p THEN Nobody ELSE rw
            /\ ro' = ro \ {p}
            /\ pending' = IF rw = p THEN <<>> ELSE pending
            /\ inside' = inside \ {p}
            /\ UNCHANGED <<job, owner, schema, rows, viewVars, outVars>>

\* A waiting process recovers the lock of a dead one or, if leases run out
\* or the windows of Lockfile are open, of one that is inside.
Recover == /\ \E p \in Proc : pc[p] = "waiting"
           /\ Lease!Reclaim \/ Lease!Revoke
           /\ UNCHANGED <<pc, job, dbVars, viewVars, outVars, faults>>

InsertCommand(p) == \/ Refuse(p) \/ Begin(p) \/ Insert(p) \/ InsertFails(p)
                    \/ Commit(p) \/ Report(p) \/ Rollback(p)
RenderCommand(p) == \/ SelectLoans(p) \/ TruncateLoans(p) \/ WriteLoans(p)
                    \/ SelectScenarios(p) \/ TruncateScenarios(p) \/ WriteScenarios(p)
OtherCommand(p) == \/ EnsureSchema(p) \/ Append1(p) \/ Query(p) \/ InitDb(p)
                   \/ OpenRead(p) \/ SelectLatest(p)
Step(p) == \/ Acquire(p) \/ TimeOut(p) \/ Open(p) \/ OpenConflict(p)
           \/ InsertCommand(p) \/ RenderCommand(p) \/ OtherCommand(p)
           \/ Close(p) \/ Release(p)

AllQuiet == (\A p \in Proc : pc[p] \in Final) /\ UNCHANGED vars

Next == \/ \E p \in Proc : Start(p) \/ Step(p) \/ CommitFails(p) \/ ReportFails(p) \/ Crash(p)
        \/ Recover
        \/ AllQuiet

Spec == Init /\ [][Next]_vars

\* Every started process runs on; waiting ones get in or time out.
FairSpec == Spec /\ \A p \in Proc : WF_vars(Step(p))
-----------------------------------------------------------------------------
(* Properties.                                                             *)

RowsOf(p) == {i \in DOMAIN rows : rows[i].by = p}

\* data-layer.md:85-90: the lock serializes the writers, so that the open of
\* none fails because another process has the database open.
OpenNeverConflicts == \A p \in conflicts : job[p] \notin LockJob

\* A reported insert is in the database exactly once, whatever crashed, even
\* when the lock was taken from its owner.
AckedOnce == \A p \in acked : job[p] \in Tables => \E i \in DOMAIN rows : RowsOf(p) = {i}

\* A command that ended without reporting success left no row, unless the
\* report itself failed, which cannot undo the COMMIT before it.
AllOrNothing == \A p \in Proc : pc[p] = "done" /\ p \notin acked \cup unreported
                                  => RowsOf(p) = {}

\* A command that ended without a crash holds neither the database nor the
\* lock, on every path through the two finally blocks.
CleanFinish == \A p \in Proc : pc[p] \in {"done", "timedOut"}
                                 => p \notin ro \cup inside \cup {rw, owner}

\* When a render reports, the views it wrote show the same committed rows,
\* the current ones: no insert slips in between its two files.
RenderedTogether ==
    [][\A p \in Proc : pc[p] = "report" /\ p \in acked' =>
         /\ job[p] \in {"renderLoans", "renderAll"} => loansMd = Of("loan")
         /\ job[p] \in {"renderScenarios", "renderAll"} => scenariosMd = Of("scenario")]_vars

\* property_persistence.py:169-173 lists when a reader returns None.  A database
\* that a writer has open is not in the list but has the same answer; otherwise
\* None says that no stored listing was acknowledged before.
MissHasCulprit ==
    [][\A p \in Proc :
         /\ job[p] = "readLatest" /\ pc[p] # "done" /\ pc'[p] = "done"
         /\ got'[p] = None /\ p \notin conflicts'
         => ~ \E q \in acked : job[q] = "listing"]_vars

\* Every command that was started ends, also behind the lock of a dead owner.
EveryCommandEnds == \A p \in Proc : (pc[p] # "idle") ~> (pc[p] \in Final)
=============================================================================
