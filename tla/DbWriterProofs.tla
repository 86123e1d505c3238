--------------------------- MODULE DbWriterProofs ---------------------------
(***************************************************************************)
(* Theorems about DbWriter, for any processes and any choice of commands.  *)
(***************************************************************************)
EXTENDS DbWriter, TLAPS

\* Steps of a command between its open and its close.
HandlePc == {"begin", "insert", "commit", "report", "rollback", "selectLoans", "truncateLoans",
             "writeLoans", "selectScenarios", "truncateScenarios", "writeScenarios",
             "ensure", "append", "query", "init", "close"}
Pc == HandlePc \cup Final \cup {"idle", "waiting", "open", "select", "release"}

\* Where each process may be, by what it holds.
Held == /\ pc \in [Proc -> Pc] /\ job \in [Proc -> Jobs]
        /\ inside \subseteq Proc /\ ro \subseteq Proc
        /\ \A p \in inside : job[p] \in LockJob /\ pc[p] \in HandlePc \cup {"open", "release"}
        /\ \A p \in Proc : owner = p => p \in inside \/ pc[p] = "crashed"
        /\ \A p \in Proc : rw = p => pc[p] \in HandlePc
        /\ \A p \in ro : pc[p] = "select"

\* What a running command holds.
Holding == \A p \in Proc :
    /\ pc[p] \in HandlePc => rw = p
    /\ pc[p] \in {"waiting", "release"} => job[p] \in LockJob
    /\ job[p] \in LockJob /\ pc[p] \in HandlePc \cup {"open", "release"} => p \in inside
    /\ pc[p] = "select" => job[p] \in ReadJob

\* Nothing is held at the start.
LEMMA HeldInit == Init => Held /\ Holding
  BY DbAssumption DEF Init, Lease!Init, Held, Holding, Pc, Final, HandlePc

\* Every step keeps what is held and where.
LEMMA HeldStep == Held /\ Holding /\ [Next]_vars => Held' /\ Holding'
<1> SUFFICES ASSUME Held, Holding, [Next]_vars PROVE Held' /\ Holding'
  OBVIOUS
<1> USE DbAssumption, JobAssumption DEF Held, Holding, Pc, Final, HandlePc, LockJob, InsertJob,
        RenderJob, FreeJob, ReadJob, lockVars, dbVars, viewVars, outVars
<1>1. ASSUME NEW p \in Proc, InsertCommand(p) PROVE Held' /\ Holding'
  <2>1. CASE Refuse(p)
    BY <2>1 DEF Refuse, Goto
  <2>2. CASE Begin(p)
    BY <2>2 DEF Begin, Goto
  <2>3. CASE Insert(p)
    BY <2>3 DEF Insert, Goto
  <2>4. CASE InsertFails(p)
    BY <2>4 DEF InsertFails, Goto
  <2>5. CASE Commit(p)
    BY <2>5 DEF Commit, Goto
  <2>6. CASE Report(p)
    BY <2>6 DEF Report, Goto
  <2>7. CASE Rollback(p)
    BY <2>7 DEF Rollback, Goto
  <2> QED
    BY <1>1, <2>1, <2>2, <2>3, <2>4, <2>5, <2>6, <2>7 DEF InsertCommand
<1>2. ASSUME NEW p \in Proc, RenderCommand(p) PROVE Held' /\ Holding'
  <2>1. CASE SelectLoans(p)
    BY <2>1 DEF SelectLoans, Goto
  <2>2. CASE TruncateLoans(p)
    BY <2>2 DEF TruncateLoans, Goto
  <2>3. CASE WriteLoans(p)
    BY <2>3 DEF WriteLoans, Goto
  <2>4. CASE SelectScenarios(p)
    BY <2>4 DEF SelectScenarios, Goto
  <2>5. CASE TruncateScenarios(p)
    BY <2>5 DEF TruncateScenarios, Goto
  <2>6. CASE WriteScenarios(p)
    BY <2>6 DEF WriteScenarios, Goto
  <2> QED
    BY <1>2, <2>1, <2>2, <2>3, <2>4, <2>5, <2>6 DEF RenderCommand
<1>3. ASSUME NEW p \in Proc, OtherCommand(p) PROVE Held' /\ Holding'
  <2>1. CASE EnsureSchema(p)
    BY <2>1 DEF EnsureSchema, Goto
  <2>2. CASE Append1(p)
    BY <2>2 DEF Append1, Goto
  <2>3. CASE Query(p)
    BY <2>3 DEF Query, Goto
  <2>4. CASE InitDb(p)
    <3>1. pc' \in {pc, [pc EXCEPT ![p] = "report"]}
      BY <2>4 DEF InitDb, Goto
    <3>2. pc[p] = "init" /\ UNCHANGED <<job, inside, ro, owner, rw>>
      BY <2>4 DEF InitDb
    <3> QED
      BY <3>1, <3>2
  <2>5. CASE OpenRead(p)
    BY <2>5 DEF OpenRead, Goto
  <2>6. CASE SelectLatest(p)
    BY <2>6 DEF SelectLatest, Goto
  <2> QED
    BY <1>3, <2>1, <2>2, <2>3, <2>4, <2>5, <2>6 DEF OtherCommand
<1>4. ASSUME NEW p \in Proc, Acquire(p) PROVE Held' /\ Holding'
  <2> pc[p] = "waiting" /\ owner = Nobody /\ owner' = p /\ inside' = inside \cup {p}
        /\ pc' = [pc EXCEPT ![p] = "open"] /\ UNCHANGED <<job, rw, ro>>
    BY <1>4 DEF Acquire, Goto, Lease!Enter
  <2> QED
    OBVIOUS
<1>5. ASSUME NEW p \in Proc, TimeOut(p) PROVE Held' /\ Holding'
  BY <1>5 DEF TimeOut, Goto
<1>6. ASSUME NEW p \in Proc, Open(p) PROVE Held' /\ Holding'
  BY <1>6 DEF Open, Goto, Body
<1>7. ASSUME NEW p \in Proc, OpenConflict(p) PROVE Held' /\ Holding'
  BY <1>7 DEF OpenConflict, Goto, AfterClose
<1>8. ASSUME NEW p \in Proc, Close(p) PROVE Held' /\ Holding'
  BY <1>8 DEF Close, Goto, AfterClose
<1>9. ASSUME NEW p \in Proc, Release(p) PROVE Held' /\ Holding'
  BY <1>9 DEF Release, Goto, Lease!Exit, Lease!ExitAndRevoke
<1>10. ASSUME NEW p \in Proc, Start(p) PROVE Held' /\ Holding'
  BY <1>10 DEF Start, Goto
<1>11. ASSUME NEW p \in Proc, Crash(p) PROVE Held' /\ Holding'
  BY <1>11 DEF Crash, Goto
<1>12. ASSUME NEW p \in Proc, CommitFails(p) \/ ReportFails(p) PROVE Held' /\ Holding'
  BY <1>12 DEF CommitFails, ReportFails, Goto
<1>13. CASE Recover
  BY <1>13 DEF Recover, Lease!Reclaim, Lease!Revoke
<1>14. CASE UNCHANGED vars
  BY <1>14 DEF vars
<1> QED
  BY <1>1, <1>2, <1>3, <1>4, <1>5, <1>6, <1>7, <1>8, <1>9, <1>10, <1>11, <1>12, <1>13, <1>14 DEF Next, Step, AllQuiet

\* A command that ended without a crash has closed and released everything.
THEOREM CleanFinishHolds == Spec => []CleanFinish
<1>1. Held => CleanFinish
  BY DEF Held, CleanFinish, HandlePc
<1> QED
  BY <1>1, HeldInit, HeldStep, PTL DEF Spec

-----------------------------------------------------------------------------
(* What data-layer.md:85-90 may still claim of the lock.                   *)

\* The open of a locked command fails only because a reader or a command that
\* takes no lock has the database open, or because the lock was taken from a
\* process inside: then another one is inside too and has it open.  Locked
\* commands never get into each other's way by themselves.
ConflictHasCulprit ==
    [][\A p \in conflicts' \ conflicts : job[p] \in LockJob =>
         \/ ro # {}
         \/ \E q \in Proc \ {p} : rw = q /\ (job[q] \in FreeJob \/ {p, q} \subseteq inside)]_vars

\* Only processes that write ever have the database open for writing.
Handle == rw \in Proc \cup {Nobody} /\ \A p \in Proc : rw = p => job[p] \notin ReadJob

\* Every step keeps the handle with a writer.
LEMMA HandleStep == Handle /\ [Next]_vars => Handle'
<1> SUFFICES ASSUME Handle, [Next]_vars PROVE Handle'
  OBVIOUS
<1> USE DbAssumption DEF Handle, dbVars
<1>1. ASSUME NEW p \in Proc, Open(p) PROVE Handle'
  BY <1>1 DEF Open
<1>2. CASE ~ \E p \in Proc : Open(p)
  <2>1. rw' \in {rw, Nobody} /\ job' = job
    <3>1. ASSUME NEW p \in Proc, InsertCommand(p) \/ RenderCommand(p) PROVE UNCHANGED <<rw, job>>
      BY <3>1 DEF InsertCommand, Refuse, Begin, Insert, InsertFails, Commit, Report, Rollback,
         RenderCommand, SelectLoans, TruncateLoans, WriteLoans,
         SelectScenarios, TruncateScenarios, WriteScenarios
    <3>2. ASSUME NEW p \in Proc, OtherCommand(p) PROVE UNCHANGED <<rw, job>>
      BY <3>2 DEF OtherCommand, EnsureSchema, Append1, Query, InitDb, OpenRead, SelectLatest
    <3>3. ASSUME NEW p \in Proc,
                 \/ Start(p) \/ Acquire(p) \/ TimeOut(p) \/ OpenConflict(p) \/ Close(p)
                 \/ Release(p) \/ CommitFails(p) \/ ReportFails(p) \/ Crash(p)
          PROVE  rw' \in {rw, Nobody} /\ job' = job
      BY <3>3 DEF Start, Acquire, TimeOut, OpenConflict, Close, Release, CommitFails, ReportFails, Crash
    <3>4. CASE Recover \/ UNCHANGED vars
      BY <3>4 DEF Recover, vars
    <3> QED
      BY <1>2, <3>1, <3>2, <3>3, <3>4 DEF Next, Step, AllQuiet
  <2> QED
    BY <2>1
<1> QED
  BY <1>1, <1>2

\* A step on which the open of a locked command fails finds the culprit.
LEMMA ConflictStep ==
    ASSUME Held, Holding, Handle, [Next]_vars, NEW p \in conflicts' \ conflicts, job[p] \in LockJob
    PROVE  \/ ro # {}
           \/ \E q \in Proc \ {p} : rw = q /\ (job[q] \in FreeJob \/ {p, q} \subseteq inside)
<1>1. \E q \in Proc : OpenConflict(q) \/ OpenRead(q)
  <2> SUFFICES ASSUME ~ \E q \in Proc : OpenConflict(q) \/ OpenRead(q) PROVE conflicts' = conflicts
    OBVIOUS
  <2> USE DEF outVars
  <2>1. ASSUME NEW q \in Proc, InsertCommand(q) \/ RenderCommand(q) PROVE conflicts' = conflicts
    BY <2>1 DEF InsertCommand, Refuse, Begin, Insert, InsertFails, Commit, Report, Rollback,
       RenderCommand, SelectLoans, TruncateLoans, WriteLoans,
       SelectScenarios, TruncateScenarios, WriteScenarios
  <2>2. ASSUME NEW q \in Proc, OtherCommand(q) PROVE conflicts' = conflicts
    BY <2>2 DEF OtherCommand, EnsureSchema, Append1, Query, InitDb, SelectLatest
  <2>3. ASSUME NEW q \in Proc,
               \/ Start(q) \/ Acquire(q) \/ TimeOut(q) \/ Open(q) \/ Close(q)
               \/ Release(q) \/ CommitFails(q) \/ ReportFails(q) \/ Crash(q)
        PROVE  conflicts' = conflicts
    BY <2>3 DEF Start, Acquire, TimeOut, Open, Close, Release, CommitFails, ReportFails, Crash
  <2>4. CASE Recover \/ UNCHANGED vars
    BY <2>4 DEF Recover, vars
  <2> QED
    BY <2>1, <2>2, <2>3, <2>4 DEF Next, Step, AllQuiet
<1>2. PICK r \in Proc : OpenConflict(r) \/ OpenRead(r)
  BY <1>1
<1>3. p = r /\ pc[p] = "open"
  BY <1>2 DEF OpenConflict, OpenRead
<1>4. job[p] \notin ReadJob
  BY DEF LockJob, InsertJob, RenderJob, ReadJob
<1>5. rw # Nobody \/ ro # {}
  BY <1>2, <1>3, <1>4 DEF OpenConflict, OpenRead
<1>6. ASSUME rw # Nobody PROVE \E q \in Proc \ {p} : rw = q /\ (job[q] \in FreeJob \/ {p, q} \subseteq inside)
  <2>1. PICK q \in Proc : rw = q
    BY <1>6 DEF Handle
  <2>2. pc[q] \in HandlePc /\ job[q] \notin ReadJob
    BY <2>1 DEF Held, Handle
  <2>3. q # p
    BY <1>3, <2>2 DEF HandlePc
  <2>4. job[q] \in FreeJob \/ job[q] \in LockJob
    BY <2>2, JobAssumption DEF Held
  <2>5. p \in inside
    BY <1>2, <1>3 DEF Holding
  <2>6. job[q] \in LockJob => q \in inside
    BY <2>2 DEF Holding
  <2> QED
    BY <2>1, <2>3, <2>4, <2>5, <2>6
<1> QED
  BY <1>5, <1>6

\* Of every failed open of a locked command: who is to blame for it.
THEOREM ConflictIsExplained == Spec => ConflictHasCulprit
<1>1. Init => Handle
  BY DbAssumption DEF Init, Handle
<1>2. Held /\ Holding /\ Handle /\ [Next]_vars
        => [\A p \in conflicts' \ conflicts : job[p] \in LockJob =>
              \/ ro # {}
              \/ \E q \in Proc \ {p} : rw = q /\ (job[q] \in FreeJob \/ {p, q} \subseteq inside)]_vars
  BY ConflictStep
<1> QED
  BY <1>1, <1>2, HeldInit, HeldStep, HandleStep, PTL DEF Spec, ConflictHasCulprit

-----------------------------------------------------------------------------
(* Transactions, whatever happens to the lock: who has the database open   *)
(* for writing is alone with it.                                           *)

StoredRow == [table : Tables, by : Proc]
OneRow(p) == \E i \in DOMAIN rows : RowsOf(p) = {i}

InsertPc == {"begin", "insert", "commit", "rollback"}
ListingPc == {"ensure", "append"}
OtherPc == {"selectLoans", "truncateLoans", "writeLoans", "selectScenarios", "truncateScenarios",
            "writeScenarios", "query", "init", "select"}
\* Before its COMMIT, or its own INSERT, a command has stored nothing ...
Before == {"idle", "waiting", "timedOut", "open", "begin", "insert", "commit"} \cup ListingPc \cup OtherPc
\* ... and what it says afterwards decides what it has stored.
After == {"rollback", "close", "release", "done"}

JobsFit == \A p \in Proc : /\ pc[p] \in InsertPc => job[p] \in InsertJob
                           /\ pc[p] \in ListingPc => job[p] = "listing"
                           /\ pc[p] \in OtherPc => job[p] \notin Tables
TxInv == /\ rows \in Seq(StoredRow) /\ acked \subseteq Proc
         /\ JobsFit
         /\ \A p \in Proc : /\ pc[p] = "commit" => pending = <<Row(p)>>
                            /\ pc[p] \in Before => RowsOf(p) = {}
                            /\ pc[p] = "report" /\ job[p] \in Tables => OneRow(p)
                            /\ pc[p] = "report" /\ job[p] \notin Tables => RowsOf(p) = {}
                            /\ pc[p] \in After /\ p \notin acked \cup unreported => RowsOf(p) = {}
         /\ \A p \in acked : /\ pc[p] \in {"close", "release", "done", "crashed"}
                             /\ job[p] \in Tables => OneRow(p)

\* Storing a row of a command that has none gives it one, and the others none.
LEMMA RowStored ==
  ASSUME NEW p \in Proc, rows \in Seq(StoredRow), RowsOf(p) = {}, job[p] \in Tables,
         rows' = Append(rows, Row(p))
  PROVE  /\ rows' \in Seq(StoredRow) /\ OneRow(p)'
         /\ \A q \in Proc : q # p => RowsOf(q)' = RowsOf(q) /\ (OneRow(q) => OneRow(q)')
<1> DEFINE n == Len(rows) + 1
<1>1. Row(p) \in StoredRow /\ Row(p).by = p
  BY DEF Row, StoredRow
<1> DEFINE r == Row(p)
<1> HIDE DEF r
<1>2. /\ rows' \in Seq(StoredRow) /\ DOMAIN rows = 1..Len(rows) /\ DOMAIN rows' = 1..n
      /\ n \in Nat \ {0} /\ n \notin DOMAIN rows
      /\ rows'[n] = Row(p) /\ \A i \in DOMAIN rows : rows'[i] = rows[i]
  <2>1. r \in StoredRow /\ rows' = Append(rows, r)
    BY <1>1 DEF r
  <2>2. Len(rows) \in Nat /\ rows' \in Seq(StoredRow) /\ Len(rows') = n
    BY <2>1
  <2>3. rows'[n] = r
    BY <2>1
  <2>4. \A i \in 1..Len(rows) : rows'[i] = rows[i]
    BY <2>1
  <2> QED
    BY <2>1, <2>2, <2>3, <2>4 DEF r
<1>3. RowsOf(p)' = {n}
  BY <1>1, <1>2 DEF RowsOf
<1>4. ASSUME NEW q \in Proc, q # p PROVE RowsOf(q)' = RowsOf(q)
  BY <1>1, <1>2, <1>4 DEF RowsOf
<1> QED
  BY <1>2, <1>3, <1>4 DEF OneRow

\* Nothing is stored at the start.
LEMMA TxInit == Init => TxInv
<1> SUFFICES ASSUME Init PROVE TxInv
  OBVIOUS
<1>1. /\ rows = <<>> /\ rows \in Seq(StoredRow) /\ acked = {}
      /\ \A p \in Proc : pc[p] = "idle" /\ RowsOf(p) = {}
  BY DEF Init, RowsOf
<1> QED
  BY <1>1 DEF TxInv, JobsFit, InsertPc, ListingPc, OtherPc, After

\* A command only takes the steps of its job.
LEMMA JobsStep == Held /\ Holding /\ JobsFit /\ [Next]_vars => JobsFit'
<1> SUFFICES ASSUME Held, Holding, JobsFit, [Next]_vars PROVE JobsFit'
  OBVIOUS
<1> USE JobAssumption DEF Held, JobsFit, InsertPc, ListingPc, OtherPc, Goto, Tables, InsertJob
<1>1. ASSUME NEW p \in Proc, InsertCommand(p) PROVE JobsFit'
  BY <1>1 DEF InsertCommand, Refuse, Begin, Insert, InsertFails, Commit, Report, Rollback
<1>2. ASSUME NEW p \in Proc, RenderCommand(p) PROVE JobsFit'
  BY <1>2 DEF RenderCommand, SelectLoans, TruncateLoans, WriteLoans,
     SelectScenarios, TruncateScenarios, WriteScenarios
<1>3. ASSUME NEW p \in Proc, OtherCommand(p) PROVE JobsFit'
  <2>1. CASE EnsureSchema(p) \/ Append1(p)
    BY <2>1 DEF EnsureSchema, Append1
  <2>2. CASE Query(p) \/ OpenRead(p) \/ SelectLatest(p)
    BY <2>2 DEF Query, OpenRead, SelectLatest, ReadJob
  <2>3. CASE InitDb(p)
    <3>1. pc' \in {pc, [pc EXCEPT ![p] = "report"]} /\ UNCHANGED job
      BY <2>3 DEF InitDb
    <3> QED
      BY <3>1
  <2> QED
    BY <1>3, <2>1, <2>2, <2>3 DEF OtherCommand
<1>4. ASSUME NEW p \in Proc, Open(p) PROVE JobsFit'
  BY <1>4 DEF Open, Body, LockJob, RenderJob, FreeJob, ReadJob
<1>5. ASSUME NEW p \in Proc, OpenConflict(p) \/ Close(p) \/ Release(p) PROVE JobsFit'
  BY <1>5 DEF OpenConflict, Close, Release, AfterClose
<1>6. ASSUME NEW p \in Proc, Acquire(p) \/ TimeOut(p) \/ Start(p) \/ Crash(p) PROVE JobsFit'
  BY <1>6 DEF Acquire, TimeOut, Start, Crash
<1>7. ASSUME NEW p \in Proc, CommitFails(p) \/ ReportFails(p) PROVE JobsFit'
  BY <1>7 DEF CommitFails, ReportFails, LockJob, RenderJob
<1>8. CASE Recover \/ UNCHANGED vars
  BY <1>8 DEF Recover, vars
<1> QED
  BY <1>1, <1>2, <1>3, <1>4, <1>5, <1>6, <1>7, <1>8 DEF Next, Step, AllQuiet

\* A step of p to l that stores nothing and says no more than p has stored.
Quiet(p, l) ==
    /\ pc' = [pc EXCEPT ![p] = l] /\ UNCHANGED <<rows, job>>
    /\ l # "commit"
    /\ l \in Before => pc[p] \in Before
    /\ l = "report" => pc[p] \in OtherPc
    /\ l \in After => pc[p] \in Before \cup After \/ p \in acked' \cup unreported'
    /\ acked \subseteq acked' /\ acked' \subseteq acked \cup {p} /\ unreported \subseteq unreported'
    /\ p \in acked' => /\ l \in {"close", "release", "done", "crashed"}
                       /\ p \notin acked => pc[p] = "report"
    /\ pending' = pending \/ rw = p

\* Such a step keeps TxInv.
LEMMA TxFrame ==
  ASSUME Held, Holding, TxInv, JobsFit', NEW p \in Proc, NEW l, Quiet(p, l)
  PROVE  TxInv'
<1>1. \A q \in Proc : RowsOf(q)' = RowsOf(q) /\ (OneRow(q)' <=> OneRow(q)) /\ Row(q)' = Row(q)
  BY DEF Quiet, RowsOf, OneRow, Row
<1>2. \A q \in Proc : pc'[q] = IF q = p THEN l ELSE pc[q]
  BY DEF Held, Quiet
<1>3. /\ l = "report" => job[p] \notin Tables /\ RowsOf(p) = {}
      /\ l \in Before => RowsOf(p) = {}
  BY DEF TxInv, JobsFit, Quiet, Before
<1>4. l \in After /\ p \notin acked' \cup unreported' => RowsOf(p) = {}
  BY DEF TxInv, Quiet
<1>5. \A q \in Proc \ {p} : pc[q] = "commit" => pending' = pending
  BY DEF Holding, HandlePc, Quiet
<1>6. p \in acked' /\ job[p] \in Tables => OneRow(p)
  BY DEF TxInv, Quiet
<1>7. \A q \in Proc : /\ pc'[q] = "commit" => pending' = <<Row(q)>>
                      /\ pc'[q] \in Before => RowsOf(q) = {}
                      /\ pc'[q] = "report" /\ job[q] \in Tables => OneRow(q)
                      /\ pc'[q] = "report" /\ job[q] \notin Tables => RowsOf(q) = {}
                      /\ pc'[q] \in After /\ q \notin acked' \cup unreported' => RowsOf(q) = {}
  <2> SUFFICES ASSUME NEW q \in Proc
               PROVE  /\ pc'[q] = "commit" => pending' = <<Row(q)>>
                      /\ pc'[q] \in Before => RowsOf(q) = {}
                      /\ pc'[q] = "report" /\ job[q] \in Tables => OneRow(q)
                      /\ pc'[q] = "report" /\ job[q] \notin Tables => RowsOf(q) = {}
                      /\ pc'[q] \in After /\ q \notin acked' \cup unreported' => RowsOf(q) = {}
    OBVIOUS
  <2>1. CASE q = p
    BY <1>2, <1>3, <1>4, <2>1 DEF Quiet
  <2>2. CASE q # p
    BY <1>2, <1>5, <2>2 DEF TxInv, Quiet
  <2> QED
    BY <2>1, <2>2
<1>8. \A q \in acked' : /\ pc'[q] \in {"close", "release", "done", "crashed"}
                        /\ job[q] \in Tables => OneRow(q)
  <2> SUFFICES ASSUME NEW q \in acked'
               PROVE  /\ pc'[q] \in {"close", "release", "done", "crashed"}
                      /\ job[q] \in Tables => OneRow(q)
    OBVIOUS
  <2>1. CASE q = p
    BY <1>2, <1>6, <2>1 DEF Quiet
  <2>2. CASE q # p
    <3>1. q \in acked /\ q \in Proc
      BY <2>2 DEF Quiet, TxInv
    <3> QED
      BY <1>2, <2>2, <3>1 DEF TxInv
  <2> QED
    BY <2>1, <2>2
<1>9. rows' \in Seq(StoredRow) /\ job' = job
  BY DEF TxInv, Quiet
<1> HIDE DEF RowsOf, OneRow, Row
<1>10. \A q \in Proc : /\ pc'[q] = "commit" => pending' = <<Row(q)'>>
                       /\ pc'[q] \in Before => RowsOf(q)' = {}
                       /\ pc'[q] = "report" /\ job'[q] \in Tables => OneRow(q)'
                       /\ pc'[q] = "report" /\ job'[q] \notin Tables => RowsOf(q)' = {}
                       /\ pc'[q] \in After /\ q \notin acked' \cup unreported' => RowsOf(q)' = {}
  BY <1>1, <1>7, <1>9
<1>11. \A q \in acked' : /\ pc'[q] \in {"close", "release", "done", "crashed"}
                         /\ job'[q] \in Tables => OneRow(q)'
  <2>1. acked' \subseteq Proc
    BY DEF Quiet, TxInv
  <2> QED
    BY <1>1, <1>8, <1>9, <2>1
<1>12. acked' \subseteq Proc
  BY DEF Quiet, TxInv
<1> QED
  BY <1>9, <1>10, <1>11, <1>12 DEF TxInv

\* A step of p that stores its row and goes on to report it keeps TxInv.
LEMMA Stored ==
  ASSUME Held, Holding, TxInv, JobsFit', NEW p \in Proc, job[p] \in Tables, RowsOf(p) = {},
         rows' = Append(rows, Row(p)), UNCHANGED <<job, acked, unreported>>, rw = p,
         pc[p] \in {"commit", "append"}, pc' = [pc EXCEPT ![p] = "report"]
  PROVE  TxInv'
<1>1. rows \in Seq(StoredRow) /\ p \notin acked
  BY DEF TxInv
<1>2. /\ rows' \in Seq(StoredRow) /\ OneRow(p)'
      /\ \A q \in Proc : q # p => RowsOf(q)' = RowsOf(q) /\ (OneRow(q) => OneRow(q)')
  BY <1>1, RowStored
<1>3. \A q \in Proc : pc'[q] = IF q = p THEN "report" ELSE pc[q]
  BY DEF Held
<1>4. \A q \in Proc \ {p} : pc[q] # "commit"
  BY DEF Holding, HandlePc
<1> HIDE DEF RowsOf, OneRow, Row
<1>5. \A q \in Proc : /\ pc'[q] # "commit"
                      /\ pc'[q] \in Before => RowsOf(q)' = {}
                      /\ pc'[q] = "report" /\ job[q] \in Tables => OneRow(q)'
                      /\ pc'[q] = "report" /\ job[q] \notin Tables => RowsOf(q)' = {}
                      /\ pc'[q] \in After /\ q \notin acked \cup unreported => RowsOf(q)' = {}
  <2> SUFFICES ASSUME NEW q \in Proc
               PROVE  /\ pc'[q] # "commit"
                      /\ pc'[q] \in Before => RowsOf(q)' = {}
                      /\ pc'[q] = "report" /\ job[q] \in Tables => OneRow(q)'
                      /\ pc'[q] = "report" /\ job[q] \notin Tables => RowsOf(q)' = {}
                      /\ pc'[q] \in After /\ q \notin acked \cup unreported => RowsOf(q)' = {}
    OBVIOUS
  <2>1. CASE q = p
    BY <1>2, <1>3, <2>1 DEF Before, After, ListingPc, OtherPc
  <2>2. CASE q # p
    BY <1>2, <1>3, <1>4, <2>2 DEF TxInv
  <2> QED
    BY <2>1, <2>2
<1>6. \A q \in acked : /\ q # p /\ pc'[q] \in {"close", "release", "done", "crashed"}
                       /\ job[q] \in Tables => OneRow(q)'
  BY <1>1, <1>2, <1>3 DEF TxInv
<1> QED
  BY <1>2, <1>5, <1>6 DEF TxInv

\* Every step keeps TxInv.
LEMMA TxStep == Held /\ Holding /\ TxInv /\ [Next]_vars => TxInv'
<1> SUFFICES ASSUME Held, Holding, TxInv, [Next]_vars PROVE TxInv'
  OBVIOUS
<1>1. JobsFit'
  BY JobsStep DEF TxInv
<1>2. ASSUME NEW p \in Proc, NEW l, Quiet(p, l) PROVE TxInv'
  BY <1>1, <1>2, TxFrame
<1>3. \A p \in acked : pc[p] \in {"close", "release", "done", "crashed"}
  BY DEF TxInv
<1>4. \A p \in Proc : pc[p] \in HandlePc => rw = p
  BY DEF Holding
<1> USE DEF Quiet, Before, After, OtherPc, ListingPc, Goto, dbVars, outVars
<1>5. ASSUME NEW p \in Proc, Start(p) PROVE TxInv'
  <2>1. \E l \in {"waiting", "open"} : Quiet(p, l)
    BY <1>3, <1>5 DEF Start
  <2> QED
    BY <1>2, <2>1
<1>6. ASSUME NEW p \in Proc, Acquire(p) \/ TimeOut(p) PROVE TxInv'
  <2>1. \E l \in {"open", "timedOut"} : Quiet(p, l)
    BY <1>3, <1>6 DEF Acquire, TimeOut
  <2> QED
    BY <1>2, <2>1
<1>7. ASSUME NEW p \in Proc, Open(p) PROVE TxInv'
  <2>1. job[p] \in Jobs /\ Body(p) \in {"begin", "selectLoans", "selectScenarios", "ensure", "query", "init"}
    BY <1>7, JobAssumption DEF Open, Body, Held, LockJob, FreeJob, RenderJob, InsertJob
  <2>2. Quiet(p, Body(p))
    BY <1>3, <1>7, <2>1 DEF Open
  <2> QED
    BY <1>2, <2>2
<1>8. ASSUME NEW p \in Proc, OpenConflict(p) PROVE TxInv'
  <2>1. Quiet(p, AfterClose(p))
    BY <1>3, <1>8 DEF OpenConflict, AfterClose
  <2> QED
    BY <1>2, <2>1
<1>9. ASSUME NEW p \in Proc, InsertCommand(p) PROVE TxInv'
  <2>1. CASE Refuse(p) \/ Begin(p) \/ InsertFails(p)
    <3>1. \E l \in {"close", "insert", "rollback"} : Quiet(p, l)
      BY <1>3, <2>1 DEF Refuse, Begin, InsertFails
    <3> QED
      BY <1>2, <3>1
  <2>2. CASE Insert(p)
    <3>1. /\ pending' = <<Row(p)>> /\ UNCHANGED <<rows, job, acked, unreported>>
          /\ pc[p] = "insert" /\ pc' = [pc EXCEPT ![p] = "commit"] /\ rw = p
      BY <1>4, <2>2 DEF Insert, HandlePc
    <3>2. \A q \in Proc : pc[q] = "commit" => q = p
      BY <1>4, <3>1 DEF HandlePc
    <3>3. \A q \in Proc : RowsOf(q)' = RowsOf(q) /\ (OneRow(q)' <=> OneRow(q)) /\ Row(q)' = Row(q)
      BY <3>1 DEF RowsOf, OneRow, Row
    <3>4. \A q \in Proc : pc'[q] = IF q = p THEN "commit" ELSE pc[q]
      BY <3>1 DEF Held
    <3> HIDE DEF RowsOf, OneRow, Row
    <3> QED
      BY <1>1, <1>3, <3>1, <3>2, <3>3, <3>4 DEF TxInv
  <2>3. CASE Commit(p)
    <3>1. /\ pending = <<Row(p)>> /\ rows' = rows \o pending /\ UNCHANGED <<job, acked, unreported>>
          /\ pc[p] = "commit" /\ pc' = [pc EXCEPT ![p] = "report"] /\ rw = p /\ RowsOf(p) = {}
      BY <1>4, <2>3 DEF Commit, HandlePc, TxInv
    <3>2. job[p] \in Tables
      BY <3>1 DEF TxInv, JobsFit, InsertPc, Tables
    <3>3. rows' = Append(rows, Row(p))
      BY <3>1 DEF TxInv
    <3> QED
      BY <1>1, <1>3, <3>1, <3>2, <3>3, Stored
  <2>4. CASE Report(p)
    <3>1. Quiet(p, "close")
      BY <1>3, <2>4 DEF Report
    <3> QED
      BY <1>2, <3>1
  <2>5. CASE Rollback(p)
    <3>1. Quiet(p, "close")
      BY <1>3, <1>4, <2>5 DEF Rollback, HandlePc
    <3> QED
      BY <1>2, <3>1
  <2> QED
    BY <1>9, <2>1, <2>2, <2>3, <2>4, <2>5 DEF InsertCommand
<1>10. ASSUME NEW p \in Proc, RenderCommand(p) PROVE TxInv'
  <2>1. \E l \in OtherPc \cup {"close", "report"} : Quiet(p, l)
    BY <1>3, <1>10 DEF RenderCommand, SelectLoans, TruncateLoans, WriteLoans,
       SelectScenarios, TruncateScenarios, WriteScenarios
  <2> QED
    BY <1>2, <2>1
<1>11. ASSUME NEW p \in Proc, OtherCommand(p) PROVE TxInv'
  <2>1. CASE EnsureSchema(p)
    <3>1. Quiet(p, "append")
      BY <1>3, <2>1 DEF EnsureSchema
    <3> QED
      BY <1>2, <3>1
  <2>2. CASE Append1(p)
    <3>1. /\ rows' = Append(rows, Row(p)) /\ UNCHANGED <<job, acked, unreported, pending>>
          /\ pc[p] = "append" /\ pc' = [pc EXCEPT ![p] = "report"] /\ rw = p /\ RowsOf(p) = {}
      BY <1>4, <2>2 DEF Append1, HandlePc, TxInv
    <3>2. job[p] \in Tables
      BY <3>1 DEF TxInv, JobsFit, Tables
    <3> QED
      BY <1>1, <1>3, <3>1, <3>2, Stored
  <2>3. CASE Query(p) \/ InitDb(p)
    <3>1. \E l \in {"report", "close", "init"} : Quiet(p, l)
      BY <1>3, <2>3 DEF Query, InitDb, Held
    <3> QED
      BY <1>2, <3>1
  <2>4. CASE OpenRead(p) \/ SelectLatest(p)
    <3>1. \E l \in {"select", "done"} : Quiet(p, l)
      BY <1>3, <2>4 DEF OpenRead, SelectLatest
    <3> QED
      BY <1>2, <3>1
  <2> QED
    BY <1>11, <2>1, <2>2, <2>3, <2>4 DEF OtherCommand
<1>12. ASSUME NEW p \in Proc, Close(p) \/ Release(p) PROVE TxInv'
  <2>1. \E l \in {"release", "done"} : Quiet(p, l)
    BY <1>3, <1>4, <1>12 DEF Close, Release, AfterClose, HandlePc
  <2> QED
    BY <1>2, <2>1
<1>13. ASSUME NEW p \in Proc, CommitFails(p) \/ ReportFails(p) PROVE TxInv'
  <2>1. \E l \in {"rollback", "close"} : Quiet(p, l)
    BY <1>3, <1>13 DEF CommitFails, ReportFails
  <2> QED
    BY <1>2, <2>1
<1>14. ASSUME NEW p \in Proc, Crash(p) PROVE TxInv'
  <2>1. Quiet(p, "crashed")
    BY <1>3, <1>14 DEF Crash
  <2> QED
    BY <1>2, <2>1
<1>15. CASE Recover \/ UNCHANGED vars
  <2>1. UNCHANGED <<pc, job, rows, pending, acked, unreported>>
    BY <1>15 DEF Recover, vars
  <2>2. \A q \in Proc : RowsOf(q)' = RowsOf(q) /\ (OneRow(q)' <=> OneRow(q)) /\ Row(q)' = Row(q)
    BY <2>1 DEF RowsOf, OneRow, Row
  <2> HIDE DEF RowsOf, OneRow, Row
  <2> QED
    BY <1>1, <2>1, <2>2 DEF TxInv
<1> QED
  BY <1>5, <1>6, <1>7, <1>8, <1>9, <1>10, <1>11, <1>12, <1>13, <1>14, <1>15 DEF Next, Step, AllQuiet
\* A reported insert is in the database exactly once, whatever crashed and
\* even when the lock was taken from its owner: the transaction protects it.
THEOREM AckedIsStored == Spec => []AckedOnce
<1>1. TxInv => AckedOnce
  BY DEF TxInv, AckedOnce, OneRow
<1> QED
  BY <1>1, TxInit, TxStep, HeldInit, HeldStep, PTL DEF Spec

\* A command that ended without reporting success left no row, unless only
\* its report failed.
THEOREM InsertIsAtomic == Spec => []AllOrNothing
<1>1. TxInv => AllOrNothing
  BY DEF TxInv, AllOrNothing, After
<1> QED
  BY <1>1, TxInit, TxStep, HeldInit, HeldStep, PTL DEF Spec
-----------------------------------------------------------------------------
(* What the views show.  Only who has the database open stores rows or     *)
(* writes views, so that a render reports over the rows it selected from.  *)

LoansPc == {"selectLoans", "truncateLoans", "writeLoans"}
ScenariosPc == {"selectScenarios", "truncateScenarios", "writeScenarios"}
LoansJob == {"renderLoans", "renderAll"}
ScenariosJob == {"renderScenarios", "renderAll"}

\* What process p has selected and shown so far is what is stored.
Shown(p) ==
    /\ pc[p] \in LoansPc => job[p] \in LoansJob
    /\ pc[p] \in ScenariosPc => job[p] \in ScenariosJob
    /\ pc[p] \in {"query", "init"} => job[p] \notin RenderJob
    /\ pc[p] \in {"truncateLoans", "writeLoans"} => snap[p] = Of("loan")
    /\ pc[p] \in {"truncateScenarios", "writeScenarios"} => snap[p] = Of("scenario")
    /\ pc[p] \in ScenariosPc \cup {"report"} /\ job[p] \in LoansJob => loansMd = Of("loan")
    /\ pc[p] = "report" /\ job[p] \in ScenariosJob => scenariosMd = Of("scenario")
ViewInv == snap = [p \in Proc |-> snap[p]] /\ \A p \in Proc : Shown(p)

\* Nothing has been selected at the start.
LEMMA ViewInit == Init => ViewInv
  BY DEF Init, ViewInv, Shown, LoansPc, ScenariosPc

\* A step of p keeps what the others show, unless p has the database open, and
\* then no other shows anything.
LEMMA ViewFrame ==
    ASSUME Held, Holding, ViewInv, NEW p \in Proc, UNCHANGED job,
           \A q \in Proc \ {p} : pc'[q] = pc[q] /\ snap'[q] = snap[q],
           snap' = [q \in Proc |-> snap'[q]],
           rw = p \/ UNCHANGED <<rows, loansMd, scenariosMd>>,
           Shown(p)'
    PROVE  ViewInv'
<1> SUFFICES ASSUME NEW q \in Proc, q # p PROVE Shown(q)'
  BY DEF ViewInv
<1>1. Shown(q) /\ pc'[q] = pc[q] /\ snap'[q] = snap[q] /\ job'[q] = job[q]
  BY DEF ViewInv
<1>2. CASE rw = p
  <2>1. pc[q] \notin HandlePc
    BY <1>2 DEF Holding
  <2> QED
    BY <1>1, <2>1 DEF Shown, HandlePc, LoansPc, ScenariosPc
<1>3. CASE UNCHANGED <<rows, loansMd, scenariosMd>>
  <2>1. Of("loan")' = Of("loan") /\ Of("scenario")' = Of("scenario")
    BY <1>3 DEF Of
  <2> HIDE DEF Of
  <2> QED
    BY <1>1, <1>3, <2>1 DEF Shown
<1> QED
  BY <1>2, <1>3

\* A step of p to l outside the renders keeps ViewInv.
LEMMA ViewQuiet ==
    ASSUME Held, Holding, ViewInv, NEW p \in Proc, NEW l, pc' = [pc EXCEPT ![p] = l],
           UNCHANGED <<job, snap, loansMd, scenariosMd>>, rw = p \/ UNCHANGED rows,
           l \notin LoansPc \cup ScenariosPc \cup {"report", "query", "init"}
             \/ (l \in {"query", "init", "report"} /\ job[p] \notin RenderJob)
             \/ (l = "selectLoans" /\ job[p] \in LoansJob)
             \/ (l = "selectScenarios" /\ job[p] = "renderScenarios")
    PROVE  ViewInv'
<1>1. /\ pc'[p] = l /\ \A q \in Proc \ {p} : pc'[q] = pc[q] /\ snap'[q] = snap[q]
      /\ snap' = [q \in Proc |-> snap'[q]]
  BY DEF Held, ViewInv
<1>2. Shown(p)'
  BY <1>1 DEF Shown, LoansPc, ScenariosPc, LoansJob, ScenariosJob, RenderJob
<1> QED
  BY <1>1, <1>2, ViewFrame

\* The steps of a render keep ViewInv.
LEMMA ViewRender ==
    ASSUME Held, Holding, ViewInv, NEW p \in Proc, RenderCommand(p)
    PROVE  ViewInv'
<1> DEFINE L == Of("loan")
           S == Of("scenario")
<1>1. rw = p /\ UNCHANGED <<job, rows>> /\ Shown(p) /\ snap = [q \in Proc |-> snap[q]]
  BY DEF RenderCommand, SelectLoans, TruncateLoans, WriteLoans, SelectScenarios, TruncateScenarios,
     WriteScenarios, dbVars, Holding, HandlePc, ViewInv
<1>2. Of("loan")' = L /\ Of("scenario")' = S
  BY <1>1 DEF Of
<1>3. ASSUME NEW l, pc' = [pc EXCEPT ![p] = l]
      PROVE  pc'[p] = l /\ \A q \in Proc \ {p} : pc'[q] = pc[q]
  BY <1>3 DEF Held
<1>4. ASSUME NEW v, snap' = [snap EXCEPT ![p] = v]
      PROVE  /\ snap'[p] = v /\ snap' = [q \in Proc |-> snap'[q]]
             /\ \A q \in Proc \ {p} : snap'[q] = snap[q]
  BY <1>1, <1>4
<1>5. ASSUME Shown(p)', \A q \in Proc \ {p} : pc'[q] = pc[q] /\ snap'[q] = snap[q],
             snap' = [q \in Proc |-> snap'[q]]
      PROVE  ViewInv'
  BY <1>1, <1>5, ViewFrame
<1>6. CASE SelectLoans(p)
  <2>1. PICK l \in {"truncateLoans", "close"} : pc' = [pc EXCEPT ![p] = l]
    BY <1>6 DEF SelectLoans, Goto
  <2>2. snap' = [snap EXCEPT ![p] = L] /\ UNCHANGED <<loansMd, scenariosMd>> /\ pc[p] = "selectLoans"
    BY <1>6 DEF SelectLoans
  <2> HIDE DEF L, S
  <2>3. Shown(p)'
    BY <1>1, <1>2, <1>3, <1>4, <2>1, <2>2 DEF Shown, LoansPc, ScenariosPc
  <2> QED
    BY <1>3, <1>4, <1>5, <2>1, <2>2, <2>3
<1>7. CASE SelectScenarios(p)
  <2>1. PICK l \in {"truncateScenarios", "close"} : pc' = [pc EXCEPT ![p] = l]
    BY <1>7 DEF SelectScenarios, Goto
  <2>2. snap' = [snap EXCEPT ![p] = S] /\ UNCHANGED <<loansMd, scenariosMd>> /\ pc[p] = "selectScenarios"
    BY <1>7 DEF SelectScenarios
  <2>3. job[p] \in LoansJob => loansMd = L
    BY <1>1, <2>2 DEF Shown, ScenariosPc
  <2> HIDE DEF L, S
  <2>4. Shown(p)'
    BY <1>1, <1>2, <1>3, <1>4, <2>1, <2>2, <2>3 DEF Shown, LoansPc, ScenariosPc
  <2> QED
    BY <1>3, <1>4, <1>5, <2>1, <2>2, <2>4
<1>8. CASE TruncateLoans(p)
  <2>1. /\ pc[p] = "truncateLoans" /\ pc' = [pc EXCEPT ![p] = "writeLoans"]
        /\ UNCHANGED <<snap, scenariosMd>>
    BY <1>8 DEF TruncateLoans, Goto
  <2>2. snap[p] = L
    BY <1>1, <2>1 DEF Shown
  <2> HIDE DEF L, S
  <2>3. Shown(p)'
    BY <1>1, <1>2, <1>3, <2>1, <2>2 DEF Shown, LoansPc, ScenariosPc
  <2> QED
    BY <1>1, <1>3, <1>5, <2>1, <2>3
<1>9. CASE WriteLoans(p)
  <2>1. PICK l \in {"selectScenarios", "report"} :
           pc' = [pc EXCEPT ![p] = l] /\ (l = "selectScenarios" <=> job[p] = "renderAll")
    BY <1>9 DEF WriteLoans, Goto
  <2>2. pc[p] = "writeLoans" /\ loansMd' = snap[p] /\ UNCHANGED <<snap, scenariosMd>>
    BY <1>9 DEF WriteLoans
  <2>3. snap[p] = L /\ job[p] \in LoansJob
    BY <1>1, <2>2 DEF Shown, LoansPc
  <2> HIDE DEF L, S
  <2>4. Shown(p)'
    BY <1>1, <1>2, <1>3, <2>1, <2>2, <2>3 DEF Shown, LoansPc, ScenariosPc, LoansJob, ScenariosJob
  <2> QED
    BY <1>1, <1>3, <1>5, <2>1, <2>2, <2>4
<1>10. CASE TruncateScenarios(p)
  <2>1. /\ pc[p] = "truncateScenarios" /\ pc' = [pc EXCEPT ![p] = "writeScenarios"]
        /\ UNCHANGED <<snap, loansMd>>
    BY <1>10 DEF TruncateScenarios, Goto
  <2>2. snap[p] = S /\ (job[p] \in LoansJob => loansMd = L)
    BY <1>1, <2>1 DEF Shown, ScenariosPc
  <2> HIDE DEF L, S
  <2>3. Shown(p)'
    BY <1>1, <1>2, <1>3, <2>1, <2>2 DEF Shown, LoansPc, ScenariosPc
  <2> QED
    BY <1>1, <1>3, <1>5, <2>1, <2>3
<1>11. CASE WriteScenarios(p)
  <2>1. /\ pc[p] = "writeScenarios" /\ pc' = [pc EXCEPT ![p] = "report"]
        /\ scenariosMd' = snap[p] /\ UNCHANGED <<snap, loansMd>>
    BY <1>11 DEF WriteScenarios, Goto
  <2>2. snap[p] = S /\ job[p] \in ScenariosJob /\ (job[p] \in LoansJob => loansMd = L)
    BY <1>1, <2>1 DEF Shown, ScenariosPc
  <2> HIDE DEF L, S
  <2>3. Shown(p)'
    BY <1>1, <1>2, <1>3, <2>1, <2>2 DEF Shown, LoansPc, ScenariosPc
  <2> QED
    BY <1>1, <1>3, <1>5, <2>1, <2>3
<1> QED
  BY <1>6, <1>7, <1>8, <1>9, <1>10, <1>11 DEF RenderCommand

\* Every step keeps ViewInv.
LEMMA ViewStep ==
    ASSUME Held, Holding, JobsFit, ViewInv, [Next]_vars PROVE ViewInv'
<1> USE DEF Goto, lockVars, dbVars, viewVars, outVars, LoansPc, ScenariosPc, LoansJob, ScenariosJob, RenderJob
<1>1. \A p \in Proc : /\ pc[p] \in HandlePc => rw = p
                      /\ pc[p] \in InsertPc \cup ListingPc => job[p] \notin RenderJob
                      /\ pc[p] \in {"query", "init"} => job[p] \notin RenderJob
  BY DEF Holding, JobsFit, InsertJob, ViewInv, Shown
<1>2. ASSUME NEW p \in Proc, InsertCommand(p) PROVE ViewInv'
  <2>1. pc[p] \in InsertPc \cup {"report"} /\ UNCHANGED <<job, snap, loansMd, scenariosMd>>
    BY <1>2 DEF InsertCommand, Refuse, Begin, Insert, InsertFails, Commit, Report, Rollback, InsertPc
  <2>2. \E l \in {"close", "insert", "commit", "rollback", "report"} :
           pc' = [pc EXCEPT ![p] = l] /\ (l = "report" => pc[p] = "commit")
    BY <1>2 DEF InsertCommand, Refuse, Begin, Insert, InsertFails, Commit, Report, Rollback
  <2> QED
    BY <1>1, <2>1, <2>2, ViewQuiet DEF InsertPc, HandlePc
<1>3. ASSUME NEW p \in Proc, RenderCommand(p) PROVE ViewInv'
  BY <1>3, ViewRender
<1>4. ASSUME NEW p \in Proc, EnsureSchema(p) \/ Append1(p) \/ Query(p) PROVE ViewInv'
  <2>1. /\ pc[p] \in ListingPc \cup {"query"} /\ UNCHANGED <<job, snap, loansMd, scenariosMd>>
        /\ \E l \in {"append", "report", "close"} : pc' = [pc EXCEPT ![p] = l]
    BY <1>4 DEF EnsureSchema, Append1, Query, ListingPc
  <2> QED
    BY <1>1, <2>1, ViewQuiet DEF ListingPc, HandlePc
<1>5. ASSUME NEW p \in Proc, InitDb(p) PROVE ViewInv'
  <2>1. /\ pc[p] = "init" /\ UNCHANGED <<job, snap, loansMd, scenariosMd, rows>>
        /\ \E l \in {"init", "report"} : pc' = [pc EXCEPT ![p] = l]
    BY <1>5 DEF InitDb, Held
  <2> QED
    BY <1>1, <2>1, ViewQuiet
<1>6. ASSUME NEW p \in Proc, OpenRead(p) \/ SelectLatest(p) PROVE ViewInv'
  <2>1. /\ UNCHANGED <<job, snap, loansMd, scenariosMd, rows>>
        /\ \E l \in {"select", "done"} : pc' = [pc EXCEPT ![p] = l]
    BY <1>6 DEF OpenRead, SelectLatest
  <2> QED
    BY <2>1, ViewQuiet
<1>7. ASSUME NEW p \in Proc, Open(p) PROVE ViewInv'
  <2>1. /\ UNCHANGED <<job, snap, loansMd, scenariosMd, rows>> /\ pc' = [pc EXCEPT ![p] = Body(p)]
        /\ job[p] \in Jobs \ ReadJob
    BY <1>7 DEF Open, Held
  <2>2. \/ Body(p) \in {"begin", "ensure"}
        \/ Body(p) \in {"query", "init"} /\ job[p] \notin RenderJob
        \/ Body(p) = "selectLoans" /\ job[p] \in LoansJob
        \/ Body(p) = "selectScenarios" /\ job[p] = "renderScenarios"
    BY <2>1, JobAssumption DEF Body, LockJob, FreeJob, ReadJob, InsertJob
  <2> QED
    BY <2>1, <2>2, ViewQuiet
<1>8. ASSUME NEW p \in Proc,
             \/ Start(p) \/ Acquire(p) \/ TimeOut(p) \/ OpenConflict(p) \/ Close(p) \/ Release(p)
             \/ CommitFails(p) \/ ReportFails(p) \/ Crash(p)
      PROVE  ViewInv'
  <2>1. /\ UNCHANGED <<job, snap, loansMd, scenariosMd, rows>>
        /\ \E l \in {"waiting", "open", "timedOut", "release", "done", "rollback", "close", "crashed"} :
              pc' = [pc EXCEPT ![p] = l]
    BY <1>8 DEF Start, Acquire, TimeOut, OpenConflict, Close, Release, CommitFails, ReportFails, Crash, AfterClose
  <2> QED
    BY <2>1, ViewQuiet
<1>9. CASE Recover \/ UNCHANGED vars
  <2>1. UNCHANGED <<pc, job, rows, snap, loansMd, scenariosMd>>
    BY <1>9 DEF Recover, vars
  <2>2. Of("loan")' = Of("loan") /\ Of("scenario")' = Of("scenario")
    BY <2>1 DEF Of
  <2> HIDE DEF Of
  <2> QED
    BY <2>1, <2>2 DEF ViewInv, Shown
<1> QED
  BY <1>2, <1>3, <1>4, <1>5, <1>6, <1>7, <1>8, <1>9 DEF Next, Step, OtherCommand, AllQuiet

\* A render that reports success leaves views of the rows that are stored at
\* that moment, both of the same rows, whatever happened to the lock.
THEOREM ViewsAgree == Spec => RenderedTogether
<1>1. ViewInv /\ [Next]_vars =>
        [\A p \in Proc : pc[p] = "report" /\ p \in acked' =>
           /\ job[p] \in {"renderLoans", "renderAll"} => loansMd = Of("loan")
           /\ job[p] \in {"renderScenarios", "renderAll"} => scenariosMd = Of("scenario")]_vars
  BY DEF ViewInv, Shown, LoansJob, ScenariosJob
<1>2. TxInv => JobsFit
  BY DEF TxInv
<1> QED
  BY <1>1, <1>2, ViewInit, ViewStep, HeldInit, HeldStep, TxInit, TxStep, PTL DEF Spec, RenderedTogether
-----------------------------------------------------------------------------
(* What a reader may conclude from None.                                   *)

\* Every row is in the table of the command that stored it.
Tagged == \A i \in DOMAIN rows : rows[i].table = job[rows[i].by]

\* A step leaves the stored rows alone or adds the row of one command, and
\* nobody changes its command.
LEMMA RowsChange ==
    ASSUME TxInv, [Next]_vars
    PROVE  job' = job /\ (rows' = rows \/ \E p \in Proc : job[p] \in Tables /\ rows' = Append(rows, Row(p)))
<1> USE DEF dbVars
<1>1. ASSUME NEW p \in Proc, Commit(p) PROVE job' = job /\ job[p] \in Tables /\ rows' = Append(rows, Row(p))
  <2>1. pending = <<Row(p)>> /\ rows' = rows \o pending /\ job' = job /\ job[p] \in Tables
    BY <1>1 DEF Commit, TxInv, JobsFit, InsertPc, Tables
  <2> QED
    BY <2>1 DEF TxInv
<1>2. ASSUME NEW p \in Proc, Append1(p) PROVE job' = job /\ job[p] \in Tables /\ rows' = Append(rows, Row(p))
  BY <1>2 DEF Append1, TxInv, JobsFit, ListingPc, Tables
<1>3. CASE ~ \E p \in Proc : Commit(p) \/ Append1(p)
  BY <1>3 DEF Next, Step, Start, Acquire, TimeOut, Open, OpenConflict, InsertCommand, Refuse, Begin, Insert,
     InsertFails, Report, Rollback, RenderCommand, SelectLoans, TruncateLoans, WriteLoans,
     SelectScenarios, TruncateScenarios, WriteScenarios, OtherCommand, EnsureSchema, Query, InitDb,
     OpenRead, SelectLatest, Close, Release, CommitFails, ReportFails, Crash, Recover, AllQuiet, vars
<1> QED
  BY <1>1, <1>2, <1>3

\* Every step keeps the rows in their tables.
LEMMA TaggedStep == TxInv /\ Tagged /\ [Next]_vars => Tagged'
<1> SUFFICES ASSUME TxInv, Tagged, [Next]_vars PROVE Tagged'
  OBVIOUS
<1>1. rows \in Seq(StoredRow) /\ job' = job
  BY RowsChange DEF TxInv
<1>2. CASE rows' = rows
  BY <1>1, <1>2 DEF Tagged
<1>3. ASSUME NEW p \in Proc, job[p] \in Tables, rows' = Append(rows, Row(p)) PROVE Tagged'
  <2> DEFINE r == Row(p)
  <2>1. r \in StoredRow /\ r.by = p /\ r.table = job[p] /\ rows' = Append(rows, r)
    BY <1>3 DEF Row, StoredRow
  <2> HIDE DEF r
  <2>2. /\ DOMAIN rows = 1..Len(rows) /\ DOMAIN rows' = 1..(Len(rows) + 1) /\ Len(rows) \in Nat
        /\ rows'[Len(rows) + 1] = r /\ \A i \in DOMAIN rows : rows'[i] = rows[i]
    BY <1>1, <2>1
  <2>3. \A i \in DOMAIN rows' : i \in DOMAIN rows \/ i = Len(rows) + 1
    BY <2>2
  <2> QED
    BY <1>1, <2>1, <2>2, <2>3 DEF Tagged
<1> QED
  BY <1>2, <1>3, RowsChange

\* A step of p moves no other process.
LEMMA OneMoves ==
    ASSUME Held, NEW p \in Proc, Start(p) \/ Step(p) \/ CommitFails(p) \/ ReportFails(p) \/ Crash(p)
    PROVE  \A q \in Proc \ {p} : pc'[q] = pc[q]
<1>1. \E l : pc' = [pc EXCEPT ![p] = l]
  <2> USE DEF Goto
  <2>1. CASE InsertCommand(p)
    BY <2>1 DEF InsertCommand, Refuse, Begin, Insert, InsertFails, Commit, Report, Rollback
  <2>2. CASE RenderCommand(p)
    BY <2>2 DEF RenderCommand, SelectLoans, TruncateLoans, WriteLoans, SelectScenarios,
       TruncateScenarios, WriteScenarios
  <2>3. CASE OtherCommand(p)
    BY <2>3 DEF OtherCommand, EnsureSchema, Append1, Query, InitDb, OpenRead, SelectLatest, Held
  <2>4. CASE Start(p) \/ Acquire(p) \/ TimeOut(p) \/ Open(p) \/ OpenConflict(p) \/ Close(p) \/ Release(p)
    BY <2>4 DEF Start, Acquire, TimeOut, Open, OpenConflict, Close, Release
  <2>5. CASE CommitFails(p) \/ ReportFails(p) \/ Crash(p)
    BY <2>5 DEF CommitFails, ReportFails, Crash
  <2> QED
    BY <2>1, <2>2, <2>3, <2>4, <2>5 DEF Step
<1> QED
  BY <1>1 DEF Held

\* A reader only opens and selects.
Reading == /\ got = [p \in Proc |-> got[p]]
           /\ \A p \in Proc : job[p] \in ReadJob => pc[p] \in {"idle", "open", "select"} \cup Final

\* The steps a reader takes.
LEMMA ReaderMoves ==
    ASSUME Held, Reading, NEW p \in Proc, job[p] \in ReadJob,
           Start(p) \/ Step(p) \/ CommitFails(p) \/ ReportFails(p) \/ Crash(p)
    PROVE  Start(p) \/ OpenRead(p) \/ SelectLatest(p) \/ Crash(p)
<1>1. pc[p] \in {"idle", "open", "select"} \cup Final
  BY DEF Reading
<1>2. ~ InsertCommand(p)
  BY <1>1 DEF InsertCommand, Refuse, Begin, Insert, InsertFails, Commit, Report, Rollback, Final
<1>3. ~ RenderCommand(p)
  BY <1>1 DEF RenderCommand, SelectLoans, TruncateLoans, WriteLoans, SelectScenarios,
     TruncateScenarios, WriteScenarios, Final
<1>4. ~ (Acquire(p) \/ TimeOut(p) \/ Open(p) \/ OpenConflict(p) \/ Close(p) \/ Release(p))
  BY <1>1 DEF Acquire, TimeOut, Open, OpenConflict, Close, Release, Final
<1>5. ~ (EnsureSchema(p) \/ Append1(p) \/ Query(p) \/ InitDb(p) \/ CommitFails(p) \/ ReportFails(p))
  BY <1>1 DEF EnsureSchema, Append1, Query, InitDb, CommitFails, ReportFails, Final
<1> QED
  BY <1>2, <1>3, <1>4, <1>5 DEF Step, OtherCommand

\* Every step keeps the readers reading.
LEMMA ReadingStep == Held /\ Reading /\ [Next]_vars => Reading'
<1> SUFFICES ASSUME Held, Reading, [Next]_vars PROVE Reading'
  OBVIOUS
<1>1. got' = [p \in Proc |-> got'[p]] /\ job' = job
  <2>1. ASSUME NEW p \in Proc, SelectLatest(p) PROVE got' = [q \in Proc |-> got'[q]] /\ job' = job
    <3>1. job' = job /\ \E v : got' = [got EXCEPT ![p] = v]
      BY <2>1 DEF SelectLatest
    <3> QED
      BY <3>1 DEF Reading
  <2>2. CASE ~ \E p \in Proc : SelectLatest(p)
    <3>1. UNCHANGED <<got, job>>
      BY <2>2 DEF Next, Step, Start, Acquire, TimeOut, Open, OpenConflict, InsertCommand, Refuse, Begin, Insert,
         InsertFails, Commit, Report, Rollback, RenderCommand, SelectLoans, TruncateLoans, WriteLoans,
         SelectScenarios, TruncateScenarios, WriteScenarios, OtherCommand, EnsureSchema, Append1, Query, InitDb,
         OpenRead, Close, Release, CommitFails, ReportFails, Crash, Recover, AllQuiet, vars, outVars
    <3> QED
      BY <3>1 DEF Reading
  <2> QED
    BY <2>1, <2>2
<1>2. ASSUME NEW p \in Proc, job[p] \in ReadJob PROVE pc'[p] \in {"idle", "open", "select"} \cup Final
  <2>0. pc[p] \in {"idle", "open", "select"} \cup Final
    BY <1>2 DEF Reading
  <2>1. ASSUME NEW q \in Proc, Start(q) \/ Step(q) \/ CommitFails(q) \/ ReportFails(q) \/ Crash(q)
        PROVE  pc'[p] \in {"idle", "open", "select"} \cup Final
    <3>1. CASE q # p
      BY <2>0, <2>1, <3>1, OneMoves
    <3>2. CASE q = p
      <4>1. Start(p) \/ OpenRead(p) \/ SelectLatest(p) \/ Crash(p)
        BY <1>2, <2>1, <3>2, ReaderMoves
      <4>2. job[p] \notin LockJob
        BY <1>2 DEF ReadJob, LockJob, InsertJob, RenderJob
      <4> QED
        BY <4>1, <4>2 DEF Start, OpenRead, SelectLatest, Crash, Goto, Held, Final
    <3> QED
      BY <3>1, <3>2
  <2>2. CASE UNCHANGED pc
    BY <2>0, <2>2
  <2> QED
    BY <2>1, <2>2 DEF Next, Recover, AllQuiet, vars
<1> QED
  BY <1>1, <1>2 DEF Reading

\* When a reader that could open the database finds no listing, none has been
\* acknowledged.
LEMMA MissStep ==
    ASSUME Held, TxInv, Tagged, Reading, [Next]_vars, NEW p \in Proc,
           job[p] = "readLatest", pc[p] # "done", pc'[p] = "done", got'[p] = None, p \notin conflicts',
           NEW q \in acked, job[q] = "listing"
    PROVE  FALSE
<1>1. SelectLatest(p)
  <2>1. PICK r \in Proc : Start(r) \/ Step(r) \/ CommitFails(r) \/ ReportFails(r) \/ Crash(r)
    BY DEF Next, Recover, AllQuiet, vars
  <2>2. r = p
    BY <2>1, OneMoves
  <2>3. Start(p) \/ OpenRead(p) \/ SelectLatest(p) \/ Crash(p)
    BY <2>1, <2>2, ReaderMoves DEF ReadJob
  <2>4. ~ Start(p) /\ ~ OpenRead(p) /\ ~ Crash(p)
    BY DEF Start, OpenRead, Crash, Goto, Held
  <2> QED
    BY <2>3, <2>4
<1>2. PICK i \in DOMAIN rows : rows[i].by = q
  <2>1. OneRow(q)
    BY DEF TxInv, Tables
  <2>2. PICK i \in DOMAIN rows : RowsOf(q) = {i}
    BY <2>1 DEF OneRow
  <2> QED
    BY <2>2 DEF RowsOf
<1>3. Listed # {}
  BY <1>2 DEF Listed, Tagged
<1>4. PICK j \in DOMAIN rows : got' = [got EXCEPT ![p] = rows[j].by]
  BY <1>1, <1>3 DEF SelectLatest, Listed
<1>5. rows[j].by \in Proc
  <2>1. rows[j] \in StoredRow
    BY DEF TxInv
  <2> QED
    BY <2>1 DEF StoredRow
<1> QED
  BY <1>4, <1>5, DbAssumption DEF Reading

\* A reader that answers None found the database in use, or no listing had been
\* acknowledged before, whatever crashed and whoever lost the lock.
THEOREM MissIsHonest == Spec => MissHasCulprit
<1>1. Init => Tagged /\ Reading
  BY DEF Init, Tagged, Reading
<1>2. Held /\ TxInv /\ Tagged /\ Reading /\ [Next]_vars =>
        [\A p \in Proc :
           /\ job[p] = "readLatest" /\ pc[p] # "done" /\ pc'[p] = "done"
           /\ got'[p] = None /\ p \notin conflicts'
           => ~ \E q \in acked : job[q] = "listing"]_vars
  <2> SUFFICES ASSUME Held, TxInv, Tagged, Reading, [Next]_vars, NEW p \in Proc,
                      job[p] = "readLatest", pc[p] # "done", pc'[p] = "done",
                      got'[p] = None, p \notin conflicts', NEW q \in acked, job[q] = "listing"
               PROVE  FALSE
    OBVIOUS
  <2> QED
    BY MissStep
<1> QED
  BY <1>1, <1>2, TaggedStep, ReadingStep, HeldInit, HeldStep, TxInit, TxStep, PTL DEF Spec, MissHasCulprit
=============================================================================
