-------------------------- MODULE FredCacheProofs ---------------------------
(***************************************************************************)
(* Theorems about FredCache, for any number of calls, faults and clock     *)
(* ticks, and whether or not the lock can be taken from a process inside.  *)
(***************************************************************************)
EXTENDS FredCache, TLAPS

USE DEF Bad, Seeded, Entry, Inode, Writing, Final, Pc

\* Every step keeps the types.
LEMMA TypeStep == TypeOK /\ [Next]_vars => TypeOK'
<1> SUFFICES ASSUME TypeOK, [Next]_vars PROVE TypeOK'
  OBVIOUS
<1> USE FredAssumption DEF TypeOK, Goto, lockVars, fileVars, Fault
<1>1. ASSUME NEW p \in Proc, Load(p) \/ Check(p) \/ Start(p) PROVE TypeOK'
  BY <1>1 DEF Load, Check, Start
<1>2. ASSUME NEW p \in Proc, Answer(p) PROVE TypeOK'
  BY <1>2 DEF Answer
<1>3. ASSUME NEW p \in Proc, Acquire(p) \/ TimeOut(p) PROVE TypeOK'
  BY <1>3 DEF Acquire, TimeOut, Lease!Enter
<1>4. ASSUME NEW p \in Proc, OpenTmp(p) PROVE TypeOK'
  <2> DEFINE i == IF tmp = Nobody THEN p ELSE tmp
  <2>1. i \in Inode
    OBVIOUS
  <2>2. /\ pc' = [pc EXCEPT ![p] = "write"] /\ fd' = [fd EXCEPT ![p] = i]
        /\ content' = [content EXCEPT ![i] = Bad] /\ tmp' = i
        /\ UNCHANGED <<owner, inside, entry, cache, failed, now, faults>>
    BY <1>4 DEF OpenTmp
  <2> HIDE DEF i
  <2>3. Bad \in Entry
    OBVIOUS
  <2>4. content' \in [Inode -> Entry]
    BY <2>2, <2>3
  <2>5. fd' \in [Proc -> Inode \cup {Nobody}] /\ tmp' \in Inode \cup {Nobody}
    BY <2>1, <2>2
  <2>6. pc' \in [Proc -> Pc]
    BY <2>2
  <2> QED
    BY <2>2, <2>4, <2>5, <2>6
<1>5. ASSUME NEW p \in Proc, WriteTmp(p) PROVE TypeOK'
  <2>1. PICK e \in Entry : content' = [content EXCEPT ![fd[p]] = e]
    BY <1>5 DEF WriteTmp
  <2>2. content' \in [Inode -> Entry]
    BY <2>1
  <2> QED
    BY <1>5, <2>2 DEF WriteTmp
<1>6. ASSUME NEW p \in Proc, Replace(p) \/ SyncDir(p) \/ UnlinkTmp(p) PROVE TypeOK'
  BY <1>6 DEF Replace, SyncDir, UnlinkTmp
<1>7. ASSUME NEW p \in Proc, Release(p) PROVE TypeOK'
  BY <1>7 DEF Release, Lease!Exit, Lease!ExitAndRevoke
<1>8. ASSUME NEW p \in Proc, SaveFails(p) \/ Crash(p) PROVE TypeOK'
  BY <1>8 DEF SaveFails, Crash
<1>9. CASE Tick \/ Recover
  BY <1>9 DEF Tick, Recover, Lease!Reclaim, Lease!Revoke
<1>10. CASE UNCHANGED vars
  BY <1>10 DEF vars
<1> QED
  BY <1>1, <1>2, <1>3, <1>4, <1>5, <1>6, <1>7, <1>8, <1>9, <1>10 DEF Next, Step, AllQuiet

\* The first state has the types.
LEMMA TypeInit == Init => TypeOK
<1> SUFFICES ASSUME Init PROVE TypeOK
  OBVIOUS
<1>1. Bad \in Entry /\ Seeded \in Entry
  OBVIOUS
<1>2. content \in [Inode -> Entry]
  BY <1>1 DEF Init
<1> QED
  BY <1>1, <1>2, FredAssumption DEF Init, Lease!Init, TypeOK

\* Every variable of the cache model keeps its type.
THEOREM TypeCorrect == Spec => []TypeOK
  BY TypeInit, TypeStep, PTL DEF Spec

-----------------------------------------------------------------------------
\* Every step keeps an owner for the temporary file.
LEMMA OwnerStep == TypeOK /\ TmpHasOwner /\ [Next]_vars => TmpHasOwner'
<1> SUFFICES ASSUME TypeOK, TmpHasOwner, [Next]_vars PROVE TmpHasOwner'
  OBVIOUS
<1> USE FredAssumption DEF TypeOK, Goto, fileVars, TmpHasOwner
<1>1. ASSUME NEW p \in Proc, Start(p) \/ Load(p) \/ Check(p) \/ Acquire(p) \/ TimeOut(p)
      PROVE  TmpHasOwner'
  BY <1>1 DEF Start, Load, Check, Acquire, TimeOut
<1>2. ASSUME NEW p \in Proc, Answer(p) PROVE TmpHasOwner'
  BY <1>2 DEF Answer
<1>3. ASSUME NEW p \in Proc, OpenTmp(p) PROVE TmpHasOwner'
  BY <1>3 DEF OpenTmp
<1>4. ASSUME NEW p \in Proc, WriteTmp(p) \/ Replace(p) PROVE TmpHasOwner'
  BY <1>4 DEF WriteTmp, Replace
<1>5. ASSUME NEW p \in Proc, SyncDir(p) \/ UnlinkTmp(p) \/ Release(p) PROVE TmpHasOwner'
  BY <1>5 DEF SyncDir, UnlinkTmp, Release
<1>6. ASSUME NEW p \in Proc, SaveFails(p) \/ Crash(p) PROVE TmpHasOwner'
  BY <1>6 DEF SaveFails, Crash
<1>7. CASE Tick \/ Recover \/ UNCHANGED vars
  BY <1>7 DEF Tick, Recover, vars
<1> QED
  BY <1>1, <1>2, <1>3, <1>4, <1>5, <1>6, <1>7 DEF Next, Step, AllQuiet

\* A temporary file outlives its call only if the call crashed, even if the
\* lock is taken away in the middle of a save.
THEOREM NoTmpLeftBehind == Spec => []TmpHasOwner
<1>1. Init => TmpHasOwner
  BY DEF Init, TmpHasOwner
<1> QED
  BY <1>1, TypeInit, TypeStep, OwnerStep, PTL DEF Spec

-----------------------------------------------------------------------------
(* Until two calls write at once, the one that writes does it alone, even  *)
(* if the lock has been taken from it.                                     *)

Early == {"idle", "load", "check", "fetch", "wait", "open"}

\* From the open of the temporary file on; a call that could not open it has
\* failed, and only unlinks.
Writes(p) == pc[p] \in {"write", "replace", "syncDir"} \/ (pc[p] = "unlink" /\ p \notin failed)
LoneWriter == \A p, q \in Proc : Writes(p) /\ Writes(q) => p = q
\* The two paths name different files, and a call's inode is unused until it
\* opens the temporary file.
Apart == /\ tmp # cache
         /\ \A p \in Proc : pc[p] \in Early => p # cache /\ p # tmp
\* What is being saved has a value, and is in the temporary file once written;
\* that file may have lost its name to the unlink of a call that failed.
Prepared == \A p \in Proc :
    /\ pc[p] \in {"wait", "open", "write", "replace"} => entry[p].ok
    /\ pc[p] \in {"write", "replace"} => fd[p] \notin {cache, Nobody} /\ tmp \in {fd[p], Nobody}
    /\ pc[p] = "write" => content[fd[p]] = Bad
    /\ pc[p] = "replace" => content[fd[p]] = entry[p]
\* What a saving call has replaced the cache file by is still there.
Written == \A p \in Proc :
    pc[p] \in {"syncDir", "unlink"} /\ p \notin failed => content[cache] = entry[p]
SaveInv == LoneWriter /\ Apart /\ Prepared /\ WholeFile /\ Written

\* Nothing is being saved at the start.
LEMMA SaveInit == Init => SaveInv
  BY FredAssumption DEF Init, SaveInv, LoneWriter, Writes, Apart, Prepared, WholeFile, Written, Early

\* A step that changes neither the files nor what is saved keeps SaveInv, if
\* those who write afterwards did so before.
LEMMA SaveFrame ==
    ASSUME TypeOK, SaveInv, NEW p \in Proc, NEW l \in Pc, pc' = [pc EXCEPT ![p] = l],
           UNCHANGED <<entry, fileVars>>, failed \subseteq failed',
           l \in Early => pc[p] \in Early,
           l \in {"wait", "open"} => pc[p] \in {"wait", "open"},
           l \notin {"write", "replace", "syncDir"},
           l = "unlink" => p \in failed' \/ pc[p] = "syncDir"
    PROVE  SaveInv'
<1> USE DEF fileVars, TypeOK
<1>1. LoneWriter'
  BY DEF SaveInv, LoneWriter, Writes
<1>2. Apart'
  BY DEF SaveInv, Apart, Early
<1>3. Prepared'
  BY DEF SaveInv, Prepared
<1>4. WholeFile' /\ Written'
  BY DEF SaveInv, WholeFile, Written
<1> QED
  BY <1>1, <1>2, <1>3, <1>4 DEF SaveInv

\* A step that leaves the files alone, or removes the temporary one, keeps
\* Prepared, if those who save were there before with the same entry, or wait
\* with a value.
LEMMA PreparedFrame ==
    ASSUME Prepared, UNCHANGED <<fd, content, cache>>, tmp' \in {tmp, Nobody},
           \A q \in Proc : pc'[q] \in {"wait", "open", "write", "replace"} =>
               \/ pc'[q] = pc[q] /\ entry'[q] = entry[q]
               \/ pc'[q] = "wait" /\ entry'[q].ok
    PROVE  Prepared'
  BY DEF Prepared

\* A step after which no two calls have written at once keeps SaveInv.
LEMMA SaveStep ==
    ASSUME TypeOK, SaveInv, [Next]_vars, ~ overlapped' PROVE SaveInv'
<1> USE FredAssumption
<1>1. ASSUME NEW p \in Proc, Load(p) PROVE SaveInv'
  <2>1. pc' = [pc EXCEPT ![p] = "check"] /\ pc[p] = "load"
        /\ entry' = [entry EXCEPT ![p] = content[cache]] /\ UNCHANGED <<fileVars, failed>>
    BY <1>1 DEF Load, Goto
  <2>2. LoneWriter'
    <3>1. \A q \in Proc : Writes(q)' => Writes(q)
      BY <2>1 DEF Writes, TypeOK
    <3> QED
      BY <3>1 DEF SaveInv, LoneWriter
  <2>3. Apart'
    BY <2>1 DEF SaveInv, Apart, TypeOK, fileVars, Early
  <2>4. Prepared'
    BY <2>1, PreparedFrame DEF SaveInv, TypeOK, fileVars
  <2>5. WholeFile' /\ Written'
    BY <2>1 DEF SaveInv, WholeFile, Written, TypeOK, fileVars
  <2> QED
    BY <2>2, <2>3, <2>4, <2>5 DEF SaveInv
<1>2. ASSUME NEW p \in Proc, Answer(p) PROVE SaveInv'
  <2>1. PICK ok \in BOOLEAN :
           /\ entry' = [entry EXCEPT ![p] = [at |-> now, by |-> p, ok |-> ok]]
           /\ pc' = [pc EXCEPT ![p] = IF ok THEN "wait" ELSE "returned"]
    BY <1>2 DEF Answer, Goto
  <2>2. pc[p] = "fetch" /\ UNCHANGED <<fileVars, failed>>
    BY <1>2 DEF Answer
  <2>3. LoneWriter'
    <3>1. \A q \in Proc : Writes(q)' => Writes(q)
      BY <2>1, <2>2 DEF Writes, TypeOK
    <3> QED
      BY <3>1 DEF SaveInv, LoneWriter
  <2>4. Apart'
    BY <2>1, <2>2 DEF SaveInv, Apart, TypeOK, fileVars, Early
  <2>5. Prepared'
    BY <2>1, <2>2, PreparedFrame DEF SaveInv, TypeOK, fileVars
  <2>6. WholeFile' /\ Written'
    BY <2>1, <2>2 DEF SaveInv, WholeFile, Written, TypeOK, fileVars
  <2> QED
    BY <2>3, <2>4, <2>5, <2>6 DEF SaveInv
<1>3. ASSUME NEW p \in Proc, OpenTmp(p) PROVE SaveInv'
  <2> DEFINE i == IF tmp = Nobody THEN p ELSE tmp
  <2>1. /\ pc[p] = "open" /\ pc' = [pc EXCEPT ![p] = "write"]
        /\ fd' = [fd EXCEPT ![p] = i] /\ content' = [content EXCEPT ![i] = Bad]
        /\ tmp' = i /\ UNCHANGED <<cache, entry, failed>>
    BY <1>3 DEF OpenTmp, Goto
  <2>2. i \in Inode /\ i # cache /\ i # Nobody
    BY <2>1 DEF SaveInv, Apart, Early, TypeOK
  <2>3. i # p => i = tmp /\ tmp \in Inode
    BY DEF TypeOK
  <2>4. \A q \in Proc : pc[q] \notin Writing
    BY <1>3 DEF OpenTmp
  <2> HIDE DEF i
  <2>5. LoneWriter'
    BY <2>1, <2>4 DEF LoneWriter, Writes, TypeOK
  <2>6. Apart'
    BY <2>1, <2>2, <2>3 DEF SaveInv, Apart, Early, TypeOK
  <2>7. Prepared'
    BY <2>1, <2>2, <2>4 DEF SaveInv, Prepared, TypeOK
  <2>8. WholeFile' /\ Written'
    BY <2>1, <2>2, <2>4 DEF SaveInv, WholeFile, Written, TypeOK
  <2> QED
    BY <2>5, <2>6, <2>7, <2>8 DEF SaveInv
<1>4. ASSUME NEW p \in Proc, WriteTmp(p) PROVE SaveInv'
  <2>1. pc[p] = "write" /\ fd[p] \in Inode /\ fd[p] # cache /\ content[fd[p]] = Bad
    BY <1>4 DEF WriteTmp, SaveInv, Prepared, TypeOK
  <2>2. /\ pc' = [pc EXCEPT ![p] = "replace"] /\ content' = [content EXCEPT ![fd[p]] = entry[p]]
        /\ UNCHANGED <<fd, cache, tmp, entry, failed>>
    BY <1>4, <2>1 DEF WriteTmp, Goto
  <2>3. \A q \in Proc : Writes(q) => q = p
    BY <2>1 DEF SaveInv, LoneWriter, Writes
  <2>4. LoneWriter'
    BY <2>2, <2>3 DEF LoneWriter, Writes, TypeOK
  <2>5. Apart'
    BY <2>1, <2>2 DEF SaveInv, Apart, Early, TypeOK
  <2>6. Prepared'
    BY <2>1, <2>2, <2>3 DEF SaveInv, Prepared, Writes, TypeOK
  <2>7. WholeFile' /\ Written'
    BY <2>1, <2>2, <2>3 DEF SaveInv, WholeFile, Written, Writes, TypeOK
  <2> QED
    BY <2>4, <2>5, <2>6, <2>7 DEF SaveInv
<1>5. ASSUME NEW p \in Proc, Replace(p), tmp # Nobody PROVE SaveInv'
  <2>1. pc[p] = "replace" /\ tmp = fd[p] /\ tmp \in Inode /\ content[tmp] = entry[p] /\ entry[p].ok
    BY <1>5 DEF Replace, SaveInv, Prepared, TypeOK
  <2>2. /\ pc' = [pc EXCEPT ![p] = "syncDir"] /\ cache' = tmp /\ tmp' = Nobody
        /\ UNCHANGED <<fd, content, entry, failed>>
    BY <1>5, <2>1 DEF Replace, Goto
  <2>3. \A q \in Proc : Writes(q) => q = p
    BY <2>1 DEF SaveInv, LoneWriter, Writes
  <2>4. LoneWriter'
    BY <2>2, <2>3 DEF LoneWriter, Writes, TypeOK
  <2>5. Apart'
    BY <2>1, <2>2 DEF SaveInv, Apart, Early, TypeOK
  <2>6. Prepared'
    BY <2>1, <2>2, <2>3 DEF SaveInv, Prepared, Writes, TypeOK
  <2>7. WholeFile' /\ Written'
    BY <2>1, <2>2, <2>3 DEF SaveInv, WholeFile, Written, Writes, TypeOK
  <2> QED
    BY <2>4, <2>5, <2>6, <2>7 DEF SaveInv
<1>6. ASSUME NEW p \in Proc, UnlinkTmp(p) PROVE SaveInv'
  <2>1. /\ pc[p] = "unlink" /\ pc' = [pc EXCEPT ![p] = "release"] /\ tmp' = Nobody
        /\ UNCHANGED <<fd, content, cache, entry, failed>>
    BY <1>6 DEF UnlinkTmp, Goto
  <2>2. LoneWriter'
    <3>1. \A q \in Proc : Writes(q)' => Writes(q)
      BY <2>1 DEF Writes, TypeOK
    <3> QED
      BY <3>1 DEF SaveInv, LoneWriter
  <2>3. Apart'
    BY <2>1 DEF SaveInv, Apart, Early, TypeOK
  <2>4. Prepared'
    BY <2>1, PreparedFrame DEF SaveInv, TypeOK
  <2>5. WholeFile' /\ Written'
    BY <2>1 DEF SaveInv, WholeFile, Written, TypeOK
  <2> QED
    BY <2>2, <2>3, <2>4, <2>5 DEF SaveInv
<1>7. ASSUME NEW p \in Proc,
             Start(p) \/ Check(p) \/ Acquire(p) \/ TimeOut(p) \/ SyncDir(p)
               \/ SaveFails(p) \/ Release(p) \/ Crash(p) \/ (Replace(p) /\ tmp = Nobody)
      PROVE  SaveInv'
  <2>1. PICK l \in Pc : pc' = [pc EXCEPT ![p] = l]
    BY <1>7 DEF Start, Check, Acquire, TimeOut, SyncDir, SaveFails, Release, Crash, Replace, Goto
  <2>2. UNCHANGED <<entry, fileVars>> /\ failed \subseteq failed'
    BY <1>7 DEF Start, Check, Acquire, TimeOut, SyncDir, SaveFails, Release, Crash, Replace, fileVars
  <2>3. pc'[p] = l
    BY <2>1 DEF TypeOK
  <2>4. /\ l \in Early => pc[p] \in Early
        /\ l \in {"wait", "open"} => pc[p] \in {"wait", "open"}
        /\ l \notin {"write", "replace", "syncDir"}
        /\ l = "unlink" => p \in failed' \/ pc[p] = "syncDir"
    BY <1>7, <2>3 DEF Start, Check, Acquire, TimeOut, SyncDir, SaveFails, Release, Crash, Replace, Goto,
       TypeOK, Early
  <2> QED
    BY <2>1, <2>2, <2>4, SaveFrame
<1>8. CASE Tick \/ Recover \/ UNCHANGED vars
  <2>1. UNCHANGED <<pc, entry, fileVars, failed>>
    BY <1>8 DEF Tick, Recover, vars, fileVars
  <2> QED
    BY <2>1 DEF SaveInv, LoneWriter, Writes, Apart, Prepared, WholeFile, Written, fileVars
<1> QED
  BY <1>1, <1>2, <1>3, <1>4, <1>5, <1>6, <1>7, <1>8 DEF Next, Step, AllQuiet

\* What has overlapped stays so.
LEMMA OverlapStays == overlapped /\ [Next]_vars => overlapped'
  BY DEF Next, Step, Start, Load, Check, Answer, Acquire, TimeOut, OpenTmp, WriteTmp, Replace, SyncDir,
     UnlinkTmp, Release, SaveFails, Crash, Tick, Recover, AllQuiet, vars

CalmInv == overlapped \/ SaveInv

\* Every step keeps SaveInv until two calls have written at once.
LEMMA CalmStep == TypeOK /\ CalmInv /\ [Next]_vars => CalmInv'
  BY SaveStep, OverlapStays DEF CalmInv

\* As long as no two calls have written at once, the cache file is the old one
\* or a whole entry: it takes an overlap to tear it, whatever crashes, fails or
\* takes the lock away.
THEOREM CacheIsTornOnlyByOverlap == Spec => []TornOnlyByOverlap
<1>1. Init => CalmInv
  BY SaveInit DEF CalmInv
<1>2. CalmInv => TornOnlyByOverlap
  BY DEF CalmInv, SaveInv, TornOnlyByOverlap
<1> QED
  BY <1>1, <1>2, TypeInit, TypeStep, CalmStep, PTL DEF Spec

\* As long as no two calls have written at once, a call that got through its
\* replace has left what it fetched in the cache.
THEOREM CacheIsWritten == Spec => []WriteThrough
<1>1. Init => CalmInv
  BY SaveInit DEF CalmInv
<1>2. CalmInv => WriteThrough
  BY DEF CalmInv, SaveInv, Written, WriteThrough
<1> QED
  BY <1>1, <1>2, TypeInit, TypeStep, CalmStep, PTL DEF Spec

-----------------------------------------------------------------------------
(* What readers see, and what it takes for two calls to write at once.     *)

\* A cache file that _load_cache can read stays readable at every step, crash and
\* failure included, up to the step on which a second call begins to write.
ReadableUntilOverlap == [][overlapped' \/ (content[cache].ok => content'[cache'].ok)]_vars

\* A step between states in which nothing has overlapped does not spoil the file.
LEMMA SpoilStep ==
    ASSUME TypeOK, SaveInv, SaveInv', [Next]_vars
    PROVE  content[cache].ok => content'[cache'].ok
<1>1. CASE \E p \in Proc : OpenTmp(p) \/ WriteTmp(p)
  <2> PICK p \in Proc : OpenTmp(p) \/ WriteTmp(p)
    BY <1>1
  <2>1. cache' = cache
    BY DEF OpenTmp, WriteTmp
  <2>2. cache # tmp /\ (pc[p] = "open" => cache # p) /\ (pc[p] = "write" => fd[p] # cache)
    BY DEF SaveInv, Apart, Early, Prepared
  <2>3. content'[cache] = content[cache]
    BY <2>2 DEF OpenTmp, WriteTmp, TypeOK
  <2> QED
    BY <2>1, <2>3
<1>2. CASE \E p \in Proc : Replace(p)
  <2> PICK p \in Proc : Replace(p)
    BY <1>2
  <2>1. tmp # Nobody => content[tmp].ok
    BY DEF Replace, SaveInv, Prepared
  <2> QED
    BY <2>1 DEF Replace
<1>3. CASE ~ \E p \in Proc : OpenTmp(p) \/ WriteTmp(p) \/ Replace(p)
  <2>1. UNCHANGED <<content, cache>>
    BY <1>3 DEF Next, Step, Start, Load, Check, Answer, Acquire, TimeOut, SyncDir, UnlinkTmp, Release,
       SaveFails, Crash, Tick, Recover, AllQuiet, vars, fileVars
  <2> QED
    BY <2>1
<1> QED
  BY <1>1, <1>2, <1>3

\* Readers lose a good cache file to nothing but an overlap.
THEOREM CacheStaysReadable == Spec => ReadableUntilOverlap
<1>1. TypeOK /\ CalmInv /\ CalmInv' /\ [Next]_vars
        => [overlapped' \/ (content[cache].ok => content'[cache'].ok)]_vars
  BY SpoilStep, OverlapStays DEF CalmInv
<1>2. Init => CalmInv
  BY SaveInit DEF CalmInv
<1> QED
  BY <1>1, <1>2, TypeInit, TypeStep, CalmStep, PTL DEF Spec, ReadableUntilOverlap

\* Two calls come to write at once only if the lock let both inside, which the
\* one that entered first lost while it was there: neither a crash nor a failed
\* write nor the shared temporary file brings it about.
OverlapNeedsTheft == [][~ overlapped /\ overlapped' => \E p, q \in inside : p # q]_vars

Saving == Writing \cup {"open", "release"}

\* The calls that save are inside.
SaversInside == \A p \in Proc : pc[p] \in Saving => p \in inside

\* Every step keeps the savers inside, also where it takes the lock from them.
LEMMA SaversStep == TypeOK /\ SaversInside /\ [Next]_vars => SaversInside'
<1> SUFFICES ASSUME TypeOK, SaversInside, [Next]_vars PROVE SaversInside'
  OBVIOUS
<1> USE FredAssumption DEF TypeOK, SaversInside, Saving, Goto, lockVars, fileVars
<1>1. ASSUME NEW p \in Proc, Start(p) \/ Load(p) \/ Check(p) \/ TimeOut(p) PROVE SaversInside'
  BY <1>1 DEF Start, Load, Check, TimeOut
<1>2. ASSUME NEW p \in Proc, Answer(p) PROVE SaversInside'
  BY <1>2 DEF Answer
<1>3. ASSUME NEW p \in Proc, Acquire(p) PROVE SaversInside'
  BY <1>3 DEF Acquire, Lease!Enter
<1>4. ASSUME NEW p \in Proc, OpenTmp(p) \/ WriteTmp(p) \/ Replace(p) PROVE SaversInside'
  BY <1>4 DEF OpenTmp, WriteTmp, Replace
<1>5. ASSUME NEW p \in Proc, SyncDir(p) \/ SaveFails(p) \/ UnlinkTmp(p) PROVE SaversInside'
  BY <1>5 DEF SyncDir, SaveFails, UnlinkTmp
<1>6. ASSUME NEW p \in Proc, Release(p) PROVE SaversInside'
  BY <1>6 DEF Release, Lease!Exit, Lease!ExitAndRevoke
<1>7. ASSUME NEW p \in Proc, Crash(p) PROVE SaversInside'
  BY <1>7 DEF Crash
<1>8. CASE Recover
  BY <1>8 DEF Recover, Lease!Reclaim, Lease!Revoke
<1>9. CASE Tick \/ UNCHANGED vars
  BY <1>9 DEF Tick, vars
<1> QED
  BY <1>1, <1>2, <1>3, <1>4, <1>5, <1>6, <1>7, <1>8, <1>9 DEF Next, Step, AllQuiet

\* A step that makes two calls write at once finds both inside.
LEMMA OverlapStep ==
    ASSUME SaversInside, ~ overlapped, overlapped', [Next]_vars PROVE \E p, q \in inside : p # q
<1>1. ASSUME NEW p \in Proc, OpenTmp(p) PROVE \E r, q \in inside : r # q
  <2>1. pc[p] = "open" /\ overlapped' = (overlapped \/ \E q \in Proc : pc[q] \in Writing)
    BY <1>1 DEF OpenTmp
  <2>2. PICK q \in Proc : pc[q] \in Writing
    BY <2>1
  <2> QED
    BY <2>1, <2>2 DEF SaversInside, Saving
<1>2. CASE ~ \E p \in Proc : OpenTmp(p)
  <2>1. UNCHANGED overlapped
    BY <1>2 DEF Next, Step, Start, Load, Check, Answer, Acquire, TimeOut, WriteTmp, Replace, SyncDir,
       UnlinkTmp, Release, SaveFails, Crash, Tick, Recover, AllQuiet, vars
  <2> QED
    BY <2>1
<1> QED
  BY <1>1, <1>2

\* The promises made "as long as no two calls have written at once" last until
\* the lock is taken from a call that is inside.
THEOREM OverlapHasCause == Spec => OverlapNeedsTheft
<1>1. Init => SaversInside
  BY DEF Init, SaversInside, Saving
<1>2. TypeOK /\ SaversInside /\ [Next]_vars
        => [~ overlapped /\ overlapped' => \E p, q \in inside : p # q]_vars
  BY OverlapStep
<1> QED
  BY <1>1, <1>2, TypeInit, TypeStep, SaversStep, PTL DEF Spec, OverlapNeedsTheft
=============================================================================
