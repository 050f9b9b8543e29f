------------------------ MODULE DynamicUpdateProofs ------------------------
(***************************************************************************)
(* Proofs about DynamicUpdate, for any number of handlers, readers,        *)
(* records, messages and namespaces.                                       *)
(***************************************************************************)
EXTENDS DynamicUpdate, TLAPS

-----------------------------------------------------------------------------
(* Locks and types.                                                        *)

\* What the types and the locks of the core preserve together: an RUnlock
\* keeps a count of read locks natural because the position in the code says
\* that there is one to give back.
LockInv == TypeOK /\ LocksBalanced

\* An entry the loop is at is one of the kinds a message may carry.
LEMMA EntryType ==
    ASSUME TypeOK, NEW h \in Updaters, InLoop(h)
    PROVE  Entry(h) \in Entries
<1>1. msg[h] \in Seq(Entries)
  BY MessagesAssumption DEF TypeOK
<1>2. idx[h] \in 1..Len(msg[h])
  BY <1>1 DEF TypeOK, InLoop
<1>. QED
  BY <1>1, <1>2 DEF Entry

\* Updaters and readers are goroutines, and no goroutine is both.
LEMMA Roles ==
    /\ Updaters \subseteq Procs
    /\ Readers \subseteq Procs
    /\ NoProc \notin Procs
    /\ \A h \in Updaters : h \notin Readers
BY ProcsAssumption, NoProcIsNoGoroutine

\* The initial state has no lock taken and every variable of its type.
LEMMA InitLockInv == Init => LockInv
<1>. SUFFICES ASSUME Init PROVE LockInv
  OBVIOUS
<1>1. Saved(store) \subseteq Supported
  BY DEF Init, Saved
<1>2. TypeOK
  BY <1>1, Roles, MessagesAssumption
  DEF Init, LockInit, TypeOK, UpdaterSteps, ReaderSteps, FetchedSteps
<1>3. LocksBalanced
  BY Roles DEF Init, LockInit, LocksBalanced, HeldAt, FetchedSteps
<1>. QED
  BY <1>2, <1>3 DEF LockInv

\* Every step keeps the types, given the lock counts.
LEMMA TypeStep == LockInv /\ [Next]_vars => TypeOK'
<1>. SUFFICES ASSUME LockInv, [Next]_vars PROVE TypeOK'
  OBVIOUS
<1>. USE Roles DEF LockInv, TypeOK, UpdaterSteps, ReaderSteps, FetchedSteps
<1>1. CASE UNCHANGED vars
  BY <1>1 DEF vars, lockVars, localVars, history
<1>2. ASSUME NEW h \in Updaters, Receive(h) PROVE TypeOK'
  BY <1>2 DEF Receive, Goto, lockVars, history
<1>3. ASSUME NEW h \in Updaters, CallLock(h) PROVE TypeOK'
  BY <1>3 DEF CallLock, AnnounceLock, Goto, history
<1>4. ASSUME NEW h \in Updaters, ApplyEntry(h) PROVE TypeOK'
  <2>1. Entry(h).rr \in Supported /\ Entry(h).rr \in RRs
    BY <1>4, RecordsAssumption DEF ApplyEntry, Accepts
  <2>. QED
    BY <1>4, <2>1 DEF ApplyEntry, InsertRR, DeleteRR, lockVars
<1>5. ASSUME NEW h \in Updaters, RejectEntry(h) PROVE TypeOK'
  BY <1>5, MessagesAssumption DEF RejectEntry, Unlock, Return, Goto, history
<1>6. ASSUME NEW h \in Updaters, FinishLoop(h) PROVE TypeOK'
  BY <1>6 DEF FinishLoop, Unlock, Goto, history
<1>7. ASSUME NEW h \in Updaters, CallRLock(h) PROVE TypeOK'
  BY <1>7 DEF CallRLock, RLock, Goto, history
<1>8. ASSUME NEW h \in Updaters, GetZone(h) PROVE TypeOK'
  BY <1>8 DEF GetZone, Goto, lockVars, history
<1>9. ASSUME NEW h \in Updaters, GetZoneFails(h) PROVE TypeOK'
  BY SMTT(30), <1>9, MessagesAssumption
  DEF GetZoneFails, RUnlock, Granted, Return, Goto, history, LocksBalanced, HeldAt
<1>10. ASSUME NEW h \in Updaters, ListRRs(h) PROVE TypeOK'
  BY <1>10 DEF ListRRs, Goto, lockVars, history
<1>11. ASSUME NEW h \in Updaters, UpdateStatus(h) PROVE TypeOK'
  BY <1>11 DEF UpdateStatus, CommitStatus, Goto, lockVars, history
<1>12. ASSUME NEW h \in Updaters, UpdateStatusFails(h) PROVE TypeOK'
  <2>1. readers' \in [Procs -> Nat]
    BY <1>12 DEF UpdateStatusFails, RUnlock, LocksBalanced, HeldAt
  <2>2. store' \in [Namespaces -> SUBSET Supported] /\ fresh' \subseteq Updaters
    BY <1>12 DEF UpdateStatusFails, CommitStatus
  <2>. QED
    BY <1>12, <2>1, <2>2, MessagesAssumption
    DEF UpdateStatusFails, RUnlock, Return, Goto, history
<1>13. ASSUME NEW h \in Updaters, CallMerge(h) PROVE TypeOK'
  BY <1>13 DEF CallMerge, RLock, Goto, history
<1>14. ASSUME NEW h \in Updaters, FinishMerge(h) PROVE TypeOK'
  BY <1>14 DEF FinishMerge, RUnlock, Granted, Goto, history, LocksBalanced, HeldAt
<1>15. ASSUME NEW h \in Updaters, Reply(h) PROVE TypeOK'
  <2>1. readers' \in [Procs -> Nat]
    BY <1>15 DEF Reply, RUnlock, LocksBalanced, HeldAt
  <2>2. kept' \subseteq RRs /\ gone' \subseteq RRs
    BY <1>15, RecordsAssumption DEF Reply
  <2>. QED
    BY <1>15, <2>1, <2>2, MessagesAssumption DEF Reply, RUnlock, Return, Goto
<1>16. ASSUME NEW r \in Readers, StartRead(r) PROVE TypeOK'
  BY <1>16 DEF StartRead, RLock, Goto, history
<1>17. ASSUME NEW r \in Readers, FinishRead(r) PROVE TypeOK'
  BY <1>17 DEF FinishRead, RUnlock, Granted, Goto, history, LocksBalanced, HeldAt
<1>18. ASSUME NEW n \in Namespaces, EditObject(n) PROVE TypeOK'
  BY <1>18 DEF EditObject, lockVars, localVars, history
<1>19. CASE Restart
  <2>1. Saved(store) \subseteq Supported
    BY DEF Saved
  <2>. QED
    BY <1>19, <2>1, MessagesAssumption DEF Restart, history
<1>. QED
  BY <1>1, <1>2, <1>3, <1>4, <1>5, <1>6, <1>7, <1>8, <1>9, <1>10, <1>11, <1>12,
     <1>13, <1>14, <1>15, <1>16, <1>17, <1>18, <1>19 DEF Next, UpdaterStep

\* Every step keeps the lock counts in line with the positions in the code.
LEMMA LockStep == LockInv /\ [Next]_vars => LocksBalanced'
<1>. SUFFICES ASSUME LockInv, [Next]_vars PROVE LocksBalanced'
  OBVIOUS
<1>. USE Roles
     DEF LockInv, TypeOK, LocksBalanced, HeldAt, UpdaterSteps, ReaderSteps,
         FetchedSteps
<1>1. CASE UNCHANGED vars
  BY <1>1 DEF vars, lockVars, localVars, history
<1>2. ASSUME NEW h \in Updaters, Receive(h) PROVE LocksBalanced'
  BY <1>2 DEF Receive, Goto, lockVars
<1>3. ASSUME NEW h \in Updaters, CallLock(h) PROVE LocksBalanced'
  BY <1>3 DEF CallLock, AnnounceLock, Goto
<1>4. ASSUME NEW h \in Updaters, ApplyEntry(h) PROVE LocksBalanced'
  BY <1>4 DEF ApplyEntry, lockVars
<1>5. ASSUME NEW h \in Updaters, RejectEntry(h) PROVE LocksBalanced'
  BY <1>5 DEF RejectEntry, InLoop, Unlock, Return, Goto
<1>6. ASSUME NEW h \in Updaters, FinishLoop(h) PROVE LocksBalanced'
  BY <1>6 DEF FinishLoop, Unlock, Goto
<1>7. ASSUME NEW h \in Updaters, CallRLock(h) PROVE LocksBalanced'
  BY <1>7 DEF CallRLock, RLock, Goto
<1>8. ASSUME NEW h \in Updaters, GetZone(h) PROVE LocksBalanced'
  BY <1>8 DEF GetZone, Granted, Goto, lockVars
<1>9. ASSUME NEW h \in Updaters, GetZoneFails(h) PROVE LocksBalanced'
  BY <1>9 DEF GetZoneFails, RUnlock, Granted, Return, Goto
<1>10. ASSUME NEW h \in Updaters, ListRRs(h) PROVE LocksBalanced'
  BY <1>10 DEF ListRRs, Goto, lockVars
<1>11. ASSUME NEW h \in Updaters, UpdateStatus(h) PROVE LocksBalanced'
  BY <1>11 DEF UpdateStatus, Goto, lockVars
<1>12. ASSUME NEW h \in Updaters, UpdateStatusFails(h) PROVE LocksBalanced'
  BY <1>12 DEF UpdateStatusFails, RUnlock, Return, Goto
<1>13. ASSUME NEW h \in Updaters, CallMerge(h) PROVE LocksBalanced'
  BY <1>13 DEF CallMerge, RLock, Goto
<1>14. ASSUME NEW h \in Updaters, FinishMerge(h) PROVE LocksBalanced'
  BY <1>14 DEF FinishMerge, RUnlock, Granted, Goto
<1>15. ASSUME NEW h \in Updaters, Reply(h) PROVE LocksBalanced'
  BY <1>15 DEF Reply, RUnlock, Return, Goto
<1>16. ASSUME NEW r \in Readers, StartRead(r) PROVE LocksBalanced'
  BY <1>16 DEF StartRead, RLock, Goto
<1>17. ASSUME NEW r \in Readers, FinishRead(r) PROVE LocksBalanced'
  BY <1>17 DEF FinishRead, RUnlock, Granted, Goto
<1>18. ASSUME NEW n \in Namespaces, EditObject(n) PROVE LocksBalanced'
  BY <1>18 DEF EditObject, lockVars, localVars
<1>19. CASE Restart
  BY <1>19 DEF Restart
<1>. QED
  BY <1>1, <1>2, <1>3, <1>4, <1>5, <1>6, <1>7, <1>8, <1>9, <1>10, <1>11, <1>12,
     <1>13, <1>14, <1>15, <1>16, <1>17, <1>18, <1>19 DEF Next, UpdaterStep

\* LockInv holds in every reachable state.
LEMMA LockInvariance == Spec => []LockInv
<1>1. LockInv /\ [Next]_vars => LockInv'
  BY TypeStep, LockStep DEF LockInv
<1>. QED
  BY <1>1, InitLockInv, PTL DEF Spec

\* Type correctness: every variable of zupd's update path keeps its kind of
\* value, whatever messages arrive and whenever the process restarts.
THEOREM TypeCorrect == Spec => []TypeOK
BY LockInvariance, PTL DEF LockInv

\* The early returns and deferred unlocks of ServeDNS and Merge add up: the
\* write lock is held only in the loop, and no read lock is lost or left.
THEOREM LocksCorrect == Spec => []LocksBalanced
BY LockInvariance, PTL DEF LockInv

-----------------------------------------------------------------------------
(* Exclusion.                                                              *)

\* While a handler changes records no goroutine is at a step at which it
\* has listed the zone or written the status.
LEMMA WriterIsAlone ==
    ASSUME LockInv, NEW h \in Updaters, WriteHeld(h), NEW g \in Updaters
    PROVE  pc[g] \notin FetchedSteps
<1>1. readers[g] = 0
  BY Roles DEF WriteHeld
<1>2. readers[g] = HeldAt(g)
  BY Roles DEF LockInv, LocksBalanced
<1>3. g \in blocked => pc[g] \in {"get", "copy", "read"}
  BY DEF LockInv, LocksBalanced
<1>. QED
  BY <1>1, <1>2, <1>3 DEF HeldAt, FetchedSteps

-----------------------------------------------------------------------------
(* Who waits for whom.                                                     *)

\* Whoever waits waits for the handler that has called Lock.
LEMMA WaitsForWriter ==
    ASSUME LockInv, NEW p \in Procs, Waits(p)
    PROVE  writer \in Updaters /\ pc[writer] = "apply"
<1>1. writer \in Updaters \cup {NoProc}
  BY DEF LockInv, TypeOK
<1>2. pc[p] = "apply" => p \in Updaters
  BY ProcsAssumption DEF LockInv, TypeOK, ReaderSteps
<1>3. writer # NoProc
  BY <1>2, Roles DEF LockInv, LocksBalanced, Waits
<1>. QED
  BY <1>1, <1>3 DEF LockInv, LocksBalanced

\* A goroutine with a read lock goes on, or is a handler stuck in Merge.
LEMMA ReadersGoOn ==
    ASSUME LockInv, NEW p \in Procs, readers[p] # 0
    PROVE  (pc[p] # "idle" /\ ~Waits(p)) \/ MergeBlocks
<1>1. HeldAt(p) # 0
  BY DEF LockInv, LocksBalanced
<1>2. CASE p \notin blocked
  BY <1>1, <1>2 DEF HeldAt, FetchedSteps, Waits
<1>3. CASE p \in blocked
  <2>1. pc[p] = "copy"
    BY <1>1, <1>3 DEF LockInv, LocksBalanced, HeldAt, FetchedSteps
  <2>2. p \in Updaters
    BY <2>1, ProcsAssumption DEF LockInv, TypeOK, ReaderSteps
  <2>. QED
    BY <1>3, <2>1, <2>2 DEF MergeBlocks
<1>. QED
  BY <1>2, <1>3

\* DynamicUpdate, NoCircularWait: the locks of ServeDNS, Merge and transfers
\* leave no set of goroutines that only wait, however many there are, except
\* where Merge waits for the lock its caller holds.
THEOREM SomebodyGoesOn == Spec => []NoCircularWait
<1>1. LockInv => NoCircularWait
  <2>. SUFFICES ASSUME LockInv, NEW p \in Procs, Waits(p)
                PROVE  (\E q \in Procs : pc[q] # "idle" /\ ~Waits(q)) \/ MergeBlocks
    BY DEF NoCircularWait
  <2>1. writer \in Updaters /\ writer \in Procs /\ pc[writer] = "apply"
    BY WaitsForWriter, Roles
  <2>2. CASE WriteHeld(writer)
    <3>1. writer \notin blocked
      BY <2>1 DEF LockInv, LocksBalanced
    <3>2. pc[writer] # "idle" /\ ~Waits(writer)
      BY <2>1, <2>2, <3>1 DEF Waits
    <3>. QED
      BY <2>1, <3>2
  <2>3. CASE ~WriteHeld(writer)
    <3>1. PICK q \in Procs : readers[q] # 0
      BY <2>3 DEF WriteHeld
    <3>. QED
      BY <3>1, ReadersGoOn
  <2>. QED
    BY <2>2, <2>3
<1>. QED
  BY <1>1, LockInvariance, PTL

\* DynamicUpdate, StuckInMergeForGood: the read lock a stuck handler holds
\* keeps the writer it waits for from ever getting, and giving back, its lock.
THEOREM StuckForGood == Spec => StuckInMergeForGood
<1>1. ASSUME LockInv, [Next]_vars, NEW h \in Updaters, pc[h] = "copy", h \in blocked
      PROVE  \/ pc'[h] = "copy" /\ h \in blocked'
             \/ \A p \in Procs : pc'[p] = "idle"
  <2>1. h \in Procs /\ readers[h] = 1
    BY <1>1, Roles DEF LockInv, LocksBalanced, HeldAt, FetchedSteps
  <2>2. \A g \in Updaters : ~WriteHeld(g)
    BY <2>1 DEF WriteHeld
  <2>. USE <1>1, <2>1, Roles DEF LockInv, TypeOK, Goto
  <2>3. CASE Restart
    BY <2>3 DEF Restart
  <2>4. ASSUME NEW g \in Updaters, Receive(g) \/ UpdaterStep(g)
        PROVE  pc'[h] = "copy" /\ h \in blocked'
    <3>1. ~RejectEntry(g) /\ ~FinishLoop(g)
      BY <2>2 DEF RejectEntry, InLoop, FinishLoop
    <3>2. g # h
      BY <2>2, <2>4
      DEF Receive, UpdaterStep, CallLock, ApplyEntry, InLoop, RejectEntry, FinishLoop,
          CallRLock, GetZone, GetZoneFails, ListRRs, UpdateStatus, UpdateStatusFails,
          CallMerge, FinishMerge, Granted, Reply
    <3>3. pc'[h] = pc[h]
      BY <2>4, <3>1, <3>2
      DEF Receive, UpdaterStep, CallLock, ApplyEntry,
          CallRLock, GetZone, GetZoneFails, ListRRs, UpdateStatus, UpdateStatusFails,
          CallMerge, FinishMerge, Reply, Return
    <3>4. h \in blocked'
      BY <2>4, <3>1
      DEF Receive, UpdaterStep, CallLock, ApplyEntry,
          CallRLock, GetZone, GetZoneFails, ListRRs, UpdateStatus, UpdateStatusFails,
          CallMerge, FinishMerge, Reply, lockVars, AnnounceLock, RLock, RUnlock
    <3>. QED
      BY <3>3, <3>4
  <2>5. ASSUME NEW r \in Readers, StartRead(r) \/ FinishRead(r)
        PROVE  pc'[h] = "copy" /\ h \in blocked'
    BY <2>5 DEF StartRead, FinishRead, RLock, RUnlock
  <2>6. CASE UNCHANGED vars \/ \E n \in Namespaces : EditObject(n)
    BY <2>6 DEF EditObject, vars, lockVars, localVars
  <2>. QED
    BY <2>3, <2>4, <2>5, <2>6 DEF Next
<1>2. ASSUME LockInv, [Next]_vars
      PROVE  [\A h \in Updaters : pc[h] = "copy" /\ h \in blocked =>
                (pc'[h] = "copy" /\ h \in blocked')
                \/ (\A p \in Procs : pc'[p] = "idle")]_vars
  <2>1. \A h \in Updaters : pc[h] = "copy" /\ h \in blocked =>
            (pc'[h] = "copy" /\ h \in blocked')
            \/ (\A p \in Procs : pc'[p] = "idle")
    BY <1>1, <1>2
  <2>. QED
    BY <2>1
<1>. QED
  BY <1>2, LockInvariance, PTL DEF Spec, StuckInMergeForGood

-----------------------------------------------------------------------------
(* What is saved when an update is acknowledged.                           *)

\* The inductive invariant.  AckedRecordsDurable needs AckBacked: the reply
\* vouches for the zone in memory because the object has the same records.
\* AckBacked needs ListIsCurrent: the status written is the list.  Both need
\* the locks: nothing changes the zone after the list was made.
DataInv == ListIsCurrent /\ AckBacked /\ AckedRecordsDurable
IInv == LockInv /\ DataInv

\* A status write saves exactly the zone's content.
LEMMA CommitSavesZone ==
    ASSUME IInv, NEW h \in Updaters, pc[h] = "status", CommitStatus(h)
    PROVE  /\ ns[h] \in Namespaces
           /\ store' = [store EXCEPT ![ns[h]] = mem]
           /\ store'[ns[h]] = mem
           /\ \A n \in Namespaces : store'[n] = store[n] \/ store'[n] = mem
           /\ mem \subseteq Saved(store')
<1>. USE DEF IInv, LockInv, TypeOK
<1>1. ns[h] \in Namespaces
  BY DEF FetchedSteps
<1>2. store' = [store EXCEPT ![ns[h]] = mem]
  BY DEF CommitStatus, DataInv, ListIsCurrent
<1>3. store'[ns[h]] = mem
  BY <1>1, <1>2
<1>4. \A n \in Namespaces : store'[n] = store[n] \/ store'[n] = mem
  BY <1>1, <1>2
<1>. QED
  BY <1>1, <1>2, <1>3, <1>4 DEF Saved

\* A step that leaves the zone, the store and the history alone, and takes
\* no handler to a step at which DataInv asks more of it, keeps DataInv.
LEMMA QuietStep ==
    ASSUME DataInv, UNCHANGED <<mem, store, history>>,
           \A g \in Updaters :
             /\ pc'[g] = "status" => pc[g] = "status" /\ snap'[g] = snap[g]
             /\ pc'[g] \in {"merge", "copy", "reply"} =>
                  pc[g] \in {"merge", "copy", "reply"} /\ ns'[g] = ns[g]
    PROVE  DataInv'
<1>1. ListIsCurrent'
  BY DEF DataInv, ListIsCurrent, history
<1>2. AckBacked'
  BY DEF DataInv, AckBacked, history
<1>3. AckedRecordsDurable'
  BY DEF DataInv, AckedRecordsDurable, Saved, history
<1>. QED
  BY <1>1, <1>2, <1>3 DEF DataInv

\* Every step keeps the data invariant.
LEMMA DataStep == IInv /\ [Next]_vars => DataInv'
<1>. SUFFICES ASSUME IInv, [Next]_vars PROVE DataInv'
  OBVIOUS
<1>. USE Roles DEF IInv, LockInv, TypeOK
<1>1. CASE UNCHANGED vars
  BY <1>1, QuietStep DEF vars, localVars
<1>2. ASSUME NEW h \in Updaters, Receive(h) PROVE DataInv'
  BY <1>2, QuietStep DEF Receive, Goto
<1>3. ASSUME NEW h \in Updaters, CallLock(h) PROVE DataInv'
  BY <1>3, QuietStep DEF CallLock, Goto
<1>4. ASSUME NEW h \in Updaters, ApplyEntry(h) PROVE DataInv'
  <2>1. \A g \in Updaters : pc'[g] \notin FetchedSteps
    BY <1>4, WriterIsAlone DEF ApplyEntry, InLoop
  <2>2. ListIsCurrent' /\ AckBacked'
    BY <2>1 DEF ListIsCurrent, AckBacked, FetchedSteps
  <2>3. kept \subseteq mem /\ kept \subseteq Saved(store) /\ store' = store
    BY <1>4 DEF DataInv, AckedRecordsDurable, ApplyEntry
  <2>4. kept' \subseteq mem' /\ kept' \subseteq kept
    BY <1>4, <2>3 DEF ApplyEntry, InsertRR, DeleteRR
  <2>5. AckedRecordsDurable'
    BY <2>3, <2>4 DEF AckedRecordsDurable, Saved
  <2>. QED
    BY <2>2, <2>5 DEF DataInv
<1>5. ASSUME NEW h \in Updaters, RejectEntry(h) PROVE DataInv'
  BY <1>5, QuietStep DEF RejectEntry, Return, Goto
<1>6. ASSUME NEW h \in Updaters, FinishLoop(h) PROVE DataInv'
  BY <1>6, QuietStep DEF FinishLoop, Goto
<1>7. ASSUME NEW h \in Updaters, CallRLock(h) PROVE DataInv'
  BY <1>7, QuietStep DEF CallRLock, Goto
<1>8. ASSUME NEW h \in Updaters, GetZone(h) PROVE DataInv'
  BY <1>8, QuietStep DEF GetZone, Goto
<1>9. ASSUME NEW h \in Updaters, GetZoneFails(h) PROVE DataInv'
  BY <1>9, QuietStep DEF GetZoneFails, Return, Goto
<1>10. ASSUME NEW h \in Updaters, ListRRs(h) PROVE DataInv'
  <2>1. ListIsCurrent'
    BY <1>10 DEF ListRRs, Goto, DataInv, ListIsCurrent
  <2>2. AckBacked'
    BY <1>10 DEF ListRRs, Goto, DataInv, AckBacked
  <2>3. AckedRecordsDurable'
    BY <1>10 DEF ListRRs, DataInv, AckedRecordsDurable, Saved, history
  <2>. QED
    BY <2>1, <2>2, <2>3 DEF DataInv
<1>11. ASSUME NEW h \in Updaters, UpdateStatus(h) PROVE DataInv'
  <2>1. ListIsCurrent'
    BY <1>11 DEF UpdateStatus, Goto, DataInv, ListIsCurrent
  <2>2. AckBacked'
    <3>1. SUFFICES ASSUME NEW g \in Updaters, pc'[g] \in {"merge", "copy", "reply"}
                   PROVE  store'[ns[g]] = mem
      BY <1>11 DEF UpdateStatus, AckBacked
    <3>2. CASE g = h
      BY <1>11, <3>2, CommitSavesZone DEF UpdateStatus
    <3>3. CASE g # h
      <4>1. pc[g] \in {"merge", "copy", "reply"}
        BY <1>11, <3>1, <3>3 DEF UpdateStatus, Goto
      <4>2. ns[g] \in Namespaces /\ store[ns[g]] = mem
        BY <4>1 DEF DataInv, AckBacked, FetchedSteps
      <4>. QED
        BY <1>11, <4>2, CommitSavesZone DEF UpdateStatus
    <3>. QED
      BY <3>2, <3>3
  <2>3. AckedRecordsDurable'
    BY <1>11, CommitSavesZone DEF UpdateStatus, DataInv, AckedRecordsDurable, history
  <2>. QED
    BY <2>1, <2>2, <2>3 DEF DataInv
<1>12. ASSUME NEW h \in Updaters, UpdateStatusFails(h) PROVE DataInv'
  <2>1. CASE UNCHANGED store
    BY <1>12, <2>1, QuietStep DEF UpdateStatusFails, Return, Goto, history
  <2>2. CASE CommitStatus(h)
    <3>1. ListIsCurrent'
      BY <1>12 DEF UpdateStatusFails, Return, Goto, DataInv, ListIsCurrent
    <3>2. AckBacked'
      <4>1. SUFFICES ASSUME NEW g \in Updaters, pc'[g] \in {"merge", "copy", "reply"}
                     PROVE  store'[ns'[g]] = mem
        BY <1>12 DEF UpdateStatusFails, AckBacked
      <4>2. pc[g] \in {"merge", "copy", "reply"} /\ ns'[g] = ns[g]
        BY <1>12, <4>1 DEF UpdateStatusFails, Return, Goto
      <4>3. ns[g] \in Namespaces /\ store[ns[g]] = mem
        BY <4>2 DEF DataInv, AckBacked, FetchedSteps
      <4>. QED
        BY <1>12, <2>2, <4>2, <4>3, CommitSavesZone DEF UpdateStatusFails
    <3>3. AckedRecordsDurable'
      BY <1>12, <2>2, CommitSavesZone
      DEF UpdateStatusFails, DataInv, AckedRecordsDurable, history
    <3>. QED
      BY <3>1, <3>2, <3>3 DEF DataInv
  <2>. QED
    BY <1>12, <2>1, <2>2 DEF UpdateStatusFails
<1>13. ASSUME NEW h \in Updaters, CallMerge(h) PROVE DataInv'
  BY <1>13, QuietStep DEF CallMerge, Goto
<1>14. ASSUME NEW h \in Updaters, FinishMerge(h) PROVE DataInv'
  BY <1>14, QuietStep DEF FinishMerge, Goto
<1>15. ASSUME NEW h \in Updaters, Reply(h) PROVE DataInv'
  <2>1. ListIsCurrent' /\ AckBacked'
    BY <1>15 DEF Reply, Return, Goto, DataInv, ListIsCurrent, AckBacked
  <2>2. ns[h] \in Namespaces /\ store[ns[h]] = mem
    BY <1>15 DEF Reply, DataInv, AckBacked, FetchedSteps
  <2>3. AckedRecordsDurable'
    BY <1>15, <2>2 DEF Reply, AckedRecordsDurable, Saved
  <2>. QED
    BY <2>1, <2>3 DEF DataInv
<1>16. ASSUME NEW r \in Readers, StartRead(r) PROVE DataInv'
  BY <1>16, QuietStep DEF StartRead, Goto
<1>17. ASSUME NEW r \in Readers, FinishRead(r) PROVE DataInv'
  BY <1>17, QuietStep DEF FinishRead, Goto
<1>18. ASSUME NEW n \in Namespaces, EditObject(n) PROVE DataInv'
  BY <1>18, QuietStep DEF EditObject, localVars
<1>19. CASE Restart
  BY <1>19
  DEF Restart, DataInv, ListIsCurrent, AckBacked, AckedRecordsDurable, Saved, history
<1>. QED
  BY <1>1, <1>2, <1>3, <1>4, <1>5, <1>6, <1>7, <1>8, <1>9, <1>10, <1>11, <1>12,
     <1>13, <1>14, <1>15, <1>16, <1>17, <1>18, <1>19 DEF Next, UpdaterStep

\* The inductive invariant holds in every reachable state.
LEMMA Invariance == Spec => []IInv
<1>1. Init => IInv
  BY InitLockInv, Roles
  DEF Init, IInv, DataInv, ListIsCurrent, AckBacked, AckedRecordsDurable
<1>2. IInv /\ [Next]_vars => IInv'
  BY TypeStep, LockStep, DataStep DEF IInv, LockInv
<1>. QED
  BY <1>1, <1>2, PTL DEF Spec

\* When a handler acknowledges an update, and ever since its status write,
\* the object it wrote has the records of the zone in memory.
THEOREM AckBackedAlways == Spec => []AckBacked
BY Invariance, PTL DEF IInv, DataInv

\* The list a handler is about to write to the status is the zone's content.
THEOREM ListIsCurrentAlways == Spec => []ListIsCurrent
BY Invariance, PTL DEF IInv, DataInv

\* Records that acknowledged updates left in the zone survive everything but
\* an update that removes them, restarts included.
THEOREM AckedRecordsSurvive == Spec => []AckedRecordsDurable
BY Invariance, PTL DEF IInv, DataInv

\* No status write loses the effect of a concurrent update.
THEOREM NoLostStatusWrite == Spec => StatusWritesAreCurrent
<1>1. IInv /\ [Next]_vars =>
        [\A n \in Namespaces : store'[n] # store[n] => store'[n] = mem]_vars
  <2>. SUFFICES ASSUME IInv, [Next]_vars, NEW n \in Namespaces, store'[n] # store[n]
                PROVE  store'[n] = mem
    OBVIOUS
  <2>1. PICK h \in Updaters : UpdateStatus(h) \/ UpdateStatusFails(h)
    BY DEF Next, UpdaterStep, vars, Receive, CallLock, ApplyEntry, RejectEntry,
       FinishLoop, CallRLock, GetZone, GetZoneFails, ListRRs, CallMerge,
       FinishMerge, Reply, StartRead, FinishRead, EditObject, Restart
  <2>2. pc[h] = "status" /\ CommitStatus(h)
    BY <2>1 DEF UpdateStatus, UpdateStatusFails
  <2>. QED
    BY <2>2, CommitSavesZone
<1>. QED
  BY <1>1, Invariance, PTL DEF Spec, StatusWritesAreCurrent

-----------------------------------------------------------------------------
(* One namespace: the update path keeps the promise of DurableZone.        *)

OneNamespace == \E n : Namespaces = {n}

\* With one namespace, what a restart would load is the one object's status.
LEMMA SavedIsOneStatus ==
    ASSUME OneNamespace, NEW n \in Namespaces
    PROVE  Saved(store) = store[n] /\ Saved(store)' = store'[n]
BY DEF OneNamespace, Saved

\* With one namespace a status write makes the saved records those in memory.
LEMMA CommitPersists ==
    ASSUME OneNamespace, IInv, NEW h \in Updaters, pc[h] = "status", CommitStatus(h)
    PROVE  Saved(store)' = mem
BY CommitSavesZone, SavedIsOneStatus

\* Every step of the update path is a step of the promise, or none.
LEMMA PromiseStep ==
    ASSUME OneNamespace, IInv, [Next]_vars
    PROVE  [Promise!Next]_(Promise!vars)
<1>. USE DEF Promise!vars, history
<1>. DEFINE Quiet == UNCHANGED <<mem, store, kept, gone>>
<1>1. Quiet => UNCHANGED Promise!vars
  BY DEF Saved
<1>2. CASE UNCHANGED vars
  BY <1>1, <1>2 DEF vars
<1>3. ASSUME NEW h \in Updaters, ApplyEntry(h) PROVE Promise!Next
  <2>1. Entry(h).rr \in RRs
    BY <1>3, RecordsAssumption DEF ApplyEntry, Accepts
  <2>2. Saved(store)' = Saved(store)
    BY <1>3 DEF ApplyEntry, Saved
  <2>3. \/ Promise!Insert(Entry(h).rr)
        \/ Promise!Remove(RRsetMates(Entry(h).rr))
    BY <1>3, <2>2
    DEF ApplyEntry, InsertRR, DeleteRR, Promise!Insert, Promise!Remove
  <2>4. RRsetMates(Entry(h).rr) \in SUBSET RRs
    BY DEF RRsetMates
  <2>. QED
    BY <2>1, <2>3, <2>4 DEF Promise!Next
<1>4. ASSUME NEW h \in Updaters, UpdateStatus(h) PROVE Promise!Next
  BY <1>4, CommitPersists DEF UpdateStatus, Promise!Next, Promise!Persist
<1>5. ASSUME NEW h \in Updaters, UpdateStatusFails(h) PROVE Promise!Next \/ Quiet
  <2>1. CASE UNCHANGED store
    BY <1>5, <2>1 DEF UpdateStatusFails
  <2>2. CASE CommitStatus(h)
    BY <1>5, <2>2, CommitPersists
    DEF UpdateStatusFails, Promise!Next, Promise!Persist
  <2>. QED
    BY <1>5, <2>1, <2>2 DEF UpdateStatusFails
<1>6. ASSUME NEW h \in Updaters, Reply(h) PROVE Promise!Next
  <2>1. ns[h] \in Namespaces /\ store[ns[h]] = mem
    BY <1>6 DEF Reply, IInv, LockInv, TypeOK, DataInv, AckBacked, FetchedSteps
  <2>2. Saved(store) = mem
    BY <2>1, SavedIsOneStatus
  <2>3. Saved(store)' = Saved(store)
    BY <1>6 DEF Reply, Saved
  <2>. QED
    BY <1>6, <2>2, <2>3 DEF Reply, Promise!Next, Promise!Acknowledge
<1>7. CASE Restart
  <2>1. Saved(store)' = Saved(store)
    BY <1>7 DEF Restart, Saved
  <2>. QED
    BY <1>7, <2>1 DEF Restart, Promise!Next, Promise!Restart
<1>8. ASSUME NEW h \in Updaters, \/ Receive(h) \/ CallLock(h) \/ RejectEntry(h)
                                 \/ FinishLoop(h) \/ CallRLock(h) \/ GetZone(h)
                                 \/ GetZoneFails(h) \/ ListRRs(h) \/ CallMerge(h)
                                 \/ FinishMerge(h)
      PROVE Quiet
  BY <1>8 DEF Receive, CallLock, RejectEntry, FinishLoop, CallRLock, GetZone,
     GetZoneFails, ListRRs, CallMerge, FinishMerge
<1>9. ASSUME NEW r \in Readers, StartRead(r) \/ FinishRead(r) PROVE Quiet
  BY <1>9 DEF StartRead, FinishRead
<1>10. ASSUME NEW n \in Namespaces, EditObject(n) PROVE Quiet
  BY <1>10 DEF EditObject
<1>. QED
  BY <1>1, <1>2, <1>3, <1>4, <1>5, <1>6, <1>7, <1>8, <1>9, <1>10
  DEF Next, UpdaterStep

\* Refinement: with one namespace, an update is acknowledged only while the
\* saved records are those in memory, and a restart loses nothing else.
THEOREM KeepsPromise ==
    ASSUME OneNamespace
    PROVE  Spec => PromiseKept
<1>1. Init => Promise!Init
  <2>. SUFFICES ASSUME Init PROVE Promise!Init
    OBVIOUS
  <2>1. Saved(store) \in SUBSET RRs
    BY RecordsAssumption DEF Init, Saved
  <2>. QED
    BY <2>1 DEF Init, Promise!Init
<1>2. IInv /\ [Next]_vars => [Promise!Next]_(Promise!vars)
  BY PromiseStep
<1>. QED
  BY <1>1, <1>2, Invariance, PTL DEF Spec, PromiseKept, Promise!Spec

\* With one namespace a record that acknowledged updates left out of the zone
\* stays out, in memory and in the status, until an update inserts it.
THEOREM AckedRemovalsSurvive ==
    ASSUME OneNamespace
    PROVE  Spec => []AckedRemovalsDurable
<1>1. Promise!Init => AckedRemovalsDurable
  BY DEF Promise!Init, AckedRemovalsDurable
<1>2. AckedRemovalsDurable /\ [Promise!Next]_(Promise!vars) => AckedRemovalsDurable'
  <2>. SUFFICES ASSUME AckedRemovalsDurable, [Promise!Next]_(Promise!vars)
                PROVE  AckedRemovalsDurable'
    OBVIOUS
  <2>1. gone \cap mem = {} /\ gone \cap Saved(store) = {}
    BY DEF AckedRemovalsDurable
  <2>2. gone' \cap mem' = {} /\ gone' \cap Saved(store)' = {}
    BY <2>1
    DEF Promise!Next, Promise!vars, Promise!Insert, Promise!Remove,
        Promise!Persist, Promise!Acknowledge, Promise!Restart
  <2>. QED
    BY <2>2 DEF AckedRemovalsDurable
<1>. QED
  BY <1>1, <1>2, KeepsPromise, PTL DEF PromiseKept, Promise!Spec
=============================================================================
