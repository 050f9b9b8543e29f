--------------------------- MODULE DynamicUpdate ---------------------------
(***************************************************************************)
(* The path of an RFC 2136 update through zupd (ServeDNS), for one zone of *)
(* one zupd process: update handlers and readers (queries and transfers,   *)
(* both through Merge) share the dynamic zone under its RWMutex, and each  *)
(* update is saved in the status of the Zone object before it is           *)
(* acknowledged.  A restart loses everything but the objects.              *)
(*                                                                         *)
(* Definitions named Wrong... are variants of the definition that follows  *)
(* them with a bug; no specification uses them, they serve to see that the *)
(* properties can fail.                                                    *)
(*                                                                         *)
(* A zone's content is a set of records: Delete takes out the whole RRset  *)
(* of a record, so how often a record was inserted makes no difference.    *)
(***************************************************************************)
EXTENDS RWMutex, Sequences

CONSTANTS
    Updaters,     \* the goroutines that serve update messages
    Readers,      \* the goroutines that serve queries and transfers
    RRs,          \* the records that messages carry
    Supported,    \* the records of type TXT, CNAME, A, AAAA or SRV
    RRsetOf,      \* the RRset of each record: its owner name and type
    Messages,     \* update messages: the entries of their update section
    Namespaces,   \* the watched namespaces that hold an object of this zone
    NoNS          \* not a namespace: no object fetched yet

Classes == {"INET", "NONE", "ANY"}
Entries == [class : Classes, rr : RRs]

ASSUME ProcsAssumption ==
    /\ Procs = Updaters \cup Readers
    /\ Updaters \cap Readers = {}
ASSUME RecordsAssumption == Supported \subseteq RRs
ASSUME MessagesAssumption == Messages \subseteq Seq(Entries) /\ <<>> \in Messages
ASSUME NamespacesAssumption == NoNS \notin Namespaces

VARIABLES
    pc,       \* where each goroutine is
    msg,      \* the message each update handler serves
    idx,      \* the entry of the message the loop is at
    ns,       \* the namespace of the object the handler fetched
    snap,     \* the records the handler put into its copy of the status
    fresh,    \* the handlers whose copy has the object's current version
    mem,      \* the content of the dynamic zone
    store,    \* the status.dynamicRRs of the object in each namespace
    kept,     \* history: the records acknowledgements vouch for
    gone      \* history: the records whose absence they vouch for

localVars == <<pc, msg, idx, ns, snap>>
history   == <<kept, gone>>
vars == <<lockVars, localVars, fresh, mem, store, history>>

\* The steps of an update handler after the call of dz.Lock, in order.
UpdaterSteps == {"idle", "lock", "apply", "rlock", "get", "list", "status",
                 "merge", "copy", "reply"}
ReaderSteps  == {"idle", "read"}
\* The steps at which the handler has fetched an object.
FetchedSteps == {"list", "status", "merge", "copy", "reply"}

RRsetMates(rr) == {r \in RRs : RRsetOf[r] = RRsetOf[rr]}

\* The records a restarted process loads: the status of every object.
Saved(st) == UNION {st[n] : n \in Namespaces}

\* Update types, as updateType has them for the classes of RFC 2136.
UpdateType(e) ==
    CASE e.class = "INET" -> "insert"
      [] e.class = "NONE" -> "remove"
      [] e.class = "ANY"  -> "removeRRSet"

Init ==
    /\ LockInit
    /\ pc = [p \in Procs |-> "idle"]
    /\ msg = [h \in Updaters |-> <<>>]
    /\ idx = [h \in Updaters |-> 1]
    /\ ns = [h \in Updaters |-> NoNS]
    /\ snap = [h \in Updaters |-> {}]
    /\ fresh = {}
    /\ store \in [Namespaces -> SUBSET Supported]
    /\ mem = Saved(store)
    /\ kept = {}
    /\ gone = {}
-----------------------------------------------------------------------------
Goto(p, step) == pc' = [pc EXCEPT ![p] = step]

\* h returns to the server: its local variables are gone.
Return(h) ==
    /\ Goto(h, "idle")
    /\ msg' = [msg EXCEPT ![h] = <<>>]
    /\ idx' = [idx EXCEPT ![h] = 1]
    /\ ns' = [ns EXCEPT ![h] = NoNS]
    /\ snap' = [snap EXCEPT ![h] = {}]

\* An update message arrives; the handler gets as far as dz.Lock.
Receive(h) ==
    /\ pc[h] = "idle"
    /\ \E m \in Messages : msg' = [msg EXCEPT ![h] = m]
    /\ Goto(h, "lock")
    /\ UNCHANGED <<lockVars, idx, ns, snap, fresh, mem, store, history>>

CallLock(h) ==
    /\ pc[h] = "lock"
    /\ AnnounceLock(h)
    /\ Goto(h, "apply")
    /\ UNCHANGED <<msg, idx, ns, snap, fresh, mem, store, history>>

InLoop(h) ==
    /\ pc[h] = "apply"
    /\ WriteHeld(h)
    /\ idx[h] <= Len(msg[h])

Entry(h) == msg[h][idx[h]]

WrongAccepts(e) == UpdateType(e) \in {"insert", "remove"}

Accepts(e) == e.rr \in Supported /\ UpdateType(e) \in {"insert", "remove"}

InsertRR(rr) ==
    /\ mem' = mem \cup {rr}
    /\ gone' = gone \ {rr}
    /\ UNCHANGED kept

\* The records of rr's name and type go, whatever their data.
DeleteRR(rr) ==
    /\ mem' = mem \ RRsetMates(rr)
    /\ kept' = kept \ RRsetMates(rr)
    /\ UNCHANGED gone

\* One turn of the loop over the update section, under the write lock.
ApplyEntry(h) ==
    /\ InLoop(h)
    /\ Accepts(Entry(h))
    /\ IF UpdateType(Entry(h)) = "insert"
       THEN InsertRR(Entry(h).rr)
       ELSE DeleteRR(Entry(h).rr)
    /\ idx' = [idx EXCEPT ![h] = @ + 1]
    /\ UNCHANGED <<lockVars, pc, msg, ns, snap, fresh, store>>

WrongRejectEntry(h) ==
    /\ InLoop(h)
    /\ ~Accepts(Entry(h))
    /\ Return(h)
    /\ fresh' = fresh \ {h}
    /\ UNCHANGED <<lockVars, mem, store, history>>

\* A record of another type is refused, another update type not
\* implemented: the handler unlocks and returns from inside the loop.
RejectEntry(h) ==
    /\ InLoop(h)
    /\ ~Accepts(Entry(h))
    /\ Unlock(h)
    /\ Return(h)
    /\ fresh' = fresh \ {h}
    /\ UNCHANGED <<mem, store, history>>

FinishLoop(h) ==
    /\ pc[h] = "apply"
    /\ WriteHeld(h)
    /\ idx[h] > Len(msg[h])
    /\ Unlock(h)
    /\ Goto(h, "rlock")
    /\ UNCHANGED <<msg, idx, ns, snap, fresh, mem, store, history>>

WrongCallRLock(h) ==
    /\ pc[h] = "rlock"
    /\ Goto(h, "get")
    /\ UNCHANGED <<lockVars, msg, idx, ns, snap, fresh, mem, store, history>>

CallRLock(h) ==
    /\ pc[h] = "rlock"
    /\ RLock(h)
    /\ Goto(h, "get")
    /\ UNCHANGED <<msg, idx, ns, snap, fresh, mem, store, history>>

\* The first Get that succeeds; those before it failed or found nothing.
GetZone(h) ==
    /\ pc[h] = "get"
    /\ Granted(h)
    /\ \E n \in Namespaces : ns' = [ns EXCEPT ![h] = n]
    /\ fresh' = fresh \cup {h}
    /\ Goto(h, "list")
    /\ UNCHANGED <<lockVars, msg, idx, snap, mem, store, history>>

\* No Get succeeds: refused, with the deferred RUnlock.
GetZoneFails(h) ==
    /\ pc[h] = "get"
    /\ Granted(h)
    /\ RUnlock(h)
    /\ Return(h)
    /\ fresh' = fresh \ {h}
    /\ UNCHANGED <<mem, store, history>>

WrongListRRs(h) ==
    /\ pc[h] = "list"
    /\ snap' = [snap EXCEPT ![h] =
                    {msg[h][i].rr : i \in 1..Len(msg[h])} \cap mem]
    /\ Goto(h, "status")
    /\ UNCHANGED <<lockVars, msg, idx, ns, fresh, mem, store, history>>

\* The status of the fetched copy is rebuilt from dz.All().
ListRRs(h) ==
    /\ pc[h] = "list"
    /\ snap' = [snap EXCEPT ![h] = mem]
    /\ Goto(h, "status")
    /\ UNCHANGED <<lockVars, msg, idx, ns, fresh, mem, store, history>>

WrongCommitStatus(h) ==
    /\ h \in fresh
    /\ store' = [store EXCEPT ![ns[h]] = @ \cup snap[h]]
    /\ fresh' = {g \in fresh : ns[g] # ns[h]}

\* The API server takes the copy if it has the object's current version;
\* every other copy of that object is stale from then on.
CommitStatus(h) ==
    /\ h \in fresh
    /\ store' = [store EXCEPT ![ns[h]] = snap[h]]
    /\ fresh' = {g \in fresh : ns[g] # ns[h]}

\* With an RUnlock before the call of Merge, the deferred one kept.
WrongUpdateStatus(h) ==
    /\ pc[h] = "status"
    /\ CommitStatus(h)
    /\ RUnlock(h)
    /\ Goto(h, "merge")
    /\ UNCHANGED <<msg, idx, ns, snap, mem, history>>

UpdateStatus(h) ==
    /\ pc[h] = "status"
    /\ CommitStatus(h)
    /\ Goto(h, "merge")
    /\ UNCHANGED <<lockVars, msg, idx, ns, snap, mem, history>>

WrongUpdateStatusFails(h) ==
    /\ pc[h] = "status"
    /\ Goto(h, "merge")
    /\ UNCHANGED <<lockVars, msg, idx, ns, snap, fresh, mem, store, history>>

\* A conflict, another API error, or an error reported after the write.
UpdateStatusFails(h) ==
    /\ pc[h] = "status"
    /\ RUnlock(h)
    /\ Return(h)
    /\ \/ fresh' = fresh \ {h} /\ UNCHANGED store
       \/ CommitStatus(h)
    /\ UNCHANGED <<mem, history>>

\* Merge takes the read lock that its caller already holds once more.
CallMerge(h) ==
    /\ pc[h] = "merge"
    /\ RLock(h)
    /\ Goto(h, "copy")
    /\ UNCHANGED <<msg, idx, ns, snap, fresh, mem, store, history>>

FinishMerge(h) ==
    /\ pc[h] = "copy"
    /\ Granted(h)
    /\ RUnlock(h)
    /\ Goto(h, "reply")
    /\ UNCHANGED <<msg, idx, ns, snap, fresh, mem, store, history>>

\* SOA serial, NOTIFY and the reply; what is in the zone is now vouched for.
Reply(h) ==
    /\ pc[h] = "reply"
    /\ RUnlock(h)
    /\ Return(h)
    /\ fresh' = fresh \ {h}
    /\ kept' = mem
    /\ gone' = RRs \ mem
    /\ UNCHANGED <<mem, store>>

\* A query or a transfer merges the zone under the read lock.
StartRead(r) ==
    /\ pc[r] = "idle"
    /\ RLock(r)
    /\ Goto(r, "read")
    /\ UNCHANGED <<msg, idx, ns, snap, fresh, mem, store, history>>

FinishRead(r) ==
    /\ pc[r] = "read"
    /\ Granted(r)
    /\ RUnlock(r)
    /\ Goto(r, "idle")
    /\ UNCHANGED <<msg, idx, ns, snap, fresh, mem, store, history>>

\* Somebody else writes the object (its spec or metadata).
EditObject(n) ==
    /\ fresh' = {g \in fresh : ns[g] # n}
    /\ UNCHANGED <<lockVars, localVars, mem, store, history>>

WrongRestart ==
    /\ writer' = NoProc
    /\ readers' = [p \in Procs |-> 0]
    /\ blocked' = {}
    /\ pc' = [p \in Procs |-> "idle"]
    /\ msg' = [h \in Updaters |-> <<>>]
    /\ idx' = [h \in Updaters |-> 1]
    /\ ns' = [h \in Updaters |-> NoNS]
    /\ snap' = [h \in Updaters |-> {}]
    /\ fresh' = {}
    /\ mem' = {}
    /\ UNCHANGED <<store, history>>

\* The process dies at any point; initialize loads the saved records.
Restart ==
    /\ writer' = NoProc
    /\ readers' = [p \in Procs |-> 0]
    /\ blocked' = {}
    /\ pc' = [p \in Procs |-> "idle"]
    /\ msg' = [h \in Updaters |-> <<>>]
    /\ idx' = [h \in Updaters |-> 1]
    /\ ns' = [h \in Updaters |-> NoNS]
    /\ snap' = [h \in Updaters |-> {}]
    /\ fresh' = {}
    /\ mem' = Saved(store)
    /\ UNCHANGED <<store, history>>
-----------------------------------------------------------------------------
UpdaterStep(h) ==
    \/ CallLock(h)
    \/ ApplyEntry(h)
    \/ RejectEntry(h)
    \/ FinishLoop(h)
    \/ CallRLock(h)
    \/ GetZone(h)
    \/ GetZoneFails(h)
    \/ ListRRs(h)
    \/ UpdateStatus(h)
    \/ UpdateStatusFails(h)
    \/ CallMerge(h)
    \/ FinishMerge(h)
    \/ Reply(h)

Next ==
    \/ \E h \in Updaters : Receive(h) \/ UpdaterStep(h)
    \/ \E r \in Readers : StartRead(r) \/ FinishRead(r)
    \/ \E n \in Namespaces : EditObject(n)
    \/ Restart

Spec == Init /\ [][Next]_vars

(***************************************************************************)
(* The Go scheduler runs every goroutine that can run, API calls return,   *)
(* and a writer that waits for another one gets its turn (Go's mutexes do  *)
(* not starve): CallLock is fair also when it is enabled only at times.    *)
(***************************************************************************)
Fairness ==
    /\ \A h \in Updaters : WF_vars(UpdaterStep(h)) /\ SF_vars(CallLock(h))
    /\ \A r \in Readers : WF_vars(FinishRead(r))

FairSpec == Spec /\ Fairness
-----------------------------------------------------------------------------
\* Each variable holds a value of its kind.
TypeOK ==
    /\ writer \in Updaters \cup {NoProc}
    /\ readers \in [Procs -> Nat]
    /\ blocked \subseteq Procs
    /\ pc \in [Procs -> UpdaterSteps \cup ReaderSteps]
    /\ \A h \in Updaters : pc[h] \in UpdaterSteps
    /\ \A r \in Readers : pc[r] \in ReaderSteps
    /\ msg \in [Updaters -> Messages]
    /\ idx \in [Updaters -> Nat \ {0}]
    /\ ns \in [Updaters -> Namespaces \cup {NoNS}]
    /\ \A h \in Updaters : pc[h] \in FetchedSteps => ns[h] \in Namespaces
    /\ snap \in [Updaters -> SUBSET Supported]
    /\ fresh \subseteq Updaters
    /\ mem \subseteq Supported
    /\ store \in [Namespaces -> SUBSET Supported]
    /\ kept \subseteq RRs
    /\ gone \subseteq RRs

\* The read locks that a goroutine's position in the code stands for: one
\* that ServeDNS defers to give back, one more in the Merge that it calls,
\* and less the one it is still blocked for.
HeldAt(p) ==
    (IF pc[p] \in FetchedSteps \cup {"get", "read"} THEN 1 ELSE 0)
    + (IF pc[p] = "copy" THEN 1 ELSE 0)
    - (IF p \in blocked THEN 1 ELSE 0)

\* What the early returns and the deferred unlocks of ServeDNS and Merge must
\* add up to: the write lock belongs to the handler in the loop, and every
\* goroutine holds as many read locks as the code it is in has taken; a
\* handler that changes records shares the zone with no reader.
LocksBalanced ==
    /\ \A p \in Procs : readers[p] = HeldAt(p)
    /\ \A h \in Updaters : pc[h] = "apply" <=> writer = h
    /\ blocked # {} => writer # NoProc
    /\ \A p \in blocked : pc[p] \in {"get", "copy", "read"}

\* A handler that has listed dz.All() for the status holds exactly the
\* zone's present content: another update that ran between its own loop and
\* its RLock is included, and none can run before the status is written.
ListIsCurrent ==
    \A h \in Updaters : pc[h] = "status" => snap[h] = mem

\* From its status write to its reply, whatever the other handlers do, the
\* object the handler wrote and the zone in memory have the same records.
AckBacked ==
    \A h \in Updaters :
        pc[h] \in {"merge", "copy", "reply"} => store[ns[h]] = mem

\* A record that an acknowledged update left in the zone stays served and
\* saved, across failed, refused and concurrent updates and across restarts,
\* until an update removes it (the code counts as removed the whole RRset of a
\* record in a NONE entry).
AckedRecordsDurable == kept \subseteq mem \cap Saved(store)

\* A record that an acknowledged update left out of the zone does not come
\* back, neither in memory nor with a restart, until an update inserts it.
AckedRemovalsDurable == gone \cap (mem \cup Saved(store)) = {}

\* No status write brings an old list of records back (a lost update): what
\* it writes is the content of the zone at that moment.
StatusWritesAreCurrent ==
    [][\A n \in Namespaces : store'[n] # store[n] => store'[n] = mem]_vars

\* A handler waits inside Merge for the read lock that it holds already.
MergeBlocks == \E h \in Updaters : pc[h] = "copy" /\ h \in blocked

\* A goroutine waits: for another writer, for the readers, or for a writer.
Waits(p) ==
    \/ pc[p] = "lock" /\ writer # NoProc
    \/ pc[p] = "apply" /\ ~WriteHeld(p)
    \/ p \in blocked

\* Handlers and readers never all wait for one another: while one waits, some
\* other one is at work and will give its lock back, unless a handler is
\* stuck in Merge.
NoCircularWait ==
    (\E p \in Procs : Waits(p)) =>
        (\E p \in Procs : pc[p] # "idle" /\ ~Waits(p)) \/ MergeBlocks

\* A handler stuck in Merge stays there until the process ends: no other
\* handler, reader, error or late answer lets it go on.
StuckInMergeForGood ==
    [][\A h \in Updaters : pc[h] = "copy" /\ h \in blocked =>
          (pc'[h] = "copy" /\ h \in blocked') \/ (\A p \in Procs : pc'[p] = "idle")]_vars

\* Every update, query and transfer that zupd takes up returns: each lock it
\* waits for is released on every path through ServeDNS, error paths too,
\* and whatever other handlers do.  The second RLock of Merge is the only
\* thing that can stand in the way (MergeReturns shows that it does).
ReturnsUnlessMergeBlocks ==
    \A p \in Procs : pc[p] # "idle" ~> pc[p] = "idle" \/ MergeBlocks

\* Merge returns the merged zone to the update handler that calls it.
MergeReturns ==
    \A h \in Updaters : pc[h] = "copy" ~> pc[h] # "copy"
-----------------------------------------------------------------------------
\* What clients are promised: the zone in memory is the volatile copy, the
\* saved statuses are the durable one, and ServeDNS acknowledges an update
\* only while both are the same.
Promise == INSTANCE DurableZone WITH
    volatile <- mem,
    durable  <- Saved(store)

PromiseKept == Promise!Spec
=============================================================================
