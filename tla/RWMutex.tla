------------------------------ MODULE RWMutex ------------------------------
(***************************************************************************)
(* The sync.RWMutex that every file.Zone embeds, as the handlers of zupd   *)
(* use it (dz.Lock, dz.Unlock, dz.RLock, dz.RUnlock).  It is a library of  *)
(* the Go distribution, outside the repository.                            *)
(*                                                                         *)
(* A writer first announces itself and then waits for the read locks that  *)
(* are already held; from the announcement on, every new RLock blocks,     *)
(* also one of a goroutine that already holds a read lock.  Unlock grants  *)
(* all the blocked readers at once, before the next writer gets in.        *)
(***************************************************************************)
EXTENDS Naturals

CONSTANTS
    Procs,      \* the goroutines
    NoProc      \* not a goroutine: no writer has announced itself

ASSUME NoProcIsNoGoroutine == NoProc \notin Procs

VARIABLES
    writer,     \* the goroutine that announced or holds the write lock
    readers,    \* how many read locks each goroutine holds
    blocked     \* the goroutines blocked in RLock

lockVars == <<writer, readers, blocked>>

LockInit ==
    /\ writer = NoProc
    /\ readers = [p \in Procs |-> 0]
    /\ blocked = {}

\* Lock gets past the other writers: it is announced, but perhaps not held.
AnnounceLock(p) ==
    /\ writer = NoProc
    /\ writer' = p
    /\ UNCHANGED <<readers, blocked>>

\* The announced writer has returned from Lock: no read lock is left.
WriteHeld(p) ==
    /\ writer = p
    /\ \A q \in Procs : readers[q] = 0

Unlock(p) ==
    /\ writer' = NoProc
    /\ readers' = [q \in Procs |->
                     IF q \in blocked THEN readers[q] + 1 ELSE readers[q]]
    /\ blocked' = {}

\* A call of RLock either takes the lock or leaves its caller blocked.
RLock(p) ==
    /\ IF writer = NoProc
       THEN /\ readers' = [readers EXCEPT ![p] = @ + 1]
            /\ UNCHANGED blocked
       ELSE /\ blocked' = blocked \cup {p}
            /\ UNCHANGED readers
    /\ UNCHANGED writer

\* p's last call of RLock has returned.
Granted(p) == p \notin blocked

RUnlock(p) ==
    /\ readers' = [readers EXCEPT ![p] = @ - 1]
    /\ UNCHANGED <<writer, blocked>>
=============================================================================
