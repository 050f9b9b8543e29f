---------------------------- MODULE ZupdFailover ----------------------------
(***************************************************************************)
(* The pods of the zupd Deployment: plugin instances that load the Zone    *)
(* object when they are set up, compete for one lease, report that they    *)
(* are ready once they were elected, and take the updates that the Service *)
(* sends to ready pods.  When its Corefile changes, a pod sets up a second *)
(* instance while the first one serves (the reload plugin).                *)
(*                                                                         *)
(* One zone.  DynamicUpdate has what happens within one process, so that a *)
(* pod takes one update at a time here and its message has one entry at    *)
(* most.  A lease holder that cannot renew gives up before its lease runs  *)
(* out (client-go's RenewDeadline is below LeaseDuration).                 *)
(*                                                                         *)
(* Definitions named Wrong... are variants with a bug; no specification    *)
(* uses them.                                                              *)
(***************************************************************************)
EXTENDS Integers

CONSTANTS
    Pods,        \* the pods of the Deployment
    Reloading,   \* the pods whose Corefile may change
    Others,      \* other programs that compete for the same lease: the
                 \* operator, when it runs in the namespace of the pods
    Nobody,      \* no holder of the lease
    None,        \* no instance is being set up
    RRs,         \* the records that updates carry
    MaxEdits,    \* bound: edits of the static zone in the object's spec
    MaxUpdates,  \* bound: updates that arrive
    MaxFaults    \* bound: crashes, reloads, leases lost or taken by others

ASSUME LeaseAssumption ==
    Pods \cap Others = {} /\ Nobody \notin Pods \cup Others
ASSUME ReloadingAssumption == Reloading \subseteq Pods
ASSUME BoundsAssumption ==
    MaxEdits \in Nat /\ MaxUpdates \in Nat /\ MaxFaults \in Nat

\* What an instance has in memory: the dynamic records, the version of the
\* static zone, and whether another instance saved records after it loaded.
Copies == [rrs : SUBSET RRs, spec : 0..MaxEdits, late : BOOLEAN]

ASSUME NoneAssumption == None \notin Copies

VARIABLES
    role,        \* the manager of each pod's serving instance
    zone,        \* the copy of each pod's serving instance
    coming,      \* the copy of the instance that a reload is setting up
    routed,      \* the pods that the Service sends updates to
    holder,      \* who holds the lease
    call,        \* each pod's update: its step, the records it has to save,
                 \* whether they are late as in Copies, whether its instance
                 \* was replaced meanwhile, and what its reply vouches for
    object,      \* status.dynamicRRs of the Zone object
    spec,        \* the version of the spec of the object
    kept,        \* history: the records acknowledgements vouch for
    gone,        \* history: the records whose absence they vouch for
    overwritten, \* history: a late copy was saved over newer records
    updates,     \* how many updates arrived
    faults       \* how many faults there were

podVars == <<role, zone, coming, routed, holder>>
objectVars == <<object, spec>>
history == <<kept, gone, overwritten>>
counters == <<updates, faults>>
dataVars == <<objectVars, history, counters>>
vars == <<podVars, call, dataVars>>

Roles == {"down", "standby", "leading", "deposed"}
Steps == {"idle", "save", "reply"}
Calls == [step : Steps, rrs : SUBSET RRs, late : BOOLEAN, replaced : BOOLEAN,
          kept : SUBSET RRs, gone : SUBSET RRs]

WrongLoaded == [rrs |-> {}, spec |-> spec, late |-> FALSE]

\* initialize lists the objects and parses their spec and status.
Loaded == [rrs |-> object, spec |-> spec, late |-> FALSE]

NoCopy == [rrs |-> {}, spec |-> 0, late |-> FALSE]
IdleCall == [step |-> "idle", rrs |-> {}, late |-> FALSE, replaced |-> FALSE,
             kept |-> {}, gone |-> {}]
Fault == faults < MaxFaults /\ faults' = faults + 1

Init ==
    /\ object \in SUBSET RRs
    /\ spec = 0
    /\ role = [p \in Pods |-> "down"]
    /\ zone = [p \in Pods |-> NoCopy]
    /\ coming = [p \in Pods |-> None]
    /\ routed = {}
    /\ holder = Nobody
    /\ call = [p \in Pods |-> IdleCall]
    /\ kept = {}
    /\ gone = {}
    /\ overwritten = FALSE
    /\ updates = 0
    /\ faults = 0

Up(p) == role[p] # "down"

WrongReady(p) == Up(p)

\* The channel of mgr.Elected() is closed with the first election and stays
\* closed: Ready tests nothing else.
Ready(p) == role[p] \in {"leading", "deposed"}
-----------------------------------------------------------------------------
\* The process starts: setup loads the zones, OnStartup starts the manager.
Start(p) ==
    /\ ~Up(p)
    /\ role' = [role EXCEPT ![p] = "standby"]
    /\ zone' = [zone EXCEPT ![p] = Loaded]
    /\ UNCHANGED <<coming, routed, holder, call, dataVars>>

\* The process ends at any point; nothing gives its lease back.
Crash(p) ==
    /\ Fault
    /\ Up(p)
    /\ role' = [role EXCEPT ![p] = "down"]
    /\ coming' = [coming EXCEPT ![p] = None]
    /\ routed' = routed \ {p}
    /\ call' = [call EXCEPT ![p] = IdleCall]
    /\ zone' = [zone EXCEPT ![p] = NoCopy]
    /\ UNCHANGED <<holder, objectVars, history, updates>>

\* The Corefile changed: a new instance is set up beside the serving one.
SetUpReload(p) ==
    /\ Fault
    /\ p \in Reloading
    /\ Up(p)
    /\ coming[p] = None
    /\ coming' = [coming EXCEPT ![p] = Loaded]
    /\ UNCHANGED <<role, zone, routed, holder, call, objectVars, history,
                   updates>>

WrongTakeOver(p) ==
    /\ Up(p)
    /\ zone' = [zone EXCEPT ![p] = coming[p]]
    /\ coming' = [coming EXCEPT ![p] = None]
    /\ role' = [role EXCEPT ![p] = "standby"]
    /\ call' = [call EXCEPT ![p].replaced = (@ \/ call[p].step # "idle")]
    /\ UNCHANGED <<routed, holder, dataVars>>

\* The new instance takes over the sockets and starts a manager of its own;
\* OnShutdown stops the old one's.  A call of the old instance goes on.
TakeOver(p) ==
    /\ coming[p] # None
    /\ zone' = [zone EXCEPT ![p] = coming[p]]
    /\ coming' = [coming EXCEPT ![p] = None]
    /\ role' = [role EXCEPT ![p] = "standby"]
    /\ call' = [call EXCEPT ![p].replaced = (@ \/ call[p].step # "idle")]
    /\ UNCHANGED <<routed, holder, dataVars>>

\* The set-up of the new instance fails; the old one stays.
ReloadFails(p) ==
    /\ coming[p] # None
    /\ coming' = [coming EXCEPT ![p] = None]
    /\ UNCHANGED <<role, zone, routed, holder, call, dataVars>>
-----------------------------------------------------------------------------
\* A candidate takes the lease that nobody holds and starts its controller.
Acquire(p) ==
    /\ role[p] = "standby"
    /\ holder = Nobody
    /\ holder' = p
    /\ role' = [role EXCEPT ![p] = "leading"]
    /\ UNCHANGED <<zone, coming, routed, call, dataVars>>

\* The leader cannot renew its lease: mgr.Start returns an error, which is
\* only logged.  The instance serves on and competes no more.
LoseLease(p) ==
    /\ Fault
    /\ role[p] = "leading"
    /\ role' = [role EXCEPT ![p] = "deposed"]
    /\ UNCHANGED <<zone, coming, routed, holder, call, objectVars, history,
                   updates>>

WrongExpireLease ==
    /\ holder \in Pods
    /\ role[holder] = "down"
    /\ holder' = Nobody
    /\ UNCHANGED <<role, zone, coming, routed, call, dataVars>>

\* The lease of a pod runs out that no longer renews it.
ExpireLease ==
    /\ holder \in Pods
    /\ role[holder] # "leading"
    /\ holder' = Nobody
    /\ UNCHANGED <<role, zone, coming, routed, call, dataVars>>

OtherAcquires(o) ==
    /\ Fault
    /\ holder = Nobody
    /\ holder' = o
    /\ UNCHANGED <<role, zone, coming, routed, call, objectVars, history,
                   updates>>

OtherExpires(o) ==
    /\ holder = o
    /\ holder' = Nobody
    /\ UNCHANGED <<role, zone, coming, routed, call, dataVars>>

\* The readiness probe reaches the Service some time after Ready changed.
Probe(p) ==
    /\ Up(p)
    /\ routed' = IF Ready(p) THEN routed \cup {p} ELSE routed \ {p}
    /\ UNCHANGED <<role, zone, coming, holder, call, dataVars>>

\* Somebody edits the zone in the object, or the operator renders it anew.
EditSpec ==
    /\ spec < MaxEdits
    /\ spec' = spec + 1
    /\ UNCHANGED <<podVars, call, object, history, counters>>

WrongReconcile(p) ==
    /\ role[p] = "leading"
    /\ zone[p].spec # spec
    /\ zone' = [zone EXCEPT ![p] = [Loaded EXCEPT !.rrs = {}]]
    /\ UNCHANGED <<role, coming, routed, holder, call, dataVars>>

\* The Zone controller runs with the elected manager only.
Reconcile(p) ==
    /\ role[p] = "leading"
    /\ zone[p].spec # spec
    /\ zone' = [zone EXCEPT ![p].spec = spec]
    /\ UNCHANGED <<role, coming, routed, holder, call, dataVars>>
-----------------------------------------------------------------------------
\* An update reaches p and is applied to memory.  Nobody vouches any longer
\* for a record that it changes.
Apply(p, inserted, removed) ==
    LET rrs == (zone[p].rrs \cup inserted) \ removed IN
    /\ p \in routed
    /\ call[p].step = "idle"
    /\ zone' = [zone EXCEPT ![p].rrs = rrs]
    /\ call' = [q \in Pods |->
         IF q = p
         THEN [step |-> "save", rrs |-> rrs, late |-> zone[p].late,
               replaced |-> FALSE, kept |-> rrs, gone |-> RRs \ rrs]
         ELSE [call[q] EXCEPT !.kept = @ \ removed, !.gone = @ \ inserted]]
    /\ kept' = kept \ removed
    /\ gone' = gone \ inserted
    /\ updates < MaxUpdates
    /\ updates' = updates + 1
    /\ UNCHANGED <<role, coming, routed, holder, objectVars,
                   overwritten, faults>>

Insert(p, rr) == Apply(p, {rr}, {})
Remove(p, rr) == Apply(p, {}, {rr})
\* An update without entries is applied, saved and acknowledged as well.
Touch(p) == Apply(p, {}, {})

\* The status write reaches the object: all records of the call's instance.
\* Every other copy, the one a reload is setting up too, misses it.  The Get
\* just before gives the write its version, whatever the copy has missed.
Commit(p) ==
    /\ object' = call[p].rrs
    /\ zone' = [q \in Pods |->
                  [zone[q] EXCEPT !.late =
                     @ \/ (Up(q) /\ (q # p \/ call[p].replaced))]]
    /\ coming' = [q \in Pods |->
                    IF coming[q] = None THEN None
                    ELSE [coming[q] EXCEPT !.late = TRUE]]
    /\ overwritten' = (overwritten \/ (call[p].late /\ object' # object))

\* The calls of the other pods, which miss what p has saved.
Overtaken(p) ==
    [q \in Pods |->
        IF q = p \/ call[q].step = "idle" THEN call[q]
        ELSE [call[q] EXCEPT !.late = TRUE]]

WrongUpdateStatus(p) ==
    /\ call[p].step = "save"
    /\ call' = [call EXCEPT ![p].step = "reply"]
    /\ UNCHANGED <<podVars, dataVars>>

UpdateStatus(p) ==
    /\ call[p].step = "save"
    /\ Commit(p)
    /\ call' = [Overtaken(p) EXCEPT ![p].step = "reply"]
    /\ UNCHANGED <<role, routed, holder, spec, kept, gone, counters>>

\* No object is found, a conflict, another API error: the call fails, but
\* what it applied stays in memory.
CallFails(p) ==
    /\ call[p].step = "save"
    /\ call' = [call EXCEPT ![p] = IdleCall]
    /\ UNCHANGED <<podVars, dataVars>>

\* The error of a write that was made.
AnswerLost(p) ==
    /\ call[p].step = "save"
    /\ Commit(p)
    /\ call' = [Overtaken(p) EXCEPT ![p] = IdleCall]
    /\ UNCHANGED <<role, routed, holder, spec, kept, gone, counters>>

Reply(p) ==
    /\ call[p].step = "reply"
    /\ kept' = call[p].kept
    /\ gone' = call[p].gone
    /\ call' = [call EXCEPT ![p] = IdleCall]
    /\ UNCHANGED <<podVars, objectVars, overwritten, counters>>
-----------------------------------------------------------------------------
Instance(p) ==
    \/ Start(p) \/ Crash(p)
    \/ SetUpReload(p) \/ TakeOver(p) \/ ReloadFails(p)
    \/ Acquire(p) \/ LoseLease(p) \/ Probe(p) \/ Reconcile(p)

Update(p) ==
    \/ \E rr \in RRs : Insert(p, rr) \/ Remove(p, rr)
    \/ Touch(p)
    \/ UpdateStatus(p) \/ CallFails(p) \/ AnswerLost(p)
    \/ Reply(p)

Next ==
    \/ \E p \in Pods : Instance(p) \/ Update(p)
    \/ \E o \in Others : OtherAcquires(o) \/ OtherExpires(o)
    \/ ExpireLease
    \/ EditSpec

Spec == Init /\ [][Next]_vars

(***************************************************************************)
(* kubelet restarts containers and probes them, a lease that is not        *)
(* renewed runs out, and candidates retry: one of them gets a lease that   *)
(* is free again and again.  Nothing makes the others give up the lease.   *)
(***************************************************************************)
Fairness ==
    /\ \A p \in Pods : WF_vars(Start(p)) /\ WF_vars(Probe(p))
    /\ \A p \in Pods : WF_vars(Reconcile(p)) /\ SF_vars(Acquire(p))
    /\ WF_vars(ExpireLease)

FairSpec == Spec /\ Fairness
-----------------------------------------------------------------------------
\* Each variable holds a value of its kind.
TypeOK ==
    /\ role \in [Pods -> Roles]
    /\ zone \in [Pods -> Copies]
    /\ coming \in [Pods -> Copies \cup {None}]
    /\ routed \subseteq Pods
    /\ holder \in Pods \cup Others \cup {Nobody}
    /\ call \in [Pods -> Calls]
    /\ object \in SUBSET RRs
    /\ spec \in 0..MaxEdits
    /\ kept \in SUBSET RRs
    /\ gone \in SUBSET RRs
    /\ overwritten \in BOOLEAN

\* What an acknowledged update left in the object stays there, and what it
\* took out stays out, across failovers, reloads, crashes and failed writes,
\* as long as no instance saves its records that had loaded the object
\* before another one saved: that is the one way to lose an update.
OnlyLateSavesLose ==
    ~overwritten => kept \subseteq object /\ gone \cap object = {}

\* An instance that was set up after the last save of another one serves
\* what was acknowledged, whatever calls of its own failed half-way.
LateUnlessServed ==
    \A p \in Pods :
        Up(p) /\ ~zone[p].late /\ ~overwritten =>
            kept \subseteq zone[p].rrs /\ gone \cap zone[p].rrs = {}

\* While a call waits for its reply, the object has what the reply is going
\* to vouch for, or a late copy of another instance was written over it.
RepliesAreBacked ==
    \A p \in Pods :
        call[p].step = "reply" /\ ~overwritten =>
            call[p].kept \subseteq object /\ call[p].gone \cap object = {}

\* While a pod takes part in the election, some pod gets to lead and to serve
\* the last spec of the zone, unless another program has the lease or all pods
\* drop out of it: a deposed one does for good, and is ready all the same.
SpecIsServed ==
    (\E p \in Pods : role[p] \in {"standby", "leading"}) ~>
        \/ \E p \in Pods : role[p] = "leading" /\ zone[p].spec = spec
        \/ \A p \in Pods : role[p] \in {"down", "deposed"}
        \/ holder \in Others

\* As long as no pod crashes, reloads or loses its lease, and no other program
\* gets the lease, nothing acknowledged is lost, however many pods there are:
\* readiness waits for the election, so that one pod takes all updates.
NoLossWithoutFault ==
    faults = 0 => kept \subseteq object /\ gone \cap object = {}

\* What an acknowledged update left in the object stays in the object.
AckedRecordsSaved == kept \subseteq object

=============================================================================
