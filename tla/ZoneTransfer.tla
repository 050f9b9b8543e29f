---------------------------- MODULE ZoneTransfer ----------------------------
(***************************************************************************)
(* How the changes of one zone get from zupd to its secondaries: the       *)
(* serials of the SOA record, NOTIFY, refresh and transfer.  The primary's *)
(* content is the static zone, which the Zone controller replaces, and the *)
(* dynamic zone, which updates change; versions stand for both.            *)
(*                                                                         *)
(* Merge copies the pointer to the SOA record of the static zone, so that  *)
(* the serial an update sets in its merged zone is that of the static zone *)
(* and of every transfer still to be sent: soa has the serial of each such *)
(* record.  A reload or restart parses the spec into a new record.         *)
(*                                                                         *)
(* The secondaries run CoreDNS's plugin secondary, as the operator deploys *)
(* them: they ask for the SOA, compare it by serial arithmetic, and take   *)
(* the whole zone.  Waiting for locks is left to DynamicUpdate; here an    *)
(* update changes the zone while no other one holds the read lock.         *)
(*                                                                         *)
(* Definitions named Wrong... are variants with a bug; no specification    *)
(* uses them.                                                              *)
(***************************************************************************)
EXTENDS Integers

CONSTANTS
    Handlers,     \* the goroutines that serve updates
    Secondaries,  \* the servers that transfer the zone
    Targets,      \* those of them that zupd sends NOTIFY to
    NoCopy,       \* a secondary that has not transferred yet
    Modulus,      \* serials are counted modulo this (2^32 in DNS)
    Delays,       \* milliseconds, modulo Modulus, between two updates
    SpecSerials,  \* the serials of zones in the spec: seconds, or any number
    MaxUpdates,   \* bound: updates
    MaxEdits,     \* bound: edits of the spec
    MaxLoads,     \* bound: reloads of the static zone, restarts included
    MaxFaults     \* bound: broken transfers and restarted secondaries

Serials == 0..(Modulus - 1)

ASSUME ServersAssumption == Targets \subseteq Secondaries
ASSUME SerialsAssumption ==
    Modulus \in Nat /\ Modulus > 2
    /\ Delays \subseteq Serials /\ SpecSerials \subseteq Serials
ASSUME BoundsAssumption ==
    {MaxUpdates, MaxEdits, MaxLoads, MaxFaults} \subseteq Nat

Versions == 0..MaxUpdates
Records == 0..MaxLoads
Copies == [static : 0..MaxEdits, dyn : Versions, serial : Serials]

ASSUME NoCopyAssumption == NoCopy \notin Copies

VARIABLES
    now,       \* the clock in milliseconds, cut to a serial
    spec,      \* the object: version and serial of the zone in its spec
    event,     \* the controller has an event of the object to reconcile
    static,    \* the static zone: its version, and its SOA record
    soa,       \* the serial in each SOA record
    dyn,       \* the version of the dynamic zone
    saved,     \* the version in the status of the object
    made,      \* how many updates arrived
    call,      \* each handler: step, own version, serial, SOA record
    xfer,      \* each secondary: step, and what Merge has read for it
    copy,      \* each secondary's zone
    notified,  \* the secondaries a NOTIFY is on its way to
    faults,    \* how many faults there were
    orderly,   \* history: serials told every secondary of every change
    overtaken, \* history: transfers whose serial was set after Merge read
    answered   \* history: the last change by an update was followed by a reply

zoneVars == <<spec, event, static>>
primary == <<now, zoneVars, soa, dyn, saved, made>>
secondary == <<xfer, copy, notified, faults>>
history == <<orderly, overtaken, answered>>
vars == <<primary, call, secondary, history>>

\* RFC 1982, as the plugin secondary has it: b is later than a.
Later(a, b) ==
    \/ a < b /\ b - a <= (Modulus - 1) \div 2
    \/ a > b /\ a - b > (Modulus - 1) \div 2

Content == <<static.version, dyn>>
Serial == soa[static.record]
ContentOf(s) == <<copy[s].static, copy[s].dyn>>

\* The handlers that changed the zone and are still to set its serial.
Pending == {h \in Handlers : call[h].step \in {"save", "merge", "publish"}}
\* The handlers that hold the read lock of the dynamic zone.
Holding == {h \in Handlers : call[h].step \in {"merge", "publish", "notify"}}

\* A serial that every secondary takes for a later one.
Rises(serial) ==
    /\ Later(Serial, serial)
    /\ \A s \in Secondaries :
           copy[s] # NoCopy => Later(copy[s].serial, serial)

HandlerSteps == {"idle", "lock", "save", "merge", "publish", "notify"}
Calls == [step : HandlerSteps, dyn : Versions, serial : Serials, record : Records]
Transfers == [step : {"idle", "merge", "send"}, static : 0..MaxEdits,
              record : Records, dyn : Versions]
IdleCall == [step |-> "idle", dyn |-> 0, serial |-> 0, record |-> 0]
IdleXfer == [step |-> "idle", static |-> 0, record |-> 0, dyn |-> 0]

\* Serial arithmetic has no origin: the clock may as well start at 0.
Init ==
    /\ now = 0
    /\ spec \in [version : {0}, serial : SpecSerials]
    /\ event = TRUE
    /\ static = [version |-> 0, record |-> 0]
    /\ soa = [r \in Records |-> IF r = 0 THEN spec.serial ELSE 0]
    /\ dyn = 0
    /\ saved = 0
    /\ made = 0
    /\ call = [h \in Handlers |-> IdleCall]
    /\ xfer = [s \in Secondaries |-> IdleXfer]
    /\ copy = [s \in Secondaries |-> NoCopy]
    /\ notified = {}
    /\ faults = 0
    /\ orderly = TRUE
    /\ overtaken = {}
    /\ answered = TRUE
-----------------------------------------------------------------------------
Goto(h, step) == call' = [call EXCEPT ![h].step = step]

WrongReceive(h) ==
    /\ call[h].step = "idle"
    /\ made < MaxUpdates
    /\ made' = made + 1
    /\ \E d \in Delays : now' = now + d
    /\ call' = [call EXCEPT ![h] = [step |-> "lock", dyn |-> made',
                                    serial |-> now', record |-> 0]]
    /\ UNCHANGED <<zoneVars, soa, dyn, saved, secondary, history>>

\* An update arrives and takes its serial from the clock, before dz.Lock.
Receive(h) ==
    /\ call[h].step = "idle"
    /\ made < MaxUpdates
    /\ made' = made + 1
    /\ \E d \in Delays : now' = (now + d) % Modulus
    /\ call' = [call EXCEPT ![h] = [step |-> "lock", dyn |-> made',
                                    serial |-> now', record |-> 0]]
    /\ UNCHANGED <<zoneVars, soa, dyn, saved, secondary, history>>

\* dz.Lock, the loop over the entries, dz.Unlock.
Change(h) ==
    /\ call[h].step = "lock"
    /\ Holding = {}
    /\ dyn' = call[h].dyn
    /\ Goto(h, "save")
    /\ answered' = FALSE
    /\ UNCHANGED <<now, zoneVars, soa, saved, made, secondary, orderly,
                   overtaken>>

\* dz.RLock, Get and Status().Update.
Save(h) ==
    /\ call[h].step = "save"
    /\ saved' = dyn
    /\ Goto(h, "merge")
    /\ UNCHANGED <<now, zoneVars, soa, dyn, made, secondary, history>>

\* The update fails after it changed the zone: it sets no serial.
Fail(h) ==
    /\ call[h].step = "save"
    /\ saved' \in {saved, dyn}
    /\ call' = [call EXCEPT ![h] = IdleCall]
    /\ orderly' = (orderly /\ Pending \ {h} # {})
    /\ UNCHANGED <<now, zoneVars, soa, dyn, made, secondary, overtaken,
                   answered>>

\* The merged zone shares the SOA record of the static zone of now.
MergeZone(h) ==
    /\ call[h].step = "merge"
    /\ call' = [call EXCEPT ![h].step = "publish", ![h].record = static.record]
    /\ UNCHANGED <<primary, secondary, history>>

WrongPublish(h) ==
    /\ call[h].step = "publish"
    /\ Goto(h, "notify")
    /\ UNCHANGED <<primary, secondary, history>>

\* soa.Serial = soaSerial: the record may be that of a replaced zone by now.
Publish(h) ==
    /\ call[h].step = "publish"
    /\ soa' = [soa EXCEPT ![call[h].record] = call[h].serial]
    /\ Goto(h, "notify")
    /\ orderly' = (orderly /\ call[h].record = static.record
                           /\ Rises(call[h].serial))
    /\ overtaken' = {s \in Secondaries : xfer[s].step = "send"}
    /\ UNCHANGED <<now, zoneVars, dyn, saved, made, secondary, answered>>

\* NOTIFY goes out once to each target, which gets it or not.
SendNotify == \E got \in SUBSET Targets : notified' = notified \cup got

NotifyAndReply(h) ==
    /\ call[h].step = "notify"
    /\ SendNotify
    /\ call' = [call EXCEPT ![h] = IdleCall]
    /\ answered' = TRUE
    /\ UNCHANGED <<primary, xfer, copy, faults, orderly, overtaken>>
-----------------------------------------------------------------------------
\* The operator renders the zone anew, or a user edits it.
EditSpec ==
    /\ spec.version < MaxEdits
    /\ \E serial \in SpecSerials :
           spec' = [version |-> spec.version + 1, serial |-> serial]
    /\ event' = TRUE
    /\ UNCHANGED <<now, static, soa, dyn, saved, made, call, secondary,
                   history>>

Load ==
    /\ static.record < MaxLoads
    /\ static' = [version |-> spec.version, record |-> static.record + 1]
    /\ soa' = [soa EXCEPT ![static'.record] = spec.serial]
    /\ SendNotify

\* Reconcile replaces the static zone and takes no lock of the zone.
Reload ==
    /\ event
    /\ event' = FALSE
    /\ Load
    /\ UNCHANGED <<now, spec, dyn, saved, made, call, xfer, copy, faults,
                   overtaken, answered>>
    /\ orderly' = (orderly /\ (\/ Rises(spec.serial)
                              \/ <<Content, Serial>>' = <<Content, Serial>>))

\* initialize reads spec and status, but not Status.Serial; the cache of the
\* new controller has every object to reconcile once.
Restart ==
    /\ Load
    /\ event' = TRUE
    /\ dyn' = saved
    /\ call' = [h \in Handlers |-> IdleCall]
    /\ xfer' = [s \in Secondaries |-> IdleXfer]
    /\ orderly' = (orderly /\ Pending = {}
                           /\ <<Content, Serial>>' = <<Content, Serial>>)
    /\ UNCHANGED <<now, spec, saved, made, copy, faults, overtaken, answered>>
-----------------------------------------------------------------------------
WrongWants(s) == copy[s] # NoCopy => copy[s].serial < Serial

\* The secondary asked for the SOA: it has no zone yet, or an earlier one.
Wants(s) == copy[s] # NoCopy => Later(copy[s].serial, Serial)

WrongStartTransfer(s) ==
    xfer' = [xfer EXCEPT ![s] = [step |-> "merge", dyn |-> 0,
                static |-> static.version, record |-> static.record]]

\* Merge finds the static zone.
StartTransfer(s) ==
    /\ Wants(s)
    /\ xfer' = [xfer EXCEPT ![s] = [step |-> "merge", dyn |-> 0,
                   static |-> static.version, record |-> static.record]]

\* Refresh and retry timers, and the loop of a secondary that starts.
Refresh(s) ==
    /\ xfer[s].step = "idle"
    /\ StartTransfer(s)
    /\ UNCHANGED <<primary, call, copy, notified, faults, history>>

HearNotify(s) ==
    /\ s \in notified
    /\ xfer[s].step = "idle"
    /\ notified' = notified \ {s}
    /\ \/ StartTransfer(s)
       \/ ~Wants(s) /\ UNCHANGED xfer
    /\ UNCHANGED <<primary, call, copy, faults, history>>

\* Merge reads the dynamic zone under the read locks.
ReadZone(s) ==
    /\ xfer[s].step = "merge"
    /\ xfer' = [xfer EXCEPT ![s].step = "send", ![s].dyn = dyn]
    /\ overtaken' = overtaken \ {s}
    /\ UNCHANGED <<primary, call, copy, notified, faults, orderly, answered>>

\* The messages are packed with the serial that the record has now.
Deliver(s) ==
    /\ xfer[s].step = "send"
    /\ copy' = [copy EXCEPT ![s] = [static |-> xfer[s].static,
                    dyn |-> xfer[s].dyn, serial |-> soa[xfer[s].record]]]
    /\ xfer' = [xfer EXCEPT ![s] = IdleXfer]
    /\ orderly' = (orderly /\ s \notin overtaken
                   /\ (\/ Later(soa[xfer[s].record], Serial)
                      \/ <<xfer[s].static, soa[xfer[s].record]>>
                            = <<static.version, Serial>>))
    /\ UNCHANGED <<primary, call, notified, faults, overtaken, answered>>

Fault == faults < MaxFaults /\ faults' = faults + 1

BreakTransfer(s) ==
    /\ Fault
    /\ xfer[s].step # "idle"
    /\ xfer' = [xfer EXCEPT ![s] = IdleXfer]
    /\ UNCHANGED <<primary, call, copy, notified, history>>

RestartSecondary(s) ==
    /\ Fault
    /\ xfer' = [xfer EXCEPT ![s] = IdleXfer]
    /\ copy' = [copy EXCEPT ![s] = NoCopy]
    /\ notified' = notified \ {s}
    /\ UNCHANGED <<primary, call, history>>
-----------------------------------------------------------------------------
HandlerStep(h) ==
    \/ Change(h) \/ Save(h) \/ Fail(h) \/ MergeZone(h) \/ Publish(h)
    \/ NotifyAndReply(h)

SecondaryStep(s) == Refresh(s) \/ ReadZone(s) \/ Deliver(s)

Next ==
    \/ \E h \in Handlers : Receive(h) \/ HandlerStep(h)
    \/ EditSpec \/ Reload \/ Restart
    \/ \E s \in Secondaries :
          \/ SecondaryStep(s) \/ HearNotify(s)
          \/ BreakTransfer(s) \/ RestartSecondary(s)

Spec == Init /\ [][Next]_vars

(***************************************************************************)
(* Handlers run on, the controller reconciles what was edited, and timers  *)
(* make a secondary ask and go on asking.  No NOTIFY need arrive.          *)
(***************************************************************************)
Fairness ==
    /\ \A h \in Handlers : WF_vars(HandlerStep(h))
    /\ WF_vars(Reload)
    /\ \A s \in Secondaries : WF_vars(SecondaryStep(s))

FairSpec == Spec /\ Fairness
-----------------------------------------------------------------------------
\* Each variable holds a value of its kind.
TypeOK ==
    /\ now \in Serials
    /\ spec \in [version : 0..MaxEdits, serial : SpecSerials]
    /\ event \in BOOLEAN
    /\ static \in [version : 0..MaxEdits, record : Records]
    /\ soa \in [Records -> Serials]
    /\ {dyn, saved, made} \subseteq Versions
    /\ call \in [Handlers -> Calls]
    /\ xfer \in [Secondaries -> Transfers]
    /\ copy \in [Secondaries -> Copies \cup {NoCopy}]
    /\ notified \subseteq Targets
    /\ faults \in 0..MaxFaults
    /\ orderly \in BOOLEAN
    /\ overtaken \subseteq Secondaries
    /\ answered \in BOOLEAN

\* A secondary whose zone differs from the primary's can tell so by the
\* serial, now or when the handlers that are at work have set theirs.  Only
\* six things break that: an update that fails half-way; a serial that is not
\* later for every secondary (two units, two updates in a millisecond or weeks
\* apart, two that overtake each other, a reload that puts back the serial of
\* the spec); a serial that is set in a replaced zone; one that is set while a
\* transfer is sent; a transfer of a replaced zone that arrives under a serial
\* the new one does not rise above; and a restart.
SeesChanges ==
    orderly => \A s \in Secondaries :
        copy[s] = NoCopy \/ ContentOf(s) = Content
            \/ Later(copy[s].serial, Serial) \/ Pending # {}

\* As long as none of these happens, a secondary's zone is only ever replaced
\* by one with a later serial, though transfers take their serial late.
CopiesMoveOn ==
    [][\A s \in Secondaries :
         orderly' /\ copy[s] # NoCopy /\ copy'[s] \notin {NoCopy, copy[s]} =>
             Later(copy[s].serial, copy'[s].serial)]_vars

InSync(s) == copy[s] # NoCopy /\ ContentOf(s) = Content

\* As long as none of these happens, every secondary gets what the primary
\* has, without any NOTIFY and in spite of broken transfers.
SecondariesFollow ==
    \A s \in Secondaries : []<>(InSync(s) \/ ~orderly)

\* What zupd has acknowledged reaches every secondary.
AnsweredUpdatesSpread ==
    \A s \in Secondaries : []<>(InSync(s) \/ ~answered)
=============================================================================
