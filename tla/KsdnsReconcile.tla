--------------------------- MODULE KsdnsReconcile ---------------------------
(***************************************************************************)
(* The ksdns-operator: one Ksdns resource and the one worker that runs     *)
(* Reconcile for it, against an API server.  Reads come from the informer  *)
(* caches of the manager's client, which lag behind the server; writes go  *)
(* to the server.  Reconcile is a fixed plan of steps, one object after    *)
(* the other; an error ends it and requeues the request, except where the  *)
(* code drops the error.                                                   *)
(*                                                                         *)
(* Definitions named Wrong... are variants of the definition that follows  *)
(* them with a bug; no specification uses them, they serve to see that the *)
(* properties can fail.                                                    *)
(***************************************************************************)
EXTENDS Naturals, Sequences, FiniteSets

CONSTANTS
    ZoneNames,    \* names of Zone objects
    Foreign,      \* those that users create themselves
    Unrenderable, \* zones whose entry in the Ksdns resource ToRfc1035Zone refuses
    Specs,        \* what a user may write into the Ksdns resource
    UserSecret,   \* TRUE if spec.secret names a secret of the user's
    Failing,      \* the objects whose writes may fail
    ReadFails,    \* the TSIG secret's Get may fail otherwise than with NotFound
    Lagging,      \* the objects whose writes the cache may miss for a while;
                  \* of the others it knows at once (all may lag in reality)
    Absent,       \* the object does not exist
    MaxTries,     \* attempts of CreateOrUpdateWithRetries (four in the code)
    MaxFaults,    \* bound: API errors and crashes of the operator
    MaxEdits,     \* bound: edits of the Ksdns resource and of the user's secret
    MaxTime       \* bound: the clock goes round after that many seconds

ASSUME SpecsAssumption ==
    /\ Specs # {} /\ Foreign \subseteq ZoneNames /\ Unrenderable \subseteq ZoneNames
    /\ \A s \in Specs : s.zones \subseteq ZoneNames
ASSUME BoundsAssumption ==
    /\ MaxTries \in Nat \ {0}
    /\ {MaxFaults, MaxEdits, MaxTime} \subseteq Nat
    /\ {UserSecret, ReadFails} \subseteq BOOLEAN

VARIABLES
    obj,      \* the content of each object on the API server
    seen,     \* the content of each object in the operator's caches
    pending,  \* the request is in the work queue
    step,     \* the step of the plan the worker is at, 0 when it has none
    ks,       \* its copy of the Ksdns resource
    done,     \* the zones of its copy that ensureZones is through with
    zone,     \* the zone ensureZones is at, with the SOA serial it rendered
    key,      \* the TSIG key it read or made
    corefile, \* the Corefile it rendered
    tries,    \* conflicts it met at the current object
    faults,   \* API errors and crashes so far
    edits,    \* edits of the Ksdns resource and of the user's secret so far
    now       \* the clock, in seconds

local  == <<step, ks, done, zone, key, corefile, tries>>
bounds == <<faults, edits, now>>
vars   == <<obj, seen, pending, local, bounds>>

\* What Reconcile does, in order.  Steps named after an object create or
\* update it; "zones" does so for every zone of the Ksdns resource.
Plan == << "status", "tsig", "secret", "zones",
           "corednsInputs", "corednsCM", "corednsSA", "corednsSvc", "corednsDep",
           "zupdSvc", "zupdSA", "role", "binding",
           "zupdInputs", "zupdCM", "zupdDep" >>

Fixed == {"secret", "corednsCM", "corednsSA", "corednsSvc", "corednsDep",
          "zupdSvc", "zupdSA", "role", "binding", "zupdCM", "zupdDep"}
Ensured == Fixed \cup ZoneNames
Objects == Ensured \cup {"ksdns", "tsig"}

WrongWatched == {"ksdns", "tsig", "secret", "corednsCM", "corednsDep", "zupdCM",
                 "zupdDep"} \cup ZoneNames

\* The types that SetupWithManager watches: the Ksdns resource itself, and
\* objects that it owns.
Watched == {"ksdns", "tsig", "secret", "corednsCM", "corednsSvc", "corednsDep",
            "zupdSvc", "zupdCM", "zupdDep"} \cup ZoneNames

WrongDropped == ZoneNames \cup {"zupdSvc", "zupdCM", "corednsSA"}

\* The writes whose errors are dropped: ensureZones, ensureZupdSvc and
\* ensureZupdConfigMap do not look at what CreateOrUpdateWithRetries returns.
Dropped == ZoneNames \cup {"zupdSvc", "zupdCM"}

\* Here the mutate function only sets the owner: an existing object stays.
OwnerOnly == {"corednsSA", "corednsDep", "zupdSA", "role", "binding", "zupdDep"}

\* Of a service only the fields that the code sets are compared, and of a
\* secret a field that the server never returns: these are updated each time,
\* although a server that has the same content already changes nothing.
AlwaysUpdated == {"secret", "corednsSvc", "zupdSvc"}

LinkLocal == "169.254.0.1"
ServiceIP == "10.0.0.1"

\* What a Corefile is rendered from.
Corefiles == [zones : SUBSET ZoneNames, from : {LinkLocal, ServiceIP}]

\* TSIG keys: the one the operator makes, those the user writes (each of a new
\* version, with both fields or not), and what a read that failed leaves.
Keys == [version : 0..MaxEdits, complete : BOOLEAN]
MadeKey == [version |-> 0, complete |-> TRUE]
NoKey   == [version |-> 0, complete |-> FALSE]

ASSUME NamesAssumption == ZoneNames \cap (Fixed \cup {"ksdns", "tsig"}) = {}
ASSUME AbsentAssumption ==
    Absent \notin {"ok", ServiceIP} \cup {s.image : s \in Specs}
                  \cup Corefiles \cup Keys
                  \cup [serial : 0..MaxTime, owned : BOOLEAN]

Init ==
    /\ \E s \in Specs :
         obj = [o \in Objects |->
                  IF o = "ksdns" THEN [spec |-> s, conditions |-> FALSE] ELSE Absent]
    /\ seen = obj
    /\ pending = TRUE
    /\ step = 0
    /\ ks = Absent
    /\ done = {}
    /\ zone = Absent
    /\ key = Absent
    /\ corefile = Absent
    /\ tries = 0
    /\ faults = 0 /\ edits = 0 /\ now = 0
-----------------------------------------------------------------------------
At(s) == step > 0 /\ Plan[step] = s

\* Reconcile returns; its local variables are gone.
Return ==
    /\ step' = 0
    /\ ks' = Absent
    /\ done' = {}
    /\ zone' = Absent
    /\ key' = Absent
    /\ corefile' = Absent
    /\ tries' = 0

\* It returns an error: the request is queued again.
Abort == Return /\ pending' = TRUE

\* On to the next step of the plan, or to the end.
Advance == IF step = Len(Plan) THEN Return
           ELSE /\ step' = step + 1
                /\ tries' = 0
                /\ UNCHANGED <<ks, done, zone, key, corefile>>

\* As Advance, with a result kept in one of the local variables.
AdvanceWith(k, c) ==
    /\ step' = step + 1
    /\ tries' = 0
    /\ key' = k
    /\ corefile' = c
    /\ UNCHANGED <<ks, done, zone>>

\* An API error or a crash, from the budget that bounds how many there are.
Fault ==
    /\ faults < MaxFaults
    /\ faults' = faults + 1
    /\ UNCHANGED <<edits, now>>

\* The worker takes the request; Get finds the resource in the cache.
GetKsdns ==
    /\ step = 0
    /\ pending
    /\ pending' = FALSE
    /\ step' = 1
    /\ ks' = seen["ksdns"]
    /\ UNCHANGED <<obj, seen, done, zone, key, corefile, tries, bounds>>

\* A resource without conditions gets its first one, and is read again, from
\* the cache.  Writing a stale copy is a conflict.
SetStatus ==
    /\ At("status")
    /\ IF ks.conditions
       THEN Advance /\ UNCHANGED <<obj, pending>>
       ELSE IF ks = obj["ksdns"]
       THEN /\ obj' = [obj EXCEPT !["ksdns"].conditions = TRUE]
            /\ ks' = seen["ksdns"]
            /\ step' = step + 1
            /\ UNCHANGED <<pending, done, zone, key, corefile, tries>>
       ELSE Abort /\ UNCHANGED obj
    /\ UNCHANGED <<seen, bounds>>

WrongMakeTsigSecret ==
    /\ At("tsig")
    /\ ~UserSecret
    /\ seen["tsig"] = Absent
    /\ obj' = [obj EXCEPT !["tsig"] = IF @ = Absent THEN MadeKey ELSE NoKey]
    /\ AdvanceWith(obj'["tsig"], corefile)
    /\ UNCHANGED <<seen, pending, bounds>>

\* ensureCoreDNSSecret makes a TSIG key if the cache has no secret; Create
\* fails if there is one all the same.
MakeTsigSecret ==
    /\ At("tsig")
    /\ ~UserSecret
    /\ seen["tsig"] = Absent
    /\ IF obj["tsig"] = Absent
       THEN /\ obj' = [obj EXCEPT !["tsig"] = MadeKey]
            /\ AdvanceWith(MadeKey, corefile)
            /\ UNCHANGED pending
       ELSE Abort /\ UNCHANGED obj
    /\ UNCHANGED <<seen, bounds>>

WrongReadTsigSecret ==
    /\ At("tsig")
    /\ seen["tsig"] # Absent
    /\ AdvanceWith(seen["tsig"], corefile)
    /\ UNCHANGED <<obj, seen, pending, bounds>>

\* It reads the secret; one of the user's must be there and have its fields.
ReadTsigSecret ==
    /\ At("tsig")
    /\ UserSecret \/ seen["tsig"] # Absent
    /\ IF UserSecret /\ (seen["tsig"] = Absent \/ ~seen["tsig"].complete)
       THEN Abort
       ELSE AdvanceWith(seen["tsig"], corefile) /\ UNCHANGED pending
    /\ UNCHANGED <<obj, seen, bounds>>

\* Get fails with another error: for the operator's own secret that is not
\* looked at, and the key in hand is empty.
ReadTsigSecretFails ==
    /\ At("tsig")
    /\ ReadFails
    /\ Fault
    /\ IF UserSecret
       THEN Abort
       ELSE AdvanceWith(NoKey, corefile) /\ UNCHANGED pending
    /\ UNCHANGED <<obj, seen>>


\* ensureZones renders the next zone, with the clock as its SOA serial.
RenderZone ==
    /\ At("zones")
    /\ zone = Absent
    /\ \E z \in ks.spec.zones \ (done \cup Unrenderable) :
         zone' = [name |-> z, serial |-> now]
    /\ UNCHANGED <<obj, seen, pending, step, ks, done, key, corefile, tries, bounds>>

\* A zone that cannot be converted is logged and left out.
SkipZone ==
    /\ At("zones")
    /\ zone = Absent
    /\ \E z \in (ks.spec.zones \cap Unrenderable) \ done : done' = done \cup {z}
    /\ UNCHANGED <<obj, seen, pending, step, ks, zone, key, corefile, tries, bounds>>

ZonesDone ==
    /\ At("zones")
    /\ zone = Absent
    /\ ks.spec.zones \subseteq done
    /\ Advance
    /\ UNCHANGED <<obj, seen, pending, bounds>>

\* The zones the operator finds in the namespace.
ListedZones == {z \in ZoneNames : seen[z] # Absent}

\* Without a zupd service in the cache, a link-local address stands in.
ZupdAddress == IF seen["zupdSvc"] = Absent THEN LinkLocal ELSE ServiceIP

\* The Corefiles are rendered from the zones in the namespace, CoreDNS's also
\* from the address of zupd; zupd's list of transfer targets is commented out.
ReadInputs ==
    /\ At("corednsInputs") \/ At("zupdInputs")
    /\ AdvanceWith(key, [zones |-> ListedZones,
                         from |-> IF At("zupdInputs") THEN LinkLocal ELSE ZupdAddress])
    /\ UNCHANGED <<obj, seen, pending, bounds>>

ReadInputsFails ==
    /\ At("corednsInputs") \/ At("zupdInputs")
    /\ Fault
    /\ Abort
    /\ UNCHANGED <<obj, seen>>

\* CoreDNS's service can only be of type ClusterIP.
UnsupportedService ==
    /\ At("corednsSvc")
    /\ ks.spec.type # "ClusterIP"
    /\ Abort
    /\ UNCHANGED <<obj, seen, bounds>>
-----------------------------------------------------------------------------
(* CreateOrUpdateWithRetries at the object the worker has come to.         *)

Ensuring(o) ==
    \/ o \in Fixed /\ At(o) /\ (o = "corednsSvc" => ks.spec.type = "ClusterIP")
    \/ At("zones") /\ zone # Absent /\ zone.name = o

\* The object as the code builds it.
Built(o) ==
    CASE o \in ZoneNames -> [serial |-> zone.serial, owned |-> TRUE]
      [] o = "secret" -> key
      [] o \in {"corednsCM", "zupdCM"} -> corefile
      [] o \in {"corednsDep", "zupdDep"} -> ks.spec.image
      [] o = "zupdSvc" -> ServiceIP
      [] OTHER -> "ok"

\* The object after the mutate function ran on what the cache has of it.
Mutated(o) ==
    IF o \in OwnerOnly /\ seen[o] # Absent THEN seen[o] ELSE Built(o)

Updates(o) == Mutated(o) # seen[o] \/ o \in AlwaysUpdated

\* On to the next object.
Proceed(o) ==
    IF o \in ZoneNames
    THEN /\ done' = done \cup {o}
         /\ zone' = Absent
         /\ tries' = 0
         /\ UNCHANGED <<step, ks, key, corefile>>
    ELSE Advance

\* The write failed for good.
GiveUp(o) ==
    IF o \in Dropped THEN Proceed(o) /\ UNCHANGED pending ELSE Abort

LeaveAlone(o) ==
    /\ Ensuring(o)
    /\ ~Updates(o)
    /\ Proceed(o)
    /\ UNCHANGED <<obj, seen, pending, bounds>>

\* The server takes the object if the cache was right about it.
Write(o) ==
    /\ Ensuring(o)
    /\ Updates(o)
    /\ obj[o] = seen[o]
    /\ obj' = [obj EXCEPT ![o] = Mutated(o)]
    /\ IF o \in Lagging
       THEN UNCHANGED <<seen, pending>>
       ELSE seen' = [seen EXCEPT ![o] = Mutated(o)] /\ pending' = (pending \/ (o \in Watched /\ obj'[o] # obj[o]))
    /\ Proceed(o)
    /\ UNCHANGED bounds

\* Create of an object that exists is an error that is not retried.
AlreadyExists(o) ==
    /\ Ensuring(o)
    /\ seen[o] = Absent
    /\ obj[o] # Absent
    /\ GiveUp(o)
    /\ UNCHANGED <<obj, seen, bounds>>

WrongConflict(o) ==
    /\ Ensuring(o)
    /\ seen[o] # Absent
    /\ Updates(o)
    /\ obj[o] # seen[o]
    /\ tries <= MaxTries
    /\ tries' = tries + 1
    /\ UNCHANGED <<pending, step, ks, done, zone, key, corefile, obj, seen, bounds>>

\* Update of a stale copy is a conflict: retried from a new read of the
\* cache, a number of times.
Conflict(o) ==
    /\ Ensuring(o)
    /\ seen[o] # Absent
    /\ Updates(o)
    /\ obj[o] # seen[o]
    /\ IF tries + 1 < MaxTries
       THEN tries' = tries + 1 /\ UNCHANGED <<pending, step, ks, done, zone, key, corefile>>
       ELSE GiveUp(o)
    /\ UNCHANGED <<obj, seen, bounds>>

WriteFails(o) ==
    /\ Ensuring(o)
    /\ o \in Failing
    /\ Updates(o)
    /\ Fault
    /\ GiveUp(o)
    /\ UNCHANGED <<obj, seen>>

EnsureObject(o) ==
    LeaveAlone(o) \/ Write(o) \/ AlreadyExists(o) \/ Conflict(o) \/ WriteFails(o)
-----------------------------------------------------------------------------
(* The rest of the cluster.                                                *)

\* The cache catches up with an object; a change of a watched object that
\* belongs to the Ksdns resource queues a request.
OwnedByKsdns(o) == o \in Watched /\ ~(o = "tsig" /\ UserSecret)
                   /\ (o \in ZoneNames => obj[o].owned)

Sync(o) ==
    /\ seen[o] # obj[o]
    /\ seen' = [seen EXCEPT ![o] = obj[o]]
    /\ pending' = (pending \/ OwnedByKsdns(o))
    /\ UNCHANGED <<obj, local, bounds>>

EditKsdns(s) ==
    /\ edits < MaxEdits
    /\ obj["ksdns"].spec # s
    /\ obj' = [obj EXCEPT !["ksdns"].spec = s]
    /\ edits' = edits + 1
    /\ UNCHANGED <<seen, pending, local, faults, now>>

CreateZone(z) ==
    /\ obj[z] = Absent
    /\ obj' = [obj EXCEPT ![z] = [serial |-> 0, owned |-> FALSE]]
    /\ UNCHANGED <<seen, pending, local, bounds>>

\* The user creates the secret of spec.secret, corrects it or replaces its key.
ProvideSecret ==
    /\ UserSecret
    /\ edits < MaxEdits
    /\ edits' = edits + 1
    /\ \E c \in BOOLEAN :
         obj' = [obj EXCEPT !["tsig"] = [version |-> edits', complete |-> c]]
    /\ UNCHANGED <<seen, pending, local, faults, now>>

\* Seconds pass without end; the clock goes round, as what counts is only
\* whether it differs from the time of the last rendering.
Tick ==
    /\ now' = (now + 1) % (MaxTime + 1)
    /\ UNCHANGED <<obj, seen, pending, local, faults, edits>>

\* The operator dies and starts again: its caches are filled from the server
\* and the resource is queued.
Restart ==
    /\ Fault
    /\ Return
    /\ seen' = obj
    /\ pending' = TRUE
    /\ UNCHANGED obj

Reconcile ==
    \/ GetKsdns \/ SetStatus
    \/ MakeTsigSecret \/ ReadTsigSecret \/ ReadTsigSecretFails
    \/ RenderZone \/ SkipZone \/ ZonesDone
    \/ ReadInputs \/ ReadInputsFails
    \/ UnsupportedService
    \/ \E o \in Ensured : EnsureObject(o)

Next ==
    \/ Reconcile
    \/ \E o \in Objects : Sync(o)
    \/ \E s \in Specs : EditKsdns(s)
    \/ \E z \in Foreign : CreateZone(z)
    \/ ProvideSecret
    \/ Tick
    \/ Restart

Spec == Init /\ [][Next]_vars

(***************************************************************************)
(* The worker runs as long as it can, and every change of an object        *)
(* reaches the caches.  Nothing is assumed of users and of the clock.      *)
(***************************************************************************)
Fairness ==
    /\ WF_vars(Reconcile)
    /\ \A o \in Objects : WF_vars(Sync(o))

FairSpec == Spec /\ Fairness
-----------------------------------------------------------------------------
Wanted == obj["ksdns"].spec

\* Each variable holds a value of its kind.
TypeOK ==
    /\ DOMAIN obj = Objects /\ DOMAIN seen = Objects
    /\ Wanted \in Specs
    /\ obj["tsig"] \in {Absent} \cup (IF UserSecret THEN Keys ELSE {MadeKey})
    /\ obj["secret"] \in {Absent} \cup Keys
    /\ pending \in BOOLEAN
    /\ step \in 0..Len(Plan)
    /\ done \subseteq ZoneNames
    /\ tries \in 0..(MaxTries - 1)
    /\ faults \in 0..MaxFaults /\ edits \in 0..MaxEdits /\ now \in 0..MaxTime

\* The objects that come before o in the plan.
Before(o) == {p \in Fixed : \E i, j \in 1..Len(Plan) : i < j /\ Plan[i] = p /\ Plan[j] = o}

\* The order that the comment in Reconcile (controller.go:67) sets: when one of
\* the Deployments is made, all that comes before it is there, what its pods
\* mount and run as and the zones of the resource included, also with caches
\* that lag behind and writes that fail.  (Where no error is dropped.)
DeploymentsComeLast ==
    [][\A d \in {"corednsDep", "zupdDep"} : obj[d] = Absent /\ obj'[d] # Absent =>
          \A o \in Before(d) \cup ks.spec.zones : obj[o] # Absent]_vars

\* The TSIG configuration that both deployments mount never has a key other
\* than the one in the operator's own secret, whatever is stale or fails to be
\* written.  (Where reads of that secret do not fail.)
KeysAgree == obj["secret"] # Absent => obj["secret"] = obj["tsig"]

\* A key of the user's takes a while to be mounted, or is never (nobody watches
\* the user's secret), but what is mounted is a whole key, and only ever makes
\* way for a later one: no stale cache, failed read, conflict or restart brings
\* back a key that the user has replaced, or mounts one with a field missing.
OnlyNewerKeysAreMounted ==
    [][UserSecret /\ obj'["secret"] # obj["secret"] =>
          /\ obj'["secret"].complete
          /\ obj["secret"] # Absent =>
                obj["secret"].version < obj'["secret"].version]_vars

\* The desired state, for what Reconcile keeps up to date.
Deployed == obj["corednsDep"] # Absent /\ obj["zupdDep"] # Absent

ConfigComplete ==
    /\ \A c \in {"corednsCM", "zupdCM"} :
         obj[c] # Absent /\ obj[c].zones = {z \in ZoneNames : obj[z] # Absent}
    /\ obj["corednsCM"].from = ServiceIP

DesiredState ==
    /\ Deployed
    /\ obj["tsig"] # Absent /\ obj["secret"] = obj["tsig"]
    /\ \A z \in Wanted.zones : obj[z] # Absent
    /\ ConfigComplete

\* The operator rests only when it is done: while the desired state is not
\* reached, a request is queued, or the worker is at one, or some cache has yet
\* to learn of a change that queues one.  (Where no error is dropped, the zones
\* are the operator's own, and so is the TSIG secret, and can be read.)
RestsOnlyWhenDone == step = 0 /\ ~pending /\ seen = obj => DesiredState

\* With every object that turns up, Reconcile runs again, until CoreDNS's
\* configuration has zupd's address and both have every zone of the operator's:
\* although zupd's service is made after CoreDNS's configuration, and the
\* caches lag behind.
ReachesDesiredState == <>[]DesiredState

=============================================================================
