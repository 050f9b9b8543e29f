---------------------------- MODULE ZoneRegistry ----------------------------
(***************************************************************************)
(* The registry of zones of one zupd process: the maps Z and DynamicZones  *)
(* and the slice Names, which the Zone controller fills from Zone objects  *)
(* and ServeDNS reads.  The controller holds the lock of the registry when *)
(* it writes, but ServeDNS takes no lock to read, so that every single     *)
(* write can come between two reads of a query.  Where the Go runtime      *)
(* notices two overlapping accesses to a map, the process ends: that is a  *)
(* Restart, which is possible at any time.                                 *)
(*                                                                         *)
(* Objects of one namespace; zones that do not contain one another.  A     *)
(* zone's records are abstracted to those of its spec, to be read or not,  *)
(* and one set of dynamic records.  An update goes on with the dynamic     *)
(* zone it looked up, be it still the registry's or not; of its own steps  *)
(* (DynamicUpdate has them all) the three are here that touch what a zone  *)
(* has or what is saved of it.  Definitions named Wrong... are variants of *)
(* the definition that follows them with a bug; no specification uses      *)
(* them, they serve to see that properties can fail.                       *)
(***************************************************************************)
EXTENDS Naturals, Sequences, FiniteSets, SequencesExt

CONSTANTS
    ZoneNames,   \* the names of zones
    Specs,       \* contents of spec.zone
    Unreadable,  \* those that file.Parse rejects
    RRs,         \* dynamic records
    Queries,     \* goroutines that serve queries and updates
    Nothing,     \* no object, no zone
    Updated,     \* bound: the zones that clients update
    MaxChanges,  \* bound: changes of objects by users
    MaxRestarts  \* bound: restarts of the process

ASSUME ZonesAssumption == IsFiniteSet(ZoneNames) /\ Unreadable \subseteq Specs
ASSUME NothingAssumption ==
    /\ Nothing \notin ZoneNames /\ Nothing \notin Specs
    /\ \A rrs \in SUBSET RRs : Nothing # rrs
    /\ \A s \in Specs, d \in BOOLEAN : Nothing # [spec |-> s, deleting |-> d]
    /\ \A s \in Specs, rrs \in SUBSET RRs :
         Nothing \notin {[spec |-> s, saved |-> rrs], [static |-> s, dynamic |-> rrs]}
ASSUME LimitsAssumption == {MaxChanges, MaxRestarts} \subseteq Nat

VARIABLES
    api,          \* the Zone object of each name on the API server
    status,       \* its status.dynamicRRs
    cache,        \* what the controller's cache has of the object
    queue,        \* the names in the controller's work queue
    Z,            \* the static zones
    DynamicZones, \* the dynamic zones
    Names,        \* the slice of names
    rc,           \* where the controller's worker is: [at, zone, obj]
    query,        \* where each query is: [at, zone, view, pos, shares, steady, holds]
    changes,      \* changes of objects so far
    restarts      \* restarts so far

registry == <<Z, DynamicZones, Names>>
objects  == <<api, status>>
bounds   == <<changes, restarts>>
vars     == <<objects, cache, queue, registry, rc, query, bounds>>

WrongParses(n) == api[n] # Nothing

Parses(n) == api[n] # Nothing /\ api[n].spec \notin Unreadable

\* initialize loads the objects that can be parsed, with their saved records,
\* one after the other in some order.
Loaded == SetToSeq({n \in ZoneNames : Parses(n)})

Idle == [at |-> "idle", zone |-> Nothing, obj |-> Nothing]
NoQuery == [at |-> "idle", zone |-> Nothing, view |-> <<>>, pos |-> 1,
            shares |-> FALSE, steady |-> FALSE, holds |-> FALSE]
\* A query is over, with this outcome (or there was none yet).
Outcomes == {"idle", "answered", "servfail", "panicked", "missed", "unsaved"}

WrongLoad ==
    /\ Z' = [n \in ZoneNames |-> IF Parses(n) THEN api[n].spec ELSE Nothing]
    /\ DynamicZones' = [n \in ZoneNames |-> IF Parses(n) THEN {} ELSE Nothing]
    /\ Names' = Loaded

Load ==
    /\ Z' = [n \in ZoneNames |-> IF Parses(n) THEN api[n].spec ELSE Nothing]
    /\ DynamicZones' = [n \in ZoneNames |-> IF Parses(n) THEN status[n] ELSE Nothing]
    /\ Names' = Loaded

Init ==
    /\ api \in [ZoneNames -> {Nothing} \cup [spec : Specs, deleting : {FALSE}]]
    /\ status = [n \in ZoneNames |-> {}]
    /\ cache = api
    /\ queue = {n \in ZoneNames : api[n] # Nothing}
    /\ Z = [n \in ZoneNames |-> IF Parses(n) THEN api[n].spec ELSE Nothing]
    /\ DynamicZones = [n \in ZoneNames |-> IF Parses(n) THEN {} ELSE Nothing]
    /\ Names = Loaded
    /\ rc = Idle
    /\ query = [q \in Queries |-> NoQuery]
    /\ changes = 0
    /\ restarts = 0
-----------------------------------------------------------------------------
(* Zone objects.                                                           *)

Change == changes < MaxChanges /\ changes' = changes + 1 /\ UNCHANGED restarts

CreateObject(n, s) ==
    /\ api[n] = Nothing
    /\ Change
    /\ api' = [api EXCEPT ![n] = [spec |-> s, deleting |-> FALSE]]
    /\ UNCHANGED <<status, cache, queue, registry, rc, query>>

EditObject(n, s) ==
    /\ api[n] # Nothing /\ api[n].spec # s
    /\ Change
    /\ api' = [api EXCEPT ![n].spec = s]
    /\ UNCHANGED <<status, cache, queue, registry, rc, query>>

\* An object with finalizers is only marked: it has a deletion timestamp.
MarkDeleting(n) ==
    /\ api[n] # Nothing /\ ~api[n].deleting
    /\ Change
    /\ api' = [api EXCEPT ![n].deleting = TRUE]
    /\ UNCHANGED <<status, cache, queue, registry, rc, query>>

\* The object goes, at once or when its last finalizer is taken off.
RemoveObject(n) ==
    /\ api[n] # Nothing
    /\ Change
    /\ api' = [api EXCEPT ![n] = Nothing]
    /\ status' = [status EXCEPT ![n] = {}]
    /\ UNCHANGED <<cache, queue, registry, rc, query>>

WrongDeliver(n) ==
    /\ cache[n] # api[n]
    /\ cache' = [cache EXCEPT ![n] = api[n]]
    /\ queue' = IF cache[n] = Nothing THEN queue \cup {n} ELSE queue
    /\ UNCHANGED <<objects, registry, rc, query, bounds>>

\* The cache learns of a change.  Only changes of the status are filtered
\* out: a new spec and a deletion timestamp are new generations.  An object
\* that goes and comes back is two events, here perhaps in one step.
Deliver(n) ==
    /\ cache[n] # api[n]
    /\ cache' = [cache EXCEPT ![n] = api[n]]
    /\ queue' = queue \cup {n}
    /\ UNCHANGED <<objects, registry, rc, query, bounds>>
-----------------------------------------------------------------------------
(* Reconcile.  Its steps are its writes to the registry, in order.         *)

\* The worker takes a name; without an object in the cache, it is done.
Take(n) ==
    /\ rc = Idle
    /\ n \in queue
    /\ queue' = queue \ {n}
    /\ rc' = IF cache[n] = Nothing THEN Idle
             ELSE [at |-> "decide", zone |-> n, obj |-> cache[n]]
    /\ UNCHANGED <<objects, cache, registry, query, bounds>>

At(step) == rc.at = step
Goto(step) == rc' = [rc EXCEPT !.at = step]

\* A query of a zone that goes away is not about a steady zone any more.
Unsettled(n) ==
    [q \in Queries |-> IF query[q].zone = n
                       THEN [query[q] EXCEPT !.steady = FALSE] ELSE query[q]]

\* DeleteZone, if the object is being deleted and the zone is loaded: the
\* static zone goes first, then the dynamic one, then the name.
DeleteStatic ==
    /\ At("decide")
    /\ rc.obj.deleting
    /\ Z[rc.zone] # Nothing
    /\ Z' = [Z EXCEPT ![rc.zone] = Nothing]
    /\ query' = Unsettled(rc.zone)
    /\ Goto("deleteDynamic")
    /\ UNCHANGED <<objects, cache, queue, DynamicZones, Names, bounds>>

\* An update of the zone goes on with a dynamic zone that nobody else has.
DeleteDynamic ==
    /\ At("deleteDynamic")
    /\ DynamicZones' = [DynamicZones EXCEPT ![rc.zone] = Nothing]
    /\ query' = [q \in Queries |-> IF query[q].zone = rc.zone
                                   THEN [query[q] EXCEPT !.holds = FALSE] ELSE query[q]]
    /\ Goto("deleteName")
    /\ UNCHANGED <<objects, cache, queue, Z, Names, bounds>>

WrongDeleteName ==
    /\ At("deleteName")
    /\ rc' = Idle
    /\ UNCHANGED <<objects, cache, queue, registry, query, bounds>>

\* append(Names[:i], Names[i+1:]...) moves the later names within the array
\* that the queries at their loop are reading.
DeleteName ==
    /\ At("deleteName")
    /\ \E i \in 1..Len(Names) :
         /\ Names[i] = rc.zone
         /\ \A j \in 1..(i - 1) : Names[j] # rc.zone
         /\ Names' = RemoveAt(Names, i)
         /\ query' = [q \in Queries |->
                        [query[q] EXCEPT !.view =
                          [k \in 1..Len(@) |->
                             IF query[q].shares /\ k \in i..(Len(Names) - 1)
                             THEN Names[k + 1] ELSE @[k]]]]
    /\ rc' = Idle
    /\ UNCHANGED <<objects, cache, queue, Z, DynamicZones, bounds>>

Keeps == At("decide") /\ ~(rc.obj.deleting /\ Z[rc.zone] # Nothing)

\* A zone that cannot be read is an error: the request is queued again.
ParseFails ==
    /\ Keeps
    /\ rc.obj.spec \in Unreadable
    /\ queue' = queue \cup {rc.zone}
    /\ rc' = Idle
    /\ UNCHANGED <<objects, cache, registry, query, bounds>>

\* A new zone starts with an empty dynamic zone; a known one keeps its own.
SetStatic ==
    /\ Keeps
    /\ rc.obj.spec \notin Unreadable
    /\ Z' = [Z EXCEPT ![rc.zone] = rc.obj.spec]
    /\ IF Z[rc.zone] = Nothing THEN Goto("createDynamic") ELSE rc' = Idle
    /\ UNCHANGED <<objects, cache, queue, DynamicZones, Names, query, bounds>>

CreateDynamic ==
    /\ At("createDynamic")
    /\ DynamicZones' = [DynamicZones EXCEPT ![rc.zone] = {}]
    /\ Goto("createName")
    /\ UNCHANGED <<objects, cache, queue, Z, Names, query, bounds>>

\* append(Names, name): in the free space of the same array, or in a new
\* array that the queries at their loop do not see.
CreateName ==
    /\ At("createName")
    /\ Names' = Append(Names, rc.zone)
    /\ \E inPlace \in BOOLEAN :
         /\ (\E q \in Queries : query[q].shares /\ Len(query[q].view) > Len(Names))
              => inPlace
         /\ query' = [q \in Queries |->
                        [query[q] EXCEPT
                           !.view = [k \in 1..Len(@) |->
                              IF query[q].shares /\ inPlace /\ k = Len(Names) + 1
                              THEN rc.zone ELSE @[k]],
                           !.shares = @ /\ inPlace]]
    /\ rc' = Idle
    /\ UNCHANGED <<objects, cache, queue, Z, DynamicZones, bounds>>

Reconcile ==
    \/ \E n \in ZoneNames : Take(n)
    \/ DeleteStatic \/ DeleteDynamic \/ DeleteName
    \/ ParseFails \/ SetStatic \/ CreateDynamic \/ CreateName
-----------------------------------------------------------------------------
(* ServeDNS.                                                               *)

Over(q) == query[q].at \in Outcomes

\* The query is through with the slice of names.  Until its first change, an
\* update has the dynamic zone of the registry.
MoveTo(q, at) ==
    query' = [query EXCEPT ![q] = [@ EXCEPT !.at = at, !.view = <<>>, !.pos = 1,
                                            !.shares = FALSE, !.holds = (at = "change")]]

\* Matches loops over the slice as it is now, in the array it is in now.
StartQuery(q, n) ==
    /\ Over(q)
    /\ query' = [query EXCEPT ![q] =
                   [at |-> "match", zone |-> n, view |-> Names, pos |-> 1,
                    shares |-> TRUE, holds |-> FALSE,
                    steady |-> /\ Z[n] # Nothing /\ DynamicZones[n] # Nothing
                               /\ n \in Range(Names)]]
    /\ UNCHANGED <<objects, cache, queue, registry, rc, bounds>>

Match(q) ==
    /\ query[q].at = "match"
    /\ LET v == query[q].view
           i == query[q].pos
       IN  IF i > Len(v) THEN MoveTo(q, "missed")
           ELSE IF v[i] = query[q].zone THEN MoveTo(q, "dynamic")
           ELSE query' = [query EXCEPT ![q].pos = i + 1]
    /\ UNCHANGED <<objects, cache, queue, registry, rc, bounds>>

WrongLookupDynamic(q) ==
    /\ query[q].at = "dynamic"
    /\ MoveTo(q, IF DynamicZones[query[q].zone] \in {Nothing, {}}
                 THEN "servfail" ELSE "merge")
    /\ UNCHANGED <<objects, cache, queue, registry, rc, bounds>>

\* No dynamic zone: a server failure.  Otherwise this is a query or an update.
LookupDynamic(q) ==
    /\ query[q].at = "dynamic"
    /\ IF DynamicZones[query[q].zone] = Nothing THEN MoveTo(q, "servfail")
       ELSE \/ MoveTo(q, "merge")
            \/ query[q].zone \in Updated /\ MoveTo(q, "change")
    /\ UNCHANGED <<objects, cache, queue, registry, rc, bounds>>

\* The records of an update are put into the dynamic zone it looked up: the
\* registry's, or one that DeleteZone has taken out since.
ChangeMemory(q, rrs) ==
    /\ query[q].at = "change"
    /\ DynamicZones' = IF query[q].holds
                       THEN [DynamicZones EXCEPT ![query[q].zone] = rrs] ELSE DynamicZones
    /\ query' = [query EXCEPT ![q].at = "save"]
    /\ UNCHANGED <<objects, cache, queue, Z, Names, rc, bounds>>

\* The records of that dynamic zone become the status of the object, under
\* its read lock.  Of one that was taken out they are not known here.
SaveStatus(q, rrs) ==
    /\ query[q].at = "save"
    /\ api[query[q].zone] # Nothing
    /\ query[q].holds => rrs = DynamicZones[query[q].zone]
    /\ status' = [status EXCEPT ![query[q].zone] = rrs]
    /\ MoveTo(q, "merge")
    /\ UNCHANGED <<api, cache, queue, registry, rc, bounds>>

\* No object, a request that fails, or a record that cannot be taken: the
\* update ends there, with its changes in memory.
FailUpdate(q) ==
    /\ query[q].at = "save"
    /\ MoveTo(q, "unsaved")
    /\ UNCHANGED <<objects, cache, queue, registry, rc, bounds>>

\* Merge returns no zone if either is gone by now, and ServeDNS uses it all
\* the same: a nil pointer.
MergeZones(q) ==
    /\ query[q].at = "merge"
    /\ MoveTo(q, IF Nothing \in {Z[query[q].zone], DynamicZones[query[q].zone]}
              THEN "panicked" ELSE "answered")
    /\ UNCHANGED <<objects, cache, queue, registry, rc, bounds>>

\* The process is restarted: initialize, and the controller's first list.
Restart ==
    /\ restarts < MaxRestarts
    /\ restarts' = restarts + 1
    /\ Load
    /\ cache' = api
    /\ queue' = {n \in ZoneNames : api[n] # Nothing}
    /\ rc' = Idle
    /\ query' = [q \in Queries |-> NoQuery]
    /\ UNCHANGED <<objects, changes>>

Next ==
    \/ \E n \in ZoneNames, s \in Specs : CreateObject(n, s) \/ EditObject(n, s)
    \/ \E n \in ZoneNames : MarkDeleting(n) \/ RemoveObject(n) \/ Deliver(n)
    \/ Reconcile
    \/ \E q \in Queries, n \in ZoneNames : StartQuery(q, n)
    \/ \E q \in Queries : Match(q) \/ LookupDynamic(q) \/ FailUpdate(q) \/ MergeZones(q)
    \/ \E q \in Queries, rrs \in SUBSET RRs : ChangeMemory(q, rrs) \/ SaveStatus(q, rrs)
    \/ Restart

Spec == Init /\ [][Next]_vars

\* The caches learn of every change and the controller's worker keeps going.
Fairness ==
    /\ \A n \in ZoneNames : WF_vars(Deliver(n)) /\ SF_vars(Take(n))
    /\ WF_vars(Reconcile)

FairSpec == Spec /\ Fairness
-----------------------------------------------------------------------------
Changing(n) == rc.at \in {"deleteDynamic", "deleteName", "createDynamic", "createName"}
               /\ rc.zone = n

Objects == [spec : Specs, deleting : BOOLEAN]
\* The worker at the object of a zone.
Working == [at : {"decide", "deleteDynamic", "deleteName", "createDynamic",
                  "createName"}, zone : ZoneNames, obj : Objects]

\* A query: where it is, of which zone, at which element of which slice.
Serving == [at : Outcomes \cup {"match", "dynamic", "change", "save", "merge"},
            zone : ZoneNames \cup {Nothing},
            view : Seq(ZoneNames), pos : Nat \ {0},
            shares : BOOLEAN, steady : BOOLEAN, holds : BOOLEAN]

\* Each variable holds a value of its kind.
TypeOK ==
    /\ api \in [ZoneNames -> {Nothing} \cup Objects]
    /\ status \in [ZoneNames -> SUBSET RRs]
    /\ cache \in [ZoneNames -> {Nothing} \cup Objects]
    /\ queue \subseteq ZoneNames
    /\ Z \in [ZoneNames -> {Nothing} \cup (Specs \ Unreadable)]
    /\ DynamicZones \in [ZoneNames -> {Nothing} \cup SUBSET RRs]
    /\ Names \in Seq(ZoneNames)
    /\ rc = Idle \/ rc \in Working
    /\ query \in [Queries -> Serving]
    /\ changes \in 0..MaxChanges /\ restarts \in 0..MaxRestarts

\* Except within one change by the controller, the two maps and the slice
\* have the same zones, and the slice has each of them once.
RegistryCoherent ==
    /\ IsInjective(Names)
    /\ \A n \in ZoneNames : ~Changing(n) =>
         (Z[n] # Nothing <=> n \in Range(Names)) /\ (Z[n] # Nothing <=> DynamicZones[n] # Nothing)

\* Once the controller has seen a zone's object as it is, readable and not
\* being deleted, and has neither the zone in its queue nor in its hands, all
\* of the zone is served, with the contents of the object: no change of such
\* an object passes by unnoticed, no reconciliation of it stops half way, and
\* no failure is forgotten.
SettledIsServed ==
    \A n \in ZoneNames :
        n \notin queue /\ rc.zone # n /\ cache[n] = api[n]
        /\ Parses(n) /\ ~api[n].deleting =>
            Z[n] = api[n].spec /\ DynamicZones[n] # Nothing /\ n \in Range(Names)

\* A query is refused service, or ends in a panic, only if its zone was taken
\* out of the registry while it ran or was not all there when it began.
OnlyVanishingZonesFail ==
    \A q \in Queries : query[q].at \in {"servfail", "panicked"} => ~query[q].steady

\* A query of a zone that is there all the time is not passed on as a query
\* of a zone that zupd does not have, whatever happens to other zones.
SteadyZonesMatch ==
    \A q \in Queries : query[q].at = "missed" => ~query[q].steady

\* zupd ends up with the contents of every object that is not being deleted,
\* if it can read them.  (Of contents that it cannot read it says nothing:
\* the zone keeps its former ones, and after a restart it is not served.)
ServesLatest ==
    \A n \in ZoneNames :
        <>[](Parses(n) /\ ~api[n].deleting => Z[n] = api[n].spec)

\* A zone that comes up has the dynamic records saved in its status.
StatusIsLoaded ==
    [][\A n \in ZoneNames :
         n \in Range(Names') \ Range(Names) => status[n] \subseteq DynamicZones'[n]]_vars
-----------------------------------------------------------------------------
\* What the API server has of a zone, and what zupd serves of it, which is
\* something once the zone is in both maps and in the slice.
ObjectOf(n) ==
    IF api[n] = Nothing THEN Nothing ELSE [spec |-> api[n].spec, saved |-> status[n]]
ServedOf(n) ==
    IF n \in Range(Names) /\ Nothing \notin {Z[n], DynamicZones[n]}
    THEN [static |-> Z[n], dynamic |-> DynamicZones[n]] ELSE Nothing

\* An update that is under way in a dynamic zone that was taken out.
Astray(q) == query[q].at \in {"change", "save"} /\ ~query[q].holds
Strays == {n \in ZoneNames : \E q \in Queries : Astray(q) /\ query[q].zone = n}

Promise == INSTANCE ServedZones WITH
    object <- [n \in ZoneNames |-> ObjectOf(n)],
    served <- [n \in ZoneNames |-> ServedOf(n)],
    strays <- Strays,
    starts <- restarts

\* The three writes of a new zone, and of one that goes, make one change of
\* what is served, with updates and restarts at any point between them; and
\* what is saved is what is served then, if the zone stayed there.
PromiseKept == Promise!Spec
=============================================================================
