-------------------------- MODULE KsdnsRestProofs --------------------------
(***************************************************************************)
(* The proofs that Deployments come last and that the operator rests only  *)
(* when it is done (the safety half of its convergence to the desired      *)
(* state), for any specs, bounds, lagging caches and failing writes.       *)
(***************************************************************************)
EXTENDS KsdnsReconcileProofs

-----------------------------------------------------------------------------
(* Where the code converges: no user makes zones, no write fails whose     *)
(* error the code drops, and no zone of the resource is left out.          *)

OwnZones == Foreign = {}
NoDroppedErrors == Failing \cap Dropped = {} /\ Unrenderable = {}

Renderings == [name : ZoneNames, serial : 0..MaxTime]

\* The zone at hand was rendered at some time that has passed.
Rendered == zone # Absent => zone \in Renderings

LEMMA RenderedStep == Shape /\ Rendered /\ [Next]_vars => Rendered'
<1>. SUFFICES ASSUME Shape, Rendered, [Next]_vars PROVE Rendered'
  OBVIOUS
<1>0. Locals /\ Cluster /\ step \in 0..16
  BY ShapeParts, Places DEF Locals
<1>1. CASE RenderZone
  <2>1. step = 4 /\ ks \in Resources
    BY <1>0, <1>1, AtPlaces DEF RenderZone, Locals
  <2>2. ks.spec.zones \subseteq ZoneNames
    BY <2>1, SpecsAssumption DEF Resources
  <2>. QED
    BY <1>0, <1>1, <2>2 DEF RenderZone, Rendered, Renderings, Cluster
<1>2. CASE zone' = Absent \/ zone' = zone
  BY <1>2 DEF Rendered
<1>3. ASSUME NEW o \in Ensured, EnsureObject(o) PROVE zone' = Absent \/ zone' = zone
  BY <1>3
  DEF EnsureObject, LeaveAlone, Write, AlreadyExists, Conflict, WriteFails,
      Proceed, Advance, Return, GiveUp, Abort
<1>4. GetKsdns \/ SetStatus \/ MakeTsigSecret \/ ReadTsigSecret
      \/ ReadTsigSecretFails \/ SkipZone \/ ZonesDone \/ ReadInputs \/ ReadInputsFails
      \/ UnsupportedService \/ Restart \/ UNCHANGED local
         => zone' = Absent \/ zone' = zone
  BY DEF GetKsdns, SetStatus, MakeTsigSecret, ReadTsigSecret, ReadTsigSecretFails,
     SkipZone, ZonesDone, ReadInputs, ReadInputsFails, UnsupportedService, Restart, local,
     AdvanceWith, Advance, Return, Abort
<1>. QED
  BY <1>1, <1>2, <1>3, <1>4
  DEF Next, Reconcile, vars, Sync, EditKsdns, CreateZone, ProvideSecret, Tick

\* What the code builds for an object, a zone too, is something.
LEMMA BuiltIsThere ==
    ASSUME Shape, Rendered, NEW o \in Ensured, Ensuring(o)
    PROVE  /\ Mutated(o) # Absent
           /\ o \in ZoneNames => Mutated(o).owned = TRUE
           /\ o = "zupdSvc" => Mutated(o) = ServiceIP
           /\ o \in {"corednsCM", "zupdCM"} => Mutated(o) = corefile
<1>1. CASE o \in ZoneNames
  <2>1. zone \in Renderings
    BY <1>1, ObjectNames DEF Ensuring, Rendered
  <2>2. o \notin OwnerOnly /\ o \notin Fixed
    BY <1>1, ObjectNames DEF OwnerOnly, Fixed
  <2>3. Mutated(o) = [serial |-> zone.serial, owned |-> TRUE]
    <3>1. o \notin {"secret", "corednsCM", "zupdCM", "corednsDep", "zupdDep", "zupdSvc"}
      BY <2>2 DEF Fixed
    <3>2. Built(o) = [serial |-> zone.serial, owned |-> TRUE]
      BY <1>1, <3>1 DEF Built
    <3>. QED
      BY <2>2, <3>2 DEF Mutated
  <2>4. zone.serial \in 0..MaxTime
    BY <2>1 DEF Renderings
  <2>5. Mutated(o) \in [serial : 0..MaxTime, owned : BOOLEAN]
    BY <2>3, <2>4
  <2>6. Mutated(o) # Absent
    BY <2>5, AbsentAssumption
  <2>7. Mutated(o).owned = TRUE
    BY <2>3
  <2>8. o \notin {"zupdSvc", "corednsCM", "zupdCM"}
    BY <2>2 DEF Fixed
  <2>. QED
    BY <2>6, <2>7, <2>8
<1>2. CASE o \in Fixed
  <2>1. o \notin ZoneNames
    BY <1>2, ObjectNames
  <2>2. o = "zupdSvc" => o \notin OwnerOnly /\ Built(o) = ServiceIP
    BY <2>1 DEF Built, OwnerOnly
  <2>3. o \in {"corednsCM", "zupdCM"} => o \notin OwnerOnly /\ Built(o) = corefile
    BY <2>1 DEF Built, OwnerOnly
  <2>. QED
    BY <1>2, <2>1, <2>2, <2>3, Contents DEF Mutated
<1>. QED
  BY <1>1, <1>2 DEF Ensured

\* An ensured object changes where the worker ensures it, to what the code
\* builds, or is a zone that a user makes; the cache gets what the server had
\* or what was written.
LEMMA EnsuredStep ==
    ASSUME Shape, [Next]_vars, NEW o \in Ensured
    PROVE  /\ \/ obj'[o] = obj[o]
              \/ Ensuring(o) /\ obj'[o] = Mutated(o)
              \/ o \in Foreign /\ obj'[o] # Absent
           /\ seen'[o] \in {seen[o], obj[o], obj'[o]}
<1>0. Cluster
  BY ShapeParts
<1>. USE <1>0, ObjectNames DEF Cluster
<1>1. ASSUME NEW p \in Ensured, EnsureObject(p)
      PROVE  /\ obj'[o] = obj[o] \/ (Ensuring(o) /\ obj'[o] = Mutated(o))
             /\ seen'[o] \in {seen[o], obj[o], obj'[o]}
  BY <1>1, EnsureEffect
<1>2. CASE SetStatus \/ \E s \in Specs : EditKsdns(s)
  <2>1. obj' = obj \/ \E v : obj' = [obj EXCEPT !["ksdns"] = v]
    BY <1>2 DEF SetStatus, EditKsdns
  <2>2. seen' = seen
    BY <1>2 DEF SetStatus, EditKsdns
  <2>. QED
    BY <2>1, <2>2
<1>3. CASE MakeTsigSecret \/ ReadTsigSecret \/ ReadTsigSecretFails \/ ProvideSecret
  <2>1. obj' = obj \/ \E v : obj' = [obj EXCEPT !["tsig"] = v]
    BY <1>3 DEF MakeTsigSecret, ReadTsigSecret, ReadTsigSecretFails, ProvideSecret
  <2>2. seen' = seen
    BY <1>3 DEF MakeTsigSecret, ReadTsigSecret, ReadTsigSecretFails, ProvideSecret
  <2>. QED
    BY <2>1, <2>2
<1>4. ASSUME NEW z \in Foreign, CreateZone(z)
      PROVE  /\ obj'[o] = obj[o] \/ (o \in Foreign /\ obj'[o] # Absent)
             /\ seen' = seen
  <2>1. [serial |-> 0, owned |-> FALSE] \in [serial : 0..MaxTime, owned : BOOLEAN]
    BY BoundsAssumption
  <2>2. [serial |-> 0, owned |-> FALSE] # Absent
    BY <2>1, AbsentAssumption
  <2>. QED
    BY <1>4, <2>2 DEF CreateZone
<1>5. ASSUME NEW p \in Objects, Sync(p)
      PROVE  obj'[o] = obj[o] /\ seen'[o] \in {seen[o], obj[o]}
  BY <1>5 DEF Sync
<1>6. CASE GetKsdns \/ RenderZone \/ SkipZone \/ ZonesDone \/ ReadInputs \/ ReadInputsFails
           \/ UnsupportedService \/ Tick \/ Restart \/ UNCHANGED vars
  BY <1>6 DEF GetKsdns, RenderZone, SkipZone, ZonesDone, ReadInputs, ReadInputsFails,
     UnsupportedService, Tick, Restart, vars
<1>. QED
  BY <1>1, <1>2, <1>3, <1>4, <1>5, <1>6 DEF Next, Reconcile
-----------------------------------------------------------------------------
(* What the worker leaves behind.                                          *)

\* What a cache has is, or was, on the server, zones included.
CachedAll == \A o \in Ensured : seen[o] # Absent => obj[o] # Absent

\* All zones are the operator's.
Owned == \A z \in ZoneNames : obj[z] # Absent => obj[z].owned = TRUE

LEMMA CachedAllStep ==
    ASSUME Shape, Rendered, CachedAll, [Next]_vars
    PROVE  /\ CachedAll'
           /\ \A o \in Ensured : obj[o] # Absent => obj'[o] # Absent
<1>1. ASSUME NEW o \in Ensured
      PROVE  /\ obj'[o] = obj[o] \/ obj'[o] # Absent
             /\ seen'[o] \in {seen[o], obj[o], obj'[o]}
  BY EnsuredStep, BuiltIsThere
<1>. QED
  BY <1>1 DEF CachedAll

LEMMA OwnedStep ==
    ASSUME OwnZones, Shape, Rendered, Owned, [Next]_vars
    PROVE  Owned'
<1>1. ASSUME NEW z \in ZoneNames
      PROVE  obj'[z] = obj[z] \/ obj'[z].owned = TRUE
  BY EnsuredStep, BuiltIsThere, ObjectNames DEF OwnZones
<1>. QED
  BY <1>1 DEF Owned

\* The worker is past the object, which is there; and, if it is one of the
\* configurations, as it was rendered, or the cache is wrong about it.
Passed(o) ==
    /\ obj'[o] # Absent
    /\ o \in {"corednsCM", "zupdCM"} => obj'[o] = corefile \/ seen'[o] # obj'[o]

\* CreateOrUpdateWithRetries ends with an error that is looked at, tries
\* again, or leaves the object there.
LEMMA Ensures ==
    ASSUME NoDroppedErrors, Shape, Rendered, CachedAll,
           NEW o \in Ensured, EnsureObject(o)
    PROVE  \/ step' = 0 /\ pending'
           \/ UNCHANGED <<step, ks, done, zone, corefile>>
           \/ Proceed(o) /\ Passed(o)
<1>0. Ensuring(o) /\ Cluster /\ o \in Objects
  BY EnsureEffect, ShapeParts, ObjectNames
<1>. USE <1>0 DEF Cluster
<1>1. Mutated(o) # Absent /\ (o \in {"corednsCM", "zupdCM"} => Mutated(o) = corefile)
  BY BuiltIsThere
<1>2. ASSUME GiveUp(o), UNCHANGED <<obj, seen>>, obj[o] # Absent, seen[o] # obj[o]
      PROVE  (step' = 0 /\ pending') \/ (Proceed(o) /\ Passed(o))
  BY <1>2 DEF GiveUp, Abort, Return, Passed
<1>3. ASSUME LeaveAlone(o) PROVE Proceed(o) /\ Passed(o)
  <2>1. UNCHANGED <<obj, seen>> /\ Proceed(o) /\ seen[o] = Mutated(o)
    BY <1>3 DEF LeaveAlone, Updates
  <2>. QED
    BY <1>1, <2>1 DEF CachedAll, Passed
<1>4. ASSUME Write(o) PROVE Proceed(o) /\ Passed(o)
  <2>1. obj'[o] = Mutated(o) /\ Proceed(o)
    BY <1>4 DEF Write
  <2>. QED
    BY <1>1, <2>1 DEF Passed
<1>5. ASSUME AlreadyExists(o)
      PROVE  (step' = 0 /\ pending') \/ (Proceed(o) /\ Passed(o))
  BY <1>2, <1>5 DEF AlreadyExists
<1>6. ASSUME Conflict(o)
      PROVE  \/ step' = 0 /\ pending'
             \/ UNCHANGED <<step, ks, done, zone, corefile>>
             \/ Proceed(o) /\ Passed(o)
  BY <1>2, <1>6 DEF Conflict, CachedAll
<1>7. ASSUME WriteFails(o) PROVE step' = 0 /\ pending'
  BY <1>7 DEF WriteFails, GiveUp, NoDroppedErrors, Abort, Return
<1>. QED
  BY <1>3, <1>4, <1>5, <1>6, <1>7 DEF EnsureObject

\* How the worker moves at each entry of the plan.
StaysHere == UNCHANGED <<step, ks, corefile>>
GoesOn == step' = step + 1 /\ ks' = ks

LEMMA EnsureMoves ==
    ASSUME NoDroppedErrors, Shape, Rendered, CachedAll,
           NEW o \in Ensured, EnsureObject(o)
    PROVE  \/ step' = 0 /\ pending'
           \/ StaysHere
           \/ /\ step \in (3..16) \ {4, 5, 14}
              /\ Passed(Plan[step])
              /\ step < 16 => GoesOn /\ corefile' = corefile
              /\ step = 16 => step' = 0
<1>1. Ensuring(o)
  BY EnsureEffect
<1>2. CASE UNCHANGED <<step, ks, done, zone, corefile>>
  BY <1>2 DEF StaysHere
<1>3. CASE Proceed(o) /\ Passed(o)
  <2>1. CASE o \in ZoneNames
    BY <1>3, <2>1 DEF Proceed, StaysHere
  <2>2. CASE o \in Fixed
    <3>1. o \notin ZoneNames /\ Plan[step] = o /\ step \in (3..16) \ {4, 5, 14}
      BY <1>1, <2>2, EnsuringPlaces, ObjectNames
    <3>2. Advance
      BY <1>3, <3>1 DEF Proceed
    <3>. QED
      BY <1>3, <3>1, <3>2, Places DEF Advance, Return, GoesOn
  <2>. QED
    BY <2>1, <2>2 DEF Ensured
<1>. QED
  BY <1>2, <1>3, Ensures

LEMMA Moves ==
    ASSUME NoDroppedErrors, Shape, Rendered, CachedAll, [Next]_vars
    PROVE  \/ step' = 0 /\ pending'
           \/ step' = 1 /\ ks' = seen["ksdns"] /\ seen' = seen
           \/ StaysHere
           \/ /\ step \in (3..16) \ {4, 5, 14}
              /\ Passed(Plan[step])
              /\ step < 16 => GoesOn /\ corefile' = corefile
              /\ step = 16 => step' = 0
           \/ step = 1 /\ step' = 2 /\ ks' \in {ks, seen["ksdns"]}
           \/ step = 2 /\ GoesOn
           \/ step = 4 /\ GoesOn /\ ks.spec.zones \subseteq done
           \/ /\ step \in {5, 14} /\ GoesOn
              /\ corefile' = [zones |-> ListedZones,
                              from |-> IF step = 14 THEN LinkLocal ELSE ZupdAddress]
<1>0. step \in 0..16
  BY ShapeParts, Places DEF Locals
<1>. USE DEF GoesOn
<1>1. ASSUME NEW o \in Ensured, EnsureObject(o)
      PROVE  \/ step' = 0 /\ pending'
             \/ StaysHere
             \/ /\ step \in (3..16) \ {4, 5, 14}
                /\ Passed(Plan[step])
                /\ step < 16 => GoesOn /\ corefile' = corefile
                /\ step = 16 => step' = 0
  BY <1>1, EnsureMoves
<1>2. CASE SetStatus
  <2>1. step = 1
    BY <1>0, <1>2, AtPlaces DEF SetStatus
  <2>. QED
    BY <1>2, <2>1, Places DEF SetStatus, Advance, Abort, Return
<1>3. CASE MakeTsigSecret \/ ReadTsigSecret \/ ReadTsigSecretFails
  <2>1. step = 2
    BY <1>0, <1>3, AtPlaces DEF MakeTsigSecret, ReadTsigSecret, ReadTsigSecretFails
  <2>. QED
    BY <1>3, <2>1
    DEF MakeTsigSecret, ReadTsigSecret, ReadTsigSecretFails, AdvanceWith, Abort, Return
<1>4. CASE ZonesDone
  <2>1. step = 4
    BY <1>0, <1>4, AtPlaces DEF ZonesDone
  <2>. QED
    BY <1>4, <2>1, Places DEF ZonesDone, Advance
<1>5. CASE ReadInputs
  <2>1. step \in {5, 14} /\ (At("zupdInputs") <=> step = 14)
    BY <1>0, <1>5, AtPlaces, Places DEF ReadInputs, At
  <2>. QED
    BY <1>5, <2>1 DEF ReadInputs, AdvanceWith
<1>6. CASE GetKsdns
  BY <1>6 DEF GetKsdns
<1>7. CASE ReadInputsFails \/ UnsupportedService \/ Restart
  BY <1>7 DEF ReadInputsFails, UnsupportedService, Restart, Abort, Return
<1>8. CASE RenderZone \/ SkipZone \/ UNCHANGED local
  BY <1>8 DEF RenderZone, SkipZone, local, StaysHere
<1>. QED
  BY <1>1, <1>2, <1>3, <1>4, <1>5, <1>6, <1>7, <1>8
  DEF Next, Reconcile, vars, Sync, EditKsdns, CreateZone, ProvideSecret, Tick
-----------------------------------------------------------------------------
(* What the worker is past is there.                                       *)

MadeAll == \A i \in 1..16 : i < step /\ Plan[i] \in Fixed => obj[Plan[i]] # Absent

ZonesMade ==
    /\ \A z \in done : obj[z] # Absent
    /\ step > 4 => \A z \in ks.spec.zones : obj[z] # Absent

LEMMA MadeAllStep ==
    ASSUME NoDroppedErrors, Shape, Rendered, CachedAll, MadeAll, [Next]_vars
    PROVE  MadeAll'
<1>. SUFFICES ASSUME NEW i \in 1..16, i < step', Plan[i] \in Fixed
              PROVE  obj'[Plan[i]] # Absent
  BY DEF MadeAll
<1>0. step \in 0..16 /\ Plan[i] \in Ensured
  BY ShapeParts, Places DEF Locals, Ensured
<1>1. CASE i < step
  BY <1>0, <1>1, CachedAllStep DEF MadeAll
<1>2. CASE i >= step
  <2>1. Plan[1] \notin Fixed /\ Plan[2] \notin Fixed /\ Plan[4] \notin Fixed
        /\ Plan[5] \notin Fixed /\ Plan[14] \notin Fixed
    BY Places DEF Fixed
  <2>2. i \notin {1, 2, 4, 5, 14}
    BY <2>1
  <2>3. i = step /\ step \in (3..16) \ {4, 5, 14} /\ Passed(Plan[step])
    BY <1>0, <1>2, <2>2, Moves DEF StaysHere, GoesOn
  <2>. QED
    BY <2>3 DEF Passed
<1>. QED
  BY <1>0, <1>1, <1>2

\* ensureZones is through with a zone when it is there.
LEMMA DoneStep ==
    ASSUME NoDroppedErrors, Shape, Rendered, CachedAll, [Next]_vars,
           NEW z \in done'
    PROVE  z \in done \/ obj'[z] # Absent
<1>1. ASSUME NEW o \in Ensured, EnsureObject(o) PROVE z \in done \/ obj'[z] # Absent
  <2>1. CASE Proceed(o) /\ Passed(o)
    BY <2>1 DEF Proceed, Passed, Advance, Return
  <2>2. done' \in {{}, done} \/ Proceed(o)
    BY <1>1
    DEF EnsureObject, LeaveAlone, Write, AlreadyExists, Conflict, WriteFails,
        GiveUp, Abort, Return
  <2>3. CASE step' = 0 /\ pending' /\ Proceed(o)
    <3>1. CASE o \in ZoneNames
      <4>1. step' = step /\ Ensuring(o)
        BY <1>1, <2>3, <3>1, EnsureEffect DEF Proceed
      <4>. QED
        BY <2>3, <3>1, <4>1, EnsuringPlaces
    <3>2. CASE o \notin ZoneNames
      BY <2>3, <3>2 DEF Proceed, Advance, Return
    <3>. QED
      BY <3>1, <3>2
  <2>4. CASE done' \in {{}, done}
    BY <2>4
  <2>. QED
    BY <1>1, <2>1, <2>2, <2>3, <2>4, Ensures
<1>2. CASE done' \in {{}, done}
  BY <1>2
<1>3. GetKsdns \/ SetStatus \/ MakeTsigSecret \/ ReadTsigSecret
      \/ ReadTsigSecretFails \/ RenderZone \/ ZonesDone \/ ReadInputs
      \/ ReadInputsFails \/ UnsupportedService \/ Restart \/ UNCHANGED local
         => done' \in {{}, done}
  BY DEF GetKsdns, SetStatus, MakeTsigSecret, ReadTsigSecret, ReadTsigSecretFails,
     RenderZone, ZonesDone, ReadInputs, ReadInputsFails, UnsupportedService,
     Restart, local, AdvanceWith, Advance, Return, Abort
<1>4. ~SkipZone
  BY DEF SkipZone, NoDroppedErrors
<1>. QED
  BY <1>1, <1>2, <1>3, <1>4
  DEF Next, Reconcile, vars, Sync, EditKsdns, CreateZone, ProvideSecret, Tick

LEMMA ZonesMadeStep ==
    ASSUME NoDroppedErrors, Shape, Rendered, CachedAll, ZonesMade, [Next]_vars
    PROVE  ZonesMade'
<1>0. Locals /\ step \in 0..16
  BY ShapeParts, Places DEF Locals
<1>1. \A z \in ZoneNames : obj[z] # Absent => obj'[z] # Absent
  BY CachedAllStep DEF Ensured
<1>2. \A z \in done' : obj'[z] # Absent
  BY <1>0, <1>1, DoneStep DEF ZonesMade, Locals
<1>3. ASSUME step' > 4, NEW z \in ks'.spec.zones PROVE obj'[z] # Absent
  <2>1. step >= 4 /\ ks' = ks /\ (step = 4 => ks.spec.zones \subseteq done)
    BY <1>0, <1>3, Moves DEF StaysHere, GoesOn
  <2>2. z \in ZoneNames
    BY <1>0, <1>3, <2>1, SpecsAssumption DEF Locals, Resources
  <2>3. obj[z] # Absent
    BY <1>0, <1>3, <2>1 DEF ZonesMade
  <2>. QED
    BY <1>1, <2>2, <2>3
<1>. QED
  BY <1>2, <1>3 DEF ZonesMade
-----------------------------------------------------------------------------
(* Deployments come last.                                                  *)

OrderInv == Rendered /\ CachedAll /\ MadeAll /\ ZonesMade

\* Nothing is there at first, and the worker has done nothing.
LEMMA InitOrder == Init => OrderInv
<1>. SUFFICES ASSUME Init PROVE OrderInv
  OBVIOUS
<1>1. \A o \in Ensured : seen[o] = Absent
  BY ObjectNames DEF Init
<1>2. zone = Absent /\ step = 0 /\ done = {}
  BY DEF Init
<1>. QED
  BY <1>1, <1>2 DEF OrderInv, Rendered, CachedAll, MadeAll, ZonesMade

LEMMA OrderStep ==
    ASSUME NoDroppedErrors, Shape, OrderInv, [Next]_vars
    PROVE  OrderInv'
BY RenderedStep, CachedAllStep, MadeAllStep, ZonesMadeStep DEF OrderInv

\* What comes before a Deployment in the plan is there once the worker is at
\* the Deployment.
LEMMA PlanOrder ==
    ASSUME MadeAll, NEW d \in Fixed, step \in 1..16, Plan[step] = d,
           d \in {"corednsDep", "zupdDep"}, NEW o \in Before(d)
    PROVE  obj[o] # Absent
<1>1. o \in Fixed
  BY DEF Before
<1>2. PICK i \in 1..16, j \in 1..16 : i < j /\ Plan[i] = o /\ Plan[j] = d
  BY Places DEF Before
<1>3. j = step
  <2>1. \A k \in 1..16 : /\ Plan[k] = "corednsDep" => k = 9
                         /\ Plan[k] = "zupdDep" => k = 16
    <3>1. \A k \in 1..16 : k = 1 \/ k = 2 \/ k = 3 \/ k = 4 \/ k = 5 \/ k = 6 \/ k = 7
                           \/ k = 8 \/ k = 9 \/ k = 10 \/ k = 11 \/ k = 12 \/ k = 13
                           \/ k = 14 \/ k = 15 \/ k = 16
      OBVIOUS
    <3>. QED
      BY <3>1, Places
  <2>. QED
    BY <1>2, <2>1
<1>. QED
  BY <1>1, <1>2, <1>3 DEF MadeAll

\* Where no error is dropped and no zone left out: however far the caches lag,
\* whichever other writes fail, and whatever zones users make, a Deployment is
\* made only after everything that Reconcile sets before it.
THEOREM DeploymentsAreLast ==
    ASSUME NoDroppedErrors
    PROVE  Spec => DeploymentsComeLast
<1>1. Shape /\ OrderInv /\ [Next]_vars => OrderInv'
  BY OrderStep
<1>2. Shape /\ OrderInv /\ [Next]_vars =>
        [\A d \in {"corednsDep", "zupdDep"} : obj[d] = Absent /\ obj'[d] # Absent =>
            \A o \in Before(d) \cup ks.spec.zones : obj[o] # Absent]_vars
  <2>. SUFFICES ASSUME Shape, OrderInv, [Next]_vars,
                       NEW d \in {"corednsDep", "zupdDep"},
                       obj[d] = Absent, obj'[d] # Absent
                PROVE  \A o \in Before(d) \cup ks.spec.zones : obj[o] # Absent
    OBVIOUS
  <2>1. d \in Fixed /\ d \in Ensured /\ d \notin Foreign
    BY ObjectNames, SpecsAssumption DEF Fixed, Ensured
  <2>2. Ensuring(d)
    BY <2>1, EnsuredStep
  <2>3. Plan[step] = d /\ step \in 1..16 /\ step > 4
    BY <2>1, <2>2, EnsuringPlaces
  <2>4. \A o \in Before(d) : obj[o] # Absent
    BY <2>1, <2>3, PlanOrder DEF OrderInv
  <2>5. \A z \in ks.spec.zones : obj[z] # Absent
    BY <2>3 DEF OrderInv, ZonesMade
  <2>. QED
    BY <2>4, <2>5
<1>. QED
  BY <1>1, <1>2, InitOrder, ShapeInvariant, PTL DEF Spec, DeploymentsComeLast
-----------------------------------------------------------------------------
(* What the caches learn queues a request.                                 *)

\* Only the worker takes the request out of the queue.
LEMMA PendingStays ==
    ASSUME Shape, [Next]_vars, pending, ~pending'
    PROVE  step' = 1 /\ ks' = seen["ksdns"] /\ seen' = seen
<1>1. ASSUME NEW o \in Ensured, EnsureObject(o) PROVE FALSE
  BY <1>1
  DEF EnsureObject, LeaveAlone, Write, AlreadyExists, Conflict, WriteFails,
      GiveUp, Abort
<1>2. ~(SetStatus \/ MakeTsigSecret \/ ReadTsigSecret \/ ReadTsigSecretFails
        \/ RenderZone \/ SkipZone \/ ZonesDone \/ ReadInputs \/ ReadInputsFails
        \/ UnsupportedService \/ Restart \/ UNCHANGED pending)
  BY DEF SetStatus, MakeTsigSecret, ReadTsigSecret, ReadTsigSecretFails,
     RenderZone, SkipZone, ZonesDone, ReadInputs, ReadInputsFails, UnsupportedService,
     Restart, Abort
<1>3. ASSUME NEW o \in Objects, Sync(o) PROVE FALSE
  BY <1>3 DEF Sync
<1>. QED
  BY <1>1, <1>2, <1>3
  DEF Next, Reconcile, vars, EditKsdns, CreateZone, ProvideSecret, Tick, GetKsdns

\* A step that queues nothing leaves what the worker reads as it was, but for
\* the configuration that it ensures itself.
Quiet ==
    /\ seen'["ksdns"] = seen["ksdns"]
    /\ ListedZones' = ListedZones /\ ZupdAddress' = ZupdAddress
    /\ \A c \in {"corednsCM", "zupdCM"} :
         Ensuring(c) \/ (seen'[c] = seen[c] /\ obj'[c] = obj[c])

LEMMA QuietSync ==
    ASSUME Shape, CachedAll, Owned, NEW o \in Objects, Sync(o), ~pending'
    PROVE  Quiet
<1>0. Cluster
  BY ShapeParts
<1>. USE <1>0, ObjectNames DEF Cluster
<1>1. ~OwnedByKsdns(o) /\ seen' = [seen EXCEPT ![o] = obj[o]] /\ obj' = obj
      /\ seen[o] # obj[o]
  BY DEF Sync
<1>2. o \notin {"ksdns", "zupdSvc", "corednsCM", "zupdCM"}
  <2>1. "ksdns" \in Watched /\ "zupdSvc" \in Watched /\ "corednsCM" \in Watched
        /\ "zupdCM" \in Watched
    BY DEF Watched
  <2>2. {"ksdns", "zupdSvc", "corednsCM", "zupdCM"} \cap ZoneNames = {}
    BY NamesAssumption DEF Fixed
  <2>. QED
    BY <1>1, <2>1, <2>2 DEF OwnedByKsdns
<1>3. o \notin ZoneNames
  <2>1. SUFFICES ASSUME o \in ZoneNames PROVE FALSE
    OBVIOUS
  <2>2. o \in Watched /\ o # "tsig"
    BY <2>1 DEF Watched
  <2>3. obj[o] = Absent
    BY <1>1, <2>1, <2>2 DEF OwnedByKsdns, Owned
  <2>. QED
    BY <1>1, <2>1, <2>3 DEF CachedAll
<1>4. \A p \in ZoneNames \cup {"ksdns", "zupdSvc", "corednsCM", "zupdCM"} :
         seen'[p] = seen[p]
  BY <1>1, <1>2, <1>3
<1>. QED
  BY <1>1, <1>4 DEF Quiet, ListedZones, ZupdAddress

LEMMA QuietEnsure ==
    ASSUME Shape, Rendered, NEW o \in Ensured, EnsureObject(o), ~pending'
    PROVE  Quiet
<1>0. Cluster /\ Ensuring(o)
  BY ShapeParts, EnsureEffect
<1>. USE <1>0, ObjectNames DEF Cluster
<1>1. CASE UNCHANGED <<obj, seen>>
  BY <1>1 DEF Quiet, ListedZones, ZupdAddress
<1>2. CASE Write(o)
  <2>1. /\ obj[o] = seen[o] /\ obj' = [obj EXCEPT ![o] = Mutated(o)]
        /\ seen' \in {seen, [seen EXCEPT ![o] = Mutated(o)]}
        /\ seen' # seen => (o \in Watched => obj'[o] = obj[o])
    BY <1>2 DEF Write
  <2>2. Mutated(o) # Absent
    BY BuiltIsThere
  <2>3. o \in Watched => seen'[o] = seen[o]
    <3>1. o \in Objects
      OBVIOUS
    <3>2. obj'[o] = Mutated(o) /\ (seen' = seen \/ seen'[o] = Mutated(o))
      BY <2>1, <3>1
    <3>. QED
      BY <2>1, <3>2
  <2>4. ZoneNames \subseteq Watched /\ "zupdSvc" \in Watched
    BY DEF Watched
  <2>5. \A p \in Objects : p # o => seen'[p] = seen[p] /\ obj'[p] = obj[p]
    <3>1. CASE seen' = seen
      BY <2>1, <3>1
    <3>2. CASE seen' = [seen EXCEPT ![o] = Mutated(o)]
      BY <2>1, <3>2
    <3>. QED
      BY <2>1, <3>1, <3>2
  <2>6. /\ ZoneNames \subseteq Objects
        /\ {"ksdns", "zupdSvc", "corednsCM", "zupdCM"} \subseteq Objects
    BY DEF Objects, Ensured, Fixed
  <2>7. \A p \in ZoneNames \cup {"zupdSvc", "ksdns"} : seen'[p] = seen[p]
    BY <2>3, <2>4, <2>5, <2>6
  <2>. QED
    BY <1>0, <2>5, <2>6, <2>7 DEF Quiet, ListedZones, ZupdAddress
<1>3. Write(o) \/ UNCHANGED <<obj, seen>>
  BY DEF EnsureObject, LeaveAlone, AlreadyExists, Conflict, WriteFails
<1>. QED
  BY <1>1, <1>2, <1>3

LEMMA QuietStep ==
    ASSUME OwnZones, Shape, Rendered, CachedAll, Owned, [Next]_vars, ~pending'
    PROVE  Quiet
<1>0. Cluster
  BY ShapeParts
<1>1. ASSUME NEW o \in Ensured, EnsureObject(o) PROVE Quiet
  BY <1>1, QuietEnsure
<1>2. ASSUME NEW o \in Objects, Sync(o) PROVE Quiet
  BY <1>2, QuietSync
<1>3. CASE seen' = seen /\ \A c \in {"corednsCM", "zupdCM"} : obj'[c] = obj[c]
  BY <1>3 DEF Quiet, ListedZones, ZupdAddress
<1>4. "corednsCM" \in Fixed /\ "zupdCM" \in Fixed
  BY DEF Fixed
<1>5. CASE SetStatus \/ (\E s \in Specs : EditKsdns(s)) \/ MakeTsigSecret
           \/ ReadTsigSecret \/ ReadTsigSecretFails \/ ProvideSecret
  <2>1. seen' = seen
    BY <1>5 DEF SetStatus, EditKsdns, MakeTsigSecret, ReadTsigSecret,
       ReadTsigSecretFails, ProvideSecret
  <2>2. obj' = obj \/ \E p \in {"ksdns", "tsig"} : \E v : obj' = [obj EXCEPT ![p] = v]
    BY <1>5 DEF SetStatus, EditKsdns, MakeTsigSecret, ReadTsigSecret,
       ReadTsigSecretFails, ProvideSecret
  <2>. QED
    BY <1>0, <1>3, <1>4, <2>1, <2>2, ObjectNames DEF Cluster
<1>6. CASE GetKsdns \/ RenderZone \/ SkipZone \/ ZonesDone \/ ReadInputs \/ ReadInputsFails
           \/ UnsupportedService \/ Tick \/ UNCHANGED vars
  BY <1>3, <1>6 DEF GetKsdns, RenderZone, SkipZone, ZonesDone, ReadInputs, ReadInputsFails,
     UnsupportedService, Tick, vars
<1>7. ~Restart
  BY DEF Restart
<1>8. ASSUME NEW z \in Foreign, CreateZone(z) PROVE FALSE
  BY <1>8 DEF OwnZones
<1>. QED
  BY <1>1, <1>2, <1>5, <1>6, <1>7, <1>8 DEF Next, Reconcile
-----------------------------------------------------------------------------
(* While no request is queued, nothing has changed that the worker, or the *)
(* last pass, has read.                                                    *)

CorednsWanted == [zones |-> ListedZones, from |-> ZupdAddress]

Current ==
    /\ step > 0 => ks.spec = seen["ksdns"].spec
    /\ step = 6 => corefile = CorednsWanted
    /\ step = 15 => corefile.zones = ListedZones
    /\ step \notin 1..6 =>
         obj["corednsCM"] = CorednsWanted \/ seen["corednsCM"] # obj["corednsCM"]
    /\ step \notin 1..15 =>
         obj["zupdCM"].zones = ListedZones \/ seen["zupdCM"] # obj["zupdCM"]
    /\ step = 0 => /\ \A o \in Fixed : obj[o] # Absent
                   /\ \A z \in seen["ksdns"].spec.zones : obj[z] # Absent

CurrentUnlessQueued == ~pending => Current

\* All fixed objects have a place in the plan.
LEMMA InPlan == \A o \in Fixed : \E i \in 1..16 : Plan[i] = o
<1>1. SUFFICES ASSUME NEW o \in Fixed PROVE \E i \in 1..16 : Plan[i] = o
  OBVIOUS
<1>2. \/ o = Plan[3] \/ o = Plan[6] \/ o = Plan[7] \/ o = Plan[8] \/ o = Plan[9]
      \/ o = Plan[10] \/ o = Plan[11] \/ o = Plan[12] \/ o = Plan[13]
      \/ o = Plan[15] \/ o = Plan[16]
  BY Places DEF Fixed
<1>. QED
  BY <1>2

RestInv == OrderInv /\ Owned /\ CurrentUnlessQueued

\* The configurations at rest: nothing they were rendered from has changed.
LEMMA ConfigsStayCurrent ==
    ASSUME Shape, Current, Quiet
    PROVE  /\ step \notin 1..6 =>
                \/ obj'["corednsCM"] = CorednsWanted'
                \/ seen'["corednsCM"] # obj'["corednsCM"]
           /\ step \notin 1..15 =>
                \/ obj'["zupdCM"].zones = ListedZones'
                \/ seen'["zupdCM"] # obj'["zupdCM"]
<1>1. CorednsWanted' = CorednsWanted /\ ListedZones' = ListedZones
  BY DEF Quiet, CorednsWanted
<1>2. "corednsCM" \in Ensured /\ "zupdCM" \in Ensured
  BY DEF Ensured, Fixed
<1>3. Ensuring("corednsCM") => step = 6
  BY <1>2, EnsuringPlaces
<1>4. Ensuring("zupdCM") => step = 15
  BY <1>2, EnsuringPlaces
<1>. QED
  BY <1>1, <1>3, <1>4 DEF Current, Quiet

LEMMA CurrentStep ==
    ASSUME OwnZones, NoDroppedErrors, Shape, RestInv, [Next]_vars, ~pending'
    PROVE  Current'
<1>0. step \in 0..16
  BY ShapeParts, Places DEF Locals
<1>1. Rendered /\ CachedAll /\ Owned
  BY DEF RestInv, OrderInv
<1>2. Quiet
  BY <1>1, QuietStep
<1>3. CASE step' = 1 /\ ks' = seen["ksdns"] /\ seen' = seen
  BY <1>3 DEF Current
<1>4. CASE ~pending
  <2>1. Current
    BY <1>4 DEF RestInv, CurrentUnlessQueued
  <2>2. /\ step \notin 1..6 =>
              \/ obj'["corednsCM"] = CorednsWanted'
              \/ seen'["corednsCM"] # obj'["corednsCM"]
        /\ step \notin 1..15 =>
              \/ obj'["zupdCM"].zones = ListedZones'
              \/ seen'["zupdCM"] # obj'["zupdCM"]
    BY <1>2, <2>1, ConfigsStayCurrent
  <2>3. /\ seen'["ksdns"] = seen["ksdns"] /\ ListedZones' = ListedZones
        /\ CorednsWanted' = CorednsWanted
    BY <1>2 DEF Quiet, CorednsWanted
  <2>4. \A o \in Ensured : obj[o] # Absent => obj'[o] # Absent
    BY <1>1, CachedAllStep
  <2>5. Fixed \subseteq Ensured /\ ZoneNames \subseteq Ensured
    BY DEF Ensured
  <2>6. seen["ksdns"].spec.zones \subseteq ZoneNames
    BY ShapeParts, SpecsAssumption DEF Cluster, Resources
  <2>7. CASE StaysHere
    BY <1>0, <2>1, <2>2, <2>3, <2>4, <2>5, <2>6, <2>7 DEF Current, StaysHere
  <2>8. CASE step = 1 /\ step' = 2 /\ ks' \in {ks, seen["ksdns"]}
    BY <2>1, <2>3, <2>8 DEF Current
  <2>9. CASE step \in {2, 4} /\ GoesOn
    BY <2>1, <2>3, <2>9 DEF Current, GoesOn
  <2>10. CASE /\ step \in {5, 14} /\ GoesOn
              /\ corefile' = [zones |-> ListedZones,
                              from |-> IF step = 14 THEN LinkLocal ELSE ZupdAddress]
    <3>1. step = 5 => corefile' = CorednsWanted'
      BY <2>3, <2>10 DEF CorednsWanted
    <3>2. corefile'.zones = ListedZones'
      BY <2>3, <2>10
    <3>. QED
      BY <2>1, <2>2, <2>3, <2>10, <3>1, <3>2 DEF Current, GoesOn
  <2>11. CASE /\ step \in (3..16) \ {4, 5, 14} /\ Passed(Plan[step])
              /\ step < 16 => GoesOn /\ corefile' = corefile
              /\ step = 16 => step' = 0
    <3>1. step = 6 => \/ obj'["corednsCM"] = CorednsWanted'
                      \/ seen'["corednsCM"] # obj'["corednsCM"]
      BY <2>1, <2>3, <2>11, Places DEF Passed, Current
    <3>2. step = 15 => \/ obj'["zupdCM"].zones = ListedZones'
                       \/ seen'["zupdCM"] # obj'["zupdCM"]
      BY <2>1, <2>3, <2>11, Places DEF Passed, Current
    <3>3. CASE step < 16
      BY <2>1, <2>2, <2>3, <2>11, <3>1, <3>2, <3>3 DEF Current, GoesOn
    <3>4. CASE step = 16
      <4>1. ASSUME NEW o \in Fixed PROVE obj'[o] # Absent
        <5>1. PICK i \in 1..16 : Plan[i] = o
          BY InPlan
        <5>2. CASE i = 16
          BY <2>11, <3>4, <5>1, <5>2 DEF Passed
        <5>3. CASE i < 16
          BY <2>4, <2>5, <3>4, <5>1, <5>3 DEF RestInv, OrderInv, MadeAll
        <5>. QED
          BY <5>2, <5>3
      <4>2. \A z \in seen["ksdns"].spec.zones : obj'[z] # Absent
        BY <2>1, <2>4, <2>5, <2>6, <3>4 DEF RestInv, OrderInv, ZonesMade, Current
      <4>3. step' = 0
        BY <2>11, <3>4
      <4>. QED
        BY <2>2, <2>3, <3>4, <4>1, <4>2, <4>3 DEF Current
    <3>. QED
      BY <2>11, <3>3, <3>4
  <2>. QED
    BY <1>1, <2>7, <2>8, <2>9, <2>10, <2>11, <1>3, Moves
<1>. QED
  BY <1>3, <1>4, PendingStays

LEMMA InitRest == Init => RestInv
<1>. SUFFICES ASSUME Init PROVE RestInv
  OBVIOUS
<1>1. \A z \in ZoneNames : obj[z] = Absent
  BY ObjectNames DEF Init
<1>2. pending = TRUE
  BY DEF Init
<1>. QED
  BY <1>1, <1>2, InitOrder DEF RestInv, Owned, CurrentUnlessQueued

LEMMA RestStep ==
    ASSUME OwnZones, NoDroppedErrors
    PROVE  Shape /\ RestInv /\ [Next]_vars => RestInv'
<1>. SUFFICES ASSUME Shape, RestInv, [Next]_vars PROVE RestInv'
  OBVIOUS
<1>1. OrderInv'
  BY OrderStep DEF RestInv
<1>2. Owned'
  BY OwnedStep DEF RestInv, OrderInv
<1>3. CurrentUnlessQueued'
  BY CurrentStep DEF CurrentUnlessQueued
<1>. QED
  BY <1>1, <1>2, <1>3 DEF RestInv

\* However far any cache lags, whichever writes fail whose errors are looked
\* at, and wherever the operator crashes: with no request queued and nothing
\* left for the caches to learn, the cluster has what the resource asks for.
\* This is so where no error is dropped and no zone left out
\* (NoDroppedErrors), only the operator makes Zones (OwnZones), and the TSIG
\* secret is its own and reads of it do not fail (OperatorsKey).
THEOREM RestsWhenDone ==
    ASSUME OwnZones, NoDroppedErrors, OperatorsKey
    PROVE  Spec => []RestsOnlyWhenDone
<1>1. Init => RestInv
  BY InitRest
<1>2. Shape /\ RestInv /\ [Next]_vars => RestInv'
  BY RestStep
<1>3. RestInv /\ KeyInv => RestsOnlyWhenDone
  <2>. SUFFICES ASSUME RestInv, KeyInv, step = 0, ~pending, seen = obj
                PROVE  DesiredState
    BY DEF RestsOnlyWhenDone
  <2>1. Current
    BY DEF RestInv, CurrentUnlessQueued
  <2>2. \A o \in Fixed : obj[o] # Absent
    BY <2>1 DEF Current
  <2>3. {"secret", "corednsCM", "zupdCM", "zupdSvc", "corednsDep", "zupdDep"} \subseteq Fixed
    BY DEF Fixed
  <2>4. obj["tsig"] # Absent /\ obj["secret"] = obj["tsig"] /\ Deployed
    BY <2>2, <2>3, KeysAreThere DEF KeyInv, Deployed
  <2>5. \A z \in Wanted.zones : obj[z] # Absent
    BY <2>1 DEF Current, Wanted
  <2>6. ListedZones = {z \in ZoneNames : obj[z] # Absent} /\ ZupdAddress = ServiceIP
    BY <2>2, <2>3 DEF ListedZones, ZupdAddress
  <2>7. obj["corednsCM"] = CorednsWanted /\ obj["zupdCM"].zones = ListedZones
    BY <2>1 DEF Current
  <2>8. ConfigComplete
    BY <2>2, <2>3, <2>6, <2>7 DEF ConfigComplete, CorednsWanted
  <2>. QED
    BY <2>4, <2>5, <2>8 DEF DesiredState
<1>. QED
  BY <1>1, <1>2, <1>3, KeyInvariant, ShapeInvariant, PTL DEF Spec
=============================================================================
