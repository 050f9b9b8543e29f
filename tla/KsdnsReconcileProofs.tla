------------------------ MODULE KsdnsReconcileProofs ------------------------
(***************************************************************************)
(* Proofs about KsdnsReconcile, for any zones, specs, failures and bounds: *)
(* types, the worker's way through the plan, and the TSIG keys, the        *)
(* operator's own and those of users.                                      *)
(***************************************************************************)
EXTENDS KsdnsReconcile, TLAPS

-----------------------------------------------------------------------------
(* The plan.                                                               *)

\* The step at which the worker is when it is at each entry of the plan.
LEMMA Places ==
    /\ Len(Plan) = 16
    /\ Plan[1] = "status" /\ Plan[2] = "tsig" /\ Plan[3] = "secret"
    /\ Plan[4] = "zones" /\ Plan[5] = "corednsInputs" /\ Plan[6] = "corednsCM"
    /\ Plan[7] = "corednsSA" /\ Plan[8] = "corednsSvc" /\ Plan[9] = "corednsDep"
    /\ Plan[10] = "zupdSvc" /\ Plan[11] = "zupdSA" /\ Plan[12] = "role"
    /\ Plan[13] = "binding" /\ Plan[14] = "zupdInputs" /\ Plan[15] = "zupdCM"
    /\ Plan[16] = "zupdDep"
BY DEF Plan

\* Where the worker is when it ensures an object: each has one place.
LEMMA AtPlaces ==
    ASSUME step \in 0..16
    PROVE  /\ At("status") => step = 1
           /\ At("tsig") => step = 2
           /\ At("secret") => step = 3
           /\ At("zones") => step = 4
           /\ At("corednsInputs") => step = 5
           /\ At("corednsCM") => step = 6
           /\ At("corednsSA") => step = 7
           /\ At("corednsSvc") => step = 8
           /\ At("corednsDep") => step = 9
           /\ At("zupdSvc") => step = 10
           /\ At("zupdSA") => step = 11
           /\ At("role") => step = 12
           /\ At("binding") => step = 13
           /\ At("zupdInputs") => step = 14
           /\ At("zupdCM") => step = 15
           /\ At("zupdDep") => step = 16
<1>1. step = 0 \/ step = 1 \/ step = 2 \/ step = 3 \/ step = 4 \/ step = 5
      \/ step = 6 \/ step = 7 \/ step = 8 \/ step = 9 \/ step = 10 \/ step = 11
      \/ step = 12 \/ step = 13 \/ step = 14 \/ step = 15 \/ step = 16
  OBVIOUS
<1>. QED
  BY <1>1, Places DEF At
-----------------------------------------------------------------------------
(* Types.                                                                  *)

Resources == [spec : Specs, conditions : BOOLEAN]

\* What the TSIG secret can hold.
TsigKeys == {Absent} \cup (IF UserSecret THEN Keys ELSE {MadeKey})

\* Keys are no missing objects.
LEMMA KeysAreThere == MadeKey \in Keys /\ NoKey \in Keys /\ Absent \notin Keys
BY AbsentAssumption, BoundsAssumption DEF Keys, MadeKey, NoKey

\* What the local variables hold from the step on that sets them, and what
\* the caches can have of the resource and of its secret.
Shape ==
    /\ TypeOK
    /\ obj["ksdns"] \in Resources /\ seen["ksdns"] \in Resources
    /\ seen["tsig"] \in TsigKeys
    /\ step > 0 => ks \in Resources
    /\ zone # Absent => zone.name \in ZoneNames
    /\ step > 2 => key \in Keys
    /\ step > 5 => corefile \in Corefiles

\* The names of the objects, told apart.
LEMMA ObjectNames ==
    /\ Ensured \subseteq Objects /\ "ksdns" \in Objects /\ "tsig" \in Objects
    /\ "ksdns" \notin Ensured /\ "tsig" \notin Ensured
    /\ "secret" \in Objects /\ Fixed \subseteq Objects
    /\ \A z \in ZoneNames : z \in Ensured /\ z \notin Fixed
BY NamesAssumption DEF Objects, Ensured, Fixed

\* The worker ensures an object at the object's place in the plan.
LEMMA EnsuringPlaces ==
    ASSUME Shape, NEW o \in Ensured, Ensuring(o)
    PROVE  /\ o \in Fixed => Plan[step] = o /\ step \in (3..16) \ {4, 5, 14}
           /\ o \in ZoneNames => step = 4
           /\ o = "secret" => step = 3
           /\ o = "corednsCM" => step = 6
           /\ o = "corednsDep" => step = 9
           /\ o = "zupdCM" => step = 15
           /\ o = "zupdDep" => step = 16
<1>1. step \in 0..16
  BY Places DEF Shape, TypeOK
<1>2. CASE o \in Fixed
  <2>1. At(o)
    BY <1>2, ObjectNames DEF Ensuring, Shape
  <2>2. step > 0 /\ Plan[step] = o
    BY <2>1 DEF At
  <2>3. step \in 3..16
    BY <1>1, <1>2, <2>1, AtPlaces DEF Fixed
  <2>4. step \notin {4, 5, 14}
    BY <1>2, <2>2, Places DEF Fixed
  <2>. QED
    BY <1>1, <1>2, <2>1, <2>2, <2>3, <2>4, AtPlaces, ObjectNames DEF Fixed
<1>3. CASE o \in ZoneNames
  BY <1>1, <1>3, ObjectNames, AtPlaces, NamesAssumption DEF Ensuring, Fixed
<1>. QED
  BY <1>2, <1>3 DEF Ensured

\* An ensured object is never made without content, and the configuration
\* with the TSIG key is made from the key in hand.
LEMMA Contents ==
    ASSUME Shape, NEW o \in Ensured, Ensuring(o)
    PROVE  /\ o \in Fixed => Mutated(o) # Absent
           /\ o = "secret" => Mutated(o) = key
<1>1. o \in Fixed => Built(o) # Absent
  <2>. SUFFICES ASSUME o \in Fixed PROVE Built(o) # Absent
    OBVIOUS
  <2>1. o \notin ZoneNames
    BY ObjectNames
  <2>2. CASE o = "secret"
    BY <2>1, <2>2, EnsuringPlaces, KeysAreThere DEF Shape, Built
  <2>3. CASE o \in {"corednsCM", "zupdCM"}
    BY <2>1, <2>3, EnsuringPlaces, AbsentAssumption DEF Shape, Built
  <2>4. CASE o \in {"corednsDep", "zupdDep"}
    BY <2>1, <2>4, EnsuringPlaces, AbsentAssumption DEF Shape, Built, Resources
  <2>5. CASE o \notin {"secret", "corednsCM", "zupdCM", "corednsDep", "zupdDep"}
    BY <2>1, <2>5, AbsentAssumption DEF Built
  <2>. QED
    BY <2>2, <2>3, <2>4, <2>5
<1>2. o = "secret" => o \notin OwnerOnly /\ o \notin ZoneNames /\ o \in Fixed
  BY ObjectNames DEF OwnerOnly, Fixed
<1>. QED
  BY <1>1, <1>2 DEF Mutated, Built

\* The part of the shape that is about the worker's local variables.
Locals ==
    /\ step \in 0..Len(Plan)
    /\ done \subseteq ZoneNames
    /\ tries \in 0..(MaxTries - 1)
    /\ step > 0 => ks \in Resources
    /\ zone # Absent => zone.name \in ZoneNames
    /\ step > 2 => key \in Keys
    /\ step > 5 => corefile \in Corefiles

\* Returning, and going on from a step that sets no variable, keep it.
LEMMA ReturnLocals == Return => Locals'
BY BoundsAssumption, Places DEF Return, Locals

LEMMA AdvanceLocals ==
    ASSUME Locals, step \notin {0, 2, 5}, Advance
    PROVE  Locals'
BY ReturnLocals, BoundsAssumption, Places DEF Advance, Locals

\* So does the end of an object, whether its write succeeded or not.
LEMMA ProceedLocals ==
    ASSUME Shape, NEW o \in Ensured, Ensuring(o), Proceed(o) \/ GiveUp(o)
    PROVE  Locals'
<1>1. Locals
  BY DEF Shape, TypeOK, Locals
<1>2. ASSUME Proceed(o) PROVE Locals'
  <2>1. CASE o \in ZoneNames
    BY <1>1, <1>2, <2>1, BoundsAssumption DEF Proceed, Locals
  <2>2. CASE o \notin ZoneNames
    <3>1. step \in (3..16) \ {4, 5, 14}
      BY <2>2, EnsuringPlaces DEF Ensured
    <3>. QED
      BY <1>1, <1>2, <2>2, <3>1, AdvanceLocals DEF Proceed
  <2>. QED
    BY <2>1, <2>2
<1>3. ASSUME Abort PROVE Locals'
  BY <1>3, ReturnLocals DEF Abort
<1>. QED
  BY <1>2, <1>3 DEF GiveUp

\* The rest of the shape: the objects, the caches and the bounds.
Cluster ==
    /\ DOMAIN obj = Objects /\ DOMAIN seen = Objects
    /\ obj["ksdns"] \in Resources /\ seen["ksdns"] \in Resources
    /\ {obj["tsig"], seen["tsig"]} \subseteq TsigKeys
    /\ obj["secret"] \in {Absent} \cup Keys
    /\ pending \in BOOLEAN
    /\ faults \in 0..MaxFaults /\ edits \in 0..MaxEdits /\ now \in 0..MaxTime

LEMMA ShapeParts == Shape <=> Cluster /\ Locals
BY DEF Shape, TypeOK, Cluster, Locals, Wanted, Resources, TsigKeys

LEMMA InitShape == Init => Shape
<1>. SUFFICES ASSUME Init PROVE Cluster /\ Locals
  BY ShapeParts
<1>1. Cluster
  BY ObjectNames, BoundsAssumption
  DEF Init, Cluster, Resources, TsigKeys, Ensured, Objects, Fixed
<1>2. Locals
  BY BoundsAssumption, Places DEF Init, Locals
<1>. QED
  BY <1>1, <1>2

\* The worker's steps keep its local variables in shape.
LEMMA ReconcileLocals == Shape /\ Reconcile => Locals'
<1>. SUFFICES ASSUME Shape, Reconcile PROVE Locals'
  OBVIOUS
<1>0. Locals /\ Cluster /\ step \in 0..16
  BY ShapeParts, Places DEF Locals
<1>. USE <1>0, Places
<1>1. CASE GetKsdns
  BY <1>1 DEF GetKsdns, Locals, Cluster
<1>2. CASE SetStatus
  <2>1. step = 1
    BY <1>2, AtPlaces DEF SetStatus
  <2>2. CASE Advance
    BY <2>1, <2>2, AdvanceLocals
  <2>3. CASE Abort
    BY <2>3, ReturnLocals DEF Abort
  <2>4. CASE ks' = seen["ksdns"] /\ step' = step + 1
             /\ UNCHANGED <<pending, done, zone, key, corefile, tries>>
    BY <2>1, <2>4 DEF Locals, Cluster
  <2>. QED
    BY <1>2, <2>2, <2>3, <2>4 DEF SetStatus
<1>3. CASE MakeTsigSecret \/ ReadTsigSecret \/ ReadTsigSecretFails
  <2>1. step = 2
    BY <1>3, AtPlaces DEF MakeTsigSecret, ReadTsigSecret, ReadTsigSecretFails
  <2>2. CASE Abort
    BY <2>2, ReturnLocals DEF Abort
  <2>3. ASSUME NEW k \in Keys, AdvanceWith(k, corefile) PROVE Locals'
    BY <2>1, <2>3, BoundsAssumption DEF AdvanceWith, Locals
  <2>4. ReadTsigSecret => Abort \/ (seen["tsig"] \in Keys /\ AdvanceWith(seen["tsig"], corefile))
    BY KeysAreThere DEF ReadTsigSecret, Cluster, TsigKeys
  <2>. QED
    BY <1>3, <2>2, <2>3, <2>4, KeysAreThere DEF MakeTsigSecret, ReadTsigSecretFails
<1>4. CASE RenderZone
  <2>1. step = 4
    BY <1>4, AtPlaces DEF RenderZone
  <2>2. ks.spec.zones \subseteq ZoneNames
    BY <2>1, SpecsAssumption DEF Locals, Resources
  <2>. QED
    BY <1>4, <2>1, <2>2 DEF RenderZone, Locals
<1>5. CASE ZonesDone \/ SkipZone
  <2>1. SkipZone => Locals'
    BY SpecsAssumption DEF SkipZone, Locals
  <2>. QED
    BY <1>5, <2>1, AtPlaces, AdvanceLocals DEF ZonesDone
<1>6. CASE ReadInputs
  <2>1. step \in {5, 14}
    BY <1>6, AtPlaces DEF ReadInputs
  <2>2. [zones |-> ListedZones,
         from |-> IF At("zupdInputs") THEN LinkLocal ELSE ZupdAddress] \in Corefiles
    BY DEF Corefiles, ListedZones, ZupdAddress
  <2>. QED
    BY <1>6, <2>1, <2>2, BoundsAssumption DEF ReadInputs, AdvanceWith, Locals
<1>7. CASE ReadInputsFails \/ UnsupportedService
  BY <1>7, ReturnLocals DEF ReadInputsFails, UnsupportedService, Abort
<1>8. ASSUME NEW o \in Ensured, EnsureObject(o) PROVE Locals'
  <2>1. Ensuring(o)
    BY <1>8 DEF EnsureObject, LeaveAlone, Write, AlreadyExists, Conflict, WriteFails
  <2>2. CASE Proceed(o) \/ GiveUp(o)
    BY <2>1, <2>2, ProceedLocals
  <2>3. CASE /\ tries + 1 < MaxTries
             /\ tries' = tries + 1
             /\ UNCHANGED <<pending, step, ks, done, zone, key, corefile>>
    BY <2>3, BoundsAssumption DEF Locals
  <2>. QED
    BY <1>8, <2>2, <2>3
    DEF EnsureObject, LeaveAlone, Write, AlreadyExists, Conflict, WriteFails
<1>. QED
  BY <1>1, <1>2, <1>3, <1>4, <1>5, <1>6, <1>7, <1>8 DEF Reconcile

\* What a step of ensuring an object does to the objects and the caches: the
\* object may get the content that the code builds, and nothing else changes.
LEMMA EnsureEffect ==
    ASSUME NEW o \in Ensured, EnsureObject(o)
    PROVE  /\ Ensuring(o)
           /\ \/ UNCHANGED <<obj, seen>>
              \/ /\ obj' = [obj EXCEPT ![o] = Mutated(o)]
                 /\ seen' \in {seen, [seen EXCEPT ![o] = Mutated(o)]}
           /\ UNCHANGED <<edits, now>>
           /\ faults' = faults \/ Fault
           /\ pending \in BOOLEAN => pending' \in BOOLEAN
BY DEF EnsureObject, LeaveAlone, Write, AlreadyExists, Conflict, WriteFails,
   Proceed, Advance, Return, GiveUp, Abort, Fault, bounds

\* Every step keeps the objects, the caches and the bounds in shape.
LEMMA ClusterStep == Shape /\ [Next]_vars => Cluster'
<1>. SUFFICES ASSUME Shape, [Next]_vars PROVE Cluster'
  OBVIOUS
<1>0. Cluster /\ Locals /\ step \in 0..16
  BY ShapeParts, Places DEF Locals
<1>. USE <1>0, ObjectNames DEF Cluster
<1>1. CASE UNCHANGED vars
  BY <1>1 DEF vars, bounds
<1>2. CASE GetKsdns
  BY <1>2 DEF GetKsdns, bounds
<1>3. CASE SetStatus
  <2>1. obj' \in {obj, [obj EXCEPT !["ksdns"].conditions = TRUE]}
    BY <1>3 DEF SetStatus
  <2>2. pending' \in BOOLEAN /\ UNCHANGED <<seen, bounds>>
    BY <1>3 DEF SetStatus, Advance, Return, Abort
  <2>3. CASE obj' = [obj EXCEPT !["ksdns"].conditions = TRUE]
    <3>1. obj'["ksdns"] = [obj["ksdns"] EXCEPT !.conditions = TRUE]
      BY <2>3
    <3>2. obj'["ksdns"] \in Resources
      BY <3>1 DEF Resources
    <3>3. DOMAIN obj' = Objects /\ obj'["tsig"] = obj["tsig"] /\ obj'["secret"] = obj["secret"]
      BY <2>3
    <3>. QED
      BY <2>2, <3>2, <3>3 DEF bounds
  <2>. QED
    BY <2>1, <2>2, <2>3 DEF bounds
<1>4. CASE MakeTsigSecret \/ ReadTsigSecret \/ ReadTsigSecretFails
  <2>1. obj' \in {obj, [obj EXCEPT !["tsig"] = MadeKey]} /\ MadeKey \in TsigKeys
    BY <1>4, KeysAreThere DEF MakeTsigSecret, ReadTsigSecret, ReadTsigSecretFails, TsigKeys
  <2>2. pending' \in BOOLEAN /\ seen' = seen
    BY <1>4
    DEF MakeTsigSecret, ReadTsigSecret, ReadTsigSecretFails, AdvanceWith, Abort, Return
  <2>3. UNCHANGED bounds \/ Fault
    BY <1>4 DEF MakeTsigSecret, ReadTsigSecret, ReadTsigSecretFails
  <2>. QED
    BY <2>1, <2>2, <2>3, BoundsAssumption DEF Fault, bounds
<1>5. CASE RenderZone \/ SkipZone \/ ZonesDone \/ ReadInputs \/ ReadInputsFails
           \/ UnsupportedService
  <2>1. pending' \in BOOLEAN /\ UNCHANGED <<obj, seen>>
    BY <1>5
    DEF RenderZone, SkipZone, ZonesDone, ReadInputs, ReadInputsFails, UnsupportedService,
        AdvanceWith, Advance, Abort, Return
  <2>2. UNCHANGED bounds \/ Fault
    BY <1>5 DEF RenderZone, SkipZone, ZonesDone, ReadInputs, ReadInputsFails,
       UnsupportedService
  <2>. QED
    BY <2>1, <2>2, BoundsAssumption DEF Fault, bounds
<1>6. ASSUME NEW o \in Ensured, EnsureObject(o) PROVE Cluster'
  <2>1. o = "secret" => Mutated(o) \in Keys
    BY <1>6, EnsureEffect, Contents, EnsuringPlaces DEF Locals
  <2>2. faults' \in 0..MaxFaults /\ edits' = edits /\ now' = now
    BY <1>6, EnsureEffect, BoundsAssumption DEF Fault
  <2>3. pending' \in BOOLEAN
    BY <1>6, EnsureEffect
  <2>4. o # "ksdns" /\ o # "tsig" /\ o \in Objects
    OBVIOUS
  <2>5. \/ UNCHANGED <<obj, seen>>
        \/ /\ obj' = [obj EXCEPT ![o] = Mutated(o)]
           /\ seen' \in {seen, [seen EXCEPT ![o] = Mutated(o)]}
    BY <1>6, EnsureEffect
  <2>. QED
    BY <2>1, <2>2, <2>3, <2>4, <2>5
<1>7. ASSUME NEW o \in Objects, Sync(o) PROVE Cluster'
  BY <1>7 DEF Sync, bounds, local, OwnedByKsdns
<1>8. ASSUME NEW s \in Specs, EditKsdns(s) PROVE Cluster'
  BY <1>8, BoundsAssumption DEF EditKsdns, local, Resources, Ensured, Fixed
<1>9. ASSUME NEW z \in Foreign, CreateZone(z) PROVE Cluster'
  <2>1. z \in ZoneNames /\ z # "ksdns" /\ z # "tsig" /\ z # "secret"
    BY SpecsAssumption, NamesAssumption DEF Fixed
  <2>. QED
    BY <1>9, <2>1 DEF CreateZone, local, bounds
<1>10. CASE ProvideSecret
  <2>1. edits' \in 0..MaxEdits /\ UserSecret /\ UNCHANGED <<seen, pending, faults, now>>
    BY <1>10, BoundsAssumption DEF ProvideSecret
  <2>2. PICK c \in BOOLEAN :
          obj' = [obj EXCEPT !["tsig"] = [version |-> edits', complete |-> c]]
    BY <1>10 DEF ProvideSecret
  <2>3. [version |-> edits', complete |-> c] \in TsigKeys
    BY <2>1 DEF TsigKeys, Keys
  <2>. QED
    BY <2>1, <2>2, <2>3 DEF Ensured, Fixed
<1>11. CASE Tick
  <2>1. (now + 1) % (MaxTime + 1) \in 0..MaxTime
    BY BoundsAssumption
  <2>. QED
    BY <1>11, <2>1 DEF Tick, local
<1>12. CASE Restart
  BY <1>12, BoundsAssumption DEF Restart, Return, Fault
<1>. QED
  BY <1>1, <1>2, <1>3, <1>4, <1>5, <1>6, <1>7, <1>8, <1>9, <1>10, <1>11, <1>12
  DEF Next, Reconcile

\* Every step keeps the worker's local variables in shape.
LEMMA LocalsStep == Shape /\ [Next]_vars => Locals'
<1>. SUFFICES ASSUME Shape, [Next]_vars PROVE Locals'
  OBVIOUS
<1>1. Locals
  BY ShapeParts
<1>2. CASE Reconcile
  BY <1>2, ReconcileLocals
<1>3. CASE Restart
  BY <1>3, ReturnLocals DEF Restart
<1>4. CASE UNCHANGED local
  BY <1>1, <1>4 DEF Locals, local
<1>. QED
  BY <1>2, <1>3, <1>4
  DEF Next, vars, Sync, EditKsdns, CreateZone, ProvideSecret, Tick

\* Type correctness: every variable of the operator keeps to its kind, and
\* the retries stay below their limit.
LEMMA ShapeInvariant == Spec => []Shape
<1>1. Shape /\ [Next]_vars => Shape'
  BY ClusterStep, LocalsStep, ShapeParts
  DEF Cluster, Locals, Shape, TypeOK, Wanted, Resources, TsigKeys
<1>. QED
  BY <1>1, InitShape, PTL DEF Spec

THEOREM OperatorTypes == Spec => []TypeOK
<1>1. Shape => TypeOK
  BY DEF Shape
<1>. QED
  BY <1>1, ShapeInvariant, PTL
-----------------------------------------------------------------------------
(* The worker's way through the plan.                                      *)

\* An ensured object sends the worker on, or back to the start, or lets it
\* try again; the key in hand stays.
LEMMA EnsureProgress ==
    ASSUME Shape, NEW o \in Ensured, EnsureObject(o)
    PROVE  \/ step' = 0
           \/ step' \in {step, step + 1} /\ step \in 3..16 /\ key' = key
<1>1. Ensuring(o)
  BY EnsureEffect
<1>2. step \in 3..16
  BY <1>1, EnsuringPlaces DEF Ensured
<1>. QED
  BY <1>2
  DEF EnsureObject, LeaveAlone, Write, AlreadyExists, Conflict, WriteFails,
      Proceed, GiveUp, Abort, Advance, Return

\* The same of every step; the key in hand is set at the second entry only.
LEMMA Progress ==
    ASSUME Shape, [Next]_vars
    PROVE  \/ step' \in {0, 1}
           \/ step' = step /\ key' = key
           \/ step' = step + 1 /\ step \in 1..16 /\ (step # 2 => key' = key)
<1>0. step \in 0..16
  BY ShapeParts, Places DEF Locals
<1>1. ASSUME NEW o \in Ensured, EnsureObject(o)
      PROVE  \/ step' \in {0, 1}
             \/ step' = step /\ key' = key
             \/ step' = step + 1 /\ step \in 1..16 /\ (step # 2 => key' = key)
  BY <1>1, EnsureProgress
<1>2. CASE SetStatus \/ ZonesDone
  <2>1. step \in {1, 4}
    BY <1>0, <1>2, AtPlaces DEF SetStatus, ZonesDone
  <2>2. step' = 0 \/ (step' = step + 1 /\ key' = key)
    BY <1>2 DEF SetStatus, ZonesDone, Advance, Abort, Return
  <2>. QED
    BY <2>1, <2>2
<1>3. CASE MakeTsigSecret \/ ReadTsigSecret \/ ReadTsigSecretFails
  <2>1. step = 2
    BY <1>0, <1>3, AtPlaces DEF MakeTsigSecret, ReadTsigSecret, ReadTsigSecretFails
  <2>2. step' = 0 \/ step' = step + 1
    BY <1>3
    DEF MakeTsigSecret, ReadTsigSecret, ReadTsigSecretFails, AdvanceWith, Abort, Return
  <2>. QED
    BY <2>1, <2>2
<1>4. CASE ReadInputs
  <2>1. step \in {5, 14}
    BY <1>0, <1>4, AtPlaces DEF ReadInputs
  <2>2. step' = step + 1 /\ key' = key
    BY <1>4 DEF ReadInputs, AdvanceWith
  <2>. QED
    BY <2>1, <2>2
<1>5. CASE GetKsdns \/ ReadInputsFails \/ UnsupportedService \/ Restart
  BY <1>5 DEF GetKsdns, ReadInputsFails, UnsupportedService, Restart, Abort, Return
<1>6. CASE RenderZone \/ SkipZone \/ UNCHANGED local
  BY <1>6 DEF RenderZone, SkipZone, local
<1>. QED
  BY <1>1, <1>2, <1>3, <1>4, <1>5, <1>6
  DEF Next, Reconcile, vars, Sync, EditKsdns, CreateZone, ProvideSecret, Tick

\* Only the steps at the secret lead on from the second entry of the plan.
LEMMA AtSecond ==
    ASSUME Shape, [Next]_vars, step = 2, step' = 3
    PROVE  MakeTsigSecret \/ ReadTsigSecret \/ ReadTsigSecretFails
<1>1. ASSUME NEW o \in Ensured, EnsureObject(o) PROVE FALSE
  BY <1>1, EnsureEffect, EnsuringPlaces DEF Ensured
<1>2. ~At("status") /\ ~At("zones") /\ ~At("corednsInputs") /\ ~At("zupdInputs")
      /\ ~At("corednsSvc")
  BY AtPlaces
<1>3. ~(GetKsdns \/ SetStatus \/ RenderZone \/ SkipZone \/ ZonesDone \/ ReadInputs
        \/ ReadInputsFails \/ UnsupportedService \/ Restart \/ UNCHANGED local)
  BY <1>2 DEF GetKsdns, SetStatus, RenderZone, SkipZone, ZonesDone, ReadInputs,
     ReadInputsFails, UnsupportedService, Restart, Return, local
<1>. QED
  BY <1>1, <1>3
  DEF Next, Reconcile, vars, Sync, EditKsdns, CreateZone, ProvideSecret, Tick
-----------------------------------------------------------------------------
(* What a step does to the keys.                                           *)

\* The TSIG configuration changes where the worker ensures it, to the key in
\* hand; the TSIG secret where the operator makes it or the user writes it.
LEMMA SecretStep ==
    ASSUME Shape, [Next]_vars
    PROVE  /\ obj'["secret"] = obj["secret"] \/ (step = 3 /\ obj'["secret"] = key)
           /\ \/ obj'["tsig"] = obj["tsig"]
              \/ ~UserSecret /\ obj["tsig"] = Absent /\ obj'["tsig"] = MadeKey
              \/ /\ UserSecret /\ edits' = edits + 1
                 /\ \E c \in BOOLEAN : obj'["tsig"] = [version |-> edits', complete |-> c]
<1>0. Cluster /\ "secret" # "tsig"
  BY ShapeParts
<1>. USE <1>0, ObjectNames DEF Cluster
<1>1. ASSUME NEW o \in Ensured, EnsureObject(o)
      PROVE  /\ obj'["secret"] = obj["secret"] \/ (step = 3 /\ obj'["secret"] = key)
             /\ obj'["tsig"] = obj["tsig"]
  <2>1. Ensuring(o) /\ obj' \in {obj, [obj EXCEPT ![o] = Mutated(o)]} /\ o # "tsig"
    BY <1>1, EnsureEffect
  <2>2. o = "secret" => step = 3 /\ Mutated(o) = key
    BY <2>1, Contents, EnsuringPlaces
  <2>. QED
    BY <2>1, <2>2
<1>2. CASE SetStatus \/ \E s \in Specs : EditKsdns(s)
  <2>1. obj' = obj \/ \E v : obj' = [obj EXCEPT !["ksdns"] = v]
    BY <1>2 DEF SetStatus, EditKsdns
  <2>2. "ksdns" # "secret" /\ "ksdns" # "tsig"
    OBVIOUS
  <2>. QED
    BY <2>1, <2>2
<1>3. CASE MakeTsigSecret
  BY <1>3 DEF MakeTsigSecret
<1>4. CASE ProvideSecret
  BY <1>4 DEF ProvideSecret
<1>5. ASSUME NEW z \in Foreign, CreateZone(z)
      PROVE  obj'["secret"] = obj["secret"] /\ obj'["tsig"] = obj["tsig"]
  <2>1. z # "secret" /\ z # "tsig"
    BY SpecsAssumption, NamesAssumption DEF Fixed
  <2>. QED
    BY <1>5, <2>1 DEF CreateZone
<1>6. CASE ReadTsigSecret \/ ReadTsigSecretFails \/ GetKsdns \/ RenderZone \/ SkipZone
           \/ ZonesDone \/ ReadInputs \/ ReadInputsFails \/ UnsupportedService
           \/ (\E o \in Objects : Sync(o)) \/ Tick \/ Restart \/ UNCHANGED vars
  BY <1>6 DEF ReadTsigSecret, ReadTsigSecretFails, GetKsdns, RenderZone, SkipZone,
     ZonesDone, ReadInputs, ReadInputsFails, UnsupportedService, Sync, Tick, Restart, vars
<1>. QED
  BY <1>1, <1>2, <1>3, <1>4, <1>5, <1>6 DEF Next, Reconcile

\* What the cache has of the TSIG secret: what it had, or what the server has.
LEMMA CacheStep ==
    ASSUME Shape, [Next]_vars
    PROVE  seen'["tsig"] \in {seen["tsig"], obj["tsig"]}
<1>0. Cluster
  BY ShapeParts
<1>. USE <1>0, ObjectNames DEF Cluster
<1>1. ASSUME NEW o \in Ensured, EnsureObject(o)
      PROVE  seen'["tsig"] \in {seen["tsig"], obj["tsig"]}
  BY <1>1, EnsureEffect
<1>2. ASSUME NEW o \in Objects, Sync(o)
      PROVE  seen'["tsig"] \in {seen["tsig"], obj["tsig"]}
  BY <1>2 DEF Sync
<1>3. CASE seen' = seen \/ seen' = obj
  BY <1>3
<1>. QED
  BY <1>1, <1>2, <1>3
  DEF Next, Reconcile, vars, GetKsdns, SetStatus, MakeTsigSecret, ReadTsigSecret,
      ReadTsigSecretFails, RenderZone, SkipZone, ZonesDone, ReadInputs, ReadInputsFails,
      UnsupportedService, EditKsdns, CreateZone, ProvideSecret, Tick, Restart
-----------------------------------------------------------------------------
(* The operator's own TSIG key.                                            *)

\* The secret is the operator's own, and reads of it do not fail.
OperatorsKey == ~UserSecret /\ ~ReadFails

\* The key in hand, in the cache and in the configuration is the secret's.
KeyInv ==
    /\ seen["tsig"] # Absent => obj["tsig"] = MadeKey
    /\ step > 2 => key = MadeKey /\ obj["tsig"] = MadeKey
    /\ obj["secret"] # Absent => obj["secret"] = MadeKey /\ obj["tsig"] = MadeKey

\* The worker leaves the second entry of the plan with the secret's key.
LEMMA KeyInHand ==
    ASSUME OperatorsKey, Shape, KeyInv,
           MakeTsigSecret \/ ReadTsigSecret \/ ReadTsigSecretFails
    PROVE  step' = 0 \/ (key' = MadeKey /\ obj'["tsig"] = MadeKey)
<1>0. Cluster
  BY ShapeParts
<1>1. MakeTsigSecret => step' = 0 \/ (key' = MadeKey /\ obj'["tsig"] = MadeKey)
  BY <1>0, ObjectNames DEF MakeTsigSecret, AdvanceWith, Abort, Return, Cluster
<1>2. ReadTsigSecret => key' = MadeKey /\ obj'["tsig"] = MadeKey
  BY <1>0 DEF ReadTsigSecret, AdvanceWith, OperatorsKey, Cluster, TsigKeys, KeyInv
<1>3. ~ReadTsigSecretFails
  BY DEF ReadTsigSecretFails, OperatorsKey
<1>. QED
  BY <1>1, <1>2, <1>3

LEMMA KeyStep == OperatorsKey /\ Shape /\ KeyInv /\ [Next]_vars => KeyInv'
<1>. SUFFICES ASSUME OperatorsKey, Shape, KeyInv, [Next]_vars PROVE KeyInv'
  OBVIOUS
<1>0. step \in 0..16 /\ Cluster
  BY ShapeParts, Places DEF Locals
<1>1. obj["tsig"] # Absent => obj["tsig"] = MadeKey /\ obj'["tsig"] = MadeKey
  BY <1>0, SecretStep DEF Cluster, TsigKeys, OperatorsKey
<1>2. seen'["tsig"] # Absent => obj'["tsig"] = MadeKey
  BY <1>1, CacheStep, KeysAreThere DEF KeyInv
<1>3. step' > 2 => key' = MadeKey /\ obj'["tsig"] = MadeKey
  <2>1. CASE step > 2
    <3>1. step' \in {0, 1} \/ key' = key
      BY <1>0, <2>1, Progress
    <3>. QED
      BY <1>1, <2>1, <3>1, KeysAreThere DEF KeyInv
  <2>2. CASE step <= 2 /\ step' > 2
    <3>1. step = 2 /\ step' = 3
      BY <1>0, <2>2, Progress
    <3>. QED
      BY <3>1, AtSecond, KeyInHand
  <2>. QED
    BY <1>0, <2>1, <2>2
<1>4. obj'["secret"] # Absent => obj'["secret"] = MadeKey /\ obj'["tsig"] = MadeKey
  BY <1>1, SecretStep, KeysAreThere DEF KeyInv
<1>. QED
  BY <1>2, <1>3, <1>4 DEF KeyInv

\* Nothing is there, seen or in hand at first.
LEMMA InitKeys == Init => obj["secret"] = Absent /\ obj["tsig"] = Absent
                          /\ seen["tsig"] = Absent /\ step = 0
BY ObjectNames DEF Init

LEMMA KeyInvariant ==
    ASSUME OperatorsKey
    PROVE  Spec => []KeyInv
<1>1. Init => KeyInv
  BY InitKeys DEF KeyInv
<1>2. Shape /\ KeyInv /\ [Next]_vars => KeyInv'
  BY KeyStep
<1>. QED
  BY <1>1, <1>2, ShapeInvariant, PTL DEF Spec

\* Of the operator's own secret, where reads of it do not fail: both
\* deployments get the key of the secret, and no stale cache, crash or failed
\* write brings in another.
THEOREM SecretsAgree ==
    ASSUME OperatorsKey
    PROVE  Spec => []KeysAgree
<1>1. KeyInv => KeysAgree
  BY DEF KeyInv, KeysAgree
<1>. QED
  BY <1>1, KeyInvariant, PTL
-----------------------------------------------------------------------------
(* The keys of a user's secret.                                            *)

\* A key travels from the user's secret to the cache, from there to the worker
\* and on to the configuration, and is nowhere later than it was before.
UserKeyInv ==
    /\ obj["tsig"] # Absent => obj["tsig"].version <= edits
    /\ seen["tsig"] # Absent =>
         obj["tsig"] # Absent /\ seen["tsig"].version <= obj["tsig"].version
    /\ step > 2 =>
         key.complete /\ seen["tsig"] # Absent /\ key.version <= seen["tsig"].version
    /\ obj["secret"] # Absent =>
         /\ obj["secret"].complete
         /\ seen["tsig"] # Absent /\ obj["secret"].version <= seen["tsig"].version
         /\ step > 2 => obj["secret"].version <= key.version

\* The worker leaves the second entry of the plan with what its cache has.
LEMMA UserKeyInHand ==
    ASSUME UserSecret, MakeTsigSecret \/ ReadTsigSecret \/ ReadTsigSecretFails
    PROVE  /\ seen' = seen /\ obj' = obj
           /\ step' = 0 \/ (seen["tsig"] # Absent /\ key' = seen["tsig"] /\ key'.complete)
BY DEF MakeTsigSecret, ReadTsigSecret, ReadTsigSecretFails, AdvanceWith, Abort, Return

LEMMA UserKeyStep == UserSecret /\ Shape /\ UserKeyInv /\ [Next]_vars => UserKeyInv'
<1>. SUFFICES ASSUME UserSecret, Shape, UserKeyInv, [Next]_vars PROVE UserKeyInv'
  OBVIOUS
<1>0. /\ Cluster /\ Cluster' /\ step \in 0..16
      /\ step > 2 => key \in Keys
  BY ClusterStep, ShapeParts, Places DEF Locals
<1>1. /\ {obj["tsig"], obj'["tsig"], seen["tsig"], seen'["tsig"],
          obj["secret"], obj'["secret"]} \subseteq {Absent} \cup Keys
      /\ \A k \in Keys : k.version \in Nat
      /\ edits \in Nat /\ edits' \in Nat
  BY <1>0, BoundsAssumption DEF Cluster, TsigKeys, Keys
<1>2. edits <= edits'
  <2>1. ASSUME NEW o \in Ensured, EnsureObject(o) PROVE edits' = edits
    BY <2>1, EnsureEffect
  <2>2. edits' \in {edits, edits + 1}
    BY <2>1
    DEF Next, Reconcile, vars, bounds, GetKsdns, SetStatus, MakeTsigSecret,
        ReadTsigSecret, ReadTsigSecretFails, RenderZone, SkipZone, ZonesDone,
        ReadInputs, ReadInputsFails, UnsupportedService, Sync, EditKsdns, CreateZone,
        ProvideSecret, Tick, Restart, Fault
  <2>. QED
    BY <1>1, <2>2
<1>3. /\ obj'["tsig"] # Absent => obj'["tsig"].version <= edits'
      /\ obj["tsig"] # Absent =>
           obj'["tsig"] # Absent /\ obj["tsig"].version <= obj'["tsig"].version
  <2>1. CASE obj'["tsig"] = obj["tsig"]
    BY <1>1, <1>2, <2>1 DEF UserKeyInv
  <2>2. CASE edits' = edits + 1
             /\ \E c \in BOOLEAN : obj'["tsig"] = [version |-> edits', complete |-> c]
    <3>0. PICK c \in BOOLEAN : obj'["tsig"] = [version |-> edits', complete |-> c]
      BY <2>2
    <3>1. [version |-> edits', complete |-> c] \in Keys
      BY <1>0, <2>2 DEF Cluster, Keys
    <3>2. obj'["tsig"].version = edits' /\ obj'["tsig"] # Absent
      BY <3>0, <3>1, KeysAreThere
    <3>3. obj["tsig"] # Absent => obj["tsig"].version <= edits'
      BY <1>1, <2>2 DEF UserKeyInv
    <3>. QED
      BY <1>1, <3>2, <3>3
  <2>. QED
    BY <2>1, <2>2, SecretStep
<1>4. /\ seen'["tsig"] # Absent =>
           obj'["tsig"] # Absent /\ seen'["tsig"].version <= obj'["tsig"].version
      /\ seen["tsig"] # Absent =>
           seen'["tsig"] # Absent /\ seen["tsig"].version <= seen'["tsig"].version
  BY <1>1, <1>3, CacheStep DEF UserKeyInv
<1>5. CASE step' \in {0, 1, 2}
  <2>1. CASE obj'["secret"] = obj["secret"]
    BY <1>1, <1>3, <1>4, <1>5, <2>1 DEF UserKeyInv
  <2>2. CASE step = 3 /\ obj'["secret"] = key
    BY <1>0, <1>1, <1>3, <1>4, <1>5, <2>2 DEF UserKeyInv
  <2>. QED
    BY <2>1, <2>2, SecretStep
<1>6. CASE step > 2 /\ step' > 2
  <2>1. key' = key
    BY <1>0, <1>6, Progress
  <2>2. CASE obj'["secret"] = obj["secret"]
    BY <1>0, <1>1, <1>3, <1>4, <1>6, <2>1, <2>2 DEF UserKeyInv
  <2>3. CASE obj'["secret"] = key
    BY <1>0, <1>1, <1>3, <1>4, <1>6, <2>1, <2>3 DEF UserKeyInv
  <2>. QED
    BY <2>2, <2>3, SecretStep
<1>7. CASE step <= 2 /\ step' > 2
  <2>1. step = 2 /\ step' = 3
    BY <1>0, <1>7, Progress
  <2>2. /\ seen' = seen /\ obj' = obj
        /\ seen["tsig"] # Absent /\ key' = seen["tsig"] /\ key'.complete
    BY <2>1, AtSecond, UserKeyInHand
  <2>. QED
    BY <1>1, <1>3, <1>4, <2>1, <2>2 DEF UserKeyInv
<1>. QED
  <2>1. step' \in 0..16
    BY LocalsStep, Places DEF Locals
  <2>. QED
    BY <1>0, <1>5, <1>6, <1>7, <2>1

\* Keys of a user's secret: what both deployments mount is a whole key, and
\* makes way only for a later one, however the user changes the secret,
\* caches lag, reads and writes fail and the operator crashes.
THEOREM UserKeysMoveOn == Spec => OnlyNewerKeysAreMounted
<1>1. Init => UserKeyInv
  BY InitKeys DEF UserKeyInv
<1>2. UserSecret /\ Shape /\ UserKeyInv /\ [Next]_vars => UserKeyInv'
  BY UserKeyStep
<1>3. Shape /\ (UserSecret => UserKeyInv) /\ [Next]_vars =>
        [UserSecret /\ obj'["secret"] # obj["secret"] =>
           /\ obj'["secret"].complete
           /\ obj["secret"] # Absent =>
                obj["secret"].version < obj'["secret"].version]_vars
  <2>. SUFFICES ASSUME Shape, UserKeyInv, [Next]_vars, UserSecret,
                       obj'["secret"] # obj["secret"]
                PROVE  /\ obj'["secret"].complete
                       /\ obj["secret"] # Absent =>
                            obj["secret"].version < obj'["secret"].version
    OBVIOUS
  <2>1. step = 3 /\ obj'["secret"] = key
    BY SecretStep
  <2>2. key \in Keys /\ key.complete /\ obj["secret"] \in {Absent} \cup Keys
    BY <2>1, ShapeParts DEF Locals, Cluster, UserKeyInv
  <2>3. ASSUME obj["secret"] # Absent PROVE obj["secret"].version < key.version
    <3>1. obj["secret"] \in Keys /\ obj["secret"].complete
          /\ obj["secret"].version <= key.version
      BY <2>1, <2>2, <2>3 DEF UserKeyInv
    <3>2. obj["secret"].version # key.version
      BY <2>1, <2>2, <3>1 DEF Keys
    <3>. QED
      BY <2>2, <3>1, <3>2, BoundsAssumption DEF Keys
  <2>. QED
    BY <2>1, <2>2, <2>3
<1>4. Spec => [](UserSecret => UserKeyInv)
  <2>1. Init => (UserSecret => UserKeyInv)
    BY <1>1
  <2>2. Shape /\ (UserSecret => UserKeyInv) /\ [Next]_vars => (UserSecret => UserKeyInv)'
    BY <1>2
  <2>. QED
    BY <2>1, <2>2, ShapeInvariant, PTL DEF Spec
<1>. QED
  BY <1>3, <1>4, ShapeInvariant, PTL DEF Spec, OnlyNewerKeysAreMounted
=============================================================================
