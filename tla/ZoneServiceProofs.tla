------------------------- MODULE ZoneServiceProofs -------------------------
(***************************************************************************)
(* What the registry of zones comes to: a zone that the controller is done *)
(* with is served as its object says, and the writes of the controller and *)
(* of updates make one change each of what is served and saved             *)
(* (ServedZones).                                                          *)
(***************************************************************************)
EXTENDS ZoneRegistryProofs

\* An object the controller has seen, and that asks for a zone.
Wanted(n) == cache[n] # Nothing /\ cache[n].spec \notin Unreadable /\ ~cache[n].deleting

\* Unless a zone is queued, the worker has its object as the cache has it,
\* and its contents are in the map or about to be put there.
UpToDate(n) ==
    n \notin queue =>
        /\ rc.zone = n => rc.obj = cache[n]
        /\ Wanted(n) => Z[n] = cache[n].spec \/ (At("decide") /\ rc.zone = n)

AllUpToDate == \A n \in ZoneNames : UpToDate(n)

LEMMA InitUpToDate == Init => AllUpToDate
<1>. SUFFICES ASSUME Init, NEW n \in ZoneNames, n \notin queue PROVE UpToDate(n)
  BY DEF AllUpToDate, UpToDate
<1>1. cache[n] = Nothing /\ rc.zone = Nothing
  BY DEF Init, Idle
<1>. QED
  BY <1>1, NothingAssumption DEF UpToDate, Wanted

\* One step of the worker, which takes its zone as it is in the cache.
LEMMA WorkerUpToDate ==
    ASSUME TypeOK, AllUpToDate, NEW n \in ZoneNames,
           \/ DeleteStatic \/ DeleteDynamic \/ DeleteName
           \/ ParseFails \/ SetStatic \/ CreateDynamic \/ CreateName
    PROVE  UpToDate(n)'
<1>. SUFFICES ASSUME n \notin queue' PROVE UpToDate(n)'
  BY DEF UpToDate
<1>1. UNCHANGED cache /\ n \notin queue
  BY DEF DeleteStatic, DeleteDynamic, DeleteName, ParseFails, SetStatic, CreateDynamic,
         CreateName
<1>2. /\ rc.zone = n => rc.obj = cache[n]
      /\ Wanted(n) => Z[n] = cache[n].spec \/ (At("decide") /\ rc.zone = n)
  BY <1>1 DEF AllUpToDate, UpToDate
<1>3. rc \in Working /\ rc.zone \in ZoneNames
  <2>1. rc.at # "idle"
    BY DEF DeleteStatic, DeleteDynamic, DeleteName, ParseFails, SetStatic, CreateDynamic,
           CreateName, Keeps, At
  <2>. QED
    BY <2>1, BusyWorker
<1>4. rc' = Idle \/ (rc'.zone = rc.zone /\ rc'.obj = rc.obj)
  BY <1>3 DEF DeleteStatic, DeleteDynamic, DeleteName, ParseFails, SetStatic,
              CreateDynamic, CreateName, Goto, Working
<1>5. rc'.zone = n => rc'.obj = cache[n]
  BY <1>2, <1>4, NothingAssumption DEF Idle
<1>6. ASSUME Wanted(n) PROVE Z'[n] = cache[n].spec
  <2>1. CASE UNCHANGED Z /\ ~At("decide")
    BY <1>2, <1>6, <2>1
  <2>2. CASE DeleteStatic
    <3>1. rc.zone # n
      BY <1>2, <1>6, <2>2 DEF DeleteStatic, Wanted
    <3>. QED
      BY <1>2, <1>6, <2>2, <3>1 DEF DeleteStatic, TypeOK
  <2>3. CASE ParseFails
    BY <1>2, <1>6, <2>3 DEF ParseFails, registry
  <2>4. CASE SetStatic
    BY <1>2, <1>3, <1>6, <2>4 DEF SetStatic, TypeOK
  <2>. QED
    BY <2>1, <2>2, <2>3, <2>4
    DEF DeleteDynamic, DeleteName, CreateDynamic, CreateName, At
<1>. QED
  BY <1>1, <1>5, <1>6 DEF UpToDate, Wanted

LEMMA StepUpToDate == TypeOK /\ AllUpToDate /\ [Next]_vars => AllUpToDate'
<1>. SUFFICES ASSUME TypeOK, AllUpToDate, [Next]_vars, NEW n \in ZoneNames
              PROVE  UpToDate(n)'
  BY DEF AllUpToDate
<1>. USE DEF registry, objects, bounds
<1>1. UpToDate(n) /\ n # Nothing
  BY NothingAssumption DEF AllUpToDate
<1>2. CASE UNCHANGED <<cache, queue, Z, rc>>
  BY <1>1, <1>2 DEF UpToDate, Wanted, At
<1>3. ASSUME NEW m \in ZoneNames, Deliver(m) PROVE UpToDate(n)'
  <2>1. n \notin queue' => n # m /\ n \notin queue /\ cache'[n] = cache[n]
    BY <1>3 DEF Deliver, TypeOK
  <2>. QED
    BY <1>1, <1>3, <2>1 DEF Deliver, UpToDate, Wanted, At
<1>4. ASSUME NEW m \in ZoneNames, Take(m) PROVE UpToDate(n)'
  <2>1. CASE n = m
    BY <1>1, <1>4, <2>1 DEF Take, UpToDate, Wanted, At, Idle
  <2>2. CASE n # m
    BY <1>1, <1>4, <2>2 DEF Take, UpToDate, Wanted, At, Idle
  <2>. QED
    BY <2>1, <2>2
<1>5. CASE \/ DeleteStatic \/ DeleteDynamic \/ DeleteName
           \/ ParseFails \/ SetStatic \/ CreateDynamic \/ CreateName
  BY <1>5, WorkerUpToDate
<1>6. CASE Restart
  BY <1>1, <1>6 DEF Restart, UpToDate, Wanted, Idle
<1>. QED
  BY <1>2, <1>3, <1>4, <1>5, <1>6
  DEF Next, Reconcile, vars, CreateObject, EditObject, MarkDeleting, RemoveObject,
      StartQuery, Match, LookupDynamic, ChangeMemory, SaveStatus, FailUpdate, MergeZones

\* ZoneRegistry, SettledIsServed: Reconcile loses no change and no failure of
\* an object that is not being deleted, and stops half way with no such zone,
\* for any zones, contents and restarts.
THEOREM SettledZonesAreServed == Spec => []SettledIsServed
<1>1. ASSUME IInv, AllUpToDate PROVE SettledIsServed
  <2>. SUFFICES ASSUME NEW n \in ZoneNames, n \notin queue, rc.zone # n,
                       cache[n] = api[n], Parses(n), ~api[n].deleting
                PROVE  /\ Z[n] = api[n].spec /\ DynamicZones[n] # Nothing
                       /\ n \in Range(Names)
    BY DEF SettledIsServed
  <2>1. Z[n] = api[n].spec
    BY <1>1 DEF AllUpToDate, UpToDate, Wanted, Parses
  <2>2. Z[n] # Nothing
    BY <1>1, <2>1, ParsesFacts, SomethingFacts DEF IInv, TypeOK
  <2>3. ~Changing(n)
    BY DEF Changing
  <2>. QED
    BY <1>1, <2>1, <2>2, <2>3 DEF IInv, Facts, RegistryCoherent
<1>2. IInv => TypeOK
  BY DEF IInv
<1>3. Spec => []AllUpToDate
  BY <1>2, InitUpToDate, StepUpToDate, Invariance, PTL DEF Spec
<1>. QED
  BY <1>1, <1>3, Invariance, PTL
-----------------------------------------------------------------------------
(* The registry implements ServedZones.                                    *)

\* What an object starts with.
NewObjectsAreEmpty == \A n \in ZoneNames : api[n] = Nothing => status[n] = {}

LEMMA InitEmpty == Init => NewObjectsAreEmpty
BY DEF Init, NewObjectsAreEmpty

LEMMA StepEmpty ==
    IInv /\ NewObjectsAreEmpty /\ [Next]_vars => NewObjectsAreEmpty'
<1>. SUFFICES ASSUME IInv, NewObjectsAreEmpty, [Next]_vars PROVE NewObjectsAreEmpty'
  OBVIOUS
<1>. USE DEF registry, objects, bounds
<1>. TypeOK
  BY DEF IInv
<1>1. \/ UNCHANGED <<api, status>>
      \/ \E n \in ZoneNames, s \in Specs : CreateObject(n, s) \/ EditObject(n, s)
      \/ \E n \in ZoneNames : MarkDeleting(n) \/ RemoveObject(n)
      \/ \E q \in Queries, rrs \in SUBSET RRs : SaveStatus(q, rrs)
  BY DEF Next, Reconcile, vars, Deliver, Take, DeleteStatic, DeleteDynamic, DeleteName,
         ParseFails, SetStatic, CreateDynamic, CreateName, StartQuery, Match,
         LookupDynamic, ChangeMemory, FailUpdate, MergeZones, Restart
<1>2. ASSUME NEW n \in ZoneNames, NEW s \in Specs, CreateObject(n, s) \/ EditObject(n, s)
      PROVE  NewObjectsAreEmpty'
  <2>1. [spec |-> s, deleting |-> FALSE] \in Objects
    BY DEF Objects
  <2>2. api[n] # Nothing => [api[n] EXCEPT !.spec = s] \in Objects
    BY DEF TypeOK, Objects
  <2>3. api'[n] # Nothing /\ UNCHANGED status
    BY <1>2, <2>1, <2>2, SomethingFacts DEF TypeOK, CreateObject, EditObject
  <2>4. \A m \in ZoneNames : m # n => api'[m] = api[m]
    BY <1>2 DEF TypeOK, CreateObject, EditObject
  <2>. QED
    BY <2>3, <2>4 DEF NewObjectsAreEmpty
<1>3. ASSUME NEW n \in ZoneNames, MarkDeleting(n) \/ RemoveObject(n)
      PROVE  NewObjectsAreEmpty'
  <2>1. api[n] # Nothing => [api[n] EXCEPT !.deleting = TRUE] \in Objects
    BY DEF TypeOK, Objects
  <2>2. api'[n] = Nothing => status'[n] = {}
    BY <1>3, <2>1, SomethingFacts DEF TypeOK, MarkDeleting, RemoveObject
  <2>3. \A m \in ZoneNames : m # n => api'[m] = api[m] /\ status'[m] = status[m]
    BY <1>3 DEF TypeOK, MarkDeleting, RemoveObject
  <2>. QED
    BY <2>2, <2>3 DEF NewObjectsAreEmpty
<1>4. ASSUME NEW q \in Queries, NEW rrs \in SUBSET RRs, SaveStatus(q, rrs)
      PROVE  NewObjectsAreEmpty'
  BY <1>4 DEF TypeOK, NewObjectsAreEmpty, SaveStatus
<1>. QED
  BY <1>1, <1>2, <1>3, <1>4 DEF NewObjectsAreEmpty

\* An object that is there, in the words of ServedZones.
LEMMA ObjectFacts ==
    ASSUME TypeOK, NEW n \in ZoneNames
    PROVE  /\ ObjectOf(n) = Nothing <=> api[n] = Nothing
           /\ api[n] # Nothing => ObjectOf(n).spec = api[n].spec
                                  /\ ObjectOf(n).saved = status[n]
<1>1. api[n] # Nothing => [spec |-> api[n].spec, saved |-> status[n]] # Nothing
  BY NothingAssumption DEF TypeOK, Objects
<1>. QED
  BY <1>1 DEF ObjectOf

\* What is served of a zone depends on the maps and the slice there alone.
LEMMA ServedElsewhere ==
    ASSUME NEW n \in ZoneNames, Z'[n] = Z[n], DynamicZones'[n] = DynamicZones[n],
           n \in Range(Names') <=> n \in Range(Names)
    PROVE  ServedOf(n)' = ServedOf(n)
BY DEF ServedOf

LEMMA ServedFacts ==
    ASSUME IInv, NEW n \in ZoneNames
    PROVE  /\ ServedOf(n) = Nothing <=>
                ~(Listed(n) /\ Z[n] # Nothing /\ DynamicZones[n] # Nothing)
           /\ ServedOf(n) # Nothing => ServedOf(n).static = Z[n]
                                       /\ ServedOf(n).dynamic = DynamicZones[n]
<1>1. Z[n] # Nothing /\ DynamicZones[n] # Nothing =>
        [static |-> Z[n], dynamic |-> DynamicZones[n]] # Nothing
  BY NothingAssumption DEF IInv, TypeOK
<1>. QED
  BY <1>1 DEF ServedOf, Listed

\* Only what is seen of the objects, of the zones and of stray updates, and
\* the number of restarts matter to ServedZones.
SameObjects == \A n \in ZoneNames : ObjectOf(n)' = ObjectOf(n)
SameZones   == \A n \in ZoneNames : ServedOf(n)' = ServedOf(n)
SameStrays  == Strays' = Strays /\ restarts' = restarts

LEMMA Stutter == SameObjects /\ SameZones /\ SameStrays => UNCHANGED Promise!vars
BY DEF SameObjects, SameZones, SameStrays, Promise!vars

\* No update goes astray, and none that was is through.
LEMMA UntouchedStrays ==
    ASSUME UNCHANGED restarts,
           \A q \in Queries : /\ Astray(q)' <=> Astray(q)
                              /\ Astray(q) => query'[q].zone = query[q].zone
    PROVE  SameStrays
<1>1. Strays' = {n \in ZoneNames : \E q \in Queries : Astray(q)' /\ query'[q].zone = n}
  BY DEF Strays
<1>. QED
  BY <1>1 DEF SameStrays, Strays

LEMMA UntouchedObjects == UNCHANGED <<api, status>> => SameObjects
BY DEF SameObjects, ObjectOf

LEMMA UntouchedZones == UNCHANGED registry => SameZones
BY DEF SameZones, ServedOf, registry

\* The steps of users and of the API server.
LEMMA ObjectStep ==
    ASSUME IInv, NewObjectsAreEmpty, NEW n \in ZoneNames,
           \/ \E s \in Specs : CreateObject(n, s) \/ EditObject(n, s)
           \/ MarkDeleting(n) \/ RemoveObject(n)
    PROVE  [Promise!Next]_(Promise!vars)
<1>. TypeOK
  BY DEF IInv
<1>1. SameZones /\ SameStrays
  <2>1. UNCHANGED <<registry, query, restarts>>
    BY DEF CreateObject, EditObject, MarkDeleting, RemoveObject, Change
  <2>. QED
    BY <2>1, UntouchedZones, UntouchedStrays DEF Astray
<1>2. \A m \in ZoneNames : m # n => ObjectOf(m)' = ObjectOf(m)
  BY DEF TypeOK, ObjectOf, CreateObject, EditObject, MarkDeleting, RemoveObject
<1>3. ASSUME NEW s \in Specs, CreateObject(n, s) PROVE Promise!Next
  <2>1. [spec |-> s, deleting |-> FALSE] # Nothing
    BY NothingAssumption
  <2>2. ObjectOf(n) = Nothing /\ ObjectOf(n)' = [spec |-> s, saved |-> {}]
    BY <1>3, <2>1 DEF TypeOK, NewObjectsAreEmpty, CreateObject, ObjectOf
  <2>3. Promise!Create(n, s)
    BY <1>1, <1>2, <2>2 DEF SameZones, SameStrays, Promise!Create
  <2>. QED
    BY <2>3 DEF Promise!Next
<1>4. ASSUME NEW s \in Specs, EditObject(n, s) PROVE Promise!Next
  <2>1. api[n] # Nothing /\ api'[n] = [api[n] EXCEPT !.spec = s] /\ status' = status
    BY <1>4 DEF TypeOK, EditObject
  <2>2. api[n] \in Objects
    BY <2>1 DEF TypeOK
  <2>3. api'[n] \in Objects /\ api'[n].spec = s
    BY <2>1, <2>2 DEF Objects
  <2>4. ObjectOf(n)' = [spec |-> s, saved |-> status[n]]
    BY <2>1, <2>3, SomethingFacts DEF ObjectOf
  <2>5. Promise!Edit(n, s)
    BY <1>1, <1>2, <2>1, <2>4, ObjectFacts DEF SameZones, SameStrays, Promise!Edit
  <2>. QED
    BY <2>5 DEF Promise!Next
<1>5. CASE MarkDeleting(n)
  <2>1. api[n] # Nothing /\ api'[n] = [api[n] EXCEPT !.deleting = TRUE] /\ status' = status
    BY <1>5 DEF TypeOK, MarkDeleting
  <2>2. api[n] \in Objects
    BY <2>1 DEF TypeOK
  <2>3. api'[n] \in Objects /\ api'[n].spec = api[n].spec
    BY <2>1, <2>2 DEF Objects
  <2>4. ObjectOf(n)' = ObjectOf(n)
    BY <2>1, <2>3, SomethingFacts DEF ObjectOf
  <2>. QED
    BY <1>1, <1>2, <2>4, Stutter DEF SameObjects
<1>6. CASE RemoveObject(n)
  <2>1. ObjectOf(n)' = Nothing
    BY <1>6 DEF TypeOK, RemoveObject, ObjectOf
  <2>2. Promise!Remove(n)
    BY <1>1, <1>2, <2>1 DEF SameZones, SameStrays, Promise!Remove
  <2>. QED
    BY <2>2 DEF Promise!Next
<1>. QED
  BY <1>3, <1>4, <1>5, <1>6

\* The writes of the worker: of each zone, one changes what is served.
LEMMA WorkerStep ==
    ASSUME IInv,
           DeleteStatic \/ DeleteName \/ SetStatic \/ CreateDynamic \/ CreateName
    PROVE  [Promise!Next]_(Promise!vars)
<1>. TypeOK
  BY DEF IInv
<1>1. rc \in Working /\ rc.zone \in ZoneNames /\ rc.obj \in Objects
  <2>1. rc.at # "idle"
    BY DEF DeleteStatic, DeleteName, SetStatic, Keeps, CreateDynamic, CreateName, At
  <2>. QED
    BY <2>1, BusyWorker
<1>2. PICK z \in ZoneNames : rc.zone = z
  BY <1>1
<1>3. SameObjects
  BY UntouchedObjects
  DEF DeleteStatic, DeleteName, SetStatic, CreateDynamic, CreateName, objects
<1>4. SameStrays
  <2>1. UNCHANGED restarts
    BY DEF DeleteStatic, DeleteName, SetStatic, CreateDynamic, CreateName, bounds
  <2>2. ASSUME NEW q \in Queries
        PROVE  /\ query'[q].at = query[q].at /\ query'[q].zone = query[q].zone
               /\ query'[q].holds = query[q].holds
    <3>1. CASE DeleteStatic
      BY <3>1 DEF TypeOK, DeleteStatic, Unsettled, Serving
    <3>2. CASE DeleteName
      BY <3>2, DeleteNameTypes
    <3>3. CASE CreateName
      BY <3>3, CreateNameTypes
    <3>4. CASE SetStatic \/ CreateDynamic
      BY <3>4 DEF SetStatic, CreateDynamic
    <3>. QED
      BY <3>1, <3>2, <3>3, <3>4
  <2>. QED
    BY <2>1, <2>2, UntouchedStrays DEF Astray
<1>5. \A n \in ZoneNames : n # z => ServedOf(n)' = ServedOf(n)
  <2>1. ASSUME DeleteStatic \/ SetStatic \/ CreateDynamic,
               NEW n \in ZoneNames, n # z
        PROVE  /\ Z'[n] = Z[n] /\ DynamicZones'[n] = DynamicZones[n]
               /\ Names' = Names
    BY <1>2, <2>1 DEF TypeOK, DeleteStatic, SetStatic, CreateDynamic
  <2>2. ASSUME DeleteName, NEW n \in ZoneNames, n # z
        PROVE  /\ Z'[n] = Z[n] /\ DynamicZones'[n] = DynamicZones[n]
               /\ n \in Range(Names') <=> n \in Range(Names)
    <3>1. PICK i \in 1..Len(Names) : Names[i] = z /\ Names' = RemoveAt(Names, i)
      BY <1>2, <2>2 DEF DeleteName
    <3>2. Range(Names') = Range(Names) \ {z}
      BY <3>1, RemoveAtFacts DEF TypeOK, IInv, Facts, RegistryCoherent
    <3>. QED
      BY <2>2, <3>2 DEF DeleteName
  <2>3. ASSUME CreateName, NEW n \in ZoneNames, n # z
        PROVE  /\ Z'[n] = Z[n] /\ DynamicZones'[n] = DynamicZones[n]
               /\ n \in Range(Names') <=> n \in Range(Names)
    <3>1. Names' = Append(Names, z)
      BY <1>2, <2>3 DEF CreateName
    <3>2. Range(Names') = Range(Names) \cup {z}
      BY <3>1, AppendFacts DEF TypeOK
    <3>. QED
      BY <2>3, <3>2 DEF CreateName
  <2>. QED
    BY <2>1, <2>2, <2>3, ServedElsewhere
<1>6. CASE DeleteStatic
  <2>1. ServedOf(z)' = Nothing
    BY <1>2, <1>6 DEF TypeOK, DeleteStatic, ServedOf
  <2>2. Promise!Drop(z)
    BY <1>3, <1>4, <1>5, <2>1 DEF SameObjects, SameStrays, Promise!Drop
  <2>. QED
    BY <2>2 DEF Promise!Next
<1>7. CASE DeleteName
  <2>1. Z[z] = Nothing /\ Z' = Z
    BY <1>2, <1>7 DEF DeleteName, IInv, Facts, ChangeInOrder, At
  <2>2. ServedOf(z)' = ServedOf(z)
    BY <2>1 DEF ServedOf
  <2>. QED
    BY <1>3, <1>4, <1>5, <2>2, Stutter DEF SameZones
<1>8. CASE SetStatic
  <2>1. Fits(z)
    <3>1. ~Changing(z)
      BY <1>8 DEF SetStatic, Keeps, At, Changing
    <3>. QED
      BY <3>1 DEF IInv, Facts, RegistryCoherent, Fits, Listed
  <2>2. PICK s \in Specs \ Unreadable : Z' = [Z EXCEPT ![z] = s]
    BY <1>1, <1>2, <1>8 DEF SetStatic, Objects
  <2>3. Z'[z] = s /\ s # Nothing /\ UNCHANGED <<DynamicZones, Names>>
    BY <1>8, <2>2, SomethingFacts DEF TypeOK, SetStatic
  <2>4. CASE Z[z] = Nothing
    <3>1. ServedOf(z)' = ServedOf(z)
      BY <2>1, <2>3, <2>4 DEF ServedOf, Fits, Listed
    <3>. QED
      BY <1>3, <1>4, <1>5, <3>1, Stutter DEF SameZones
  <2>5. CASE Z[z] # Nothing
    <3>1. ServedOf(z) # Nothing /\ ServedOf(z).dynamic = DynamicZones[z]
      BY <2>1, <2>5, ServedFacts DEF Fits
    <3>2. ServedOf(z)' = [static |-> s, dynamic |-> DynamicZones[z]]
      BY <2>1, <2>3, <2>5 DEF ServedOf, Fits, Listed
    <3>3. Promise!Replace(z, s)
      BY <1>3, <1>4, <1>5, <3>1, <3>2 DEF SameObjects, SameStrays, Promise!Replace
    <3>. QED
      BY <3>3 DEF Promise!Next
  <2>. QED
    BY <2>4, <2>5
<1>9. CASE CreateDynamic
  <2>1. ~Listed(z) /\ Names' = Names
    BY <1>2, <1>9 DEF CreateDynamic, IInv, Facts, ChangeInOrder, At
  <2>2. ServedOf(z)' = ServedOf(z)
    BY <2>1 DEF ServedOf, Listed
  <2>. QED
    BY <1>3, <1>4, <1>5, <2>2, Stutter DEF SameZones
<1>10. CASE CreateName
  <2>1. ~Listed(z) /\ Z[z] # Nothing /\ DynamicZones[z] # Nothing
    BY <1>2, <1>10 DEF CreateName, IInv, Facts, ChangeInOrder
  <2>2. Z[z] \in Specs \ Unreadable /\ DynamicZones[z] \in SUBSET RRs
    BY <2>1 DEF TypeOK
  <2>3. z \in Range(Names') /\ Z' = Z /\ DynamicZones' = DynamicZones
    <3>1. Names' = Append(Names, z)
      BY <1>2, <1>10 DEF CreateName
    <3>2. Range(Names') = Range(Names) \cup {z}
      BY <3>1, AppendFacts DEF TypeOK
    <3>. QED
      BY <1>10, <3>2 DEF CreateName
  <2>4. ServedOf(z) = Nothing /\ ServedOf(z)' = [static |-> Z[z], dynamic |-> DynamicZones[z]]
    BY <2>1, <2>3 DEF ServedOf, Listed
  <2>5. Promise!Add(z, Z[z], DynamicZones[z])
    BY <1>3, <1>4, <1>5, <2>4 DEF SameObjects, SameStrays, Promise!Add
  <2>. QED
    BY <2>2, <2>5 DEF Promise!Next
<1>. QED
  BY <1>6, <1>7, <1>8, <1>9, <1>10

\* A dynamic zone that is taken out is not served any more by then; an update
\* that has it goes astray.
LEMMA DeleteDynamicStep ==
    ASSUME IInv, DeleteDynamic
    PROVE  [Promise!Next]_(Promise!vars)
<1>. TypeOK
  BY DEF IInv
<1>1. PICK z \in ZoneNames : rc.zone = z
  BY BusyWorker DEF DeleteDynamic, At
<1>2. Z[z] = Nothing /\ UNCHANGED <<Z, Names, restarts>>
  BY <1>1 DEF DeleteDynamic, IInv, Facts, ChangeInOrder, At, bounds
<1>3. SameObjects
  BY UntouchedObjects DEF DeleteDynamic, objects
<1>4. SameZones /\ ServedOf(z) = Nothing
  <2>1. \A n \in ZoneNames : n # z => DynamicZones'[n] = DynamicZones[n]
    BY <1>1 DEF TypeOK, DeleteDynamic
  <2>. QED
    BY <1>2, <2>1 DEF SameZones, ServedOf
<1>5. ASSUME NEW q \in Queries
      PROVE  /\ query'[q].at = query[q].at /\ query'[q].zone = query[q].zone
             /\ query'[q].holds <=> query[q].holds /\ query[q].zone # z
  BY <1>1 DEF TypeOK, DeleteDynamic, Serving
<1>6. Strays' = Strays \/ Strays' = Strays \cup {z}
  <2>1. Strays' = {n \in ZoneNames : \E q \in Queries : Astray(q)' /\ query'[q].zone = n}
    BY DEF Strays
  <2>2. \A q \in Queries : /\ Astray(q) => Astray(q)'
                           /\ Astray(q)' => Astray(q) \/ query[q].zone = z
    BY <1>5 DEF Astray
  <2>3. Strays \subseteq Strays' /\ Strays' \subseteq Strays \cup {z}
    BY <1>5, <2>1, <2>2 DEF Strays
  <2>. QED
    BY <2>3
<1>7. CASE Strays' = Strays
  BY <1>2, <1>3, <1>4, <1>7, Stutter DEF SameStrays
<1>8. CASE Strays' = Strays \cup {z}
  <2>1. Promise!Stray(z)
    BY <1>2, <1>3, <1>4, <1>8 DEF SameObjects, SameZones, Promise!Stray
  <2>. QED
    BY <2>1 DEF Promise!Next
<1>. QED
  BY <1>6, <1>7, <1>8

\* The records of an update are seen if it has a zone that is served.
LEMMA ChangeStep ==
    ASSUME IInv, NEW q \in Queries, NEW rrs \in SUBSET RRs, ChangeMemory(q, rrs)
    PROVE  [Promise!Next]_(Promise!vars)
<1>. TypeOK
  BY DEF IInv
<1>1. SameObjects
  BY UntouchedObjects DEF ChangeMemory, objects
<1>2. SameStrays
  <2>1. /\ query[q].at = "change" /\ query'[q].at = "save"
        /\ query'[q].zone = query[q].zone /\ query'[q].holds = query[q].holds
        /\ \A p \in Queries : p # q => query'[p] = query[p]
    BY DEF TypeOK, Serving, ChangeMemory
  <2>2. UNCHANGED restarts
    BY DEF ChangeMemory, bounds
  <2>. QED
    BY <2>1, <2>2, UntouchedStrays DEF Astray
<1>3. PICK n \in ZoneNames : query[q].zone = n
  BY DEF IInv, Facts, UpdatesHold, Over, Outcomes, ChangeMemory
<1>4. \A m \in ZoneNames : m # n => ServedOf(m)' = ServedOf(m)
  BY <1>3 DEF TypeOK, ChangeMemory, ServedOf
<1>5. UNCHANGED <<Z, Names>>
  BY DEF ChangeMemory
<1>6. CASE query[q].holds /\ ServedOf(n) # Nothing
  <2>1. Listed(n) /\ Z[n] # Nothing /\ ServedOf(n).static = Z[n]
    BY <1>6, ServedFacts
  <2>2. DynamicZones'[n] = rrs /\ rrs # Nothing
    BY <1>3, <1>6, SomethingFacts DEF TypeOK, ChangeMemory
  <2>3. ServedOf(n)' = [static |-> Z[n], dynamic |-> rrs]
    BY <1>5, <2>1, <2>2 DEF ServedOf, Listed
  <2>4. Promise!Change(n, rrs)
    BY <1>1, <1>2, <1>4, <1>6, <2>1, <2>3 DEF SameObjects, SameStrays, Promise!Change
  <2>. QED
    BY <2>4 DEF Promise!Next
<1>7. CASE query[q].holds /\ ServedOf(n) = Nothing
  <2>1. DynamicZones[n] # Nothing
    BY <1>3, <1>7 DEF IInv, Facts, UpdatesHold
  <2>2. ~(Listed(n) /\ Z[n] # Nothing)
    BY <1>7, <2>1, ServedFacts
  <2>3. ServedOf(n)' = ServedOf(n)
    BY <1>5, <2>2 DEF ServedOf, Listed
  <2>. QED
    BY <1>1, <1>2, <1>4, <2>3, Stutter DEF SameZones
<1>8. CASE ~query[q].holds
  <2>1. DynamicZones' = DynamicZones
    BY <1>8 DEF ChangeMemory
  <2>. QED
    BY <1>1, <1>2, <1>5, <2>1, UntouchedZones, Stutter DEF registry
<1>. QED
  BY <1>6, <1>7, <1>8

\* An update that ends was perhaps the last stray one of its zone.
LEMMA FewerStrays ==
    ASSUME TypeOK, NEW q \in Queries, query[q].at = "save", NEW at \in {"merge", "unsaved"},
           MoveTo(q, at)
    PROVE  Strays' \in SUBSET Strays
<1>1. Strays' = {n \in ZoneNames : \E p \in Queries : Astray(p)' /\ query'[p].zone = n}
  BY DEF Strays
<1>2. /\ query'[q].at = at /\ query'[q].zone = query[q].zone
      /\ \A p \in Queries : p # q => query'[p] = query[p]
  BY MoveToFacts DEF Outcomes
<1>3. \A p \in Queries : Astray(p)' => Astray(p) /\ query'[p].zone = query[p].zone
  BY <1>2 DEF Astray
<1>. QED
  BY <1>1, <1>3 DEF Strays

\* What is saved is served then, unless the update is a stray one.
LEMMA SaveStep ==
    ASSUME IInv, NEW q \in Queries, NEW rrs \in SUBSET RRs, SaveStatus(q, rrs)
    PROVE  Promise!Next
<1>. TypeOK
  BY DEF IInv
<1>1. SameZones /\ restarts' = restarts
  BY UntouchedZones DEF SaveStatus, bounds
<1>2. PICK n \in ZoneNames : query[q].zone = n
  BY DEF IInv, Facts, UpdatesHold, Over, Outcomes, SaveStatus
<1>3. Strays' \in SUBSET Strays
  BY FewerStrays DEF SaveStatus
<1>4. /\ ObjectOf(n) # Nothing /\ ObjectOf(n).spec = api[n].spec
      /\ ObjectOf(n)' = [spec |-> api[n].spec, saved |-> rrs]
      /\ \A m \in ZoneNames : m # n => ObjectOf(m)' = ObjectOf(m)
  <2>1. api[n] # Nothing /\ api' = api /\ status' = [status EXCEPT ![n] = rrs]
    BY <1>2 DEF SaveStatus
  <2>2. ObjectOf(n) # Nothing /\ ObjectOf(n).spec = api[n].spec
    BY <2>1, ObjectFacts
  <2>. QED
    BY <2>1, <2>2 DEF TypeOK, ObjectOf
<1>5. ServedOf(n) # Nothing /\ n \notin Strays => rrs = ServedOf(n).dynamic
  <2>1. n \notin Strays => query[q].holds
    BY <1>2 DEF Strays, Astray, SaveStatus
  <2>. QED
    BY <1>2, <2>1, ServedFacts DEF SaveStatus
<1>6. Promise!Save(n, rrs)
  BY <1>1, <1>3, <1>4, <1>5 DEF SameZones, Promise!Save
<1>. QED
  BY <1>6 DEF Promise!Next

LEMMA FailStep == ASSUME IInv, NEW q \in Queries, FailUpdate(q) PROVE Promise!Next
<1>1. SameZones /\ SameObjects /\ restarts' = restarts
  BY UntouchedZones, UntouchedObjects DEF FailUpdate, objects, bounds
<1>2. Strays' \in SUBSET Strays
  BY FewerStrays DEF FailUpdate, IInv
<1>3. Promise!Settle
  BY <1>1, <1>2 DEF SameZones, SameObjects, Promise!Settle
<1>. QED
  BY <1>3 DEF Promise!Next

\* The steps of queries, and those of the controller that write nothing.
LEMMA UnseenStep ==
    ASSUME IInv,
           \/ UNCHANGED vars
           \/ \E n \in ZoneNames : Deliver(n) \/ Take(n)
           \/ ParseFails
           \/ \E q \in Queries : \/ \E n \in ZoneNames : StartQuery(q, n)
                               \/ Match(q) \/ LookupDynamic(q) \/ MergeZones(q)
    PROVE  UNCHANGED Promise!vars
<1>. TypeOK
  BY DEF IInv
<1>1. SameObjects /\ SameZones /\ restarts' = restarts
  <2>1. UNCHANGED <<api, status, registry, restarts>>
    BY DEF vars, objects, bounds, Deliver, Take, ParseFails, StartQuery, Match,
           LookupDynamic, MergeZones
  <2>. QED
    BY <2>1, UntouchedObjects, UntouchedZones
<1>2. CASE UNCHANGED query
  BY <1>1, <1>2, UntouchedStrays, Stutter DEF Astray
<1>3. ASSUME NEW q \in Queries,
             \/ \E n \in ZoneNames : StartQuery(q, n)
             \/ Match(q) \/ LookupDynamic(q) \/ MergeZones(q)
      PROVE  UNCHANGED Promise!vars
  <2>1. \A p \in Queries : p # q => query'[p] = query[p]
    BY <1>3 DEF TypeOK, StartQuery, Match, LookupDynamic, MergeZones, MoveTo
  <2>2. ~Astray(q)
    BY <1>3 DEF StartQuery, Match, LookupDynamic, MergeZones, Over, Outcomes, Astray
  <2>3. ~Astray(q)'
    <3>1. CASE \E n \in ZoneNames : StartQuery(q, n)
      BY <3>1 DEF TypeOK, StartQuery, Astray
    <3>2. ASSUME NEW at \in Outcomes \cup {"dynamic", "change", "merge"}, MoveTo(q, at)
          PROVE  ~Astray(q)'
      BY <3>2, MoveToFacts DEF Outcomes, Astray
    <3>3. CASE Match(q)
      <4>1. ASSUME query' = [query EXCEPT ![q].pos = query[q].pos + 1]
            PROVE  query'[q].at = query[q].at
        BY <4>1 DEF TypeOK, Serving
      <4>. QED
        BY <3>2, <3>3, <4>1 DEF Match, Outcomes, Astray
    <3>4. CASE LookupDynamic(q) \/ MergeZones(q)
      BY <3>2, <3>4 DEF LookupDynamic, MergeZones, Outcomes
    <3>. QED
      BY <1>3, <3>1, <3>3, <3>4
  <2>. QED
    BY <1>1, <2>1, <2>2, <2>3, UntouchedStrays, Stutter DEF Astray
<1>. QED
  BY <1>2, <1>3 DEF vars, Deliver, Take, ParseFails

\* What is loaded at the start is what the objects have.
LEMMA LoadsObjects ==
    ASSUME TypeOK, NEW n \in ZoneNames
    PROVE  (IF Parses(n) THEN [static |-> api[n].spec, dynamic |-> status[n]] ELSE Nothing)
             = (IF ObjectOf(n) # Nothing /\ ObjectOf(n).spec \notin Unreadable
                THEN [static |-> ObjectOf(n).spec, dynamic |-> ObjectOf(n).saved]
                ELSE Nothing)
BY ObjectFacts DEF Parses

LEMMA RestartStep == ASSUME IInv, Restart PROVE Promise!Next
<1>. TypeOK
  BY DEF IInv
<1>1. ASSUME NEW n \in ZoneNames
      PROVE  ServedOf(n)' = IF Parses(n)
                            THEN [static |-> api[n].spec, dynamic |-> status[n]]
                            ELSE Nothing
  <2>1. n \in Range(Names') <=> Parses(n)
    BY LoadedFacts DEF Restart, Load
  <2>2. Parses(n) => api[n].spec # Nothing /\ status[n] # Nothing
    BY ParsesFacts, SomethingFacts DEF TypeOK
  <2>3. Parses(n) => Z'[n] = api[n].spec /\ DynamicZones'[n] = status[n]
    BY DEF Restart, Load
  <2>. QED
    BY <2>1, <2>2, <2>3 DEF ServedOf
<1>2. SameObjects
  BY UntouchedObjects DEF Restart, objects
<1>3. Strays' = {} /\ restarts' = restarts + 1
  <2>1. Strays' = {n \in ZoneNames : \E q \in Queries : Astray(q)' /\ query'[q].zone = n}
    BY DEF Strays
  <2>. QED
    BY <2>1 DEF Restart, NoQuery, Astray
<1>4. Promise!Restart
  BY <1>1, <1>2, <1>3, LoadsObjects DEF SameObjects, Promise!Restart, Promise!Loaded
<1>. QED
  BY <1>4 DEF Promise!Next

LEMMA PromiseInit == Init => Promise!Init
<1>. SUFFICES ASSUME Init PROVE Promise!Init
  OBVIOUS
<1>1. TypeOK
  BY InitTypes
<1>2. ASSUME NEW n \in ZoneNames
      PROVE  ObjectOf(n) \in {Nothing} \cup [spec : Specs, saved : {{}}]
  BY DEF Init, ObjectOf
<1>3. ASSUME NEW n \in ZoneNames
      PROVE  ServedOf(n) = IF Parses(n)
                           THEN [static |-> api[n].spec, dynamic |-> status[n]]
                           ELSE Nothing
  <2>1. n \in Range(Names) <=> Parses(n)
    BY LoadedFacts DEF Init
  <2>2. Parses(n) => api[n].spec # Nothing /\ status[n] # Nothing
    BY <1>1, ParsesFacts, SomethingFacts DEF TypeOK
  <2>3. Parses(n) => Z[n] = api[n].spec /\ DynamicZones[n] = status[n]
    BY DEF Init
  <2>. QED
    BY <2>1, <2>2, <2>3 DEF ServedOf
<1>4. Strays = {} /\ restarts = 0
  BY DEF Init, NoQuery, Strays, Astray
<1>. QED
  BY <1>1, <1>2, <1>3, <1>4, LoadsObjects DEF Promise!Init, Promise!Loaded

\* ZoneRegistry, PromiseKept: a zone comes, changes and goes in one piece for
\* those who are served; a save that is not of the records served then is of
\* an update under way since before the zone was taken out; and a restarted
\* process serves what the objects have.  Saves may fail and updates hold on
\* to zones that are gone, at any point.
THEOREM ServesInOnePiece == Spec => PromiseKept
<1>1. IInv /\ NewObjectsAreEmpty /\ [Next]_vars => [Promise!Next]_(Promise!vars)
  <2>. SUFFICES ASSUME IInv, NewObjectsAreEmpty, [Next]_vars
                PROVE  [Promise!Next]_(Promise!vars)
    OBVIOUS
  <2>. QED
    BY UnseenStep, ObjectStep, WorkerStep, DeleteDynamicStep, ChangeStep, SaveStep,
       FailStep, RestartStep
    DEF Next, Reconcile
<1>2. Spec => []NewObjectsAreEmpty
  BY InitEmpty, StepEmpty, Invariance, PTL DEF Spec
<1>. QED
  BY <1>1, <1>2, PromiseInit, Invariance, PTL DEF Spec, PromiseKept, Promise!Spec
-----------------------------------------------------------------------------
(* What queries find, and what is loaded, where nothing is taken out.      *)

\* A query of a steady zone has the zone's name still before it, and the slice
\* has not got shorter than what a query reads of its array.
NamesAhead ==
    \A q \in Queries :
        /\ query[q].shares => Len(query[q].view) <= Len(Names)
        /\ query[q].at = "match" /\ query[q].steady =>
             \E k \in query[q].pos..Len(query[q].view) : query[q].view[k] = query[q].zone

LEMMA InitNamesAhead == Init => NamesAhead /\ SteadyZonesMatch
BY DEF Init, NoQuery, NamesAhead, SteadyZonesMatch

\* A sequence is the function of its elements.
LEMMA SeqElements ==
    ASSUME NEW S, NEW s \in Seq(S)
    PROVE  [k \in 1..Len(s) |-> s[k]] = s
BY LenProperties

\* A name that is appended is out of sight of the queries that read the array.
LEMMA CreateNameViews ==
    ASSUME TypeOK, NamesAhead, CreateName, NEW q \in Queries
    PROVE  /\ query'[q].view = query[q].view /\ query'[q].pos = query[q].pos
           /\ query'[q].at = query[q].at /\ query'[q].zone = query[q].zone
           /\ query'[q].steady = query[q].steady
           /\ query'[q].shares => query[q].shares
<1>1. PICK inPlace \in BOOLEAN :
        query' = [p \in Queries |->
                    [query[p] EXCEPT
                       !.view = [k \in 1..Len(@) |->
                          IF query[p].shares /\ inPlace /\ k = Len(Names) + 1
                          THEN rc.zone ELSE @[k]],
                       !.shares = @ /\ inPlace]]
  BY DEF CreateName
<1>. DEFINE w == query[q].view
            v == [k \in 1..Len(w) |->
                    IF query[q].shares /\ inPlace /\ k = Len(Names) + 1
                    THEN rc.zone ELSE w[k]]
            b == query[q].shares /\ inPlace
<1>2. query[q] \in Serving /\ w \in Seq(ZoneNames) /\ Names \in Seq(ZoneNames)
  BY DEF TypeOK, Serving
<1>3. Len(w) \in Nat /\ Len(Names) \in Nat /\ (query[q].shares => Len(w) <= Len(Names))
  BY <1>2, SeqFacts DEF NamesAhead
<1>4. v = [k \in 1..Len(w) |-> w[k]]
  BY <1>3
<1>5. [k \in 1..Len(w) |-> w[k]] = w
  <2>. HIDE DEF w
  <2>. QED
    BY <1>2, SeqElements
<1>6. v = w
  BY <1>4, <1>5
<1>7. query'[q] = [query[q] EXCEPT !.view = v, !.shares = b]
  BY <1>1
<1>. HIDE DEF v, b
<1>8. b => query[q].shares
  BY DEF b
<1>. QED
  BY <1>2, <1>6, <1>7, <1>8 DEF Serving

LEMMA StepNamesAhead ==
    ASSUME TypeOK, NamesAhead, SteadyZonesMatch, [Next]_vars, ~DeleteName
    PROVE  NamesAhead' /\ SteadyZonesMatch'
<1>. USE DEF registry
<1>1. CASE UNCHANGED <<query, Names>>
  BY <1>1 DEF NamesAhead, SteadyZonesMatch
<1>2. CASE DeleteStatic \/ DeleteDynamic
  <2>1. \A q \in Queries :
          /\ query'[q].view = query[q].view /\ query'[q].pos = query[q].pos
          /\ query'[q].at = query[q].at /\ query'[q].zone = query[q].zone
          /\ query'[q].shares = query[q].shares
          /\ query'[q].steady => query[q].steady
    <3>1. CASE DeleteStatic
      BY <3>1 DEF TypeOK, Serving, DeleteStatic, Unsettled
    <3>2. CASE DeleteDynamic
      BY <3>2 DEF TypeOK, Serving, DeleteDynamic
    <3>. QED
      BY <1>2, <3>1, <3>2
  <2>2. Names' = Names
    BY <1>2 DEF DeleteStatic, DeleteDynamic
  <2>. QED
    BY <2>1, <2>2 DEF NamesAhead, SteadyZonesMatch
<1>3. CASE CreateName
  <2>1. Len(Names) \in Nat /\ Len(Names') = Len(Names) + 1
    BY <1>3, BusyWorker, AppendProperties, LenProperties DEF TypeOK, CreateName, At
  <2>2. \A q \in Queries : query[q].view \in Seq(ZoneNames) /\ Len(query[q].view) \in Nat
    BY LenProperties DEF TypeOK, Serving
  <2>. QED
    BY <1>3, <2>1, <2>2, CreateNameViews DEF NamesAhead, SteadyZonesMatch
<1>4. ASSUME NEW q \in Queries, NEW n \in ZoneNames, StartQuery(q, n)
      PROVE  NamesAhead' /\ SteadyZonesMatch'
  <2>1. /\ query'[q].at = "match" /\ query'[q].zone = n
        /\ query'[q].view = Names /\ query'[q].pos = 1
        /\ query'[q].steady => n \in Range(Names)
        /\ \A p \in Queries : p # q => query'[p] = query[p]
        /\ Names' = Names
    BY <1>4 DEF TypeOK, StartQuery
  <2>2. Len(Names) \in Nat /\ (n \in Range(Names) => \E k \in 1..Len(Names) : Names[k] = n)
    BY SeqFacts DEF TypeOK
  <2>. QED
    BY <2>1, <2>2 DEF NamesAhead, SteadyZonesMatch
<1>5. ASSUME NEW q \in Queries, NEW at \in Outcomes \cup {"dynamic", "change", "merge"},
             MoveTo(q, at), Names' = Names, at = "missed" => ~query[q].steady
      PROVE  NamesAhead' /\ SteadyZonesMatch'
  <2>1. /\ query'[q].at = at /\ at # "match" /\ ~query'[q].shares
        /\ query'[q].steady = query[q].steady
        /\ \A p \in Queries : p # q => query'[p] = query[p]
    BY <1>5 DEF TypeOK, Serving, MoveTo, Outcomes
  <2>. QED
    BY <1>5, <2>1 DEF NamesAhead, SteadyZonesMatch
<1>6. ASSUME NEW q \in Queries, Match(q) PROVE NamesAhead' /\ SteadyZonesMatch'
  <2>. DEFINE v == query[q].view
              i == query[q].pos
  <2>1. Names' = Names /\ query[q].at = "match" /\ i \in Nat /\ Len(v) \in Nat
    BY <1>6, LenProperties DEF TypeOK, Serving, Match
  <2>2. CASE i > Len(v)
    <3>1. ~query[q].steady
      BY <2>1, <2>2 DEF NamesAhead
    <3>2. MoveTo(q, "missed")
      BY <1>6, <2>2 DEF Match
    <3>. QED
      BY <1>5, <2>1, <3>1, <3>2 DEF Outcomes
  <2>3. CASE ~(i > Len(v)) /\ v[i] = query[q].zone
    BY <1>5, <1>6, <2>1, <2>3 DEF Match
  <2>4. CASE ~(i > Len(v)) /\ v[i] # query[q].zone
    <3>1. query' = [query EXCEPT ![q].pos = i + 1]
      BY <1>6, <2>4 DEF Match
    <3>2. /\ query'[q].pos = i + 1 /\ query'[q].view = v
          /\ query'[q].at = query[q].at /\ query'[q].zone = query[q].zone
          /\ query'[q].steady = query[q].steady /\ query'[q].shares = query[q].shares
          /\ \A p \in Queries : p # q => query'[p] = query[p]
      BY <3>1 DEF TypeOK, Serving
    <3>3. ASSUME query[q].steady
          PROVE  \E k \in (i + 1)..Len(v) : v[k] = query[q].zone
      <4>1. PICK k \in i..Len(v) : v[k] = query[q].zone
        BY <2>1, <3>3 DEF NamesAhead
      <4>2. k # i
        BY <2>4, <4>1
      <4>. QED
        BY <2>1, <4>1, <4>2
    <3>. QED
      BY <2>1, <3>2, <3>3 DEF NamesAhead, SteadyZonesMatch
  <2>. QED
    BY <2>2, <2>3, <2>4
<1>7. ASSUME NEW q \in Queries,
             \/ LookupDynamic(q) \/ FailUpdate(q) \/ MergeZones(q)
             \/ \E rrs \in SUBSET RRs : SaveStatus(q, rrs)
      PROVE  NamesAhead' /\ SteadyZonesMatch'
  <2>1. \E at \in {"servfail", "change", "merge", "unsaved", "panicked", "answered"} :
          MoveTo(q, at)
    BY <1>7 DEF LookupDynamic, FailUpdate, MergeZones, SaveStatus
  <2>2. Names' = Names
    BY <1>7 DEF LookupDynamic, FailUpdate, MergeZones, SaveStatus
  <2>. QED
    BY <1>5, <2>1, <2>2 DEF Outcomes
<1>9. ASSUME NEW q \in Queries, NEW rrs \in SUBSET RRs, ChangeMemory(q, rrs)
      PROVE  NamesAhead' /\ SteadyZonesMatch'
  <2>1. /\ query'[q].at = "save" /\ query'[q].view = query[q].view
        /\ query'[q].shares = query[q].shares
        /\ \A p \in Queries : p # q => query'[p] = query[p]
        /\ Names' = Names
    BY <1>9 DEF TypeOK, Serving, ChangeMemory
  <2>. QED
    BY <2>1 DEF NamesAhead, SteadyZonesMatch
<1>8. CASE Restart
  <2>1. \A q \in Queries : query'[q] = NoQuery
    BY <1>8 DEF Restart
  <2>. QED
    BY <2>1 DEF NoQuery, NamesAhead, SteadyZonesMatch
<1>. QED
  BY <1>1, <1>2, <1>3, <1>4, <1>6, <1>7, <1>8, <1>9
  DEF Next, Reconcile, vars, CreateObject, EditObject, MarkDeleting, RemoveObject,
      Deliver, Take, ParseFails, SetStatic, CreateDynamic

\* ZoneRegistry, SteadyZonesMatch: a query of a zone that is there all the time
\* is passed on as one of another server's zone only because DeleteZone moves
\* the names within the array that Matches reads; new zones do no such harm.
THEOREM OnlyRemovalsHideZones ==
    Spec /\ [][~DeleteName]_vars => []SteadyZonesMatch
<1>1. TypeOK /\ NamesAhead /\ SteadyZonesMatch /\ [Next]_vars /\ [~DeleteName]_vars
        => NamesAhead' /\ SteadyZonesMatch'
  <2>1. CASE UNCHANGED vars
    BY <2>1 DEF vars, registry, NamesAhead, SteadyZonesMatch
  <2>2. CASE ~DeleteName
    BY <2>2, StepNamesAhead
  <2>. QED
    BY <2>1, <2>2
<1>. QED
  BY <1>1, InitNamesAhead, RegistryTypes, PTL DEF Spec

\* Where no dynamic zone is taken out, no name is: records are saved only of
\* zones that have their name, as are those that queries have found.
NamesStay ==
    /\ rc.at # "deleteName"
    /\ \A n \in ZoneNames : ~Listed(n) => status[n] = {}
    /\ \A q \in Queries :
         /\ query[q].at = "match" => Range(query[q].view) \subseteq Range(Names)
         /\ query[q].at \in {"dynamic", "change", "save"} => Listed(query[q].zone)

LEMMA InitNamesStay == Init => NamesStay
BY DEF Init, NoQuery, Idle, NamesStay

\* The same names are there, and what is saved is saved of one of them.
LEMMA SameNames ==
    ASSUME NamesStay, UNCHANGED Names, rc'.at # "deleteName",
           \A n \in ZoneNames : status'[n] = status[n] \/ status'[n] = {} \/ Listed(n),
           \A q \in Queries :
              \/ query'[q].at = query[q].at /\ query'[q].zone = query[q].zone
                 /\ query'[q].view = query[q].view
              \/ query'[q].at = "match" /\ query'[q].view = Names
              \/ query'[q].at \in {"dynamic", "change", "save"} /\ Listed(query'[q].zone)
              \/ query'[q].at \in Outcomes \cup {"merge"}
    PROVE  NamesStay'
BY DEF NamesStay, Listed, Outcomes

LEMMA ServeNamesStay ==
    ASSUME TypeOK, NamesStay, NEW q \in Queries,
           \/ \E n \in ZoneNames : StartQuery(q, n)
           \/ Match(q) \/ LookupDynamic(q) \/ FailUpdate(q) \/ MergeZones(q)
           \/ \E rrs \in SUBSET RRs : ChangeMemory(q, rrs) \/ SaveStatus(q, rrs)
    PROVE  NamesStay'
<1>1. /\ UNCHANGED <<Names, rc>>
      /\ \A p \in Queries : p # q => query'[p] = query[p]
  BY DEF TypeOK, StartQuery, Match, LookupDynamic, FailUpdate, MergeZones, ChangeMemory,
         SaveStatus, MoveTo, registry
<1>2. \A n \in ZoneNames : status'[n] = status[n] \/ Listed(n)
  <2>1. ASSUME NEW rrs \in SUBSET RRs, SaveStatus(q, rrs)
        PROVE  \A n \in ZoneNames : status'[n] = status[n] \/ Listed(n)
    BY <2>1 DEF TypeOK, SaveStatus, NamesStay
  <2>. QED
    BY <2>1 DEF StartQuery, Match, LookupDynamic, FailUpdate, MergeZones, ChangeMemory,
                objects
<1>3. \/ query'[q].at = query[q].at /\ query'[q].zone = query[q].zone
         /\ query'[q].view = query[q].view
      \/ query'[q].at = "match" /\ query'[q].view = Names
      \/ query'[q].at \in {"dynamic", "change", "save"} /\ Listed(query'[q].zone)
      \/ query'[q].at \in Outcomes \cup {"merge"}
  <2>1. CASE \E n \in ZoneNames : StartQuery(q, n)
    BY <2>1 DEF TypeOK, StartQuery
  <2>2. CASE Match(q)
    <3>. DEFINE v == query[q].view
                i == query[q].pos
    <3>1. v \in Seq(ZoneNames) /\ i \in Nat \ {0} /\ Len(v) \in Nat
      BY LenProperties DEF TypeOK, Serving
    <3>2. CASE i > Len(v)
      <4>1. MoveTo(q, "missed")
        BY <2>2, <3>2 DEF Match
      <4>. QED
        BY <4>1, MoveToFacts DEF Outcomes
    <3>3. CASE ~(i > Len(v)) /\ v[i] = query[q].zone
      <4>1. MoveTo(q, "dynamic")
        BY <2>2, <3>3 DEF Match
      <4>2. query[q].zone \in Range(v)
        BY <3>1, <3>3, SeqFacts
      <4>3. Listed(query[q].zone)
        BY <2>2, <4>2 DEF NamesStay, Listed, Match
      <4>. QED
        BY <4>1, <4>3, MoveToFacts
    <3>4. CASE ~(i > Len(v)) /\ v[i] # query[q].zone
      BY <2>2, <3>4 DEF TypeOK, Serving, Match
    <3>. QED
      BY <3>2, <3>3, <3>4
  <2>3. CASE LookupDynamic(q)
    <3>1. PICK at \in {"servfail", "change", "merge"} : MoveTo(q, at)
      BY <2>3 DEF LookupDynamic
    <3>2. query'[q].at = at /\ query'[q].zone = query[q].zone
      BY <3>1, MoveToFacts DEF Outcomes
    <3>3. Listed(query[q].zone)
      BY <2>3 DEF NamesStay, LookupDynamic
    <3>. QED
      BY <3>2, <3>3 DEF Outcomes
  <2>4. ASSUME NEW rrs \in SUBSET RRs, ChangeMemory(q, rrs)
        PROVE  query'[q].at = "save" /\ Listed(query'[q].zone)
    <3>1. query'[q].at = "save" /\ query'[q].zone = query[q].zone /\ Listed(query[q].zone)
      BY <2>4 DEF TypeOK, Serving, ChangeMemory, NamesStay
    <3>. QED
      BY <3>1
  <2>5. CASE FailUpdate(q) \/ MergeZones(q) \/ \E rrs \in SUBSET RRs : SaveStatus(q, rrs)
    <3>1. PICK at \in {"merge", "unsaved", "panicked", "answered"} : MoveTo(q, at)
      BY <2>5 DEF FailUpdate, MergeZones, SaveStatus
    <3>. QED
      BY <3>1, MoveToFacts DEF Outcomes
  <2>. QED
    BY <2>1, <2>2, <2>3, <2>4, <2>5
<1>4. rc'.at # "deleteName"
  BY <1>1 DEF NamesStay
<1>. QED
  BY <1>1, <1>2, <1>3, <1>4, SameNames

LEMMA CreateNamesStay == ASSUME TypeOK, NamesStay, CreateName PROVE NamesStay'
<1>1. PICK inPlace \in BOOLEAN :
        query' = [p \in Queries |->
                    [query[p] EXCEPT
                       !.view = [k \in 1..Len(@) |->
                          IF query[p].shares /\ inPlace /\ k = Len(Names) + 1
                          THEN rc.zone ELSE @[k]],
                       !.shares = @ /\ inPlace]]
  BY DEF CreateName
<1>2. Range(Names') = Range(Names) \cup {rc.zone} /\ rc' = Idle /\ status' = status
  <2>1. rc.zone \in ZoneNames /\ Names \in Seq(ZoneNames)
    BY BusyWorker DEF TypeOK, CreateName, At
  <2>2. Names' = Append(Names, rc.zone) /\ rc' = Idle /\ status' = status
    BY DEF CreateName, objects
  <2>3. Range(Append(Names, rc.zone)) = Range(Names) \cup {rc.zone}
    BY <2>1, AppendFacts
  <2>. QED
    BY <2>2, <2>3
<1>3. ASSUME NEW q \in Queries
      PROVE  Range(query'[q].view) \subseteq Range(query[q].view) \cup {rc.zone}
  <2>. DEFINE w == query[q].view
              v == [k \in 1..Len(w) |->
                      IF query[q].shares /\ inPlace /\ k = Len(Names) + 1
                      THEN rc.zone ELSE w[k]]
              b == query[q].shares /\ inPlace
  <2>1. query'[q] = [query[q] EXCEPT !.view = v, !.shares = b]
    BY <1>1
  <2>2. Range(v) \subseteq Range(w) \cup {rc.zone}
    <3>1. w \in Seq(ZoneNames)
      BY DEF TypeOK, Serving
    <3>2. \A k \in 1..Len(w) : w[k] \in Range(w)
      BY <3>1, SeqFacts
    <3>. QED
      BY <3>2 DEF Range
  <2>. HIDE DEF v, b
  <2>3. query'[q].view = v
    BY <2>1 DEF TypeOK, Serving
  <2>. QED
    BY <2>2, <2>3
<1>. QED
  BY <1>2, <1>3, CreateNameTypes DEF NamesStay, Listed, Idle

LEMMA StepNamesStay ==
    ASSUME Unreadable = {}, IInv, NewObjectsAreEmpty, NamesStay, [Next]_vars,
           ~DeleteDynamic
    PROVE  NamesStay'
<1>. TypeOK
  BY DEF IInv
<1>. USE DEF registry, objects
<1>1. CASE \/ UNCHANGED vars
           \/ \E n \in ZoneNames, s \in Specs : CreateObject(n, s) \/ EditObject(n, s)
           \/ \E n \in ZoneNames : MarkDeleting(n) \/ RemoveObject(n) \/ Deliver(n)
           \/ \E n \in ZoneNames : Take(n)
           \/ ParseFails \/ SetStatic \/ CreateDynamic
  <2>1. UNCHANGED <<Names, query>>
    BY <1>1 DEF vars, CreateObject, EditObject, MarkDeleting, RemoveObject, Deliver, Take,
                ParseFails, SetStatic, CreateDynamic
  <2>2. rc'.at # "deleteName"
    <3>1. CASE rc' = rc
      BY <3>1 DEF NamesStay
    <3>2. CASE \E n \in ZoneNames : Take(n)
      BY <3>2 DEF Take, Idle
    <3>3. CASE ParseFails
      BY <3>3 DEF ParseFails, Idle
    <3>4. CASE SetStatic \/ CreateDynamic
      <4>1. rc \in Working
        BY <3>4, BusyWorker DEF SetStatic, Keeps, CreateDynamic, At
      <4>. QED
        BY <3>4, <4>1 DEF SetStatic, CreateDynamic, Goto, Working, Idle
    <3>. QED
      BY <1>1, <3>1, <3>2, <3>3, <3>4
      DEF vars, CreateObject, EditObject, MarkDeleting, RemoveObject, Deliver
  <2>3. \A n \in ZoneNames : status'[n] = status[n] \/ status'[n] = {}
    BY <1>1 DEF TypeOK, vars, CreateObject, EditObject, MarkDeleting, RemoveObject,
                Deliver, Take, ParseFails, SetStatic, CreateDynamic
  <2>. QED
    BY <2>1, <2>2, <2>3, SameNames
<1>2. CASE DeleteStatic
  <2>1. rc \in Working
    BY <1>2, BusyWorker DEF DeleteStatic, At
  <2>2. rc'.at = "deleteDynamic" /\ UNCHANGED <<Names, status>>
    BY <1>2, <2>1 DEF DeleteStatic, Goto, Working
  <2>3. \A q \in Queries : /\ query'[q].at = query[q].at
                           /\ query'[q].zone = query[q].zone
                           /\ query'[q].view = query[q].view
    BY <1>2 DEF TypeOK, Serving, DeleteStatic, Unsettled
  <2>. QED
    BY <2>2, <2>3, SameNames
<1>3. ~DeleteName
  BY DEF DeleteName, At, NamesStay
<1>4. CASE Restart
  <2>1. ASSUME NEW n \in ZoneNames, n \notin Range(Names') PROVE status'[n] = {}
    <3>1. ~Parses(n)
      BY <1>4, <2>1, LoadedFacts DEF Restart, Load
    <3>. QED
      BY <1>4, <3>1 DEF Restart, Parses, NewObjectsAreEmpty
  <2>2. rc'.at = "idle" /\ \A q \in Queries : query'[q].at = "idle"
    BY <1>4 DEF Restart, Idle, NoQuery
  <2>. QED
    BY <2>1, <2>2 DEF NamesStay, Listed
<1>. QED
  BY <1>1, <1>2, <1>3, <1>4, CreateNamesStay, ServeNamesStay DEF Next, Reconcile

\* ZoneRegistry, StatusIsLoaded: a zone comes up without the records saved for
\* it only if its object could not be read before, or if it was taken out on
\* its object's deletion mark and then loaded again: in both cases the object
\* and its status outlive the zone.  Failed saves and slow updates alone, in
\* any number, do not bring it about.
THEOREM OnlyUnloadedZonesForget ==
    ASSUME Unreadable = {}
    PROVE  Spec /\ [][~DeleteDynamic]_vars => StatusIsLoaded
<1>. DEFINE Loads == \A n \in ZoneNames :
                       n \in Range(Names') \ Range(Names) => status[n] \subseteq DynamicZones'[n]
<1>1. IInv /\ NewObjectsAreEmpty /\ NamesStay /\ [Next]_vars /\ [~DeleteDynamic]_vars
        => NamesStay'
  <2>1. CASE UNCHANGED vars
    BY <2>1 DEF vars, objects, registry, NamesStay, Listed
  <2>2. CASE ~DeleteDynamic
    BY <2>2, StepNamesStay
  <2>. QED
    BY <2>1, <2>2
<1>2. NamesStay => [Loads]_vars
  BY DEF NamesStay, Listed
<1>. QED
  BY <1>1, <1>2, InitNamesStay, InitEmpty, StepEmpty, Invariance, PTL
  DEF Spec, StatusIsLoaded
=============================================================================
