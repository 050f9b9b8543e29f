------------------------- MODULE ZoneRegistryProofs -------------------------
(***************************************************************************)
(* The registry of zones stays coherent, and queries of a zone that stays  *)
(* are answered, for any zones, contents, queries, changes and restarts.   *)
(***************************************************************************)
EXTENDS ZoneRegistry, FiniteSetTheorems, SequenceTheorems, TLAPS

Listed(n) == n \in Range(Names)

\* What the maps and the slice have of the zone that is being changed.
ChangeInOrder ==
    /\ At("deleteDynamic") => /\ Z[rc.zone] = Nothing
                              /\ DynamicZones[rc.zone] # Nothing
                              /\ Listed(rc.zone)
    /\ At("deleteName")    => /\ Z[rc.zone] = Nothing
                              /\ DynamicZones[rc.zone] = Nothing
                              /\ Listed(rc.zone)
    /\ At("createDynamic") => /\ Z[rc.zone] # Nothing
                              /\ DynamicZones[rc.zone] = Nothing
                              /\ ~Listed(rc.zone)
    /\ At("createName")    => /\ Z[rc.zone] # Nothing
                              /\ DynamicZones[rc.zone] # Nothing
                              /\ ~Listed(rc.zone)

\* A query of a steady zone that is not over has both zones to look up.
SteadyZonesStay ==
    \A q \in Queries :
        ~Over(q) /\ query[q].steady =>
            /\ query[q].zone \in ZoneNames
            /\ Z[query[q].zone] # Nothing
            /\ DynamicZones[query[q].zone] # Nothing

\* An update that has a dynamic zone of the registry has one that is there.
UpdatesHold ==
    \A q \in Queries :
        /\ ~Over(q) => query[q].zone \in ZoneNames
        /\ query[q].holds => /\ query[q].at \in {"change", "save"}
                             /\ DynamicZones[query[q].zone] # Nothing

Facts ==
    /\ RegistryCoherent
    /\ ChangeInOrder
    /\ SteadyZonesStay
    /\ UpdatesHold
    /\ OnlyVanishingZonesFail

IInv == TypeOK /\ Facts
-----------------------------------------------------------------------------
(* Sequences without repetitions.                                          *)

LEMMA SeqFacts ==
    ASSUME NEW S, NEW s \in Seq(S)
    PROVE  /\ Len(s) \in Nat
           /\ DOMAIN s = 1..Len(s)
           /\ \A i \in 1..Len(s) : s[i] \in S
           /\ Range(s) \subseteq S
           /\ \A x : x \in Range(s) <=> \E i \in 1..Len(s) : s[i] = x
<1>1. Len(s) \in Nat /\ DOMAIN s = 1..Len(s) /\ \A i \in 1..Len(s) : s[i] \in S
  BY LenProperties, ElementOfSeq
<1>. QED
  BY <1>1 DEF Range

\* initialize loads each zone that can be read once.
LEMMA LoadedFacts ==
    /\ Loaded \in Seq(ZoneNames)
    /\ IsInjective(Loaded)
    /\ \A n \in ZoneNames : n \in Range(Loaded) <=> Parses(n)
<1>. DEFINE S == {n \in ZoneNames : Parses(n)}
            c == Cardinality(S)
<1>1. IsFiniteSet(S)
  BY FS_Subset, ZonesAssumption
<1>2. c \in Nat /\ ExistsBijection(1..c, S)
  BY <1>1, FS_CardinalityType
<1>3. \E f \in [1..c -> S] : IsInjective(f)
  BY <1>2 DEF ExistsBijection, Bijection, Injection
<1>4. Loaded \in [1..c -> S] /\ IsInjective(Loaded)
  BY <1>3, Zenon DEF Loaded, SetToSeq
<1>5. IsFiniteSet(1..c) /\ Cardinality(1..c) = c
  BY <1>2, FS_Interval
<1>6. Loaded \in Injection(1..c, S)
  BY <1>4 DEF Injection
<1>7. Loaded \in Surjection(1..c, S)
  BY <1>1, <1>5, <1>6, FS_Injection
<1>8. Range(Loaded) = S
  BY <1>4, <1>7 DEF Surjection, Range
<1>9. Loaded \in Seq(ZoneNames)
  <2>1. Loaded \in Seq(S)
    BY <1>2, <1>4
  <2>. QED
    BY <2>1, SeqMonotonic
<1>. QED
  BY <1>4, <1>8, <1>9

LEMMA AppendFacts ==
    ASSUME NEW S, NEW s \in Seq(S), NEW e \in S
    PROVE  /\ Append(s, e) \in Seq(S)
           /\ Range(Append(s, e)) = Range(s) \cup {e}
           /\ IsInjective(s) /\ e \notin Range(s) => IsInjective(Append(s, e))
<1>1. /\ Append(s, e) \in Seq(S)
      /\ Len(Append(s, e)) = Len(s) + 1
      /\ \A i \in 1..Len(s) : Append(s, e)[i] = s[i]
      /\ Append(s, e)[Len(s) + 1] = e
  BY AppendProperties
<1>. DEFINE t == Append(s, e)
<1>2. Len(s) \in Nat
  BY SeqFacts
<1>3. Range(t) = Range(s) \cup {e}
  <2>1. \A x : x \in Range(t) <=> \E i \in 1..Len(t) : t[i] = x
    BY <1>1, SeqFacts
  <2>2. \A x : x \in Range(s) <=> \E i \in 1..Len(s) : s[i] = x
    BY SeqFacts
  <2>3. 1..Len(t) = 1..Len(s) \cup {Len(s) + 1}
    BY <1>1, <1>2
  <2>. HIDE DEF t
  <2>. QED
    BY <1>1, <2>1, <2>2, <2>3 DEF t
<1>4. ASSUME IsInjective(s), e \notin Range(s)
      PROVE  IsInjective(t)
  <2>1. \A i \in 1..Len(s) : s[i] # e
    BY <1>4, SeqFacts
  <2>2. DOMAIN t = 1..(Len(s) + 1) /\ DOMAIN s = 1..Len(s)
    BY <1>1, SeqFacts
  <2>. QED
    BY <1>1, <1>2, <1>4, <2>1, <2>2 DEF IsInjective
<1>. QED
  BY <1>1, <1>3, <1>4

\* What RemoveAt puts together of the two ends.
LEMMA RemoveAtType ==
    ASSUME NEW S, NEW s \in Seq(S), NEW i \in 1..Len(s)
    PROVE  /\ RemoveAt(s, i) \in Seq(S)
           /\ Len(RemoveAt(s, i)) = Len(s) - 1
           /\ \A j \in 1..(Len(s) - 1) :
                RemoveAt(s, i)[j] = IF j < i THEN s[j] ELSE s[j + 1]
<1>. DEFINE t == RemoveAt(s, i)
            u == SubSeq(s, 1, i - 1)
            v == SubSeq(s, i + 1, Len(s))
<1>1. Len(s) \in Nat /\ DOMAIN s = 1..Len(s) /\ \A j \in 1..Len(s) : s[j] \in S
  BY SeqFacts
<1>2. u \in Seq(S) /\ Len(u) = i - 1 /\ \A j \in 1..(i - 1) : u[j] = s[j]
  <2>1. i \in Int /\ 1 \in Int /\ i - 1 \in Int /\ \A j \in 1..(i - 1) : s[j] \in S
    BY <1>1
  <2>. QED
    BY <1>1, <2>1, SubSeqProperties
<1>3. /\ v \in Seq(S) /\ Len(v) = Len(s) - i
      /\ \A j \in 1..(Len(s) - i) : v[j] = s[i + j]
  <2>1. i + 1 \in Int /\ Len(s) \in Int /\ \A j \in (i + 1)..Len(s) : s[j] \in S
    BY <1>1
  <2>2. /\ v \in Seq(S)
        /\ Len(v) = IF i + 1 <= Len(s) THEN Len(s) - (i + 1) + 1 ELSE 0
        /\ \A j \in 1..(Len(s) - (i + 1) + 1) : v[j] = s[i + 1 + j - 1]
    BY <2>1, SubSeqProperties
  <2>. HIDE DEF v
  <2>3. Len(v) = Len(s) - i
    <3>1. CASE i + 1 <= Len(s)
      <4>1. Len(s) - (i + 1) + 1 = Len(s) - i
        BY <1>1
      <4>. QED
        BY <2>2, <3>1, <4>1
    <3>2. CASE ~(i + 1 <= Len(s))
      <4>1. Len(s) - i = 0
        <5>1. Len(s) \in Nat /\ i \in Nat /\ i <= Len(s)
          BY <1>1
        <5>. QED
          BY <5>1, <3>2
      <4>. QED
        BY <2>2, <3>2, <4>1
    <3>. QED
      BY <3>1, <3>2
  <2>4. ASSUME NEW j \in 1..(Len(s) - i) PROVE v[j] = s[i + j]
    <3>1. j \in 1..(Len(s) - (i + 1) + 1) /\ i + 1 + j - 1 = i + j
      BY <1>1
    <3>2. v[j] = s[i + 1 + j - 1]
      BY <2>2, <3>1
    <3>. QED
      BY <3>1, <3>2
  <2>. QED
    BY <2>2, <2>3, <2>4
<1>4. t = u \o v
  BY DEF RemoveAt
<1>. HIDE DEF t, u, v
<1>5. /\ t \in Seq(S) /\ Len(t) = Len(s) - 1
      /\ \A j \in 1..(Len(s) - 1) : t[j] = IF j < i THEN s[j] ELSE s[j + 1]
  <2>1. /\ t \in Seq(S) /\ Len(t) = Len(u) + Len(v)
        /\ \A j \in 1..(Len(u) + Len(v)) :
             t[j] = IF j <= Len(u) THEN u[j] ELSE v[j - Len(u)]
    BY <1>2, <1>3, <1>4, ConcatProperties
  <2>2. Len(t) = Len(s) - 1
    BY <1>1, <1>2, <1>3, <2>1
  <2>3. ASSUME NEW j \in 1..(Len(s) - 1)
        PROVE  t[j] = IF j < i THEN s[j] ELSE s[j + 1]
    <3>1. CASE j < i
      <4>1. j \in 1..(i - 1) /\ j \in 1..(Len(u) + Len(v)) /\ j <= Len(u)
        BY <1>1, <1>2, <1>3, <3>1
      <4>2. t[j] = u[j] /\ u[j] = s[j]
        BY <1>2, <2>1, <4>1
      <4>. QED
        BY <3>1, <4>2
    <3>2. CASE ~(j < i)
      <4>1. j - (i - 1) \in 1..(Len(s) - i) /\ i + (j - (i - 1)) = j + 1
        BY <1>1, <3>2
      <4>2. j \in 1..(Len(u) + Len(v)) /\ ~(j <= Len(u)) /\ j - Len(u) = j - (i - 1)
        BY <1>1, <1>2, <1>3, <3>2
      <4>3. t[j] = v[j - (i - 1)]
        BY <2>1, <4>2
      <4>4. v[j - (i - 1)] = s[i + (j - (i - 1))]
        BY <1>3, <4>1
      <4>. QED
        BY <3>2, <4>1, <4>3, <4>4
    <3>. QED
      BY <3>1, <3>2
  <2>. QED
    BY <2>1, <2>2, <2>3
<1>. QED
  BY <1>5 DEF t

LEMMA RemoveAtFacts ==
    ASSUME NEW S, NEW s \in Seq(S), NEW i \in 1..Len(s), IsInjective(s)
    PROVE  /\ IsInjective(RemoveAt(s, i))
           /\ Range(RemoveAt(s, i)) = Range(s) \ {s[i]}
<1>. DEFINE t == RemoveAt(s, i)
<1>1. Len(s) \in Nat /\ DOMAIN s = 1..Len(s)
  BY SeqFacts
<1>2. /\ t \in Seq(S) /\ Len(t) = Len(s) - 1
      /\ \A j \in 1..(Len(s) - 1) : t[j] = IF j < i THEN s[j] ELSE s[j + 1]
  BY RemoveAtType
<1>. HIDE DEF t
<1>3. DOMAIN t = 1..(Len(s) - 1)
  BY <1>2, SeqFacts
<1>4. IsInjective(t)
  <2>. DEFINE old(j) == IF j < i THEN j ELSE j + 1
  <2>1. ASSUME NEW j \in 1..(Len(s) - 1)
        PROVE  old(j) \in 1..Len(s) /\ t[j] = s[old(j)]
    BY <1>1, <1>2
  <2>2. \A j, k \in 1..(Len(s) - 1) : old(j) = old(k) => j = k
    BY <1>1
  <2>. HIDE DEF old
  <2>. QED
    BY <1>1, <1>3, <2>1, <2>2 DEF IsInjective
<1>5. Range(t) = Range(s) \ {s[i]}
  <2>1. \A x : x \in Range(t) <=> \E j \in 1..(Len(s) - 1) : t[j] = x
    BY <1>2, SeqFacts
  <2>2. \A x : x \in Range(s) <=> \E j \in 1..Len(s) : s[j] = x
    BY SeqFacts
  <2>3. ASSUME NEW x \in Range(t) PROVE x \in Range(s) /\ x # s[i]
    BY <1>1, <1>2, <2>1, <2>2 DEF IsInjective
  <2>4. ASSUME NEW x \in Range(s), x # s[i] PROVE x \in Range(t)
    <3>1. PICK j \in 1..Len(s) : s[j] = x
      BY <2>2
    <3>2. CASE j < i
      BY <1>1, <1>2, <2>1, <3>1, <3>2
    <3>3. CASE j > i
      <4>1. j - 1 \in 1..(Len(s) - 1) /\ ~(j - 1 < i) /\ (j - 1) + 1 = j
        BY <1>1, <3>3
      <4>. QED
        BY <1>2, <2>1, <3>1, <4>1
    <3>. QED
      BY <1>1, <2>4, <3>1, <3>2, <3>3
  <2>. QED
    BY <2>3, <2>4
<1>. QED
  BY <1>4, <1>5 DEF t
-----------------------------------------------------------------------------
(* Types.                                                                  *)

\* A name in the maps and a zone in them are told apart from no zone.
LEMMA SomethingFacts ==
    /\ \A s \in Specs : s # Nothing
    /\ \A rrs \in SUBSET RRs : rrs # Nothing
    /\ \A o \in Objects : o # Nothing
<1>1. \A o \in Objects : o = [spec |-> o.spec, deleting |-> o.deleting]
                         /\ o.spec \in Specs /\ o.deleting \in BOOLEAN
  BY DEF Objects
<1>. QED
  BY <1>1, NothingAssumption

LEMMA ParsesFacts ==
    ASSUME api \in [ZoneNames -> {Nothing} \cup Objects], NEW n \in ZoneNames, Parses(n)
    PROVE  api[n].spec \in Specs \ Unreadable
BY DEF Parses, Objects

LEMMA BusyWorker ==
    ASSUME TypeOK, rc.at # "idle"
    PROVE  rc \in Working /\ rc.zone \in ZoneNames /\ rc.obj \in Objects
BY DEF TypeOK, Idle, Working

LEMMA NoQueryType == NoQuery \in Serving
BY EmptySeq DEF NoQuery, Serving, Outcomes

LEMMA InitTypes == Init => TypeOK
<1>. SUFFICES ASSUME Init PROVE TypeOK
  OBVIOUS
<1>1. api \in [ZoneNames -> {Nothing} \cup Objects]
  BY DEF Init, Objects
<1>2. Z \in [ZoneNames -> {Nothing} \cup (Specs \ Unreadable)]
  BY <1>1, ParsesFacts DEF Init
<1>3. DynamicZones \in [ZoneNames -> {Nothing} \cup SUBSET RRs]
  BY DEF Init
<1>4. query \in [Queries -> Serving]
  BY NoQueryType DEF Init
<1>. QED
  BY <1>1, <1>2, <1>3, <1>4, LoadedFacts, LimitsAssumption DEF Init, TypeOK

LEMMA MoveToFacts ==
    ASSUME TypeOK, NEW q \in Queries, NEW at, MoveTo(q, at),
           at \in Outcomes \cup {"dynamic", "change", "merge"}
    PROVE  /\ query' \in [Queries -> Serving]
           /\ query'[q].at = at
           /\ query'[q].zone = query[q].zone
           /\ query'[q].steady = query[q].steady
           /\ query'[q].holds = (at = "change")
           /\ \A p \in Queries : p # q => query'[p] = query[p]
<1>. DEFINE r == [query[q] EXCEPT !.at = at, !.view = <<>>, !.pos = 1,
                                  !.shares = FALSE, !.holds = (at = "change")]
<1>1. query[q] \in Serving /\ query \in [Queries -> Serving]
  BY DEF TypeOK
<1>2. << >> \in Seq(ZoneNames)
  BY EmptySeq
<1>3. /\ r \in Serving /\ r.at = at /\ r.zone = query[q].zone
      /\ r.steady = query[q].steady /\ r.holds = (at = "change")
  <2>1. at \in Outcomes \cup {"match", "dynamic", "change", "save", "merge"} /\ 1 \in Nat \ {0}
    OBVIOUS
  <2>. QED
    BY <1>1, <1>2, <2>1 DEF Serving
<1>4. query' = [query EXCEPT ![q] = r]
  BY DEF MoveTo
<1>. HIDE DEF r
<1>. QED
  BY <1>1, <1>3, <1>4

LEMMA DeleteNameTypes ==
    ASSUME TypeOK, DeleteName
    PROVE  /\ query' \in [Queries -> Serving]
           /\ \A q \in Queries : /\ query'[q].at = query[q].at
                                 /\ query'[q].zone = query[q].zone
                                 /\ query'[q].steady = query[q].steady
                                 /\ query'[q].holds = query[q].holds
<1>1. PICK i \in 1..Len(Names) :
        query' = [q \in Queries |->
                    [query[q] EXCEPT !.view =
                      [k \in 1..Len(@) |->
                         IF query[q].shares /\ k \in i..(Len(Names) - 1)
                         THEN Names[k + 1] ELSE @[k]]]]
  BY DEF DeleteName
<1>2. ASSUME NEW q \in Queries
      PROVE  /\ query'[q] \in Serving
             /\ query'[q].at = query[q].at
             /\ query'[q].zone = query[q].zone
             /\ query'[q].steady = query[q].steady
             /\ query'[q].holds = query[q].holds
  <2>. DEFINE w == query[q].view
              v == [k \in 1..Len(w) |->
                      IF query[q].shares /\ k \in i..(Len(Names) - 1)
                      THEN Names[k + 1] ELSE w[k]]
  <2>1. w \in Seq(ZoneNames) /\ Names \in Seq(ZoneNames) /\ query[q] \in Serving
    BY DEF TypeOK, Serving
  <2>2. Len(w) \in Nat /\ \A k \in 1..Len(w) : w[k] \in ZoneNames
    BY <2>1, SeqFacts
  <2>3. \A k \in i..(Len(Names) - 1) : Names[k + 1] \in ZoneNames
    <3>1. Len(Names) \in Nat /\ \A k \in 1..Len(Names) : Names[k] \in ZoneNames
      BY <2>1, SeqFacts
    <3>. QED
      BY <3>1
  <2>4. v \in [1..Len(w) -> ZoneNames]
    BY <2>2, <2>3
  <2>5. v \in Seq(ZoneNames)
    BY <2>2, <2>4
  <2>6. query'[q] = [query[q] EXCEPT !.view = v]
    BY <1>1
  <2>. HIDE DEF v
  <2>. QED
    BY <2>1, <2>5, <2>6 DEF Serving
<1>. QED
  BY <1>1, <1>2

LEMMA CreateNameTypes ==
    ASSUME TypeOK, CreateName
    PROVE  /\ query' \in [Queries -> Serving]
           /\ \A q \in Queries : /\ query'[q].at = query[q].at
                                 /\ query'[q].zone = query[q].zone
                                 /\ query'[q].steady = query[q].steady
                                 /\ query'[q].holds = query[q].holds
<1>1. PICK inPlace \in BOOLEAN :
        query' = [q \in Queries |->
                    [query[q] EXCEPT
                       !.view = [k \in 1..Len(@) |->
                          IF query[q].shares /\ inPlace /\ k = Len(Names) + 1
                          THEN rc.zone ELSE @[k]],
                       !.shares = @ /\ inPlace]]
  BY DEF CreateName
<1>2. ASSUME NEW q \in Queries
      PROVE  /\ query'[q] \in Serving
             /\ query'[q].at = query[q].at
             /\ query'[q].zone = query[q].zone
             /\ query'[q].steady = query[q].steady
             /\ query'[q].holds = query[q].holds
  <2>. DEFINE w == query[q].view
              v == [k \in 1..Len(w) |->
                      IF query[q].shares /\ inPlace /\ k = Len(Names) + 1
                      THEN rc.zone ELSE w[k]]
              b == query[q].shares /\ inPlace
  <2>1. w \in Seq(ZoneNames) /\ query[q] \in Serving /\ rc.zone \in ZoneNames
    BY BusyWorker DEF TypeOK, Serving, CreateName, At
  <2>2. Len(w) \in Nat /\ \A k \in 1..Len(w) : w[k] \in ZoneNames
    BY <2>1, SeqFacts
  <2>3. v \in Seq(ZoneNames) /\ b \in BOOLEAN
    <3>1. v \in [1..Len(w) -> ZoneNames]
      BY <2>1, <2>2
    <3>. QED
      BY <2>2, <3>1
  <2>4. query'[q] = [query[q] EXCEPT !.view = v, !.shares = b]
    BY <1>1
  <2>. HIDE DEF v, b
  <2>. QED
    BY <2>1, <2>3, <2>4 DEF Serving
<1>. QED
  BY <1>1, <1>2

LEMMA ChangeFacts == TypeOK /\ Change => changes' \in 0..MaxChanges
BY LimitsAssumption DEF TypeOK, Change

LEMMA TypesPreserved == TypeOK /\ [Next]_vars => TypeOK'
<1>. SUFFICES ASSUME TypeOK, [Next]_vars PROVE TypeOK'
  OBVIOUS
<1>. USE DEF registry, objects, bounds
<1>1. ASSUME NEW n \in ZoneNames, NEW s \in Specs,
             CreateObject(n, s) \/ EditObject(n, s)
      PROVE  TypeOK'
  <2>1. api' \in [ZoneNames -> {Nothing} \cup Objects]
    <3>1. [spec |-> s, deleting |-> FALSE] \in Objects
      BY DEF Objects
    <3>2. api[n] # Nothing => [api[n] EXCEPT !.spec = s] \in Objects
      BY DEF TypeOK, Objects
    <3>. QED
      BY <1>1, <3>1, <3>2 DEF TypeOK, CreateObject, EditObject
  <2>2. changes' \in 0..MaxChanges
    BY <1>1, ChangeFacts DEF CreateObject, EditObject
  <2>. QED
    BY <1>1, <2>1, <2>2 DEF TypeOK, CreateObject, EditObject, Change
<1>2. ASSUME NEW n \in ZoneNames, MarkDeleting(n) \/ RemoveObject(n) \/ Deliver(n)
      PROVE  TypeOK'
  <2>1. api' \in [ZoneNames -> {Nothing} \cup Objects]
    <3>1. api[n] # Nothing => [api[n] EXCEPT !.deleting = TRUE] \in Objects
      BY DEF TypeOK, Objects
    <3>. QED
      BY <1>2, <3>1 DEF TypeOK, MarkDeleting, RemoveObject, Deliver
  <2>2. changes' \in 0..MaxChanges
    BY <1>2, ChangeFacts DEF TypeOK, MarkDeleting, RemoveObject, Deliver
  <2>. QED
    BY <1>2, <2>1, <2>2 DEF TypeOK, MarkDeleting, RemoveObject, Deliver, Change
<1>3. ASSUME NEW n \in ZoneNames, Take(n) PROVE TypeOK'
  <2>1. rc' = Idle \/ rc' \in Working
    BY <1>3 DEF TypeOK, Take, Working
  <2>. QED
    BY <1>3, <2>1 DEF TypeOK, Take
<1>4. CASE DeleteStatic
  <2>1. rc.zone \in ZoneNames /\ rc' \in Working
    BY <1>4, BusyWorker DEF DeleteStatic, At, Goto, Working
  <2>2. query' \in [Queries -> Serving]
    <3>1. \A q \in Queries : [query[q] EXCEPT !.steady = FALSE] \in Serving
      BY DEF TypeOK, Serving
    <3>. QED
      BY <1>4, <3>1 DEF TypeOK, DeleteStatic, Unsettled
  <2>. QED
    BY <1>4, <2>1, <2>2 DEF TypeOK, DeleteStatic
<1>5. CASE DeleteDynamic \/ CreateDynamic
  <2>1. rc.zone \in ZoneNames /\ rc' \in Working
    BY <1>5, BusyWorker DEF DeleteDynamic, CreateDynamic, At, Goto, Working
  <2>2. query' \in [Queries -> Serving]
    <3>1. \A q \in Queries : [query[q] EXCEPT !.holds = FALSE] \in Serving
      BY DEF TypeOK, Serving
    <3>. QED
      BY <1>5, <3>1 DEF TypeOK, DeleteDynamic, CreateDynamic
  <2>. QED
    BY <1>5, <2>1, <2>2 DEF TypeOK, DeleteDynamic, CreateDynamic
<1>6. CASE DeleteName
  <2>1. Names' \in Seq(ZoneNames)
    <3>1. PICK i \in 1..Len(Names) : Names' = RemoveAt(Names, i)
      BY <1>6 DEF DeleteName
    <3>. QED
      BY <3>1, RemoveAtType DEF TypeOK
  <2>. QED
    BY <1>6, <2>1, DeleteNameTypes DEF TypeOK, DeleteName
<1>7. CASE ParseFails
  <2>1. rc.zone \in ZoneNames
    BY <1>7, BusyWorker DEF ParseFails, Keeps, At
  <2>. QED
    BY <1>7, <2>1 DEF TypeOK, ParseFails
<1>8. CASE SetStatic
  <2>1. rc \in Working /\ rc.zone \in ZoneNames /\ rc.obj.spec \in Specs \ Unreadable
    BY <1>8, BusyWorker DEF SetStatic, Keeps, At, Objects
  <2>2. rc' = Idle \/ rc' \in Working
    BY <1>8, <2>1 DEF SetStatic, Goto, Working
  <2>. QED
    BY <1>8, <2>1, <2>2 DEF TypeOK, SetStatic
<1>9. CASE CreateName
  <2>1. Names' \in Seq(ZoneNames)
    BY <1>9, BusyWorker, AppendFacts DEF TypeOK, CreateName, At
  <2>. QED
    BY <1>9, <2>1, CreateNameTypes DEF TypeOK, CreateName
<1>10. ASSUME NEW q \in Queries, NEW n \in ZoneNames, StartQuery(q, n) PROVE TypeOK'
  <2>1. query' \in [Queries -> Serving]
    BY <1>10 DEF TypeOK, StartQuery, Serving
  <2>. QED
    BY <1>10, <2>1 DEF TypeOK, StartQuery
<1>11. ASSUME NEW q \in Queries,
              Match(q) \/ LookupDynamic(q) \/ FailUpdate(q) \/ MergeZones(q)
       PROVE  TypeOK'
  <2>1. query' \in [Queries -> Serving]
    <3>1. ASSUME query' = [query EXCEPT ![q].pos = query[q].pos + 1]
          PROVE  query' \in [Queries -> Serving]
      <4>1. query[q].pos + 1 \in Nat \ {0} /\ query[q] \in Serving
        BY DEF TypeOK, Serving
      <4>2. [query[q] EXCEPT !.pos = query[q].pos + 1] \in Serving
        BY <4>1 DEF Serving
      <4>. QED
        BY <3>1, <4>2 DEF TypeOK
    <3>2. ASSUME NEW at \in Outcomes \cup {"dynamic", "change", "merge"}, MoveTo(q, at)
          PROVE  query' \in [Queries -> Serving]
      BY <3>2, MoveToFacts
    <3>. QED
      BY <1>11, <3>1, <3>2 DEF Match, LookupDynamic, FailUpdate, MergeZones, Outcomes
  <2>. QED
    BY <1>11, <2>1 DEF TypeOK, Match, LookupDynamic, FailUpdate, MergeZones
<1>12. ASSUME NEW q \in Queries, NEW rrs \in SUBSET RRs,
              ChangeMemory(q, rrs) \/ SaveStatus(q, rrs)
       PROVE  TypeOK'
  <2>1. CASE ChangeMemory(q, rrs)
    <3>1. query' \in [Queries -> Serving]
      <4>1. [query[q] EXCEPT !.at = "save"] \in Serving
        BY DEF TypeOK, Serving
      <4>. QED
        BY <2>1, <4>1 DEF TypeOK, ChangeMemory
    <3>. QED
      BY <2>1, <3>1 DEF TypeOK, ChangeMemory
  <2>2. CASE SaveStatus(q, rrs)
    BY <2>2, MoveToFacts DEF TypeOK, SaveStatus
  <2>. QED
    BY <1>12, <2>1, <2>2
<1>13. CASE Restart
  <2>1. Z' \in [ZoneNames -> {Nothing} \cup (Specs \ Unreadable)]
    BY <1>13, ParsesFacts DEF TypeOK, Restart, Load
  <2>2. /\ DynamicZones' \in [ZoneNames -> {Nothing} \cup SUBSET RRs]
        /\ Names' \in Seq(ZoneNames)
    BY <1>13, LoadedFacts DEF TypeOK, Restart, Load
  <2>3. query' \in [Queries -> Serving]
    BY <1>13, NoQueryType DEF Restart
  <2>4. restarts' \in 0..MaxRestarts /\ changes' = changes
    BY <1>13, LimitsAssumption DEF TypeOK, Restart
  <2>. QED
    BY <1>13, <2>1, <2>2, <2>3, <2>4 DEF TypeOK, Restart
<1>14. CASE UNCHANGED vars
  BY <1>14 DEF TypeOK, vars
<1>. QED
  BY <1>1, <1>2, <1>3, <1>4, <1>5, <1>6, <1>7, <1>8, <1>9, <1>10, <1>11,
     <1>12, <1>13, <1>14 DEF Next, Reconcile

\* ZoneRegistry, TypeOK: what the maps, the slice, the worker and the queries
\* can hold, whatever the order of their steps.
THEOREM RegistryTypes == Spec => []TypeOK
BY InitTypes, TypesPreserved, PTL DEF Spec
-----------------------------------------------------------------------------
(* The registry and its readers.                                           *)

\* The maps and the slice agree about a zone.
Fits(n) ==
    /\ Z[n] # Nothing <=> Listed(n)
    /\ Z[n] # Nothing <=> DynamicZones[n] # Nothing

LEMMA LoadedFits ==
    ASSUME NEW n \in ZoneNames, api \in [ZoneNames -> {Nothing} \cup Objects]
    PROVE  /\ Parses(n) => api[n].spec # Nothing
           /\ Parses(n) <=> n \in Range(Loaded)
  BY ParsesFacts, LoadedFacts, SomethingFacts

LEMMA InitFacts == Init => Facts
<1>. SUFFICES ASSUME Init PROVE Facts
  OBVIOUS
<1>1. TypeOK
  BY InitTypes
<1>2. ASSUME NEW n \in ZoneNames PROVE Fits(n)
  <2>1. {} # Nothing
    BY SomethingFacts
  <2>. QED
    BY <1>1, <2>1, LoadedFits DEF Init, TypeOK, Fits, Listed
<1>3. rc.at = "idle" /\ \A q \in Queries : query[q].at = "idle" /\ ~query[q].holds
  BY DEF Init, Idle, NoQuery
<1>4. RegistryCoherent
  BY <1>2, LoadedFacts DEF Init, RegistryCoherent, Fits, Listed
<1>5. ChangeInOrder
  BY <1>3 DEF ChangeInOrder, At
<1>6. SteadyZonesStay /\ UpdatesHold /\ OnlyVanishingZonesFail
  BY <1>3 DEF SteadyZonesStay, UpdatesHold, OnlyVanishingZonesFail, Over, Outcomes
<1>. QED
  BY <1>4, <1>5, <1>6 DEF Facts

\* Objects, the cache and the queue are no part of the registry.
LEMMA ElsewhereFacts ==
    ASSUME Facts, UNCHANGED <<registry, query>>,
           \/ rc' = rc
           \/ rc.at \in {"idle", "decide"} /\ rc'.at \in {"idle", "decide"}
    PROVE  Facts'
<1>. USE DEF registry
<1>1. RegistryCoherent'
  BY DEF Facts, RegistryCoherent, Changing
<1>2. ChangeInOrder'
  BY DEF Facts, ChangeInOrder, At, Listed
<1>3. SteadyZonesStay' /\ UpdatesHold' /\ OnlyVanishingZonesFail'
  BY DEF Facts, SteadyZonesStay, UpdatesHold, OnlyVanishingZonesFail, Over
<1>. QED
  BY <1>1, <1>2, <1>3 DEF Facts

\* A query moves on: the registry is as it was.
LEMMA QueryFacts ==
    ASSUME Facts, UNCHANGED <<registry, rc>>,
           SteadyZonesStay', UpdatesHold', OnlyVanishingZonesFail'
    PROVE  Facts'
<1>. USE DEF registry
<1>1. RegistryCoherent'
  BY DEF Facts, RegistryCoherent, Changing
<1>2. ChangeInOrder'
  BY DEF Facts, ChangeInOrder, At, Listed
<1>. QED
  BY <1>1, <1>2 DEF Facts

\* A write to the registry for the worker's zone: what it must show of it
\* and of the queries.
LEMMA WriteFacts ==
    ASSUME TypeOK, TypeOK', Facts,
           NEW z \in ZoneNames, rc.at # "idle", rc.zone = z,
           Changing(z)' \/ Fits(z)',
           IsInjective(Names'),
           \A n \in ZoneNames : n # z =>
               /\ Z'[n] = Z[n] /\ DynamicZones'[n] = DynamicZones[n]
               /\ n \in Range(Names') <=> n \in Range(Names),
           ChangeInOrder',
           \A q \in Queries :
               /\ query'[q].at = query[q].at
               /\ query'[q].zone = query[q].zone
               /\ query'[q].steady => query[q].steady
               /\ query'[q].holds => query[q].holds,
           DynamicZones[z] # Nothing /\ DynamicZones'[z] = Nothing =>
               \A q \in Queries : query[q].zone = z => ~query'[q].holds,
           Z'[z] = Nothing \/ DynamicZones'[z] = Nothing =>
               \A q \in Queries :
                   ~Over(q) /\ query[q].zone = z => ~query'[q].steady
    PROVE  Facts'
<1>1. RegistryCoherent'
  <2>1. ASSUME NEW n \in ZoneNames, ~Changing(n)' PROVE Fits(n)'
    <3>1. CASE n = z
      BY <2>1, <3>1
    <3>2. CASE n # z
      <4>1. ~Changing(n)
        BY <3>2 DEF Changing
      <4>. QED
        BY <3>2, <4>1 DEF Facts, RegistryCoherent, Fits, Listed
    <3>. QED
      BY <3>1, <3>2
  <2>. QED
    BY <2>1 DEF RegistryCoherent, Fits, Listed
<1>2. SteadyZonesStay'
  BY DEF Facts, SteadyZonesStay, Over
<1>3. UpdatesHold'
  <2>1. \A q \in Queries : query[q].holds => query[q].zone \in ZoneNames
    BY DEF Facts, UpdatesHold, Over, Outcomes
  <2>. QED
    BY <2>1 DEF Facts, UpdatesHold, Over
<1>4. OnlyVanishingZonesFail'
  BY DEF Facts, OnlyVanishingZonesFail
<1>. QED
  BY <1>1, <1>2, <1>3, <1>4 DEF Facts

LEMMA DeleteFacts ==
    ASSUME TypeOK, TypeOK', Facts, DeleteStatic \/ DeleteDynamic \/ DeleteName
    PROVE  Facts'
<1>1. rc \in Working /\ rc.zone \in ZoneNames /\ rc.at # "idle"
  <2>1. rc.at # "idle"
    BY DEF DeleteStatic, DeleteDynamic, DeleteName, At
  <2>. QED
    BY <2>1, BusyWorker
<1>2. PICK z \in ZoneNames : rc.zone = z
  BY <1>1
<1>3. /\ rc.zone = z /\ rc.at # "idle"
      /\ IsInjective(Names) /\ Names \in Seq(ZoneNames)
      /\ Z \in [ZoneNames -> {Nothing} \cup (Specs \ Unreadable)]
      /\ DynamicZones \in [ZoneNames -> {Nothing} \cup SUBSET RRs]
  BY <1>1, <1>2 DEF TypeOK, Facts, RegistryCoherent
<1>4. CASE DeleteStatic
  <2>1. ~Changing(z) /\ Z[z] # Nothing
    BY <1>2, <1>4 DEF DeleteStatic, At, Changing
  <2>2. Fits(z)
    BY <1>3, <2>1 DEF Facts, RegistryCoherent, Fits, Listed
  <2>3. /\ rc'.at = "deleteDynamic" /\ rc'.zone = z
        /\ Z' = [Z EXCEPT ![z] = Nothing]
        /\ UNCHANGED <<DynamicZones, Names>>
    BY <1>1, <1>2, <1>4 DEF DeleteStatic, Goto, Working
  <2>4. ChangeInOrder'
    BY <1>3, <2>1, <2>2, <2>3 DEF ChangeInOrder, At, Fits, Listed
  <2>5. ASSUME NEW q \in Queries
        PROVE  /\ query'[q].at = query[q].at
               /\ query'[q].zone = query[q].zone
               /\ query'[q].steady => query[q].steady /\ query[q].zone # z
               /\ query'[q].holds = query[q].holds
    BY <1>2, <1>4 DEF TypeOK, DeleteStatic, Unsettled, Serving
  <2>6. Changing(z)'
    BY <2>3 DEF Changing
  <2>. QED
    BY <1>3, <2>3, <2>4, <2>5, <2>6, WriteFacts
<1>5. CASE DeleteDynamic
  <2>1. Z[z] = Nothing /\ Listed(z)
    BY <1>2, <1>5 DEF DeleteDynamic, Facts, ChangeInOrder, At
  <2>2. /\ rc'.at = "deleteName" /\ rc'.zone = z
        /\ DynamicZones' = [DynamicZones EXCEPT ![z] = Nothing]
        /\ UNCHANGED <<Z, Names>>
    BY <1>1, <1>2, <1>5 DEF DeleteDynamic, Goto, Working
  <2>3. ChangeInOrder'
    BY <1>3, <2>1, <2>2 DEF ChangeInOrder, At, Listed
  <2>4. \A q \in Queries : ~Over(q) /\ query[q].zone = z => ~query[q].steady
    BY <2>1 DEF Facts, SteadyZonesStay
  <2>5. Changing(z)'
    BY <2>2 DEF Changing
  <2>6. ASSUME NEW q \in Queries
        PROVE  /\ query'[q].at = query[q].at
               /\ query'[q].zone = query[q].zone
               /\ query'[q].steady = query[q].steady
               /\ query'[q].holds => query[q].holds /\ query[q].zone # z
    BY <1>2, <1>5 DEF TypeOK, DeleteDynamic, Serving
  <2>. QED
    BY <1>3, <2>2, <2>3, <2>4, <2>5, <2>6, WriteFacts
<1>6. CASE DeleteName
  <2>1. Z[z] = Nothing /\ DynamicZones[z] = Nothing
    BY <1>2, <1>6 DEF DeleteName, Facts, ChangeInOrder, At
  <2>2. IsInjective(Names') /\ Range(Names') = Range(Names) \ {z}
    <3>1. PICK i \in 1..Len(Names) : Names[i] = z /\ Names' = RemoveAt(Names, i)
      BY <1>2, <1>6 DEF DeleteName
    <3>. QED
      BY <1>3, <3>1, RemoveAtFacts
  <2>3. rc' = Idle /\ UNCHANGED <<Z, DynamicZones>>
    BY <1>2, <1>6 DEF DeleteName
  <2>4. ChangeInOrder'
    BY <2>3 DEF ChangeInOrder, At, Idle
  <2>5. \A q \in Queries : ~Over(q) /\ query[q].zone = z => ~query[q].steady
    BY <2>1 DEF Facts, SteadyZonesStay
  <2>6. Z'[z] = Nothing /\ DynamicZones'[z] = Nothing /\ z \notin Range(Names')
    BY <2>1, <2>2, <2>3
  <2>7. \A q \in Queries : /\ query'[q].at = query[q].at
                           /\ query'[q].zone = query[q].zone
                           /\ query'[q].steady = query[q].steady
                           /\ query'[q].holds = query[q].holds
    BY <1>6, DeleteNameTypes
  <2>8. Fits(z)'
    BY <2>6 DEF Fits, Listed
  <2>. QED
    BY <1>3, <2>2, <2>3, <2>4, <2>5, <2>7, <2>8, WriteFacts
<1>. QED
  BY <1>4, <1>5, <1>6

LEMMA CreateFacts ==
    ASSUME TypeOK, TypeOK', Facts, SetStatic \/ CreateDynamic \/ CreateName
    PROVE  Facts'
<1>1. rc \in Working /\ rc.zone \in ZoneNames /\ rc.at # "idle"
  <2>1. rc.at # "idle"
    BY DEF SetStatic, Keeps, CreateDynamic, CreateName, At
  <2>. QED
    BY <2>1, BusyWorker
<1>2. PICK z \in ZoneNames : rc.zone = z
  BY <1>1
<1>3. /\ rc.zone = z /\ rc.at # "idle"
      /\ IsInjective(Names) /\ Names \in Seq(ZoneNames)
      /\ Z \in [ZoneNames -> {Nothing} \cup (Specs \ Unreadable)]
      /\ DynamicZones \in [ZoneNames -> {Nothing} \cup SUBSET RRs]
  BY <1>1, <1>2 DEF TypeOK, Facts, RegistryCoherent
<1>4. CASE SetStatic
  <2>1. ~Changing(z)
    BY <1>2, <1>4 DEF SetStatic, Keeps, At, Changing
  <2>2. Fits(z)
    BY <2>1 DEF Facts, RegistryCoherent, Fits, Listed
  <2>3. PICK s \in Specs : Z' = [Z EXCEPT ![z] = s]
    BY <1>1, <1>2, <1>4 DEF SetStatic, Working, Objects
  <2>4. Z'[z] # Nothing /\ UNCHANGED <<DynamicZones, Names, query>>
    BY <1>3, <1>4, <2>3, SomethingFacts DEF SetStatic
  <2>5. CASE Z[z] = Nothing
    <3>1. rc'.at = "createDynamic" /\ rc'.zone = z
      BY <1>1, <1>2, <1>4, <2>5 DEF SetStatic, Goto, Working
    <3>2. ChangeInOrder'
      BY <2>2, <2>4, <2>5, <3>1 DEF ChangeInOrder, At, Fits, Listed
    <3>3. \A q \in Queries : ~Over(q) /\ query[q].zone = z => ~query[q].steady
      BY <2>5 DEF Facts, SteadyZonesStay
    <3>4. Changing(z)'
      BY <3>1 DEF Changing
    <3>. QED
      BY <1>3, <2>3, <2>4, <3>2, <3>3, <3>4, WriteFacts
  <2>6. CASE Z[z] # Nothing
    <3>1. rc' = Idle
      BY <1>2, <1>4, <2>6 DEF SetStatic
    <3>2. ChangeInOrder'
      BY <3>1 DEF ChangeInOrder, At, Idle
    <3>3. Fits(z)' /\ DynamicZones'[z] # Nothing
      BY <2>2, <2>4, <2>6 DEF Fits, Listed
    <3>. QED
      BY <1>3, <2>3, <2>4, <3>2, <3>3, WriteFacts
  <2>. QED
    BY <2>5, <2>6
<1>5. CASE CreateDynamic
  <2>1. Z[z] # Nothing /\ ~Listed(z)
    BY <1>2, <1>5 DEF CreateDynamic, Facts, ChangeInOrder, At
  <2>2. /\ rc'.at = "createName" /\ rc'.zone = z
        /\ DynamicZones' = [DynamicZones EXCEPT ![z] = {}]
        /\ UNCHANGED <<Z, Names, query>>
    BY <1>1, <1>2, <1>5 DEF CreateDynamic, Goto, Working
  <2>3. DynamicZones'[z] # Nothing
    BY <1>3, <2>2, SomethingFacts
  <2>4. ChangeInOrder'
    BY <2>1, <2>2, <2>3 DEF ChangeInOrder, At, Listed
  <2>5. Changing(z)'
    BY <2>2 DEF Changing
  <2>. QED
    BY <1>3, <2>1, <2>2, <2>3, <2>4, <2>5, WriteFacts
<1>6. CASE CreateName
  <2>1. Z[z] # Nothing /\ DynamicZones[z] # Nothing /\ ~Listed(z)
    BY <1>2, <1>6 DEF CreateName, Facts, ChangeInOrder, At
  <2>2. IsInjective(Names') /\ Range(Names') = Range(Names) \cup {z}
    <3>1. Names' = Append(Names, z)
      BY <1>2, <1>6 DEF CreateName
    <3>. QED
      BY <1>3, <2>1, <3>1, AppendFacts DEF Listed
  <2>3. rc' = Idle /\ UNCHANGED <<Z, DynamicZones>>
    BY <1>6 DEF CreateName
  <2>4. ChangeInOrder'
    BY <2>3 DEF ChangeInOrder, At, Idle
  <2>5. \A q \in Queries : /\ query'[q].at = query[q].at
                           /\ query'[q].zone = query[q].zone
                           /\ query'[q].steady = query[q].steady
                           /\ query'[q].holds = query[q].holds
    BY <1>6, CreateNameTypes
  <2>6. Fits(z)'
    BY <2>1, <2>2, <2>3 DEF Fits, Listed
  <2>. QED
    BY <1>3, <2>1, <2>2, <2>3, <2>4, <2>5, <2>6, WriteFacts
<1>. QED
  BY <1>4, <1>5, <1>6

LEMMA ServeFacts ==
    ASSUME TypeOK, Facts, NEW q \in Queries,
           \/ \E n \in ZoneNames : StartQuery(q, n)
           \/ Match(q) \/ LookupDynamic(q) \/ FailUpdate(q) \/ MergeZones(q)
           \/ \E rrs \in SUBSET RRs : SaveStatus(q, rrs)
    PROVE  Facts'
<1>1. UNCHANGED <<registry, rc>>
  BY DEF StartQuery, Match, LookupDynamic, FailUpdate, MergeZones, SaveStatus, registry
<1>2. \A p \in Queries : p # q => query'[p] = query[p]
  BY DEF TypeOK, StartQuery, Match, LookupDynamic, FailUpdate, MergeZones, SaveStatus, MoveTo
<1>3. SUFFICES
        /\ query'[q].at \notin Outcomes => query'[q].zone \in ZoneNames
        /\ query'[q].at \notin Outcomes /\ query'[q].steady =>
              /\ Z[query'[q].zone] # Nothing
              /\ DynamicZones[query'[q].zone] # Nothing
        /\ query'[q].holds => /\ query'[q].at \in {"change", "save"}
                              /\ DynamicZones[query'[q].zone] # Nothing
        /\ query'[q].at \in {"servfail", "panicked"} => ~query'[q].steady
  <2>1. SteadyZonesStay'
    BY <1>1, <1>2, <1>3 DEF Facts, SteadyZonesStay, Over, registry
  <2>2. UpdatesHold'
    BY <1>1, <1>2, <1>3 DEF Facts, UpdatesHold, Over, registry
  <2>3. OnlyVanishingZonesFail'
    BY <1>1, <1>2, <1>3 DEF Facts, OnlyVanishingZonesFail
  <2>. QED
    BY <1>1, <2>1, <2>2, <2>3, QueryFacts
<1>4. ASSUME NEW n \in ZoneNames, StartQuery(q, n)
      PROVE  /\ query'[q].at = "match" /\ query'[q].zone = n /\ ~query'[q].holds
             /\ query'[q].steady => Z[n] # Nothing /\ DynamicZones[n] # Nothing
  BY <1>4 DEF TypeOK, StartQuery
<1>5. ASSUME ~Over(q)
      PROVE  /\ query[q].zone \in ZoneNames
             /\ query[q].steady => /\ Z[query[q].zone] # Nothing
                                   /\ DynamicZones[query[q].zone] # Nothing
  BY <1>5 DEF Facts, SteadyZonesStay, UpdatesHold
<1>6. CASE Match(q)
  <2>1. ~Over(q) /\ ~query[q].holds
    BY <1>6 DEF Match, Over, Outcomes, Facts, UpdatesHold
  <2>2. /\ query'[q].at \in {"match", "dynamic", "missed"}
        /\ query'[q].zone = query[q].zone /\ query'[q].steady = query[q].steady
        /\ ~query'[q].holds
    <3>1. ASSUME query' = [query EXCEPT ![q].pos = query[q].pos + 1]
          PROVE  /\ query'[q].at = query[q].at
                 /\ query'[q].zone = query[q].zone
                 /\ query'[q].steady = query[q].steady
                 /\ query'[q].holds = query[q].holds
      BY <3>1 DEF TypeOK, Serving
    <3>2. ASSUME NEW at \in {"dynamic", "missed"}, MoveTo(q, at)
          PROVE  /\ query'[q].at = at /\ query'[q].zone = query[q].zone
                 /\ query'[q].steady = query[q].steady /\ ~query'[q].holds
      BY <3>2, MoveToFacts DEF Outcomes
    <3>. QED
      BY <1>6, <2>1, <3>1, <3>2 DEF Match
  <2>. QED
    BY <1>5, <2>1, <2>2
<1>7. CASE LookupDynamic(q)
  <2>1. ~Over(q)
    BY <1>7 DEF LookupDynamic, Over, Outcomes
  <2>2. PICK at \in {"servfail", "change", "merge"} :
          /\ MoveTo(q, at)
          /\ at = "servfail" <=> DynamicZones[query[q].zone] = Nothing
    BY <1>7 DEF LookupDynamic
  <2>3. /\ query'[q].at = at /\ query'[q].zone = query[q].zone
        /\ query'[q].steady = query[q].steady /\ query'[q].holds = (at = "change")
    BY <2>2, MoveToFacts DEF Outcomes
  <2>. QED
    BY <1>5, <2>1, <2>2, <2>3
<1>8. CASE MergeZones(q)
  <2>1. ~Over(q)
    BY <1>8 DEF MergeZones, Over, Outcomes
  <2>2. PICK at \in {"panicked", "answered"} :
          /\ MoveTo(q, at)
          /\ at = "panicked" <=>
               Nothing \in {Z[query[q].zone], DynamicZones[query[q].zone]}
    BY <1>8 DEF MergeZones
  <2>3. /\ query'[q].at = at /\ query'[q].zone = query[q].zone
        /\ query'[q].steady = query[q].steady /\ ~query'[q].holds
    BY <2>2, MoveToFacts DEF Outcomes
  <2>. QED
    BY <1>5, <2>1, <2>2, <2>3 DEF Outcomes
<1>9. ASSUME FailUpdate(q) \/ \E rrs \in SUBSET RRs : SaveStatus(q, rrs)
      PROVE  /\ query'[q].at \in {"unsaved", "merge"} /\ query'[q].zone = query[q].zone
             /\ query'[q].steady = query[q].steady /\ ~query'[q].holds
             /\ ~Over(q)
  <2>1. PICK at \in {"unsaved", "merge"} : MoveTo(q, at)
    BY <1>9 DEF FailUpdate, SaveStatus
  <2>2. ~Over(q)
    BY <1>9 DEF FailUpdate, SaveStatus, Over, Outcomes
  <2>. QED
    BY <2>1, <2>2, MoveToFacts DEF Outcomes
<1>10. CASE FailUpdate(q) \/ \E rrs \in SUBSET RRs : SaveStatus(q, rrs)
  BY <1>5, <1>9, <1>10
<1>. QED
  BY <1>4, <1>6, <1>7, <1>8, <1>10

\* An update changes a dynamic zone that is there, or one of nobody's.
LEMMA UpdateFacts ==
    ASSUME TypeOK, Facts, NEW q \in Queries, NEW rrs \in SUBSET RRs, ChangeMemory(q, rrs)
    PROVE  Facts'
<1>1. /\ UNCHANGED <<Z, Names, rc>> /\ query[q].at = "change"
      /\ query'[q].at = "save" /\ query'[q].zone = query[q].zone
      /\ query'[q].steady = query[q].steady /\ query'[q].holds = query[q].holds
      /\ \A p \in Queries : p # q => query'[p] = query[p]
  BY DEF TypeOK, Serving, ChangeMemory
<1>2. \A k \in ZoneNames : DynamicZones'[k] = Nothing <=> DynamicZones[k] = Nothing
  <2>1. rrs # Nothing /\ (query[q].holds => DynamicZones[query[q].zone] # Nothing)
    BY SomethingFacts DEF Facts, UpdatesHold
  <2>. QED
    BY <2>1 DEF TypeOK, ChangeMemory
<1>3. RegistryCoherent'
  BY <1>1, <1>2 DEF Facts, RegistryCoherent, Changing
<1>4. ChangeInOrder'
  <2>1. rc.at # "idle" => rc.zone \in ZoneNames
    BY BusyWorker
  <2>. QED
    BY <1>1, <1>2, <2>1 DEF Facts, ChangeInOrder, At, Listed
<1>5. SteadyZonesStay' /\ UpdatesHold' /\ OnlyVanishingZonesFail'
  <2>1. \A p \in Queries :
          /\ Over(p)' <=> Over(p)
          /\ query'[p].zone = query[p].zone /\ query'[p].steady = query[p].steady
          /\ query'[p].holds = query[p].holds
          /\ query'[p].at = query[p].at \/ query'[p].at = "save"
    BY <1>1 DEF Over, Outcomes
  <2>2. \A p \in Queries : query[p].holds => ~Over(p)
    BY DEF Facts, UpdatesHold, Over, Outcomes
  <2>. QED
    BY <1>1, <1>2, <2>1, <2>2
    DEF Facts, SteadyZonesStay, UpdatesHold, OnlyVanishingZonesFail
<1>. QED
  BY <1>3, <1>4, <1>5 DEF Facts

LEMMA RestartFacts == ASSUME TypeOK, Restart PROVE Facts'
<1>1. ASSUME NEW n \in ZoneNames PROVE Fits(n)'
  <2>1. api \in [ZoneNames -> {Nothing} \cup Objects] /\ status[n] # Nothing
    BY SomethingFacts DEF TypeOK
  <2>. QED
    BY <2>1, LoadedFits DEF Restart, Load, Fits, Listed
<1>2. rc'.at = "idle" /\ \A q \in Queries : query'[q].at = "idle" /\ ~query'[q].holds
  BY DEF Restart, Idle, NoQuery
<1>3. RegistryCoherent'
  BY <1>1, LoadedFacts DEF Restart, Load, RegistryCoherent, Fits, Listed
<1>4. ChangeInOrder'
  BY <1>2 DEF ChangeInOrder, At
<1>5. SteadyZonesStay' /\ UpdatesHold' /\ OnlyVanishingZonesFail'
  BY <1>2 DEF SteadyZonesStay, UpdatesHold, OnlyVanishingZonesFail, Over, Outcomes
<1>. QED
  BY <1>3, <1>4, <1>5 DEF Facts

LEMMA FactsPreserved == IInv /\ [Next]_vars => IInv'
<1>. SUFFICES ASSUME IInv, [Next]_vars PROVE Facts'
  BY TypesPreserved DEF IInv
<1>. TypeOK /\ TypeOK' /\ Facts
  BY TypesPreserved DEF IInv
<1>1. ASSUME \/ \E n \in ZoneNames, s \in Specs : CreateObject(n, s) \/ EditObject(n, s)
             \/ \E n \in ZoneNames :
                   MarkDeleting(n) \/ RemoveObject(n) \/ Deliver(n) \/ Take(n)
             \/ ParseFails
             \/ UNCHANGED vars
      PROVE  Facts'
  <2>1. UNCHANGED <<registry, query>>
    BY <1>1 DEF CreateObject, EditObject, MarkDeleting, RemoveObject, Deliver, Take,
                ParseFails, vars
  <2>2. \/ rc' = rc
        \/ rc.at \in {"idle", "decide"} /\ rc'.at \in {"idle", "decide"}
    BY <1>1 DEF CreateObject, EditObject, MarkDeleting, RemoveObject, Deliver, Take,
                ParseFails, Keeps, At, Idle, vars
  <2>. QED
    BY <2>1, <2>2, ElsewhereFacts
<1>. QED
  BY <1>1, DeleteFacts, CreateFacts, ServeFacts, UpdateFacts, RestartFacts
     DEF Next, Reconcile

LEMMA Invariance == Spec => []IInv
BY InitTypes, InitFacts, FactsPreserved, PTL DEF Spec, IInv
-----------------------------------------------------------------------------
\* ZoneRegistry, RegistryCoherent: Z, DynamicZones and Names have the same
\* zones whenever the controller is not between two of its writes.
THEOREM MapsAndSliceAgree == Spec => []RegistryCoherent
BY Invariance, PTL DEF IInv, Facts

\* ZoneRegistry, OnlyVanishingZonesFail: the unlocked reads of ServeDNS and
\* Merge refuse a query, or panic, only for a zone that was taken out.
THEOREM SteadyZonesAreServed == Spec => []OnlyVanishingZonesFail
BY Invariance, PTL DEF IInv, Facts
=============================================================================
