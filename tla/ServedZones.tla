---------------------------- MODULE ServedZones ----------------------------
(***************************************************************************)
(* What one zupd process promises about the zones it serves: a zone is     *)
(* there in one piece, its static contents and its dynamic records         *)
(* together, or it is not there; new contents leave the dynamic records    *)
(* alone; an update changes the records first and saves them later, if at  *)
(* all, and then saves what is served at that moment, unless the zone has  *)
(* been away since the update began (a stray update); and a restarted      *)
(* process serves what the objects have.  Left open are how the controller *)
(* hears of the objects, which maps and slices the zones are kept in, and  *)
(* with which dynamic records a zone comes up while the process runs.      *)
(***************************************************************************)
EXTENDS Naturals

CONSTANTS
    ZoneNames,   \* the names of zones
    Specs,       \* contents of zones
    Unreadable,  \* those that cannot be parsed
    RRs,         \* dynamic records
    Nothing      \* no object, no zone

VARIABLES
    object,      \* what the API server has of a zone: [spec, saved]
    served,      \* what is served of it: [static, dynamic]
    strays,      \* the zones with a stray update under way
    starts       \* how often the process was restarted

vars == <<object, served, strays, starts>>

\* What a process that starts now serves.
Loaded ==
    [n \in ZoneNames |->
        IF object[n] # Nothing /\ object[n].spec \notin Unreadable
        THEN [static |-> object[n].spec, dynamic |-> object[n].saved]
        ELSE Nothing]

Init ==
    /\ object \in [ZoneNames -> {Nothing} \cup [spec : Specs, saved : {{}}]]
    /\ served = Loaded
    /\ strays = {}
    /\ starts = 0

Create(n, s) ==
    /\ object[n] = Nothing
    /\ object' = [object EXCEPT ![n] = [spec |-> s, saved |-> {}]]
    /\ UNCHANGED <<served, strays, starts>>

Edit(n, s) ==
    /\ object[n] # Nothing
    /\ object' = [object EXCEPT ![n] = [spec |-> s, saved |-> object[n].saved]]
    /\ UNCHANGED <<served, strays, starts>>

Remove(n) ==
    /\ object' = [object EXCEPT ![n] = Nothing]
    /\ UNCHANGED <<served, strays, starts>>

\* A zone that was not served comes up, with some dynamic records.
Add(n, s, rrs) ==
    /\ served[n] = Nothing
    /\ served' = [served EXCEPT ![n] = [static |-> s, dynamic |-> rrs]]
    /\ UNCHANGED <<object, strays, starts>>

Replace(n, s) ==
    /\ served[n] # Nothing
    /\ served' = [served EXCEPT ![n] = [static |-> s, dynamic |-> served[n].dynamic]]
    /\ UNCHANGED <<object, strays, starts>>

Drop(n) ==
    /\ served' = [served EXCEPT ![n] = Nothing]
    /\ UNCHANGED <<object, strays, starts>>

\* An update changes the records that are served.
Change(n, rrs) ==
    /\ served[n] # Nothing
    /\ served' = [served EXCEPT ![n] = [static |-> served[n].static, dynamic |-> rrs]]
    /\ UNCHANGED <<object, strays, starts>>

\* An update saves records.  If it was a stray one, this may have been the
\* last of its zone.
Save(n, rrs) ==
    /\ object[n] # Nothing
    /\ served[n] # Nothing /\ n \notin strays => rrs = served[n].dynamic
    /\ object' = [object EXCEPT ![n] = [spec |-> object[n].spec, saved |-> rrs]]
    /\ strays' \in SUBSET strays
    /\ UNCHANGED <<served, starts>>

\* Updates of a zone go astray only while it is not served.
Stray(n) ==
    /\ served[n] = Nothing
    /\ strays' = strays \cup {n}
    /\ UNCHANGED <<object, served, starts>>

\* Stray updates end.
Settle ==
    /\ strays' \in SUBSET strays
    /\ UNCHANGED <<object, served, starts>>

Restart ==
    /\ served' = Loaded
    /\ strays' = {}
    /\ starts' = starts + 1
    /\ UNCHANGED object

Next ==
    \/ \E n \in ZoneNames, s \in Specs : Create(n, s) \/ Edit(n, s)
    \/ \E n \in ZoneNames, s \in Specs \ Unreadable : Replace(n, s)
    \/ \E n \in ZoneNames, s \in Specs \ Unreadable, rrs \in SUBSET RRs : Add(n, s, rrs)
    \/ \E n \in ZoneNames : Remove(n) \/ Drop(n) \/ Stray(n)
    \/ \E n \in ZoneNames, rrs \in SUBSET RRs : Change(n, rrs) \/ Save(n, rrs)
    \/ Settle \/ Restart

Spec == Init /\ [][Next]_vars
=============================================================================
