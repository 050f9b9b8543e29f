------------------------- MODULE ZupdFailoverProofs -------------------------
(***************************************************************************)
(* What the pods of ZupdFailover keep of acknowledged updates, for every   *)
(* number of pods and of other candidates, every set of records and all    *)
(* bounds.  The invariants are not inductive as they stand: what an        *)
(* acknowledgement vouches for is in the object only because it is in all  *)
(* copies from which the next save may be made (Backed).                   *)
(***************************************************************************)
EXTENDS ZupdFailover, TLAPS

\* rrs agrees with every acknowledgement, given or just about to be given.
Agrees(rrs) ==
    /\ kept \subseteq rrs
    /\ gone \cap rrs = {}
    /\ \A q \in Pods :
         call[q].step = "reply" =>
             call[q].kept \subseteq rrs /\ call[q].gone \cap rrs = {}

\* What a call vouches for is no more than what it saves.
VouchesForItsList ==
    \A p \in Pods :
        call[p].step = "save" =>
            /\ call[p].kept \subseteq call[p].rrs
            /\ call[p].gone \cap call[p].rrs = {}

\* A call has the records of its instance while that one serves.
HasItsZone ==
    \A p \in Pods :
        call[p].step = "save" /\ ~call[p].replaced =>
            call[p].rrs = zone[p].rrs

\* A pod that is down gets no updates and has none in hand.
DownPodsRest ==
    \A p \in Pods : ~Up(p) => p \notin routed /\ call[p].step = "idle"

\* The copies that miss nothing: in the object, in memory, in a set-up that
\* is under way and in a call that is still to save.
Backed ==
    /\ Agrees(object)
    /\ \A p \in Pods : Up(p) /\ ~zone[p].late => Agrees(zone[p].rrs)
    /\ \A p \in Pods :
         coming[p] # None => (coming[p].late \/ Agrees(coming[p].rrs))
    /\ \A p \in Pods :
         call[p].step = "save" /\ ~call[p].late => Agrees(call[p].rrs)

Facts ==
    /\ VouchesForItsList
    /\ HasItsZone
    /\ DownPodsRest
    /\ ~overwritten => Backed

IInv == TypeOK /\ Facts
-----------------------------------------------------------------------------
(* Types.                                                                  *)

LEMMA InitTypes == Init => TypeOK
<1>. SUFFICES ASSUME Init PROVE TypeOK
  OBVIOUS
<1>1. 0 \in 0..MaxEdits
  BY BoundsAssumption
<1>2. NoCopy \in Copies /\ IdleCall \in Calls
  BY <1>1 DEF NoCopy, IdleCall, Copies, Calls, Steps
<1>. QED
  BY <1>1, <1>2 DEF Init, TypeOK, Roles

\* What an instance loads and what an idle pod has are of their kinds.
LEMMA LoadedTypes ==
    ASSUME TypeOK
    PROVE  Loaded \in Copies /\ NoCopy \in Copies /\ IdleCall \in Calls
BY BoundsAssumption
DEF TypeOK, Loaded, NoCopy, IdleCall, Copies, Calls, Steps

\* A save keeps the kinds of the copies and of the calls.
LEMMA CommitTypes ==
    ASSUME TypeOK, NEW p \in Pods, Commit(p)
    PROVE  /\ object' \in SUBSET RRs
           /\ zone' \in [Pods -> Copies]
           /\ coming' \in [Pods -> Copies \cup {None}]
           /\ overwritten' \in BOOLEAN
           /\ Overtaken(p) \in [Pods -> Calls]
<1>1. object' \in SUBSET RRs /\ overwritten' \in BOOLEAN
  BY DEF TypeOK, Commit, Calls
<1>2. ASSUME NEW q \in Pods
      PROVE  zone'[q] \in Copies
  BY <1>2 DEF TypeOK, Commit, Copies, Up
<1>3. ASSUME NEW q \in Pods
      PROVE  coming'[q] \in Copies \cup {None}
  BY <1>3 DEF TypeOK, Commit, Copies
<1>4. ASSUME NEW q \in Pods
      PROVE  Overtaken(p)[q] \in Calls
  BY <1>4 DEF TypeOK, Overtaken, Calls
<1>. QED
  BY <1>1, <1>2, <1>3, <1>4 DEF Commit, Overtaken

LEMMA ApplyTypes ==
    ASSUME TypeOK, NEW p \in Pods, NEW inserted \in SUBSET RRs,
           NEW removed \in SUBSET RRs, Apply(p, inserted, removed)
    PROVE  TypeOK'
<1>. DEFINE rrs == (zone[p].rrs \cup inserted) \ removed
<1>1. rrs \in SUBSET RRs /\ zone[p].late \in BOOLEAN
  BY DEF TypeOK, Copies
<1>2. zone' \in [Pods -> Copies]
  <2>1. [zone[p] EXCEPT !.rrs = rrs] \in Copies
    BY <1>1 DEF TypeOK, Copies
  <2>2. zone' = [zone EXCEPT ![p] = [zone[p] EXCEPT !.rrs = rrs]]
    BY DEF Apply
  <2>. HIDE DEF rrs
  <2>. QED
    BY <2>1, <2>2 DEF TypeOK
<1>3. ASSUME NEW q \in Pods
      PROVE  call'[q] \in Calls
  <2>1. CASE q = p
    BY <1>1, <2>1 DEF Apply, Calls, Steps
  <2>2. CASE q # p
    BY <2>2 DEF TypeOK, Apply, Calls
  <2>. QED
    BY <2>1, <2>2
<1>. QED
  <2>1. call' \in [Pods -> Calls]
    BY <1>3 DEF Apply
  <2>2. kept' \in SUBSET RRs /\ gone' \in SUBSET RRs
    BY DEF TypeOK, Apply
  <2>. QED
    BY <1>2, <2>1, <2>2 DEF TypeOK, Apply, objectVars

LEMMA TypesPreserved == TypeOK /\ [Next]_vars => TypeOK'
<1>. SUFFICES ASSUME TypeOK, [Next]_vars PROVE TypeOK'
  OBVIOUS
<1>1. ASSUME NEW p \in Pods, Start(p) \/ Crash(p) PROVE TypeOK'
  BY <1>1, LoadedTypes
  DEF TypeOK, Start, Crash, Fault, Roles, dataVars, objectVars, history, counters
<1>2. ASSUME NEW p \in Pods, SetUpReload(p) \/ ReloadFails(p) PROVE TypeOK'
  BY <1>2, LoadedTypes
  DEF TypeOK, SetUpReload, ReloadFails, Fault, dataVars, objectVars, history,
      counters
<1>3. ASSUME NEW p \in Pods, TakeOver(p) PROVE TypeOK'
  <2>1. call' \in [Pods -> Calls]
    <3>1. PICK b \in BOOLEAN : call' = [call EXCEPT ![p].replaced = b]
      BY <1>3 DEF TypeOK, TakeOver, Calls
    <3>2. [call[p] EXCEPT !.replaced = b] \in Calls
      BY DEF TypeOK, Calls
    <3>. QED
      BY <3>1, <3>2 DEF TypeOK
  <2>. QED
    BY <1>3, <2>1
    DEF TypeOK, TakeOver, Roles, dataVars, objectVars, history, counters
<1>4. ASSUME NEW p \in Pods, Acquire(p) \/ LoseLease(p) \/ Probe(p)
      PROVE  TypeOK'
  BY <1>4
  DEF TypeOK, Acquire, LoseLease, Probe, Fault, Roles, dataVars, objectVars,
      history, counters
<1>5. ASSUME NEW p \in Pods, Reconcile(p) PROVE TypeOK'
  BY <1>5
  DEF TypeOK, Reconcile, Copies, dataVars, objectVars, history, counters
<1>6. ASSUME NEW p \in Pods, NEW rr \in RRs, Insert(p, rr) \/ Remove(p, rr)
      PROVE  TypeOK'
  BY <1>6, ApplyTypes DEF Insert, Remove
<1>7. ASSUME NEW p \in Pods, Touch(p) PROVE TypeOK'
  BY <1>7, ApplyTypes DEF Touch
<1>8. ASSUME NEW p \in Pods, UpdateStatus(p) PROVE TypeOK'
  <2>1. call' \in [Pods -> Calls]
    BY <1>8, CommitTypes DEF UpdateStatus, Calls, Steps
  <2>. QED
    BY <1>8, <2>1, CommitTypes DEF TypeOK, UpdateStatus
<1>9. ASSUME NEW p \in Pods, AnswerLost(p) PROVE TypeOK'
  <2>1. call' \in [Pods -> Calls]
    BY <1>9, CommitTypes, LoadedTypes DEF AnswerLost
  <2>. QED
    BY <1>9, <2>1, CommitTypes DEF TypeOK, AnswerLost
<1>10. ASSUME NEW p \in Pods, CallFails(p) \/ Reply(p) PROVE TypeOK'
  BY <1>10, LoadedTypes
  DEF TypeOK, CallFails, Reply, Calls, podVars, dataVars, objectVars, history,
      counters
<1>11. ASSUME NEW o \in Others, OtherAcquires(o) \/ OtherExpires(o)
       PROVE  TypeOK'
  BY <1>11
  DEF TypeOK, OtherAcquires, OtherExpires, Fault, dataVars, objectVars,
      history, counters
<1>12. CASE ExpireLease
  BY <1>12 DEF TypeOK, ExpireLease, dataVars, objectVars, history, counters
<1>13. CASE EditSpec
  BY <1>13, BoundsAssumption DEF TypeOK, EditSpec, podVars, history
<1>14. CASE UNCHANGED vars
  BY <1>14 DEF TypeOK, vars, podVars, dataVars, objectVars, history, counters
<1>. QED
  BY <1>1, <1>2, <1>3, <1>4, <1>5, <1>6, <1>7, <1>8, <1>9, <1>10, <1>11,
     <1>12, <1>13, <1>14
  DEF Next, Instance, Update

\* Every variable holds a value of its kind, however many pods there are.
THEOREM FailoverTypes == Spec => []TypeOK
BY InitTypes, TypesPreserved, PTL DEF Spec
-----------------------------------------------------------------------------
(* Acknowledged updates.                                                   *)

LEMMA InitFacts == Init => Facts
<1>. SUFFICES ASSUME Init PROVE Facts
  OBVIOUS
<1>1. \A p \in Pods : call[p].step = "idle" /\ coming[p] = None
  BY DEF Init, IdleCall
<1>2. \A rrs : Agrees(rrs)
  BY <1>1 DEF Init, Agrees
<1>. QED
  BY <1>1, <1>2
  DEF Init, Facts, VouchesForItsList, HasItsZone, DownPodsRest, Backed

\* A pod starts with what is in the object.
LEMMA StartKeeps ==
    ASSUME IInv, NEW p \in Pods, Start(p)
    PROVE  Facts'
<1>1. VouchesForItsList' /\ HasItsZone' /\ DownPodsRest'
  BY DEF IInv, TypeOK, Facts, VouchesForItsList, HasItsZone, DownPodsRest,
     Up, Start, Loaded,
      dataVars, objectVars, history
<1>2. ASSUME ~overwritten' PROVE Backed'
  BY <1>2
  DEF IInv, TypeOK, Facts, Backed, Agrees, Up, Start, Loaded,
      dataVars, objectVars, history
<1>. QED
  BY <1>1, <1>2 DEF Facts

\* A crash takes the copies and the call of the pod away.
LEMMA CrashKeeps ==
    ASSUME IInv, NEW p \in Pods, Crash(p)
    PROVE  Facts'
<1>1. VouchesForItsList' /\ HasItsZone' /\ DownPodsRest'
  BY DEF IInv, TypeOK, Facts, VouchesForItsList, HasItsZone, DownPodsRest,
     Up, Crash, IdleCall,
      dataVars, objectVars, history
<1>2. ASSUME ~overwritten' PROVE Backed'
  BY <1>2
  DEF IInv, TypeOK, Facts, Backed, Agrees, Up, Crash, IdleCall,
      dataVars, objectVars, history
<1>. QED
  BY <1>1, <1>2 DEF Facts

\* A new instance loads what is in the object.
LEMMA SetUpReloadKeeps ==
    ASSUME IInv, NEW p \in Pods, SetUpReload(p)
    PROVE  Facts'
<1>1. VouchesForItsList' /\ HasItsZone' /\ DownPodsRest'
  BY DEF IInv, TypeOK, Facts, VouchesForItsList, HasItsZone, DownPodsRest,
     Up, SetUpReload, Loaded,
      dataVars, objectVars, history
<1>2. ASSUME ~overwritten' PROVE Backed'
  BY <1>2
  DEF IInv, TypeOK, Facts, Backed, Agrees, Up, SetUpReload, Loaded,
      dataVars, objectVars, history
<1>. QED
  BY <1>1, <1>2 DEF Facts

\* The instance that takes over is no later than what it was set up with, and
\* the call of the old one goes on with the records it has.
LEMMA TakeOverKeeps ==
    ASSUME IInv, NEW p \in Pods, TakeOver(p)
    PROVE  Facts'
<1>1. \A q \in Pods :
         /\ call'[q].step = call[q].step /\ call'[q].rrs = call[q].rrs
         /\ call'[q].late = call[q].late /\ call'[q].kept = call[q].kept
         /\ call'[q].gone = call[q].gone
         /\ q # p => call'[q].replaced = call[q].replaced
         /\ q = p /\ call[q].step # "idle" => call'[q].replaced
  BY DEF IInv, TypeOK, Calls, TakeOver
<1>2. VouchesForItsList' /\ DownPodsRest'
  BY <1>1
  DEF IInv, TypeOK, Facts, TakeOver, VouchesForItsList, DownPodsRest, Up
<1>3. HasItsZone'
  BY <1>1 DEF IInv, TypeOK, Facts, TakeOver, HasItsZone
<1>4. ASSUME ~overwritten' PROVE Backed'
  BY <1>4
  DEF IInv, TypeOK, Facts, Backed, Agrees, Up, TakeOver, dataVars, objectVars,
      history
<1>. QED
  BY <1>2, <1>3, <1>4 DEF Facts

\* Set-ups that fail, the election and probes touch no copy that serves.
LEMMA QuietKeeps ==
    ASSUME IInv, NEW p \in Pods,
           ReloadFails(p) \/ Acquire(p) \/ LoseLease(p) \/ Probe(p)
    PROVE  Facts'
<1>1. UNCHANGED <<zone, call, object, kept, gone, overwritten>>
  BY DEF ReloadFails, Acquire, LoseLease, Probe, dataVars, objectVars, history
<1>2. \A q \in Pods : Up(q)' = Up(q)
  BY DEF IInv, TypeOK, Roles, ReloadFails, Acquire, LoseLease, Probe, Up
<1>3. \A q \in Pods : coming'[q] \in {coming[q], None}
  BY DEF IInv, TypeOK, ReloadFails, Acquire, LoseLease, Probe
<1>4. \A q \in Pods : q \in routed' => q \in routed \/ Up(q)
  BY DEF ReloadFails, Acquire, LoseLease, Probe
<1>5. VouchesForItsList' /\ HasItsZone' /\ DownPodsRest'
  BY <1>1, <1>2, <1>4
  DEF IInv, Facts, VouchesForItsList, HasItsZone, DownPodsRest
<1>6. ASSUME ~overwritten' PROVE Backed'
  BY <1>1, <1>2, <1>3, <1>6 DEF IInv, Facts, Backed, Agrees
<1>. QED
  BY <1>5, <1>6 DEF Facts

\* The controller replaces the static zone only.
LEMMA ReconcileKeeps ==
    ASSUME IInv, NEW p \in Pods, Reconcile(p)
    PROVE  Facts'
<1>1. UNCHANGED <<role, routed, coming, call, object, kept, gone, overwritten>>
  BY DEF Reconcile, dataVars, objectVars, history
<1>2. \A q \in Pods :
         zone'[q].rrs = zone[q].rrs /\ zone'[q].late = zone[q].late
  BY DEF IInv, TypeOK, Copies, Reconcile
<1>3. VouchesForItsList' /\ HasItsZone' /\ DownPodsRest'
  BY <1>1, <1>2
  DEF IInv, Facts, VouchesForItsList, HasItsZone, DownPodsRest, Up
<1>4. ASSUME ~overwritten' PROVE Backed'
  BY <1>1, <1>2, <1>4 DEF IInv, Facts, Backed, Agrees, Up
<1>. QED
  BY <1>3, <1>4 DEF Facts

\* An update changes the memory of its pod, and nobody vouches any longer for
\* what it changes there, so that all copies agree with what is left.
LEMMA ApplyKeeps ==
    ASSUME IInv, NEW p \in Pods, NEW inserted \in SUBSET RRs,
           NEW removed \in SUBSET RRs, Apply(p, inserted, removed)
    PROVE  Facts'
<1>. DEFINE rrs == (zone[p].rrs \cup inserted) \ removed
<1>1. /\ UNCHANGED <<role, routed, coming, object, overwritten>>
      /\ kept' = kept \ removed /\ gone' = gone \ inserted
      /\ p \in routed
  BY DEF Apply, objectVars
<1>2. \A q \in Pods :
         /\ zone'[q].late = zone[q].late
         /\ q = p => zone'[q].rrs = rrs
         /\ q # p => zone'[q].rrs = zone[q].rrs
  BY DEF IInv, TypeOK, Copies, Apply
<1>3. /\ call'[p].step = "save" /\ call'[p].rrs = rrs
      /\ call'[p].late = zone[p].late /\ call'[p].kept = rrs
      /\ call'[p].gone = RRs \ rrs
  BY DEF Apply
<1>4. \A q \in Pods : q # p =>
         /\ call'[q].step = call[q].step /\ call'[q].rrs = call[q].rrs
         /\ call'[q].late = call[q].late
         /\ call'[q].replaced = call[q].replaced
         /\ call'[q].kept = call[q].kept \ removed
         /\ call'[q].gone = call[q].gone \ inserted
  <2>1. ASSUME NEW q \in Pods, q # p
        PROVE  /\ call[q] \in Calls
               /\ call'[q] = [call[q] EXCEPT !.kept = call[q].kept \ removed,
                                             !.gone = call[q].gone \ inserted]
    BY <2>1 DEF IInv, TypeOK, Apply
  <2>. QED
    BY <2>1 DEF Calls
<1>5. VouchesForItsList'
  BY <1>3, <1>4 DEF IInv, Facts, VouchesForItsList
<1>6. HasItsZone'
  <2>1. call'[p].rrs = zone'[p].rrs
    BY <1>2, <1>3
  <2>2. ASSUME NEW q \in Pods, q # p, call'[q].step = "save", ~call'[q].replaced
        PROVE  call'[q].rrs = zone'[q].rrs
    BY <1>2, <1>4, <2>2 DEF IInv, Facts, HasItsZone
  <2>. QED
    BY <2>1, <2>2 DEF HasItsZone
<1>7. DownPodsRest'
  BY <1>1, <1>4 DEF IInv, Facts, DownPodsRest, Up
<1>8. \A c : Agrees(c) =>
         Agrees(c)' /\ Agrees((c \cup inserted) \ removed)'
  BY <1>1, <1>3, <1>4 DEF Agrees
<1>9. ASSUME ~overwritten' PROVE Backed'
  <2>1. Backed /\ Up(p)
    BY <1>1, <1>9 DEF IInv, Facts, DownPodsRest
  <2>2. ASSUME ~zone[p].late PROVE Agrees(zone[p].rrs)'
    <3>1. PICK c : c = zone[p].rrs
      OBVIOUS
    <3>2. Agrees((c \cup inserted) \ removed)'
      BY <1>8, <2>1, <2>2, <3>1 DEF Backed
    <3>3. zone'[p].rrs = (c \cup inserted) \ removed
      BY <1>2, <3>1
    <3>. QED
      BY <3>2, <3>3 DEF Agrees
  <2>3. Agrees(object)'
    <3>1. PICK c : c = object
      OBVIOUS
    <3>. QED
      BY <1>1, <1>8, <2>1, <3>1 DEF Backed, Agrees
  <2>4. ASSUME NEW q \in Pods, Up(q)', ~zone'[q].late
        PROVE  Agrees(zone[q].rrs)'
    <3>1. PICK c : c = zone[q].rrs
      OBVIOUS
    <3>2. Up(q) /\ ~zone[q].late
      BY <1>1, <1>2, <2>4 DEF Up
    <3>3. Agrees(c)'
      BY <1>8, <2>1, <3>1, <3>2 DEF Backed
    <3>. QED
      BY <1>2, <2>2, <3>1, <3>2, <3>3 DEF Agrees
  <2>5. ASSUME NEW q \in Pods, coming'[q] # None, ~coming'[q].late
        PROVE  Agrees(coming[q].rrs)'
    <3>1. PICK c : c = coming[q].rrs
      OBVIOUS
    <3>2. coming' = coming
      BY <1>1
    <3>3. coming[q] # None /\ ~coming[q].late
      BY <2>5, <3>2
    <3>4. Agrees(coming[q].rrs)
      BY <2>1, <3>3 DEF Backed
    <3>5. Agrees(c)'
      BY <1>8, <3>1, <3>4
    <3>. QED
      BY <3>1, <3>2, <3>5 DEF Agrees
  <2>6. ASSUME NEW q \in Pods, call'[q].step = "save", ~call'[q].late
        PROVE  Agrees(call[q].rrs)'
    <3>1. CASE q = p
      <4>1. ~zone[p].late /\ call'[q].rrs = zone'[p].rrs
        BY <1>2, <1>3, <2>6, <3>1
      <4>. QED
        BY <2>2, <4>1 DEF Agrees
    <3>2. CASE q # p
      <4>1. PICK c : c = call[q].rrs
        OBVIOUS
      <4>2. Agrees(c)'
        BY <1>4, <1>8, <2>1, <2>6, <3>2, <4>1 DEF Backed
      <4>. QED
        BY <1>4, <3>2, <4>1, <4>2 DEF Agrees
    <3>. QED
      BY <3>1, <3>2
  <2>. QED
    BY <2>3, <2>4, <2>5, <2>6 DEF Backed
<1>. QED
  BY <1>5, <1>6, <1>7, <1>9 DEF Facts

\* A save that reaches the object: its list is late and changes nothing, or
\* agrees with every acknowledgement, and all copies but its own are late.
LEMMA CommitKeeps ==
    ASSUME IInv, NEW p \in Pods, call[p].step = "save", Commit(p),
           UNCHANGED <<role, routed, kept, gone>>,
           call'[p].step \in {"idle", "reply"},
           call'[p].step = "reply" =>
               call'[p].kept = call[p].kept /\ call'[p].gone = call[p].gone,
           \A q \in Pods \ {p} : call'[q] = Overtaken(p)[q]
    PROVE  Facts'
<1>1. \A q \in Pods : q # p =>
         /\ call'[q].step = call[q].step /\ call'[q].rrs = call[q].rrs
         /\ call'[q].replaced = call[q].replaced
         /\ call'[q].kept = call[q].kept /\ call'[q].gone = call[q].gone
         /\ call'[q].step = "save" => call'[q].late
  <2>1. ASSUME NEW q \in Pods, q # p
        PROVE  /\ call[q] \in Calls
               /\ call'[q] = IF call[q].step = "idle" THEN call[q]
                             ELSE [call[q] EXCEPT !.late = TRUE]
    BY <2>1 DEF IInv, TypeOK, Overtaken
  <2>. QED
    BY <2>1 DEF Calls
<1>2. \A q \in Pods :
         /\ zone'[q].rrs = zone[q].rrs
         /\ Up(q) /\ ~zone'[q].late =>
               q = p /\ ~call[p].replaced /\ ~zone[p].late
  BY DEF IInv, TypeOK, Copies, Commit
<1>3. \A q \in Pods : coming'[q] # None => coming'[q].late
  BY DEF IInv, TypeOK, Copies, Commit
<1>4. VouchesForItsList' /\ HasItsZone' /\ DownPodsRest'
  BY <1>1, <1>2
  DEF IInv, Facts, VouchesForItsList, HasItsZone, DownPodsRest, Up
<1>5. ASSUME ~overwritten' PROVE Backed'
  <2>1. Backed /\ (~call[p].late \/ call[p].rrs = object)
    BY <1>5 DEF IInv, Facts, Commit
  <2>2. Agrees(call[p].rrs)
    BY <2>1 DEF Backed
  <2>3. call[p].kept \subseteq call[p].rrs /\ call[p].gone \cap call[p].rrs = {}
    BY DEF IInv, Facts, VouchesForItsList
  <2>4. \A c : Agrees(c) /\ call[p].kept \subseteq c
               /\ call[p].gone \cap c = {} => Agrees(c)'
    BY <1>1 DEF Agrees
  <2>5. PICK c : c = call[p].rrs
    OBVIOUS
  <2>6. Agrees(c)'
    BY <2>2, <2>3, <2>4, <2>5
  <2>7. Agrees(object)'
    BY <2>5, <2>6 DEF Commit, Agrees
  <2>8. ASSUME NEW q \in Pods, Up(q)', ~zone'[q].late
        PROVE  Agrees(zone[q].rrs)'
    <3>1. q = p /\ ~call[p].replaced
      BY <1>2, <2>8 DEF Up
    <3>2. zone'[q].rrs = c
      BY <1>2, <2>5, <3>1 DEF IInv, Facts, HasItsZone
    <3>. QED
      BY <2>6, <3>2 DEF Agrees
  <2>. QED
    BY <1>1, <1>3, <2>7, <2>8 DEF Backed
<1>. QED
  BY <1>4, <1>5 DEF Facts

\* A call that fails vouches for nothing any more.
LEMMA CallFailsKeeps ==
    ASSUME IInv, NEW p \in Pods, CallFails(p)
    PROVE  Facts'
<1>1. VouchesForItsList' /\ HasItsZone' /\ DownPodsRest'
  BY DEF IInv, TypeOK, Facts, VouchesForItsList, HasItsZone, DownPodsRest,
     Up, CallFails,
      IdleCall, podVars, dataVars, objectVars, history
<1>2. ASSUME ~overwritten' PROVE Backed'
  BY <1>2
  DEF IInv, TypeOK, Facts, Backed, Agrees, Up, CallFails,
      IdleCall, podVars, dataVars, objectVars, history
<1>. QED
  BY <1>1, <1>2 DEF Facts

\* A reply vouches for what all copies that miss nothing agree with.
LEMMA ReplyKeeps ==
    ASSUME IInv, NEW p \in Pods, Reply(p)
    PROVE  Facts'
<1>1. VouchesForItsList' /\ HasItsZone' /\ DownPodsRest'
  BY DEF IInv, TypeOK, Facts, VouchesForItsList, HasItsZone, DownPodsRest,
     Up, Reply,
      IdleCall, podVars, objectVars
<1>2. ASSUME ~overwritten' PROVE Backed'
  BY <1>2
  DEF IInv, TypeOK, Facts, Backed, Agrees, Up, Reply,
      IdleCall, podVars, objectVars
<1>. QED
  BY <1>1, <1>2 DEF Facts

\* Steps of nobody's pod.
LEMMA ElsewhereKeeps ==
    ASSUME IInv,
           \/ ExpireLease \/ EditSpec \/ UNCHANGED vars
           \/ \E o \in Others : OtherAcquires(o) \/ OtherExpires(o)
    PROVE  Facts'
<1>1. /\ UNCHANGED <<role, zone, coming, routed, call>>
      /\ UNCHANGED <<object, kept, gone, overwritten>>
  BY DEF ExpireLease, EditSpec, OtherAcquires, OtherExpires, vars, podVars,
     dataVars, objectVars, history
<1>2. VouchesForItsList' /\ HasItsZone' /\ DownPodsRest'
  BY <1>1
  DEF IInv, Facts, VouchesForItsList, HasItsZone, DownPodsRest, Up
<1>3. ASSUME ~overwritten' PROVE Backed'
  BY <1>1, <1>3 DEF IInv, Facts, Backed, Agrees, Up
<1>. QED
  BY <1>2, <1>3 DEF Facts

LEMMA FactsPreserved == IInv /\ [Next]_vars => Facts'
<1>. SUFFICES ASSUME IInv, [Next]_vars PROVE Facts'
  OBVIOUS
<1>1. ASSUME NEW p \in Pods, Instance(p) PROVE Facts'
  BY <1>1, StartKeeps, CrashKeeps, SetUpReloadKeeps, TakeOverKeeps,
     QuietKeeps, ReconcileKeeps DEF Instance
<1>2. ASSUME NEW p \in Pods, UpdateStatus(p) PROVE Facts'
  <2>1. /\ call[p].step = "save" /\ Commit(p)
        /\ UNCHANGED <<role, routed, kept, gone>>
        /\ call'[p].step = "reply"
        /\ call'[p].kept = call[p].kept /\ call'[p].gone = call[p].gone
        /\ \A q \in Pods \ {p} : call'[q] = Overtaken(p)[q]
    BY <1>2 DEF IInv, TypeOK, Calls, UpdateStatus, Overtaken
  <2>. QED
    BY <2>1, CommitKeeps
<1>3. ASSUME NEW p \in Pods, AnswerLost(p) PROVE Facts'
  <2>1. /\ call[p].step = "save" /\ Commit(p)
        /\ UNCHANGED <<role, routed, kept, gone>>
        /\ call'[p].step = "idle"
        /\ \A q \in Pods \ {p} : call'[q] = Overtaken(p)[q]
    BY <1>3 DEF IInv, TypeOK, Calls, AnswerLost, Overtaken, IdleCall
  <2>. QED
    BY <2>1, CommitKeeps
<1>4. ASSUME NEW p \in Pods, Update(p) PROVE Facts'
  <2>1. ASSUME NEW rr \in RRs, Insert(p, rr) \/ Remove(p, rr) PROVE Facts'
    BY <2>1, ApplyKeeps DEF Insert, Remove
  <2>2. CASE Touch(p)
    BY <2>2, ApplyKeeps DEF Touch
  <2>. QED
    BY <1>2, <1>3, <1>4, <2>1, <2>2, CallFailsKeeps, ReplyKeeps DEF Update
<1>. QED
  BY <1>1, <1>4, ElsewhereKeeps DEF Next

LEMMA Invariance == Spec => []IInv
<1>1. Init => IInv
  BY InitTypes, InitFacts DEF IInv
<1>2. IInv /\ [Next]_vars => IInv'
  BY TypesPreserved, FactsPreserved DEF IInv
<1>. QED
  BY <1>1, <1>2, PTL DEF Spec

\* Unless a copy that had missed a save is saved over it, what acknowledged
\* updates left in the object stays there and what they took out stays out,
\* whichever pods lead, reload, crash or fail half-way.
THEOREM OnlyLateSavesLoseUpdates == Spec => []OnlyLateSavesLose
<1>1. IInv => OnlyLateSavesLose
  BY DEF IInv, Facts, Backed, Agrees, OnlyLateSavesLose
<1>. QED
  BY <1>1, Invariance, PTL

\* Till then, a pod whose copy has missed no save serves what was acknowledged.
THEOREM CurrentCopiesServe == Spec => []LateUnlessServed
<1>1. IInv => LateUnlessServed
  BY DEF IInv, Facts, Backed, Agrees, LateUnlessServed
<1>. QED
  BY <1>1, Invariance, PTL

\* Till then, the object has what each pending reply is going to vouch for.
THEOREM PendingRepliesAreBacked == Spec => []RepliesAreBacked
<1>1. IInv => RepliesAreBacked
  BY DEF IInv, Facts, Backed, Agrees, RepliesAreBacked
<1>. QED
  BY <1>1, Invariance, PTL
-----------------------------------------------------------------------------
(* When nothing is ever saved from a late copy.                            *)

\* Until the first fault one pod is elected, it alone takes updates, and its
\* copy misses nothing; the others load the zone and wait.
OneLeader ==
    /\ ~overwritten
    /\ \A p \in Pods : coming[p] = None /\ role[p] # "deposed"
    /\ \A p \in Pods : role[p] = "leading" => holder = p /\ ~zone[p].late
    /\ \A p \in Pods : zone[p].late => \E q \in Pods : role[q] = "leading"
    /\ \A p \in routed : role[p] = "leading"
    /\ \A p \in Pods :
         call[p].step # "idle" =>
             role[p] = "leading" /\ ~call[p].late /\ ~call[p].replaced

FaultFree == faults \in Nat /\ (faults = 0 => OneLeader)

LEMMA InitFaultFree == Init => FaultFree
<1>. SUFFICES ASSUME Init PROVE FaultFree
  OBVIOUS
<1>1. \A p \in Pods : ~zone[p].late /\ role[p] = "down" /\ call[p].step = "idle"
  BY DEF Init, NoCopy, IdleCall
<1>. QED
  BY <1>1 DEF Init, FaultFree, OneLeader

\* A save from a copy that misses nothing, by the only pod that takes updates.
LEMMA CommitKeepsLeader ==
    ASSUME TypeOK, OneLeader, NEW p \in Pods, call[p].step = "save", Commit(p),
           UNCHANGED <<role, routed, holder>>,
           call' = [Overtaken(p) EXCEPT ![p].step = "reply"]
             \/ call' = [Overtaken(p) EXCEPT ![p] = IdleCall]
    PROVE  OneLeader'
<1>1. /\ role[p] = "leading" /\ ~call[p].late /\ ~call[p].replaced
      /\ call[p] \in Calls
  BY DEF TypeOK, OneLeader
<1>2. \A q \in Pods : q # p => role[q] # "leading" /\ call[q].step = "idle"
  BY <1>1 DEF OneLeader
<1>3. ~overwritten'
  BY <1>1 DEF OneLeader, Commit
<1>4. \A q \in Pods : coming'[q] = None
  BY DEF OneLeader, Commit
<1>5. zone'[p].late = zone[p].late
  BY <1>1 DEF TypeOK, Commit, Copies
<1>6. \A q \in Pods : q # p => call'[q] = call[q]
  BY <1>2 DEF TypeOK, Overtaken
<1>7. call'[p].late = call[p].late \/ call'[p] = IdleCall
  BY <1>1 DEF Overtaken, Calls
<1>8. call'[p].replaced = call[p].replaced \/ call'[p] = IdleCall
  BY <1>1 DEF Overtaken, Calls
<1>. QED
  BY <1>1, <1>2, <1>3, <1>4, <1>5, <1>6, <1>7, <1>8 DEF OneLeader, IdleCall

LEMMA ApplyKeepsLeader ==
    ASSUME TypeOK, OneLeader, NEW p \in Pods, NEW inserted \in SUBSET RRs,
           NEW removed \in SUBSET RRs, Apply(p, inserted, removed)
    PROVE  OneLeader'
<1>1. role[p] = "leading" /\ ~zone[p].late
  BY DEF OneLeader, Apply
<1>2. \A q \in Pods : zone'[q].late = zone[q].late
  BY DEF TypeOK, Copies, Apply
<1>3. ~call'[p].late /\ ~call'[p].replaced
  BY <1>1 DEF Apply
<1>4. ASSUME NEW q \in Pods, q # p
      PROVE  /\ call'[q].step = call[q].step /\ call'[q].late = call[q].late
             /\ call'[q].replaced = call[q].replaced
  BY <1>4 DEF TypeOK, Calls, Apply
<1>. QED
  BY <1>1, <1>2, <1>3, <1>4 DEF OneLeader, Apply

LEMMA StepFaultFree == TypeOK /\ FaultFree /\ [Next]_vars => FaultFree'
<1>. SUFFICES ASSUME TypeOK, FaultFree, [Next]_vars PROVE FaultFree'
  OBVIOUS
<1>. USE DEF podVars, dataVars, objectVars, history, counters
<1>1. ASSUME Fault PROVE FaultFree'
  BY <1>1 DEF Fault, FaultFree
<1>2. SUFFICES ASSUME faults' = faults, faults = 0 PROVE OneLeader'
  <2>1. Fault \/ faults' = faults
    BY DEF Next, Instance, Update, vars, Start, Crash, SetUpReload, TakeOver,
           ReloadFails, Acquire, LoseLease, Probe, Reconcile, Insert, Remove, Touch,
           Apply, UpdateStatus, CallFails, AnswerLost, Reply, OtherAcquires,
           OtherExpires, ExpireLease, EditSpec
  <2>. QED
    BY <1>1, <1>2, <2>1 DEF FaultFree
<1>. OneLeader /\ ~Fault
  BY <1>2 DEF FaultFree, Fault
<1>3. ASSUME NEW p \in Pods, Start(p) \/ Acquire(p) \/ Probe(p) \/ Reconcile(p)
      PROVE  OneLeader'
  <2>1. CASE Start(p)
    <3>1. role[p] = "down" /\ role'[p] = "standby" /\ ~zone'[p].late
      BY <2>1 DEF TypeOK, Start, Up, Loaded
    <3>2. \A q \in Pods : q # p => role'[q] = role[q] /\ zone'[q] = zone[q]
      BY <2>1 DEF TypeOK, Start
    <3>3. \A q \in Pods : role[q] = "leading" => q # p /\ role'[q] = "leading"
      BY <3>1, <3>2
    <3>4. /\ ~overwritten' /\ \A q \in Pods : coming'[q] = None
          /\ UNCHANGED <<holder, routed, call>>
      BY <2>1 DEF OneLeader, Start
    <3>. QED
      BY <3>1, <3>2, <3>3, <3>4 DEF TypeOK, OneLeader
  <2>2. CASE Acquire(p)
    <3>1. \A q \in Pods : role[q] # "leading"
      BY <2>2, LeaseAssumption DEF OneLeader, Acquire
    <3>2. \A q \in Pods : call[q].step = "idle" /\ q \notin routed
      BY <3>1 DEF OneLeader
    <3>3. ~zone[p].late
      BY <3>1 DEF OneLeader
    <3>. QED
      BY <2>2, <3>1, <3>2, <3>3 DEF TypeOK, OneLeader, Acquire
  <2>3. CASE Probe(p)
    BY <2>3 DEF TypeOK, OneLeader, Probe, Ready
  <2>4. CASE Reconcile(p)
    <3>1. \A q \in Pods : zone'[q].late = zone[q].late
      BY <2>4 DEF TypeOK, Copies, Reconcile
    <3>. QED
      BY <2>4, <3>1 DEF OneLeader, Reconcile
  <2>. QED
    BY <1>3, <2>1, <2>2, <2>3, <2>4
<1>4. ASSUME NEW p \in Pods, TakeOver(p) \/ ReloadFails(p)
      PROVE  FALSE
  BY <1>4 DEF OneLeader, TakeOver, ReloadFails
<1>5. ASSUME NEW p \in Pods, NEW rr \in RRs, Insert(p, rr) \/ Remove(p, rr)
      PROVE  OneLeader'
  BY <1>5, ApplyKeepsLeader DEF Insert, Remove
<1>6. ASSUME NEW p \in Pods, Touch(p) PROVE OneLeader'
  BY <1>6, ApplyKeepsLeader DEF Touch
<1>7. ASSUME NEW p \in Pods, UpdateStatus(p) \/ AnswerLost(p) PROVE OneLeader'
  BY <1>7, CommitKeepsLeader DEF UpdateStatus, AnswerLost
<1>8. ASSUME NEW p \in Pods, CallFails(p) \/ Reply(p) PROVE OneLeader'
  <2>1. \A q \in Pods : call'[q] = call[q] \/ call'[q] = IdleCall
    BY <1>8 DEF TypeOK, CallFails, Reply
  <2>. QED
    BY <1>8, <2>1 DEF OneLeader, CallFails, Reply, IdleCall
<1>9. CASE ExpireLease \/ \E o \in Others : OtherExpires(o)
  <2>1. \A q \in Pods : role[q] # "leading"
    BY <1>9, LeaseAssumption DEF OneLeader, ExpireLease, OtherExpires
  <2>. QED
    BY <1>9, <2>1 DEF OneLeader, ExpireLease, OtherExpires
<1>10. CASE EditSpec \/ UNCHANGED vars
  BY <1>10 DEF OneLeader, EditSpec, vars
<1>11. \A p \in Pods : ~Crash(p) /\ ~SetUpReload(p) /\ ~LoseLease(p)
  BY DEF Crash, SetUpReload, LoseLease
<1>12. \A o \in Others : ~OtherAcquires(o)
  BY DEF OtherAcquires
<1>. QED
  BY <1>3, <1>4, <1>5, <1>6, <1>7, <1>8, <1>9, <1>10, <1>11, <1>12
  DEF Next, Instance, Update

\* ZupdFailover, NoLossWithoutFault: however many pods run, and whatever their
\* calls and status writes come to, what was acknowledged is there as long as
\* no pod crashes, reloads or loses its lease and no other program has it.
THEOREM NothingLostWithoutFault == Spec => []NoLossWithoutFault
<1>1. IInv /\ FaultFree => NoLossWithoutFault
  BY DEF IInv, Facts, Backed, Agrees, FaultFree, OneLeader, NoLossWithoutFault
<1>2. IInv => TypeOK
  BY DEF IInv
<1>. QED
  BY <1>1, <1>2, InitFaultFree, StepFaultFree, Invariance, PTL DEF Spec

\* One process at a time, whose Corefile does not change.
OnePod == Reloading = {} /\ \A p, q \in Pods : p = q

\* Nothing that such a process has, or is about to save, misses a save.
NeverLate ==
    /\ ~overwritten
    /\ \A p \in Pods : coming[p] = None /\ ~zone[p].late
    /\ \A p \in Pods : ~call[p].late /\ ~call[p].replaced

LEMMA StepNeverLate ==
    ASSUME OnePod, TypeOK, NeverLate, [Next]_vars
    PROVE  NeverLate'
<1>. USE DEF podVars, dataVars, objectVars, history, counters
<1>1. ASSUME NEW p \in Pods, Start(p) \/ Crash(p) \/ Acquire(p) \/ LoseLease(p) \/ Probe(p)
      PROVE  NeverLate'
  BY <1>1
  DEF TypeOK, NeverLate, Start, Crash, Acquire, LoseLease, Probe, Loaded, NoCopy, IdleCall
<1>2. ASSUME NEW p \in Pods, SetUpReload(p) \/ TakeOver(p) \/ ReloadFails(p)
      PROVE  FALSE
  BY <1>2 DEF OnePod, NeverLate, SetUpReload, TakeOver, ReloadFails
<1>3. ASSUME NEW p \in Pods, Reconcile(p) PROVE NeverLate'
  <2>1. \A q \in Pods : zone'[q].late = zone[q].late
    BY <1>3 DEF TypeOK, Copies, Reconcile
  <2>. QED
    BY <1>3, <2>1 DEF NeverLate, Reconcile
<1>4. ASSUME NEW p \in Pods, NEW inserted \in SUBSET RRs, NEW removed \in SUBSET RRs,
             Apply(p, inserted, removed)
      PROVE  NeverLate'
  <2>1. \A q \in Pods : zone'[q].late = zone[q].late
    BY <1>4 DEF TypeOK, Copies, Apply
  <2>2. ~call'[p].late /\ ~call'[p].replaced
    BY <1>4 DEF NeverLate, Apply
  <2>. QED
    BY <1>4, <2>1, <2>2 DEF OnePod, NeverLate, Apply
<1>5. ASSUME NEW p \in Pods, UpdateStatus(p) \/ AnswerLost(p) PROVE NeverLate'
  <2>1. Commit(p) /\ call[p] \in Calls
    BY <1>5 DEF TypeOK, UpdateStatus, AnswerLost
  <2>2. ~overwritten' /\ \A q \in Pods : coming'[q] = None
    BY <2>1 DEF NeverLate, Commit
  <2>3. ~zone'[p].late
    BY <2>1 DEF TypeOK, Copies, NeverLate, Commit
  <2>4. ~call'[p].late /\ ~call'[p].replaced
    BY <1>5, <2>1 DEF TypeOK, Calls, NeverLate, UpdateStatus, AnswerLost, Overtaken, IdleCall
  <2>. QED
    BY <2>2, <2>3, <2>4 DEF OnePod, NeverLate
<1>6. ASSUME NEW p \in Pods, CallFails(p) \/ Reply(p) PROVE NeverLate'
  BY <1>6 DEF TypeOK, NeverLate, CallFails, Reply, IdleCall
<1>7. ASSUME \/ ExpireLease \/ EditSpec \/ UNCHANGED vars
             \/ \E o \in Others : OtherAcquires(o) \/ OtherExpires(o)
      PROVE  NeverLate'
  BY <1>7 DEF NeverLate, ExpireLease, EditSpec, OtherAcquires, OtherExpires, vars
<1>8. ASSUME NEW p \in Pods, Update(p) PROVE NeverLate'
  <2>1. ASSUME NEW rr \in RRs, Insert(p, rr) \/ Remove(p, rr) PROVE NeverLate'
    BY <1>4, <2>1 DEF Insert, Remove
  <2>2. CASE Touch(p)
    BY <1>4, <2>2 DEF Touch
  <2>. QED
    BY <1>5, <1>6, <1>8, <2>1, <2>2 DEF Update
<1>. QED
  BY <1>1, <1>2, <1>3, <1>7, <1>8 DEF Next, Instance

\* ZupdFailover, AckedRecordsSaved: with one process at a time, and no second
\* instance of it from a reload, an acknowledged record stays saved through
\* every crash, lost lease and failed write.
THEOREM OnePodLosesNothing ==
    ASSUME OnePod
    PROVE  Spec => []AckedRecordsSaved
<1>1. Init => NeverLate
  BY DEF Init, NeverLate, NoCopy, IdleCall
<1>2. TypeOK /\ NeverLate /\ [Next]_vars => NeverLate'
  BY StepNeverLate
<1>3. IInv /\ NeverLate => AckedRecordsSaved
  BY DEF IInv, Facts, Backed, Agrees, NeverLate, AckedRecordsSaved
<1>. QED
  BY <1>1, <1>2, <1>3, FailoverTypes, Invariance, PTL DEF Spec
=============================================================================
