------------------------- MODULE ZoneTransferProofs -------------------------
(***************************************************************************)
(* What the serials of ZoneTransfer tell the secondaries, for any number   *)
(* of handlers and secondaries, any clock, any serials in the spec and all *)
(* bounds.  The invariants never look into serial arithmetic: they hold    *)
(* for every relation in the place of Later.  Two theorems about Later     *)
(* itself say when serials of the clock are later ones.                    *)
(***************************************************************************)
EXTENDS ZoneTransfer, TLAPS

\* A transfer that is being sent has the dynamic zone of now, or a serial is
\* set after it was read, or is still to be set.
SentIsCurrent ==
    \A s \in Secondaries :
        orderly /\ xfer[s].step = "send" /\ s \notin overtaken =>
            (xfer[s].dyn = dyn \/ Pending # {})

\* Transfers have the SOA record of a static zone that was loaded.
RecordsExist == \A s \in Secondaries : xfer[s].record <= static.record

\* A transfer that is under way brings a later serial, whenever it is sent.
TransfersMoveOn ==
    \A s \in Secondaries :
        orderly /\ xfer[s].step # "idle" /\ copy[s] # NoCopy =>
            Later(copy[s].serial, soa[xfer[s].record])

Facts ==
    /\ SentIsCurrent
    /\ RecordsExist
    /\ TransfersMoveOn
    /\ SeesChanges

IInv == TypeOK /\ Facts
-----------------------------------------------------------------------------
(* Types.                                                                  *)

\* A remainder is a serial.
LEMMA SerialOfClock ==
    ASSUME NEW n \in Nat
    PROVE  n % Modulus \in Serials
BY SerialsAssumption DEF Serials

LEMMA IdleTypes ==
    /\ IdleCall \in Calls
    /\ IdleXfer \in Transfers
    /\ 0 \in Versions /\ 0 \in Records /\ 0 \in 0..MaxEdits
    /\ 0 \in Serials /\ 0 \in 0..MaxFaults
<1>1. /\ 0 \in Versions /\ 0 \in Records /\ 0 \in 0..MaxEdits
      /\ 0 \in Serials /\ 0 \in 0..MaxFaults
  BY SerialsAssumption, BoundsAssumption DEF Versions, Records, Serials
<1>. QED
  BY <1>1 DEF IdleCall, IdleXfer, HandlerSteps, Calls, Transfers

LEMMA InitTypes == Init => TypeOK
BY IdleTypes, SerialsAssumption DEF Init, TypeOK

\* A static zone that is loaded has its own SOA record, with the spec's serial.
LEMMA LoadTypes ==
    ASSUME TypeOK, Load
    PROVE  /\ static' \in [version : 0..MaxEdits, record : Records]
           /\ soa' \in [Records -> Serials]
           /\ notified' \subseteq Targets
<1>1. static.record + 1 \in Records
  BY BoundsAssumption DEF TypeOK, Load, Records
<1>2. spec.serial \in Serials /\ spec.version \in 0..MaxEdits
  BY SerialsAssumption DEF TypeOK
<1>. QED
  BY <1>1, <1>2 DEF TypeOK, Load, SendNotify

LEMMA StepTypes ==
    ASSUME TypeOK, NEW h \in Handlers, NEW step \in HandlerSteps, Goto(h, step)
    PROVE  call' \in [Handlers -> Calls]
<1>1. [call[h] EXCEPT !.step = step] \in Calls
  BY DEF TypeOK, Calls
<1>. QED
  BY <1>1 DEF TypeOK, Goto

LEMMA TypesPreserved == TypeOK /\ [Next]_vars => TypeOK'
<1>. SUFFICES ASSUME TypeOK, [Next]_vars PROVE TypeOK'
  OBVIOUS
<1>. USE DEF primary, zoneVars, secondary, history
<1>1. ASSUME NEW h \in Handlers, Receive(h) PROVE TypeOK'
  <2>1. made' \in Versions
    BY <1>1, BoundsAssumption DEF TypeOK, Receive, Versions
  <2>2. now' \in Serials
    <3>1. PICK d \in Delays : now' = (now + d) % Modulus
      BY <1>1 DEF Receive
    <3>2. now + d \in Nat
      BY SerialsAssumption DEF TypeOK, Serials
    <3>. QED
      BY <3>1, <3>2, SerialOfClock
  <2>3. call' \in [Handlers -> Calls]
    <3>1. [step |-> "lock", dyn |-> made', serial |-> now', record |-> 0] \in Calls
      BY <2>1, <2>2, IdleTypes DEF Calls, HandlerSteps
    <3>. QED
      BY <1>1, <3>1 DEF TypeOK, Receive
  <2>. QED
    BY <1>1, <2>1, <2>2, <2>3 DEF TypeOK, Receive
<1>2. ASSUME NEW h \in Handlers, Change(h) \/ Save(h) PROVE TypeOK'
  <2>1. dyn' \in Versions /\ saved' \in Versions
    BY <1>2 DEF TypeOK, Change, Save, Calls
  <2>2. call' \in [Handlers -> Calls]
    BY <1>2, StepTypes DEF Change, Save, HandlerSteps
  <2>. QED
    BY <1>2, <2>1, <2>2 DEF TypeOK, Change, Save
<1>3. ASSUME NEW h \in Handlers, MergeZone(h) \/ Fail(h) PROVE TypeOK'
  <2>1. CASE MergeZone(h)
    <3>1. [call[h] EXCEPT !.step = "publish", !.record = static.record] \in Calls
      <4>1. call[h] \in Calls /\ static.record \in Records /\ "publish" \in HandlerSteps
        BY DEF TypeOK, HandlerSteps
      <4>. QED
        BY <4>1 DEF Calls
    <3>2. call' \in [Handlers -> Calls]
      BY <2>1, <3>1 DEF TypeOK, MergeZone
    <3>. QED
      BY <2>1, <3>2 DEF TypeOK, MergeZone
  <2>2. CASE Fail(h)
    BY <2>2, IdleTypes DEF TypeOK, Fail
  <2>. QED
    BY <1>3, <2>1, <2>2
<1>4. ASSUME NEW h \in Handlers, Publish(h) PROVE TypeOK'
  <2>1. orderly' \in BOOLEAN
    BY <1>4, Zenon DEF Publish
  <2>2. soa' \in [Records -> Serials] /\ overtaken' \subseteq Secondaries
    BY <1>4 DEF TypeOK, Publish, Calls
  <2>3. call' \in [Handlers -> Calls]
    BY <1>4, StepTypes DEF Publish, HandlerSteps
  <2>. QED
    BY <1>4, <2>1, <2>2, <2>3 DEF TypeOK, Publish
<1>5. ASSUME NEW h \in Handlers, NotifyAndReply(h) PROVE TypeOK'
  BY <1>5, IdleTypes DEF TypeOK, NotifyAndReply, SendNotify
<1>6. CASE EditSpec
  BY <1>6, BoundsAssumption DEF TypeOK, EditSpec
<1>7. CASE Reload
  BY <1>7, LoadTypes DEF TypeOK, Reload
<1>8. CASE Restart
  BY <1>8, LoadTypes, IdleTypes DEF TypeOK, Restart
<1>9. ASSUME NEW s \in Secondaries, Refresh(s) \/ HearNotify(s) PROVE TypeOK'
  <2>1. [step |-> "merge", dyn |-> 0, static |-> static.version,
         record |-> static.record] \in Transfers
    BY IdleTypes DEF TypeOK, Transfers
  <2>2. xfer' \in [Secondaries -> Transfers]
    BY <1>9, <2>1 DEF TypeOK, Refresh, HearNotify, StartTransfer
  <2>. QED
    BY <1>9, <2>2 DEF TypeOK, Refresh, HearNotify
<1>10. ASSUME NEW s \in Secondaries, ReadZone(s) \/ BreakTransfer(s)
       PROVE  TypeOK'
  <2>1. [xfer[s] EXCEPT !.step = "send", !.dyn = dyn] \in Transfers
    BY DEF TypeOK, Transfers
  <2>2. xfer' \in [Secondaries -> Transfers]
    BY <1>10, <2>1, IdleTypes DEF TypeOK, ReadZone, BreakTransfer
  <2>. QED
    BY <1>10, <2>2, BoundsAssumption DEF TypeOK, ReadZone, BreakTransfer, Fault
<1>11. ASSUME NEW s \in Secondaries, Deliver(s) PROVE TypeOK'
  <2>1. orderly' \in BOOLEAN
    BY <1>11 DEF TypeOK, Deliver
  <2>. QED
    <3>1. [static |-> xfer[s].static, dyn |-> xfer[s].dyn,
           serial |-> soa[xfer[s].record]] \in Copies
      BY DEF TypeOK, Transfers, Copies
    <3>. QED
      BY <1>11, <2>1, <3>1, IdleTypes DEF TypeOK, Deliver
<1>12. ASSUME NEW s \in Secondaries, RestartSecondary(s) PROVE TypeOK'
  BY <1>12, IdleTypes, BoundsAssumption DEF TypeOK, RestartSecondary, Fault
<1>13. CASE UNCHANGED vars
  BY <1>13 DEF TypeOK, vars
<1>. QED
  BY <1>1, <1>2, <1>3, <1>4, <1>5, <1>6, <1>7, <1>8, <1>9, <1>10, <1>11,
     <1>12, <1>13
  DEF Next, HandlerStep, SecondaryStep

\* Every variable holds a value of its kind, for any clock and any serials.
THEOREM TransferTypes == Spec => []TypeOK
BY InitTypes, TypesPreserved, PTL DEF Spec
-----------------------------------------------------------------------------
(* Serial arithmetic.                                                      *)

\* The largest step that makes a serial later.
Half == (Modulus - 1) \div 2

LEMMA HalfFacts ==
    Half \in Nat /\ 2 * Half <= Modulus - 1 /\ Modulus - 1 <= 2 * Half + 1
<1>. DEFINE n == Modulus - 1
<1>1. n \in Nat
  BY SerialsAssumption
<1>2. n \div 2 \in Int /\ n % 2 \in 0..1 /\ n = 2 * (n \div 2) + (n % 2)
  BY <1>1
<1>. QED
  BY <1>1, <1>2 DEF Half

\* A clock that goes on by less than a round wraps at most once.
LEMMA WrapsOnce ==
    ASSUME NEW n \in Nat, n < Modulus + Modulus
    PROVE  n % Modulus = IF n < Modulus THEN n ELSE n - Modulus
<1>. DEFINE q == n \div Modulus
            r == n % Modulus
<1>. Modulus \in Nat /\ Modulus > 2
  BY SerialsAssumption
<1>1. q \in Int /\ r \in 0..(Modulus - 1) /\ n = Modulus * q + r
  OBVIOUS
<1>. HIDE DEF q, r
<1>2. q \in {0, 1}
  <2>1. ASSUME q < 0 PROVE FALSE
    <3>1. Modulus * q <= Modulus * (-1)
      BY <1>1, <2>1
    <3>. QED
      BY <1>1, <3>1
  <2>2. ASSUME q > 1 PROVE FALSE
    <3>1. Modulus * q >= Modulus * 2
      BY <1>1, <2>2
    <3>. QED
      BY <1>1, <3>1
  <2>. QED
    BY <1>1, <2>1, <2>2
<1>3. r = IF n < Modulus THEN n ELSE n - Modulus
  BY <1>1, <1>2
<1>. QED
  BY <1>3 DEF r

\* Later: a serial that the clock sets d units after the serial a is taken for
\* a later one if d is at most half a round, and is not if d is 0 (a second
\* update within a millisecond) or, but for the one step in the middle that
\* RFC 1982 leaves open, more than half a round (weeks without an update).
THEOREM SerialsOfClock ==
    ASSUME NEW a \in Serials, NEW d \in Serials
    PROVE  /\ d \in 1..Half => Later(a, (a + d) % Modulus)
           /\ d = 0 \/ d > Half + 1 => ~Later(a, (a + d) % Modulus)
<1>1. Half \in Nat /\ 2 * Half <= Modulus - 1 /\ Modulus - 1 <= 2 * Half + 1
  BY HalfFacts
<1>2. Modulus \in Nat /\ a \in Nat /\ a < Modulus /\ d \in Nat /\ d < Modulus
  BY SerialsAssumption DEF Serials
<1>3. PICK b \in Int : /\ b = (a + d) % Modulus
                       /\ b = IF a + d < Modulus THEN a + d ELSE a + d - Modulus
  <2>1. a + d \in Nat /\ a + d < Modulus + Modulus
    BY <1>2
  <2>. QED
    BY <1>2, <2>1, WrapsOnce
<1>4. Later(a, b) <=> (a < b /\ b - a <= Half) \/ (a > b /\ a - b > Half)
  BY DEF Later, Half
<1>5. CASE a + d < Modulus
  BY <1>1, <1>2, <1>3, <1>4, <1>5
<1>6. CASE ~(a + d < Modulus)
  BY <1>1, <1>2, <1>3, <1>4, <1>6
<1>. QED
  BY <1>5, <1>6
-----------------------------------------------------------------------------
(* What the secondaries see.                                               *)

LEMMA InitFacts == Init => Facts
BY DEF Init, Facts, SentIsCurrent, RecordsExist, TransfersMoveOn, SeesChanges,
   IdleXfer

\* Steps that touch neither the zone nor its copies, and leave the handlers
\* that are to set a serial, change nothing here.
LEMMA QuietFacts ==
    ASSUME IInv,
           UNCHANGED <<static, soa, dyn, xfer, copy, orderly, overtaken>>,
           Pending' = Pending
    PROVE  Facts'
BY DEF IInv, Facts, SentIsCurrent, RecordsExist, TransfersMoveOn, SeesChanges,
   Content, ContentOf, Serial

LEMMA IdleRecord ==
    ASSUME TypeOK
    PROVE  IdleXfer.record <= static.record
<1>1. static.record \in Nat
  BY DEF TypeOK, Records
<1>. QED
  BY <1>1 DEF IdleXfer

LEMMA HandlerFacts ==
    ASSUME IInv, NEW h \in Handlers,
           \/ Receive(h) \/ Save(h) \/ MergeZone(h) \/ NotifyAndReply(h)
    PROVE  Facts'
<1>1. UNCHANGED <<static, soa, dyn, xfer, copy, orderly, overtaken>>
  BY DEF Receive, Save, MergeZone, NotifyAndReply, primary, zoneVars, secondary,
     history
<1>2. /\ \A g \in Handlers \ {h} : call'[g] = call[g]
      /\ call[h].step \in {"save", "merge", "publish"}
         <=> call'[h].step \in {"save", "merge", "publish"}
  <2>1. call[h] \in Calls /\ call \in [Handlers -> Calls]
    BY DEF IInv, TypeOK
  <2>2. \E r : call' = [call EXCEPT ![h] = r]
    BY <2>1 DEF Receive, Save, MergeZone, NotifyAndReply, Goto
  <2>3. CASE Receive(h)
    BY <2>1, <2>3 DEF Receive
  <2>4. CASE Save(h)
    BY <2>1, <2>4 DEF Save, Goto, Calls
  <2>5. CASE MergeZone(h)
    BY <2>1, <2>5 DEF MergeZone, Calls
  <2>6. CASE NotifyAndReply(h)
    BY <2>1, <2>6 DEF NotifyAndReply, IdleCall
  <2>. QED
    BY <2>1, <2>2, <2>3, <2>4, <2>5, <2>6
<1>3. Pending' = Pending
  BY <1>2 DEF Pending
<1>. QED
  BY <1>1, <1>3, QuietFacts

\* A change makes its handler one that is to set a serial.
LEMMA ChangeFacts ==
    ASSUME IInv, NEW h \in Handlers, Change(h)
    PROVE  Facts'
<1>1. UNCHANGED <<static, soa, xfer, copy, orderly, overtaken>>
  BY DEF Change, zoneVars, secondary
<1>2. h \in Pending'
  BY DEF IInv, TypeOK, Change, Goto, Pending
<1>. QED
  BY <1>1, <1>2
  DEF IInv, Facts, SentIsCurrent, RecordsExist, TransfersMoveOn, SeesChanges

\* Who fails leaves the serial to another handler, or order is lost.
LEMMA FailFacts ==
    ASSUME IInv, NEW h \in Handlers, Fail(h)
    PROVE  Facts'
<1>1. UNCHANGED <<static, soa, dyn, xfer, copy, overtaken>>
  BY DEF Fail, zoneVars, secondary
<1>2. orderly' => orderly /\ Pending' # {}
  <2>1. orderly' => orderly /\ Pending \ {h} # {}
    BY DEF Fail
  <2>2. Pending \ {h} \subseteq Pending'
    BY DEF IInv, TypeOK, Fail, Pending
  <2>. QED
    BY <2>1, <2>2
<1>. QED
  BY <1>1, <1>2
  DEF IInv, Facts, SentIsCurrent, RecordsExist, TransfersMoveOn, SeesChanges

\* A serial that rises is seen by every secondary, and by those that take it
\* late; one in a replaced zone is the end of order.
LEMMA PublishFacts ==
    ASSUME IInv, NEW h \in Handlers, Publish(h)
    PROVE  Facts'
<1>1. UNCHANGED <<static, dyn, xfer, copy>>
  BY DEF Publish, zoneVars, secondary
<1>2. orderly' => orderly /\ call[h].record = static.record
                  /\ Rises(call[h].serial)
  BY DEF Publish
<1>3. soa' = [soa EXCEPT ![call[h].record] = call[h].serial]
      /\ call[h].record \in DOMAIN soa
  BY DEF IInv, TypeOK, Calls, Publish
<1>4. SentIsCurrent'
  BY <1>1 DEF Publish, SentIsCurrent
<1>5. RecordsExist'
  BY <1>1 DEF IInv, Facts, RecordsExist
<1>6. ASSUME orderly', NEW s \in Secondaries, copy[s] # NoCopy
      PROVE  Later(copy[s].serial, call[h].serial)
  BY <1>2, <1>6 DEF Rises
<1>7. TransfersMoveOn'
  BY <1>1, <1>2, <1>3, <1>6 DEF IInv, TypeOK, Facts, TransfersMoveOn
<1>8. SeesChanges'
  BY <1>1, <1>2, <1>3, <1>6 DEF SeesChanges, Serial
<1>. QED
  BY <1>4, <1>5, <1>7, <1>8 DEF Facts

\* A static zone that replaces another brings a serial that rises, or the
\* same content and serial; transfers keep the record of the one they read.
LEMMA ReloadFacts ==
    ASSUME IInv, Reload
    PROVE  Facts'
<1>1. UNCHANGED <<dyn, xfer, copy, call, overtaken>>
      /\ static'.record = static.record + 1
      /\ static'.record \in Records
      /\ soa' = [soa EXCEPT ![static'.record] = spec.serial]
  BY LoadTypes DEF IInv, Reload, Load
<1>2. orderly' => orderly /\ (\/ Rises(spec.serial)
                              \/ Content' = Content /\ Serial' = Serial)
  BY DEF Reload
<1>3. static.record \in Nat /\ \A s \in Secondaries : xfer[s].record \in Nat
  BY DEF IInv, TypeOK, Transfers, Records
<1>4. \A s \in Secondaries : soa'[xfer[s].record] = soa[xfer[s].record]
  BY <1>1, <1>3 DEF IInv, TypeOK, Facts, RecordsExist
<1>5. Pending' = Pending
  BY <1>1 DEF Pending
<1>6. SentIsCurrent'
  BY <1>1, <1>2, <1>5 DEF IInv, Facts, SentIsCurrent
<1>7. RecordsExist'
  BY <1>1, <1>3 DEF IInv, Facts, RecordsExist
<1>8. TransfersMoveOn'
  BY <1>1, <1>2, <1>4 DEF IInv, Facts, TransfersMoveOn
<1>9. SeesChanges'
  <2>1. Serial' = spec.serial
    BY <1>1 DEF IInv, TypeOK, Serial
  <2>2. CASE Rises(spec.serial)
    BY <1>1, <2>1, <2>2 DEF Rises, SeesChanges
  <2>3. CASE Content' = Content /\ Serial' = Serial
    BY <1>1, <1>2, <1>5, <2>3 DEF IInv, Facts, SeesChanges, ContentOf
  <2>. QED
    BY <1>2, <2>2, <2>3 DEF SeesChanges
<1>. QED
  BY <1>6, <1>7, <1>8, <1>9 DEF Facts

\* A restart ends the transfers; in order it brings back what was there.
LEMMA RestartFacts ==
    ASSUME IInv, Restart
    PROVE  Facts'
<1>1. copy' = copy /\ xfer' = [s \in Secondaries |-> IdleXfer]
      /\ static'.record = static.record + 1
  BY DEF Restart, Load
<1>2. orderly' => orderly /\ Pending = {} /\ Content' = Content /\ Serial' = Serial
  BY DEF Restart
<1>3. SentIsCurrent' /\ TransfersMoveOn'
  BY <1>1 DEF SentIsCurrent, TransfersMoveOn, IdleXfer
<1>4. RecordsExist'
  BY <1>1 DEF IInv, TypeOK, Records, RecordsExist, IdleXfer
<1>5. SeesChanges'
  BY <1>1, <1>2 DEF IInv, Facts, SeesChanges, ContentOf
<1>. QED
  BY <1>3, <1>4, <1>5 DEF Facts

\* A transfer begins only where the serial is later.
LEMMA StartFacts ==
    ASSUME IInv, NEW s \in Secondaries, Refresh(s) \/ HearNotify(s)
    PROVE  Facts'
<1>1. UNCHANGED <<static, soa, dyn, call, copy, orderly, overtaken>>
  BY DEF Refresh, HearNotify, primary, zoneVars, history
<1>2. xfer' = xfer \/ StartTransfer(s)
  BY DEF Refresh, HearNotify
<1>3. Pending' = Pending
  BY <1>1 DEF Pending
<1>4. CASE xfer' = xfer
  BY <1>1, <1>3, <1>4, QuietFacts
<1>5. CASE StartTransfer(s)
  <2>1. /\ \A r \in Secondaries \ {s} : xfer'[r] = xfer[r]
        /\ xfer'[s].step = "merge" /\ xfer'[s].record = static.record
    BY <1>5 DEF IInv, TypeOK, StartTransfer
  <2>2. SentIsCurrent'
    BY <1>1, <1>3, <2>1 DEF IInv, Facts, SentIsCurrent
  <2>3. RecordsExist'
    BY <1>1, <2>1 DEF IInv, TypeOK, Records, Facts, RecordsExist
  <2>4. TransfersMoveOn'
    BY <1>1, <1>5, <2>1
    DEF IInv, Facts, TransfersMoveOn, StartTransfer, Wants, Serial
  <2>5. SeesChanges'
    BY <1>1, <1>3 DEF IInv, Facts, SeesChanges, Content, ContentOf, Serial
  <2>. QED
    BY <2>2, <2>3, <2>4, <2>5 DEF Facts
<1>. QED
  BY <1>2, <1>4, <1>5

\* Merge reads what is there.
LEMMA ReadZoneFacts ==
    ASSUME IInv, NEW s \in Secondaries, ReadZone(s)
    PROVE  Facts'
<1>1. UNCHANGED <<static, soa, dyn, call, copy, orderly>>
      /\ overtaken' = overtaken \ {s}
  BY DEF ReadZone, primary, zoneVars
<1>2. Pending' = Pending
  BY <1>1 DEF Pending
<1>3. /\ \A r \in Secondaries \ {s} : xfer'[r] = xfer[r]
      /\ xfer'[s].dyn = dyn /\ xfer'[s].record = xfer[s].record
      /\ xfer[s].step = "merge"
  BY DEF IInv, TypeOK, ReadZone
<1>4. SentIsCurrent'
  BY <1>1, <1>2, <1>3 DEF IInv, Facts, SentIsCurrent
<1>5. RecordsExist' /\ TransfersMoveOn'
  BY <1>1, <1>3 DEF IInv, Facts, RecordsExist, TransfersMoveOn
<1>6. SeesChanges'
  BY <1>1, <1>2 DEF IInv, Facts, SeesChanges, Content, ContentOf, Serial
<1>. QED
  BY <1>4, <1>5, <1>6 DEF Facts

\* What arrives is the zone of now, or one that can be told from it.
LEMMA DeliverFacts ==
    ASSUME IInv, NEW s \in Secondaries, Deliver(s)
    PROVE  Facts'
<1>1. UNCHANGED <<static, soa, dyn, call, overtaken>>
  BY DEF Deliver, primary, zoneVars
<1>2. Pending' = Pending
  BY <1>1 DEF Pending
<1>3. \A r \in Secondaries \ {s} : xfer'[r] = xfer[r] /\ copy'[r] = copy[r]
  BY DEF IInv, TypeOK, Deliver
<1>4. /\ xfer[s].step = "send" /\ xfer'[s] = IdleXfer
      /\ copy'[s] = [static |-> xfer[s].static, dyn |-> xfer[s].dyn,
                     serial |-> soa[xfer[s].record]]
  BY DEF IInv, TypeOK, Deliver
<1>5. orderly' => /\ orderly /\ s \notin overtaken
                  /\ \/ Later(soa[xfer[s].record], Serial)
                     \/ xfer[s].static = static.version
  BY DEF Deliver
<1>6. SentIsCurrent' /\ TransfersMoveOn'
  BY <1>1, <1>2, <1>3, <1>4, <1>5
  DEF IInv, Facts, SentIsCurrent, TransfersMoveOn, IdleXfer
<1>7. SeesChanges'
  <2>. SUFFICES ASSUME orderly', NEW r \in Secondaries
                PROVE  \/ copy'[r] = NoCopy \/ ContentOf(r)' = Content'
                       \/ Later(copy'[r].serial, Serial') \/ Pending' # {}
    BY DEF SeesChanges
  <2>1. CASE r # s
    BY <1>1, <1>2, <1>3, <1>5, <2>1
    DEF IInv, Facts, SeesChanges, Content, ContentOf, Serial
  <2>2. CASE r = s
    <3>1. xfer[s].dyn = dyn \/ Pending # {}
      BY <1>4, <1>5 DEF IInv, Facts, SentIsCurrent
    <3>. QED
      BY <1>1, <1>2, <1>4, <1>5, <2>2, <3>1 DEF Content, ContentOf, Serial
  <2>. QED
    BY <2>1, <2>2
<1>8. RecordsExist'
  BY <1>1, <1>3, <1>4, IdleRecord DEF IInv, Facts, RecordsExist
<1>. QED
  BY <1>6, <1>7, <1>8 DEF Facts

\* Faults take copies and transfers away.
LEMMA FaultFacts ==
    ASSUME IInv, NEW s \in Secondaries, BreakTransfer(s) \/ RestartSecondary(s)
    PROVE  Facts'
<1>1. UNCHANGED <<static, soa, dyn, call, orderly, overtaken>>
  BY DEF BreakTransfer, RestartSecondary, primary, zoneVars, history
<1>2. Pending' = Pending
  BY <1>1 DEF Pending
<1>3. /\ \A r \in Secondaries \ {s} : xfer'[r] = xfer[r] /\ copy'[r] = copy[r]
      /\ xfer'[s] = IdleXfer /\ copy'[s] \in {copy[s], NoCopy}
  BY DEF IInv, TypeOK, BreakTransfer, RestartSecondary
<1>4. SentIsCurrent' /\ TransfersMoveOn'
  BY <1>1, <1>2, <1>3
  DEF IInv, Facts, SentIsCurrent, TransfersMoveOn, IdleXfer
<1>5. SeesChanges'
  BY <1>1, <1>2, <1>3 DEF IInv, Facts, SeesChanges, Content, ContentOf, Serial
<1>6. RecordsExist'
  BY <1>1, <1>3, IdleRecord DEF IInv, Facts, RecordsExist
<1>. QED
  BY <1>4, <1>5, <1>6 DEF Facts

LEMMA FactsPreserved == IInv /\ [Next]_vars => Facts'
<1>. SUFFICES ASSUME IInv, [Next]_vars PROVE Facts'
  OBVIOUS
<1>1. CASE EditSpec \/ UNCHANGED vars
  <2>1. UNCHANGED <<static, soa, dyn, xfer, copy, orderly, overtaken, call>>
    BY <1>1 DEF EditSpec, vars, primary, zoneVars, secondary, history
  <2>2. Pending' = Pending
    BY <2>1 DEF Pending
  <2>. QED
    BY <2>1, <2>2, QuietFacts
<1>2. ASSUME NEW h \in Handlers, Receive(h) \/ HandlerStep(h) PROVE Facts'
  BY <1>2, HandlerFacts, ChangeFacts, FailFacts, PublishFacts DEF HandlerStep
<1>3. ASSUME NEW s \in Secondaries,
             \/ SecondaryStep(s) \/ HearNotify(s)
             \/ BreakTransfer(s) \/ RestartSecondary(s)
      PROVE  Facts'
  BY <1>3, StartFacts, ReadZoneFacts, DeliverFacts, FaultFacts DEF SecondaryStep
<1>. QED
  BY <1>1, <1>2, <1>3, ReloadFacts, RestartFacts DEF Next

LEMMA Invariance == Spec => []IInv
<1>1. Init => IInv
  BY InitTypes, InitFacts DEF IInv
<1>2. IInv /\ [Next]_vars => IInv'
  BY TypesPreserved, FactsPreserved DEF IInv
<1>. QED
  BY <1>1, <1>2, PTL DEF Spec

\* As long as serials tell of every change, a secondary that has another zone
\* than the primary can tell so by the serial, now or when the handlers that
\* are at work have set theirs.
THEOREM ChangesAreSeen == Spec => []SeesChanges
<1>1. IInv => SeesChanges
  BY DEF IInv, Facts
<1>. QED
  BY <1>1, Invariance, PTL

\* Till then, a transfer replaces a zone only by one with a later serial, at
\* whatever moment the serial is packed.
THEOREM CopiesOnlyMoveOn == Spec => CopiesMoveOn
<1>. DEFINE Moves == \A s \in Secondaries :
       orderly' /\ copy[s] # NoCopy /\ copy'[s] \notin {NoCopy, copy[s]} =>
           Later(copy[s].serial, copy'[s].serial)
<1>1. IInv /\ [Next]_vars => [Moves]_vars
  <2>. SUFFICES ASSUME IInv, Next, NEW s \in Secondaries, orderly',
                       copy[s] # NoCopy, copy'[s] \notin {NoCopy, copy[s]}
                PROVE  Later(copy[s].serial, copy'[s].serial)
    OBVIOUS
  <2>1. Deliver(s)
    <3>1. ASSUME NEW r \in Secondaries, Deliver(r) \/ RestartSecondary(r)
          PROVE  \A q \in Secondaries \ {r} : copy'[q] = copy[q]
      BY <3>1 DEF IInv, TypeOK, Deliver, RestartSecondary
    <3>2. ASSUME NEW r \in Secondaries, RestartSecondary(r)
          PROVE  copy'[r] = NoCopy
      BY <3>2 DEF IInv, TypeOK, RestartSecondary
    <3>3. \/ copy' = copy
          \/ \E r \in Secondaries : Deliver(r) \/ RestartSecondary(r)
      BY DEF Next, Receive, HandlerStep, Change, Save, Fail, MergeZone, Publish,
         NotifyAndReply, EditSpec, Reload, Restart, SecondaryStep, Refresh,
         ReadZone, HearNotify, BreakTransfer, secondary
    <3>. QED
      BY <3>1, <3>2, <3>3
  <2>2. orderly /\ xfer[s].step = "send"
    BY <2>1 DEF Deliver
  <2>3. copy'[s].serial = soa[xfer[s].record]
    BY <2>1 DEF IInv, TypeOK, Deliver
  <2>. QED
    BY <2>2, <2>3 DEF IInv, Facts, TransfersMoveOn
<1>. QED
  BY <1>1, Invariance, PTL DEF Spec, CopiesMoveOn
=============================================================================
