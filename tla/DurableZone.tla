---------------------------- MODULE DurableZone ----------------------------
(***************************************************************************)
(* What the dynamic zone of zupd promises its clients: a volatile copy     *)
(* that updates change, a durable copy that survives a restart, and        *)
(* acknowledgements given only while the two agree.                        *)
(*                                                                         *)
(* Which records an update takes out is no part of this promise.  (For a   *)
(* entry of class NONE the code removes the RRset of the record, where     *)
(* RFC 2136 removes that record alone.)                                    *)
(***************************************************************************)
CONSTANTS
    RRs         \* resource records

VARIABLES
    volatile,   \* the records the process serves
    durable,    \* the records a restarted process will serve
    kept,       \* the records that acknowledgements vouch for
    gone        \* the records whose absence acknowledgements vouch for

vars == <<volatile, durable, kept, gone>>

Init ==
    /\ durable \in SUBSET RRs
    /\ volatile = durable
    /\ kept = {}
    /\ gone = {}

Insert(rr) ==
    /\ volatile' = volatile \cup {rr}
    /\ gone' = gone \ {rr}
    /\ UNCHANGED <<durable, kept>>

Remove(rrs) ==
    /\ volatile' = volatile \ rrs
    /\ kept' = kept \ rrs
    /\ UNCHANGED <<durable, gone>>

Persist ==
    /\ durable' = volatile
    /\ UNCHANGED <<volatile, kept, gone>>

Acknowledge ==
    /\ durable = volatile
    /\ kept' = volatile
    /\ gone' = RRs \ volatile
    /\ UNCHANGED <<volatile, durable>>

Restart ==
    /\ volatile' = durable
    /\ UNCHANGED <<durable, kept, gone>>

Next ==
    \/ \E rr \in RRs : Insert(rr)
    \/ \E rrs \in SUBSET RRs : Remove(rrs)
    \/ Persist
    \/ Acknowledge
    \/ Restart

Spec == Init /\ [][Next]_vars
=============================================================================
