-------------------------- MODULE MCDynamicUpdate --------------------------
(***************************************************************************)
(* Small instances of DynamicUpdate.  "a1" and "a2" make one RRset, "t" is *)
(* another one, "m" is of a type that zupd refuses (MX, say).              *)
(***************************************************************************)
EXTENDS DynamicUpdate, TLC

CONSTANTS u1, u2, r1, n1, n2

MCProcs == Updaters \cup Readers
MCRRs == {"a1", "a2", "t", "m"}
MCSupported == {"a1", "a2", "t"}
MCRRsetOf == [a1 |-> "A", a2 |-> "A", t |-> "TXT", m |-> "MX"]

Add(rr) == [class |-> "INET", rr |-> rr]
Del(rr) == [class |-> "NONE", rr |-> rr]
DelSet(rr) == [class |-> "ANY", rr |-> rr]

\* A replacement, a message that is refused after its first entry, one not
\* implemented at its second, an empty one.
MCMessages ==
    { <<>>, <<Del("a1"), Add("a2")>>, <<Add("t"), Add("m")>>,
      <<Del("t"), DelSet("a1")>> }

\* The messages of the run about blocking.
FewMessages == { <<>>, <<Add("t")>>, <<Add("m")>> }
=============================================================================
