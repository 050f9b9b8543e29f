--------------------------- MODULE MCZupdFailover ---------------------------
(***************************************************************************)
(* Small instances of ZupdFailover.                                        *)
(***************************************************************************)
EXTENDS ZupdFailover

CONSTANTS p1, p2, o1
=============================================================================
