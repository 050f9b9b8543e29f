--------------------------- MODULE MCZoneTransfer ---------------------------
(***************************************************************************)
(* Small instances of ZoneTransfer.                                        *)
(***************************************************************************)
EXTENDS ZoneTransfer

CONSTANTS h1, h2, s1, s2
=============================================================================
