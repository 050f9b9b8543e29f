--------------------------- MODULE MCZoneRegistry ---------------------------
(***************************************************************************)
(* Small instances of ZoneRegistry.                                        *)
(***************************************************************************)
EXTENDS ZoneRegistry

CONSTANTS a, b, c
=============================================================================
