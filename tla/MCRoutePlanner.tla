--------------------------- MODULE MCRoutePlanner ----------------------------
(***************************************************************************)
(* Routes over a pool of two keys for TLC.                                 *)
(***************************************************************************)
EXTENDS RoutePlanner

CONSTANTS k1, k2

Two == <<k1, k2>>
=============================================================================
