----------------------------- MODULE MCKeyPool -----------------------------
(***************************************************************************)
(* A pool of two keys for TLC.                                             *)
(***************************************************************************)
EXTENDS KeyPool

CONSTANTS k1, k2

Two == <<k1, k2>>
=============================================================================
