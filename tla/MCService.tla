------------------------------ MODULE MCService ------------------------------
(***************************************************************************)
(* Two clients of two tenants for TLC.                                   *)
(***************************************************************************)
EXTENDS Service, TLC

CONSTANTS c1, c3

TwoTenants == c1 :> "s" @@ c3 :> "t"
=============================================================================
