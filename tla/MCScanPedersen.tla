---------------------------- MODULE MCScanPedersen ----------------------------
(***************************************************************************)
(* Instances of ScanPedersen for TLC.                                      *)
(***************************************************************************)
EXTENDS ScanPedersen, TLC

CONSTANTS pool, alice, b1, b2, n1, n2

MCEndowment == (pool :> 0) @@ (alice :> 3)

MCDeriveNullifier == (b1 :> n1) @@ (b2 :> n2)

MCValues == {-1, 1, 2}
===============================================================================
