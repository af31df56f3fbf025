------------------------------- MODULE MCTxPool -------------------------------
(***************************************************************************)
(* Instances of TxPool for TLC.                                            *)
(***************************************************************************)
EXTENDS TxPool, TLC

CONSTANTS pool, alice

MCEndowment == (pool :> 0) @@ (alice :> 3)
===============================================================================
