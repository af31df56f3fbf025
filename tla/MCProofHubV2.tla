----------------------------- MODULE MCProofHubV2 -----------------------------
(***************************************************************************)
(* Instances of ProofHubV2 for TLC.                                        *)
(***************************************************************************)
EXTENDS ProofHubV2, TLC

CONSTANTS pool, alice

MCEndowment == (pool :> 0) @@ (alice :> 4)
===============================================================================
