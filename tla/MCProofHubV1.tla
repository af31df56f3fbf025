----------------------------- MODULE MCProofHubV1 -----------------------------
(***************************************************************************)
(* Instances of ProofHubV1 for TLC.                                        *)
(***************************************************************************)
EXTENDS ProofHubV1, TLC

CONSTANTS pool, alice, s1, s2, n1, n2

\* Two legacy notes, of 2 and of 1, and the pool that backs them.
MCLegacy == (s1 :> <<2, n1>>) @@ (s2 :> <<1, n1>>)
MCEndowment == (pool :> 3) @@ (alice :> 0)
===============================================================================
