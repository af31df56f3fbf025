----------------------------- MODULE MCSettlement -----------------------------
(***************************************************************************)
(* Instances of Settlement for TLC.                                        *)
(***************************************************************************)
EXTENDS Settlement, TLC

CONSTANTS pool, alice, r1, a1, k1

MCEndowment == (pool :> 0) @@ (alice :> 3)

MCAssetOf == r1 :> 0

MCCommitments == {<<a1, k1>>}
===============================================================================
