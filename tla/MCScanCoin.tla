------------------------------ MODULE MCScanCoin ------------------------------
(***************************************************************************)
(* Instances of ScanCoin for TLC.                                          *)
(***************************************************************************)
EXTENDS ScanCoin, TLC

CONSTANTS pool, alice, s1, s2

MCEndowment == (pool :> 0) @@ (alice :> 6)

\* Every serial as a wallet publishes it, and one of them plus l.
MCSerialBytes == {Canonical(s1), Canonical(s2), [s |-> s1, q |-> 1]}

\* The price of the app leaves of the values 1 and 3 a change of -1 or of 1;
\* the price of the asset is a whole coin.
MCValues == {-1, 1, 3}

MCAppConfigs == {[price |-> 2, payment_account |-> alice]}
===============================================================================
