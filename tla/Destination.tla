----------------------------- MODULE Destination ------------------------------
(***************************************************************************)
(* What the two destinations have in common: signed callers, among them    *)
(* the hubs' sovereign accounts, records filed under the tx_id the hub's   *)
(* buyer chose, the nullifier the hub struck, and commitments that nobody  *)
(* need be able to open.                                                   *)
(***************************************************************************)
CONSTANTS
    Callers,     \* accounts that sign calls
    TxIds, Nullifiers,
    Unopenable,  \* a commitment with no known opening
    None         \* absent value of an OptionQuery storage map
===============================================================================
