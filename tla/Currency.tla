------------------------------- MODULE Currency -------------------------------
(***************************************************************************)
(* The part of pallet_balances (polkadot-sdk, not in this repository) that *)
(* the shielded pools rely on through `T::Currency::transfer`.  An account *)
(* is a member of the domain of a balance function; an account that does   *)
(* not exist has balance 0.                                                *)
(*                                                                         *)
(* Three facts of that implementation matter to the pools:                 *)
(*   - a transfer of 0, or from an account to itself, succeeds and does    *)
(*     nothing;                                                            *)
(*   - an account below the existential deposit cannot be created;         *)
(*   - under AllowDeath a source left below the existential deposit is     *)
(*     reaped and the remainder is handed to DustRemoval, which all the    *)
(*     runtimes set to (): the remainder is burnt.                         *)
(***************************************************************************)
EXTENDS Integers

CONSTANT ExistentialDeposit

ASSUME ExistentialDepositAssumption == ExistentialDeposit \in Nat \ {0}

NoOp(from, to, amount) == amount = 0 \/ from = to

\* Whether Currency::transfer returns Ok.
TransferOk(balance, from, to, amount, keepAlive) ==
    \/ NoOp(from, to, amount)
    \/ /\ amount <= balance[from]
       /\ keepAlive => ExistentialDeposit <= balance[from] - amount
       /\ balance[to] = 0 => ExistentialDeposit <= amount

\* What is burnt when the transfer leaves the source below the minimum.
Dust(balance, from, to, amount) ==
    IF ~NoOp(from, to, amount) /\ balance[from] - amount < ExistentialDeposit
    THEN balance[from] - amount
    ELSE 0

\* The balances after a transfer that returned Ok.
Transfer(balance, from, to, amount) ==
    IF NoOp(from, to, amount) THEN balance
    ELSE [balance EXCEPT
            ![from] = @ - amount - Dust(balance, from, to, amount),
            ![to]   = @ + amount]
===============================================================================
