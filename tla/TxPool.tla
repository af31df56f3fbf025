-------------------------------- MODULE TxPool --------------------------------
(***************************************************************************)
(* The calls of the v2 lane between a wallet and a block.  purchase_rwa_v2,*)
(* purchase_access_v2 and withdraw_v2 are unsigned: validate_unsigned of   *)
(* proofhub/pallets/proofs admits them to the transaction pool and, as     *)
(* pre_dispatch, runs once more when a block includes them.  It reads the  *)
(* nullifier and the root and leaves proof, price and tree to the call,    *)
(* which may then fail and is gone all the same.                           *)
(*                                                                         *)
(* The pool itself is that of the Polkadot SDK: a transaction is refused   *)
(* while another one of the same priority provides one of its tags, is     *)
(* dropped once validate_unsigned refuses it, and expires after its        *)
(* longevity of 64 blocks, here at any time.                               *)
(***************************************************************************)
EXTENDS ProofHubV2

CONSTANT MaxPending  \* size of the pool, bounding the model

ASSUME MaxPendingAssumption == MaxPending \in Nat \ {0}

VARIABLE pending     \* the calls in the pool

poolVars == <<vars, pending>>

\* What a call carries: the statement its proof is about, and the witness.
Tx == [call : {"purchase_rwa_v2", "purchase_access_v2", "withdraw_v2"},
       w : Notes, root : Nat, price : Nat, change : Notes \cup {None},
       to : RwaIds \cup AppIds \cup Accounts, tx_id : TxIds]

validate_unsigned(tx) ==
    /\ Nullifier(tx.w) \notin NullifierUsed
    /\ v2_root_anchored(tx.root)

\* and_provides: each call has a prefix of its own, so two calls that spend
\* one note in different ways may be in the pool together.
provides(tx) == {<<tx.call, tx.tx_id>>, <<tx.call, Nullifier(tx.w)>>}

\* The call runs against the state of the block.
Dispatch(tx) ==
    \/ /\ tx.call = "purchase_rwa_v2"
       /\ tx.price = RwaPrices[tx.to]
       /\ \E oc \in Commitments :
            purchase_rwa_v2(tx.w, tx.root, tx.w.pk, tx.to, tx.tx_id, oc, tx.change)
    \/ /\ tx.call = "purchase_access_v2"
       /\ AccessKeyConfigs[tx.to] # None /\ tx.price = AccessKeyConfigs[tx.to].price
       /\ \E akc \in Commitments :
            purchase_access_v2(tx.w, tx.root, tx.w.pk, tx.to, tx.tx_id, akc, tx.change)
    \/ /\ tx.call = "withdraw_v2"
       /\ withdraw_v2(tx.w, tx.root, tx.w.pk, tx.price, tx.to)

-------------------------------------------------------------------------------
\* A wallet proves against the current root or one it read before.
Submit(tx) ==
    /\ Cardinality(pending) < MaxPending
    /\ LeafIndexV2[tx.w] < tx.root
    /\ tx.w.v = tx.price + (IF tx.change = None THEN 0 ELSE tx.change.v)
    /\ validate_unsigned(tx)
    /\ \A other \in pending : provides(other) \cap provides(tx) = {}
    /\ pending' = pending \cup {tx}
    /\ UNCHANGED vars

Include(tx) ==
    /\ tx \in pending
    /\ validate_unsigned(tx)
    /\ Dispatch(tx) \/ (~ENABLED Dispatch(tx) /\ UNCHANGED vars)
    /\ pending' = pending \ {tx}

\* Fault: a call is dropped only when its nullifier has been struck.
Drop_UsedOnly(tx) ==
    /\ tx \in pending
    /\ Nullifier(tx.w) \in NullifierUsed
    /\ pending' = pending \ {tx}
    /\ UNCHANGED vars

Drop(tx) ==
    /\ tx \in pending
    /\ ~validate_unsigned(tx)
    /\ pending' = pending \ {tx}
    /\ UNCHANGED vars

Expire(tx) ==
    /\ tx \in pending
    /\ pending' = pending \ {tx}
    /\ UNCHANGED vars

-------------------------------------------------------------------------------
PoolInit == Init /\ pending = {}

Spends(w) ==
    [call : {"purchase_rwa_v2"}, w : {w}, root : 1..LeafCountV2,
     price : {RwaPrices[r] : r \in RwaIds} \ {0}, change : Notes, to : RwaIds, tx_id : TxIds]
    \cup
    [call : {"purchase_access_v2"}, w : {w}, root : 1..LeafCountV2,
     price : {AccessKeyConfigs[a].price : a \in {b \in AppIds : AccessKeyConfigs[b] # None}} \ {0},
     change : Notes, to : AppIds, tx_id : TxIds]

Withdrawals(w) ==
    [call : {"withdraw_v2"}, w : {w}, root : 1..LeafCountV2, price : {w.v}, change : {None},
     to : Accounts, tx_id : TxIds]

Leaves(b) == {w \in DOMAIN LeafIndexV2 : Nullifier(w) = b}

SubmitPurchase == \E w \in DOMAIN LeafIndexV2 : \E tx \in Spends(w) : Submit(tx)

SubmitWithdraw(b) == \E w \in Leaves(b) : \E tx \in Withdrawals(w) : Submit(tx)

Of(call, b) == {tx \in pending : tx.call = call /\ Nullifier(tx.w) = b}

Signed == Deposit \/ SetRwaPrice \/ SetAccessConfig

Leave(tx) == Include(tx) \/ Drop(tx) \/ Expire(tx)

TxPoolNext ==
    \/ Signed /\ UNCHANGED pending
    \/ SubmitPurchase
    \/ \E b \in Blindings : SubmitWithdraw(b)
    \/ \E tx \in pending : Leave(tx)

TxPoolSpec == PoolInit /\ [][TxPoolNext]_poolVars

\* The pool drops what has become invalid and, after its longevity, every
\* other call; block authors include what stays valid; the wallet submits
\* its withdrawal again whenever it is gone.  Expiry may interrupt the last
\* two, so they need strong fairness.
FairTxPoolSpec ==
    /\ TxPoolSpec
    /\ \A b \in Blindings :
         /\ SF_poolVars(SubmitWithdraw(b))
         /\ SF_poolVars(\E tx \in Of("withdraw_v2", b) : Include(tx))
         /\ WF_poolVars(\E tx \in Of("withdraw_v2", b) : Drop(tx))
         /\ \A call \in {"purchase_rwa_v2", "purchase_access_v2"} :
              WF_poolVars(\E tx \in Of(call, b) : Leave(tx))

-------------------------------------------------------------------------------
(***************************************************************************)
(* Properties                                                              *)
(***************************************************************************)

\* validate_unsigned sees the best block, not the one that will include the
\* call.  Between the two its verdict can only turn from valid to stale and
\* never back, whatever else is included: a pool that drops what is stale
\* loses nothing, and a second call for a note never succeeds later.
StaleForEver ==
    [][\A tx \in pending : ~validate_unsigned(tx) => ~validate_unsigned(tx)']_poolVars

\* A wallet that wants a note out and submits a withdrawal whenever none of
\* its own is waiting gets it out, although roots grow stale, calls expire
\* and other calls occupy its tags; except for the leaf that fills the tree
\* and unless the pool account was reaped.
WithdrawalServed ==
    \A b \in Blindings :
        (\E w \in DOMAIN LeafIndexV2 : w.b = b /\ LeafIndexV2[w] < MaxLeaves - 1)
            ~> (b \in NullifierUsed \/ burnt > 0)
===============================================================================
