------------------------------ MODULE XcmDispatch ------------------------------
(***************************************************************************)
(* How a hub's runtime turns a settlement into an XCM Transact, and how    *)
(* the destination's executor turns the Transact back into a call.  All    *)
(* arguments are fixed-width ([u8; N] or u32), so SCALE writes them one    *)
(* after the other without a length, and decoding succeeds exactly when    *)
(* the call exists and the number of bytes is the number its arguments     *)
(* need: Transact decodes the whole call or none of it.                    *)
(***************************************************************************)
EXTENDS Integers, Sequences, SequencesExt, FiniteSetsExt

\* A Transact's call data: pallet and call index, and argument widths.
Call(pallet, call, widths) == [pallet |-> pallet, call |-> call, widths |-> widths]

\* RwaXcmDispatch::send - asset_id, spend_tag, nullifier, tx_id,
\* ownership_commitment.
EncodePurchase == Call(51, 4, <<4, 32, 32, 16, 32>>)

\* RwaXcmDispatch::send_transfer - old_tx_id, new_ownership_commitment,
\* new_tx_id.
EncodeTransfer == Call(51, 6, <<16, 32, 16>>)

\* Fault: the commitment is left out.
EncodeGrant_Short == Call(50, 2, <<32, 32, 16>>)

\* AccessGateXcmDispatch::send - app_id, nullifier, tx_id,
\* access_key_commitment.
EncodeGrant == Call(50, 2, <<32, 32, 16, 32>>)

\* The calls of the destinations' pallets that the hub means, with the
\* widths their declarations give the arguments.
RwaCalls ==
    { Call(51, 4, <<4, 32, 32, 32, 16, 32>>),  \* xcm_record_purchase
      Call(51, 5, <<16, 32>>) }                \* redeem_rwa_ownership

GateCalls ==
    { Call(50, 2, <<32, 32, 16, 32>>),         \* xcm_record_access_grant
      Call(50, 3, <<16, 32>>) }                \* use_access_key

Bytes(widths) == FoldSeq(+, 0, widths)

Decodes(data, calls) ==
    \E c \in calls : /\ c.pallet = data.pallet
                     /\ c.call = data.call
                     /\ Bytes(c.widths) = Bytes(data.widths)
===============================================================================
