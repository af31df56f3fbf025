------------------------------ MODULE Settlement ------------------------------
(***************************************************************************)
(* The Quantum hub and the two chains it settles on.  A purchase on the    *)
(* hub strikes a nullifier, pays, and hands an XCM program to the router   *)
(* in the same extrinsic; what happens to the program afterwards never     *)
(* reaches the hub.  If no HRMP channel is open the router's error is      *)
(* logged and swallowed; otherwise the program is queued, and queues are   *)
(* served in order.  The destination executes it with the hub's sovereign  *)
(* account as origin and discards it when the call does not decode or      *)
(* returns an error.                                                       *)
(***************************************************************************)
EXTENDS ProofHubV2, XcmDispatch

CONSTANTS
    MayClose,      \* destinations whose HRMP channel may be closed
    AssetOf,       \* rwa_id -> asset id: its first four bytes
    MaxAssetId,
    HubSovereign,  \* Sibling(2000) on the destination
    KeyBlindings, OwnerBlindings, Unopenable

\* An absent value is no record.
ASSUME SettlementAssumption ==
    /\ None \notin [app_id : AppIds, nullifier : Blindings,
                   access_key_commitment : Commitments, used : BOOLEAN]
    /\ None \notin [asset_id : {AssetOf[r] : r \in RwaIds}, nullifier : Blindings,
                   ownership_commitment : Commitments]

VARIABLES
    xcm,      \* dest -> queue of programs on their way
    dropped,  \* history: programs the router did not take
    refused,  \* history: programs the destination discarded
    AppRegistry, AccessGrants, KeyUsed, sessions,    \* AuthGate
    ProofHubPurchases, OwnershipRedeemed, releases   \* RWA chain

gateState    == <<AppRegistry, AccessGrants, KeyUsed, sessions>>
rwaState     == <<ProofHubPurchases, OwnershipRedeemed, releases>>
settleVars   == <<vars, xcm, dropped, refused, gateState, rwaState>>

Gate == INSTANCE AuthGate
    WITH Callers <- {HubSovereign}, Sovereigns <- {HubSovereign},
         Nullifiers <- Blindings, Slots <- {"terms"}

\* The purchase lane of the RWA chain; the registry and the listings, which
\* it does not touch, are held at an arbitrary value.
Rwa == INSTANCE RwaChain
    WITH Callers <- {HubSovereign}, ProofHubSovereign <- HubSovereign,
         Nullifiers <- Blindings, GenesisAssets <- 0,
         EntryHashes <- {}, CompanyInfos <- {},
         Assets <- None, NextAssetId <- 0, Company <- None, Listings <- None,
         RedemptionClaims <- None, NullifierUsed <- None

SettleInit ==
    /\ Init
    /\ xcm = [d \in {"rwa", "authgate"} |-> << >>]
    /\ dropped = {}
    /\ refused = {}
    /\ Gate!GateInit
    /\ ProofHubPurchases = [t \in TxIds |-> None]
    /\ OwnershipRedeemed = {}
    /\ releases = [t \in TxIds |-> 0]

\* XcmRouter::validate and deliver, called from within the extrinsic.
Send(m) ==
    \/ /\ xcm' = [xcm EXCEPT ![m.dest] = Append(@, m)]
       /\ UNCHANGED dropped
    \/ /\ m.dest \in MayClose
       /\ dropped' = dropped \cup {m}
       /\ UNCHANGED xcm

\* A purchase sends exactly one program, anything else none.
Hub ==
    /\ Next
    /\ IF sent' = sent THEN UNCHANGED <<xcm, dropped>>
                       ELSE \E m \in sent' \ sent : Send(m)
    /\ UNCHANGED <<refused, gateState, rwaState>>

Receive(d, m) ==
    /\ xcm[d] # << >>
    /\ m = Head(xcm[d])
    /\ xcm' = [xcm EXCEPT ![d] = Tail(@)]
    /\ UNCHANGED <<vars, dropped>>

GateAccepts(m) ==
    Decodes(EncodeGrant, GateCalls) /\ Gate!RecordOk(HubSovereign, m.id, m.tx_id)

GateExecutes ==
    \E m \in sent :
        /\ Receive("authgate", m)
        /\ GateAccepts(m)
        /\ Gate!xcm_record_access_grant(HubSovereign, m.id, m.nullifier, m.tx_id, m.commitment)
        /\ UNCHANGED <<refused, rwaState>>

\* Fault: the executor forgets a program it cannot execute.
Refuse_Silent(m) == UNCHANGED <<refused, gateState, rwaState>>

Refuse(m) ==
    /\ refused' = refused \cup {m}
    /\ UNCHANGED <<gateState, rwaState>>

GateRefuses == \E m \in sent : Receive("authgate", m) /\ ~GateAccepts(m) /\ Refuse(m)

RwaAccepts(m) ==
    Decodes(EncodePurchase, RwaCalls) /\ Rwa!PurchaseOk(HubSovereign, m.tx_id)

RwaDelivers ==
    \E m \in sent :
        /\ Receive("rwa", m)
        /\ IF RwaAccepts(m)
           THEN /\ Rwa!xcm_record_purchase(HubSovereign, AssetOf[m.id], m.nullifier,
                                           m.tx_id, m.commitment)
                /\ UNCHANGED <<refused, gateState>>
           ELSE Refuse(m)

\* The calls made on the destinations themselves.
GateLocal ==
    /\ Gate!Admin \/ Gate!Use
    /\ UNCHANGED <<vars, xcm, dropped, refused, rwaState>>

SettleNext == Hub \/ GateExecutes \/ GateRefuses \/ RwaDelivers \/ GateLocal

\* Collators keep producing blocks and serve the queues.
SettleSpec ==
    /\ SettleInit
    /\ [][SettleNext]_settleVars
    /\ WF_settleVars(GateExecutes \/ GateRefuses)
    /\ WF_settleVars(RwaDelivers)

-------------------------------------------------------------------------------
InFlight(m) == \E i \in 1..Len(xcm[m.dest]) : xcm[m.dest][i] = m

Granted(m) ==
    /\ AccessGrants[m.tx_id] # None
    /\ AccessGrants[m.tx_id].app_id = m.id
    /\ AccessGrants[m.tx_id].nullifier = m.nullifier
    /\ AccessGrants[m.tx_id].access_key_commitment = m.commitment

Recorded(m) ==
    /\ ProofHubPurchases[m.tx_id] # None
    /\ ProofHubPurchases[m.tx_id].nullifier = m.nullifier
    /\ ProofHubPurchases[m.tx_id].ownership_commitment = m.commitment

\* Every key on AuthGate was paid for on the hub, once: the grant is the
\* one some purchase announced, its nullifier is struck and has released
\* value there, and no nullifier backs two keys ("proves the note was spent
\* exactly once on ProofHub", AccessGrant).
KeysPaid ==
    \A t \in TxIds : AccessGrants[t] # None =>
        /\ \E m \in sent : m.dest = "authgate" /\ m.tx_id = t /\ Granted(m)
        /\ AccessGrants[t].nullifier \in NullifierUsed
        /\ released[AccessGrants[t].nullifier] > 0
        /\ \A u \in TxIds \ {t} : AccessGrants[u] # None =>
             AccessGrants[u].nullifier # AccessGrants[t].nullifier

\* No settlement vanishes or is counted twice: a program the hub paid for
\* is in exactly one of the four places it can be.
Accounted ==
    \A m \in sent :
        LET places == { <<"flight", InFlight(m)>>, <<"dropped", m \in dropped>>,
                        <<"refused", m \in refused>>,
                        <<"done", IF m.dest = "authgate" THEN Granted(m) ELSE Recorded(m)>> }
        IN Cardinality({p \in places : p[2]}) = 1

AccessMessages == [dest : {"authgate"}, id : AppIds, commitment : Commitments,
                   nullifier : Blindings, tx_id : TxIds]

RwaMessages == [dest : {"rwa"}, id : RwaIds, commitment : Commitments,
                nullifier : Blindings, tx_id : TxIds]

Listed(m)   == AppRegistry[m.id] # None /\ AppRegistry[m.id].active
UniqueTx(m) == \A o \in sent : o.dest = m.dest /\ o.tx_id = m.tx_id => o = m

\* A purchase of a key whose program was queued is eventually granted, if
\* the app stays listed on AuthGate and no other purchase names its tx_id.
GrantSettles ==
    \A m \in AccessMessages :
        [](InFlight(m) /\ [](Listed(m) /\ UniqueTx(m)) => <>Granted(m))

\* "sends a `Transact` to the RWA parachain (para 2001) so that
\* `pallet_rwa_marketplace::xcm_record_purchase` is executed there": the
\* same promise for the RWA lane (RwaXcmDispatch).
PurchaseSettles ==
    \A m \in RwaMessages :
        [](InFlight(m) /\ []UniqueTx(m) => <>Recorded(m))
===============================================================================
