------------------------------- MODULE AuthGate -------------------------------
(***************************************************************************)
(* The access-keys pallet of the AuthGate parachain: apps are registered,  *)
(* grants arrive as XCM Transact calls from the two hubs, and the holder   *)
(* of a grant's blinding uses it once to open a session.                   *)
(*                                                                         *)
(* The hash of an app id and a blinding is taken as injective, so a        *)
(* commitment IS that pair; a buyer may also have committed to something   *)
(* nobody can open.  An app's name is not told apart by any property.      *)
(***************************************************************************)
EXTENDS Integers, FiniteSets, Destination

CONSTANTS
    Sovereigns,  \* ProofHubSovereign (para 2000) and ProofHubSovereign2 (2002)
    AppIds,
    KeyBlindings,
    Slots        \* the (price, payment_account) pairs an admin may choose

ASSUME AuthGateAssumption ==
    /\ Sovereigns \subseteq Callers
    /\ Unopenable \notin AppIds \X KeyBlindings

KeyCommitments == (AppIds \X KeyBlindings) \cup {Unopenable}

AppSlot == [terms : Slots, active : BOOLEAN]

AccessGrant ==
    [app_id : AppIds, nullifier : Nullifiers,
     access_key_commitment : KeyCommitments, used : BOOLEAN]

\* An absent value is no grant.
ASSUME NoneAssumption == None \notin AccessGrant

VARIABLES
    AppRegistry,   \* app_id -> AppSlot or None
    AccessGrants,  \* tx_id -> AccessGrant or None
    KeyUsed,       \* tx_ids mapped to true
    sessions       \* history: tx_id -> number of AccessKeyUsed events

gateVars == <<AppRegistry, AccessGrants, KeyUsed, sessions>>

compute_access_key_commitment(app_id, blinding) == <<app_id, blinding>>

GateInit ==
    /\ AppRegistry = [a \in AppIds |-> None]
    /\ AccessGrants = [t \in TxIds |-> None]
    /\ KeyUsed = {}
    /\ sessions = [t \in TxIds |-> 0]

\* Admin; an existing slot is overwritten and made active.
list_access_slot(app_id, terms) ==
    /\ AppRegistry' = [AppRegistry EXCEPT ![app_id] = [terms |-> terms, active |-> TRUE]]
    /\ UNCHANGED <<AccessGrants, KeyUsed, sessions>>

\* Admin; each field may be left as it is, in which case it is passed as now.
update_access_slot(app_id, terms, active) ==
    /\ AppRegistry[app_id] # None
    /\ AppRegistry' = [AppRegistry EXCEPT ![app_id] = [terms |-> terms, active |-> active]]
    /\ UNCHANGED <<AccessGrants, KeyUsed, sessions>>

\* Fault: a grant is recorded over an earlier one with the same tx_id.
RecordOk_Overwrite(caller, app_id, tx_id) ==
    /\ caller \in Sovereigns
    /\ AppRegistry[app_id] # None
    /\ AppRegistry[app_id].active

\* The checks of xcm_record_access_grant, in their order.
RecordOk(caller, app_id, tx_id) ==
    /\ caller \in Sovereigns
    /\ AppRegistry[app_id] # None
    /\ AppRegistry[app_id].active
    /\ AccessGrants[tx_id] = None

xcm_record_access_grant(caller, app_id, nullifier, tx_id, akc) ==
    /\ RecordOk(caller, app_id, tx_id)
    /\ AccessGrants' = [AccessGrants EXCEPT ![tx_id] =
         [app_id |-> app_id, nullifier |-> nullifier,
          access_key_commitment |-> akc, used |-> FALSE]]
    /\ UNCHANGED <<AppRegistry, KeyUsed, sessions>>

\* The opening a use of the key must present.
Opens(grant, blinding) ==
    grant.access_key_commitment = compute_access_key_commitment(grant.app_id, blinding)

\* Fault: the key is not marked as used in either place.
use_access_key_Unmarked(tx_id, blinding) ==
    /\ tx_id \notin KeyUsed
    /\ AccessGrants[tx_id] # None
    /\ ~AccessGrants[tx_id].used
    /\ Opens(AccessGrants[tx_id], blinding)
    /\ sessions' = [sessions EXCEPT ![tx_id] = @ + 1]
    /\ UNCHANGED <<AppRegistry, AccessGrants, KeyUsed>>

\* Fault: the opening is computed for the app the caller names.
use_access_key_AnyApp(tx_id, blinding) ==
    /\ tx_id \notin KeyUsed
    /\ AccessGrants[tx_id] # None
    /\ ~AccessGrants[tx_id].used
    /\ \E app \in AppIds : AccessGrants[tx_id].access_key_commitment
                             = compute_access_key_commitment(app, blinding)
    /\ AccessGrants' = [AccessGrants EXCEPT ![tx_id].used = TRUE]
    /\ KeyUsed' = KeyUsed \cup {tx_id}
    /\ sessions' = [sessions EXCEPT ![tx_id] = @ + 1]
    /\ UNCHANGED AppRegistry

\* Signed by anyone who knows the blinding.
use_access_key(tx_id, blinding) ==
    /\ tx_id \notin KeyUsed
    /\ AccessGrants[tx_id] # None
    /\ ~AccessGrants[tx_id].used
    /\ Opens(AccessGrants[tx_id], blinding)
    /\ AccessGrants' = [AccessGrants EXCEPT ![tx_id].used = TRUE]
    /\ KeyUsed' = KeyUsed \cup {tx_id}
    /\ sessions' = [sessions EXCEPT ![tx_id] = @ + 1]
    /\ UNCHANGED AppRegistry

Admin ==
    \E app_id \in AppIds, terms \in Slots :
        \/ list_access_slot(app_id, terms)
        \/ \E active \in BOOLEAN : update_access_slot(app_id, terms, active)

Record ==
    \E caller \in Callers, app_id \in AppIds, nullifier \in Nullifiers,
       tx_id \in TxIds, akc \in KeyCommitments :
        xcm_record_access_grant(caller, app_id, nullifier, tx_id, akc)

Use == \E tx_id \in TxIds, blinding \in KeyBlindings : use_access_key(tx_id, blinding)

GateNext == Admin \/ Record \/ Use

GateSpec == GateInit /\ [][GateNext]_gateVars

-------------------------------------------------------------------------------
\* A grant opens exactly one session, the two records of its use (KeyUsed
\* and the grant's own flag) never disagree, and a session is opened only
\* on a grant whose commitment is for the grant's own app (use_access_key).
SessionOnce ==
    \A t \in TxIds :
        /\ sessions[t] = (IF t \in KeyUsed THEN 1 ELSE 0)
        /\ t \in KeyUsed <=> (AccessGrants[t] # None /\ AccessGrants[t].used)
        /\ t \in KeyUsed => \E b \in KeyBlindings : Opens(AccessGrants[t], b)

\* Once recorded, a grant is never replaced, removed or given back: no
\* sequence of re-listed apps, repeated XCM calls and uses changes anything
\* of it but its flag, and that only once.
GrantsFinal ==
    [][\A t \in TxIds : AccessGrants[t] # None =>
         /\ AccessGrants'[t] # None
         /\ AccessGrants[t].used => AccessGrants'[t].used
         /\ [AccessGrants'[t] EXCEPT !.used = AccessGrants[t].used] = AccessGrants[t]
      ]_gateVars
===============================================================================
