# Nulla relay in TLA+

Models of the protocol logic of the Nulla relay repository: the shielded pools
of the Quantum chain (`proofhub`) and of the ScanProof chain, the circuits and
the Merkle tree of the former, the transaction pool in front of it, the XCM
settlement, and the two chains it settles on (AuthGate and the RWA chain).
TLC checks the models on small instances; TLAPS proves, for every value of the
constants, every safety property checked of the two hubs' lanes, the circuits,
the transaction pool, the Merkle tree, the settlement and both destinations,
and the refinement of the abstract shielded pool by all three lanes that issue
notes, by ScanProof's two as long as calls have the form its pallet documents. What is left to TLC alone is liveness.

File names below are abbreviated:

| short | file |
|---|---|
| PH  | `src/proofhub/pallets/proofs/src/lib.rs` |
| VER | `src/proofhub/verifier/src/lib.rs` |
| PHC | `src/proofhub/runtime/src/configs/mod.rs` |
| AG  | `src/authgate-parachain/pallets/access-keys/src/lib.rs` |
| RG  | `src/rwa-parachain/pallets/rwa-registry/src/lib.rs` |
| MK  | `src/rwa-parachain/pallets/rwa-marketplace/src/lib.rs` |
| SP  | `src/scanproof/pallets/proofs/src/lib.rs` |
| SV  | `src/scanproof/verifier/src/lib.rs` |

## 1. Inventory

Four parachains hang off one relay chain. Two are *hubs* that hold money in a
shielded pool (Quantum, para 2000, post-quantum proofs; ScanProof, para 2002,
Pedersen notes and one-of-many proofs). Two are *destinations* that deliver
what was bought (RWA, para 2001; AuthGate, para 2003). A purchase on a hub
spends a note and sends one XCM `Transact`; nothing ever travels back.

```
  user ──deposit──▶ hub pool ──purchase──▶ note spent, change inserted, price paid
                                   │
                                   └─ Transact over HRMP ─▶ RWA marketplace record
                                                          ─▶ AuthGate access grant
  user ◀─withdraw── hub pool                 user ── opens the commitment once ──▶
```

| component | state | operations | what makes it correct |
|---|---|---|---|
| ProofHub v2 lane (PH) | `LeafIndexV2`, `LeafCountV2`, `FrontierNodesV2`, `CurrentRootV2`, `RecentRootsV2`, `NullifierUsed`, `OwnershipCommitments`, prices, pool balance | `deposit_v2`, `purchase_rwa_v2`, `purchase_access_v2`, `withdraw_v2`, `set_rwa_price`, `set_access_config` | a note is spent once across three calls; the exit is never closed; the pool backs every open claim; a superseded root is accepted for exactly the window |
| ProofHub v1 lane (PH) | `SpendTagCommitments`, `SpendTagRpCommitments`, `SpendTagUsed`, `CommitmentIndex`, `Leaves`, `OwnershipUsed`, and `NullifierUsed`, `OwnershipCommitments`, prices, pool shared with v2 | `purchase_rwa`, `purchase_access`, `withdraw_private`, `relist_private` (`deposit_public` always fails) | a tag is spent once; an ownership is resold once; a resale creates no value |
| Incremental Merkle tree (VER, `mod v2`) | one pending node per level, the count | `Frontier::insert`, `root`, `reference_root`, `verify_merkle_path` | the incremental root is the root of the tree; a path verifies for one leaf only |
| Verifier and circuits (VER) | none | `SpendAir`, `DepositV2Air`, `PurchaseAir`, ML-DSA | accept exactly the relation the calls rely on |
| Transaction pool (PH `validate_unsigned`) | node-local pool | admission, tags, longevity, staleness | an admitted call is not needlessly lost or duplicated |
| XCM dispatch (PHC) | HRMP queues | `RwaXcmDispatch::send`, `send_transfer`, `AccessGateXcmDispatch::send` | what was paid for is announced, and the destination can execute it |
| AuthGate (AG) | `AppRegistry`, `AccessGrants`, `KeyUsed` | `list_access_slot`, `update_access_slot`, `xcm_record_access_grant`, `use_access_key` | one session per grant, grants final |
| RWA registry (RG) | `Assets`, `NextAssetId`, company info | `register_asset`, `lock_for_sale`, `mark_sold`, `release_after_redemption`, `set_company_info` | a sold asset stays sold |
| RWA marketplace (MK) | `Listings`, `RedemptionClaims`, `NullifierUsed`, `ProofHubPurchases`, `OwnershipRedeemed` | `list_asset`, `cancel_listing`, `buy_privately`, `redeem_asset`, `xcm_record_purchase`, `redeem_rwa_ownership` | one claim per asset, one release per recorded purchase |
| ScanProof coin lane (SP) | `CoinGroups`, `CurrentGroup`, `SerialUsed`, `CoinLocation`, prices, pool balance | `deposit_coin`, `purchase_coin`, `withdraw_coin`, `purchase_access_coin` | the bytes of a serial pay once; a coin is where its location says; a full group never changes, so a wallet that keeps proving gets out |
| ScanProof Pedersen lane (SP) | `Leaves`, `CommitmentIndex`, `CurrentRoot`, `RecentRoots`, `RootLeafCount`, `NullifierUsed`, prices, pool balance | `deposit_public`, `submit_proof`, `purchase_rwa`, `purchase_access`, `withdraw_private` | a nullifier is spent once; a transfer creates no value; membership by path and by index mean the same |
| ScanProof verifier (SV) | none | `verify_one_of_many`, openings, balance and range proofs, `pad_group` | accept exactly the relation the calls rely on |
| Relay and parachain runtimes, CLI, scripts, weights | configuration | – | – |

The hard behaviours: several unsigned calls compete for one note; a proof is
made against a root that later insertions supersede, or about a group of
coins that goes on growing; buffers, counters, groups and trees reach their
limits; a circuit's cell is read hundreds of rows after it was fixed; a purchase is final on the hub before anybody knows
whether the destination can execute it; tx_ids are chosen by callers and
collide; admins change prices, listings and locks in between.
`PROJECT.json` lists these under `hazards`, each at its line.

## 2. Modules

| module | models | uses |
|---|---|---|
| `Currency` | `Currency::transfer` of pallet_balances (external): no-op transfers, existential deposit, reaping, burnt dust | – |
| `ShieldedPool` | abstract specification: what a shielded pool promises | – |
| `ProofHubV2` | the v2 lane | `Currency`, instance of `ShieldedPool` |
| `MCProofHubV2` | TLC instance | `ProofHubV2` |
| `MerkleFrontier` | the incremental tree and its reference | – |
| `Destination` | the parameters both destinations share | – |
| `AuthGate` | the access-keys pallet | `Destination` |
| `RwaChain` | registry and marketplace | `Destination` |
| `XcmDispatch` | the encoded calls and the decoder | – |
| `Settlement`, `MCSettlement` | the hub, the queues and both destinations composed | `ProofHubV2`, `XcmDispatch`, instances of `AuthGate` and `RwaChain` |
| `ProofHubV1`, `MCProofHubV1` | the legacy lane | `Currency`, `XcmDispatch` |
| `TxPool`, `MCTxPool` | the unsigned v2 calls between submission and inclusion | `ProofHubV2` |
| `Poseidon` | the v2 hashes as terms: which value enters which lane in which round | – |
| `SpendCircuit` | `SpendAir` and `DepositV2Air`, row by row, and the prover's table | `Poseidon` |
| `ScanCoin`, `MCScanCoin` | ScanProof's coin lane with its wallets | `Currency`, instance of `ShieldedPool` |
| `ScanPedersen`, `MCScanPedersen` | ScanProof's Pedersen lane | `Currency`, instance of `ShieldedPool` |
| `PoolFacts` | lemmas on sums over finite sets, on transfers, and on the claims of open notes | `Currency`, `TLAPS` |
| `HubSystem_proofs` | the theorems about the v2 lane: by itself, behind its transaction pool, and in front of its destinations | `TxPool`, `Settlement`, `PoolFacts` |
| `SpendCircuit_proofs` | the theorems about the circuits | `SpendCircuit` |
| `ScanCoin_proofs`, `ScanPedersen_proofs` | the theorems about ScanProof's lanes | the module, `PoolFacts` |
| `ProofHubV1_proofs` | the theorems about the legacy lane | `ProofHubV1`, `PoolFacts` |
| `MerkleFrontier_proofs` | the theorems about the tree | `MerkleFrontier` |
| `Destinations_proofs` | the theorems about both destinations | `AuthGate`, `RwaChain` |

Variables carry the names of the storage items and actions those of the
dispatchables. An operator named `X_Something` right before `X`, with a
comment that begins with *Fault*, is a deliberately broken version of `X`; no
specification uses it. Each one shows that some property would notice that
mistake in the code.

### How the code became a model

- **Errors.** FRAME rolls a dispatchable back when it returns `Err`. So an
  action is enabled exactly when the call succeeds, and writes that precede a
  failing check need no state of their own. The three checks on a spend are
  one operator, `Spend`, because the three calls make them in the same order.
- **Hashes and commitments** are injective: a leaf *is* the note
  `[v, b, pk]`, a commitment *is* the pair it hides, a tree node *is* the pair
  of its children. What a hash does *not* read is kept: a nullifier is the
  blinding alone (VER:663), so notes that share a blinding share it.
- **Roots.** In `ProofHubV2` a root is named by the number of leaves it
  commits to, and by 0 when it commits to none. `MerkleFrontier` justifies
  both halves: `RootNamesCount` shows that a root determines its count, and
  that the full tree falls back to the empty root.
- **Proofs.** A STARK proof is its witness: the verifier accepts exactly when
  the witness satisfies the circuit's relation. Values are range checked to 64
  bits, so the circuit's subtraction does not wrap.
- **Unsigned calls** are made by anybody who holds a witness: the next-state
  relations quantify over all notes, roots, keys and change notes.
- **XCM.** A call is its pallet index, call index and the widths of its
  arguments. All are fixed-width, so it decodes when the call exists and the
  byte counts agree. A closed channel swallows the program (PHC:485); a
  refused one is discarded on arrival.
- **Coin proofs** (`ScanCoin`) are made in one step and verified in another.
  A call carries the padded group, price and change its proof is about; the
  pallet compares them with the state at inclusion, because the Fiat-Shamir
  challenge covers all of them (SV:299-322, SV:540). A wallet cannot prove a
  false statement but may act on a stale view. A failing call leaves the
  transaction pool and changes nothing else (`rejected`). Each of the three
  calls has its own tag prefix (SP:500, 517, 595), so the pool holds one call
  per pair of prefix and serial. A published serial is 32 bytes, read modulo
  the order of the group (SV:341) and stored as they are (SP:1168, 1214): the
  bytes `[s, q]` stand for the scalar `s + q * l`.
- **Pedersen notes** (`ScanPedersen`) are their openings. Before an unsigned
  call runs FRAME calls `validate_unsigned`, so its checks are guards too;
  that the nullifiers of a transfer differ is checked only there (SP:383-388).
  A nullifier is an argument of its own, and a transfer may name one
  commitment as two inputs.
- **Calls of the documented form.** ScanProof's pallet takes calls of more
  forms than its documentation describes. Coin lane: the bytes of a serial
  need not be canonical; a change takes up whatever the coin leaves over, of
  either sign and whatever serial, as no range proof is asked for
  (SP:1174-1196); and a change may be cut from a padding coin, which gives a
  point nobody can open (`Opaque`). Pedersen lane: the nullifier is not tied
  to the note it is said to come from (`derive_nullifier(blinding)`, SP:914);
  the amount a deposit pays is read behind the range proof and compared with
  nothing (SP:659-664); and the change of a purchase has no range proof
  (SP:826-835). Both models take all of these: values are integers, serial
  bytes, nullifiers and amounts are chosen freely. A history variable tells
  whether every call so far had the documented form (`documented`; in the coin
  lane, `strays` counts those that had not). What the pallet guarantees by
  itself is stated for all behaviours: who is member of what, the groups and
  the window, and that a serial's bytes or a nullifier are accepted once. What
  depends on the callers as well, backing, exits and the refinement of
  `ShieldedPool`, is stated as long as `documented` holds.
- **The circuit** (`SpendCircuit`) is a machine whose state is one row of the
  execution table. A step is a pair of consecutive rows that satisfies every
  transition constraint; cells the constraints leave open are chosen freely,
  so the reachable final rows are exactly the tables the verifier accepts. The
  permutation is a term, so what is assumed is that it has no collisions; the
  field is the integers modulo a small number that, like 2^128 to a 64-bit
  value, exceeds twice the range of a value. A cell no constraint reads keeps
  the prover's value: it can differ in a real table without being observable.
- **Admins** are unrestricted: any price, any lock, any listing at any time.
- **History variables** (`released`, `burnt`, `sent`, `sessions`, `releases`,
  `uses`, `spends`, `strays`, `documented`, `dropped`, `refused`, `leaves`, `roots`) record what
  events report or what has left the chain; no guard reads them.

### `ShieldedPool`, the abstract specification

Three variables: notes issued, tags struck, value in the vault. A note is
issued against its value; striking a tag consumes one note issued under it;
what leaves the vault at that moment, together with the change, is that note's
value. No tree, no window, no root, no proof. `ProofHubV2` implements it with
`issued <- DOMAIN LeafIndexV2`, `struck <- NullifierUsed`,
`vault <- balance[Pool] + burnt`. The burnt dust is in the mapping because a
payment may reap the pool account: that value is gone although notes still
claim it. `ScanCoin` and `ScanPedersen` implement the same specification as
long as calls have the documented form, the coin lane with serials as tags (the pallet does not even know which coin it
strikes) and the Pedersen lane with its `Transfer`, which replaces whole notes
by new ones of the same total.

## 3. Runs

State counts are distinct states. All runs but those of `MerkleFrontier` and
`SpendCircuit` check for deadlock: a full tree accepts no further leaf, and a
table that violates a constraint has no next row.

| run | checks | instance | states |
|---|---|---|---|
| `proofhub_v2` | `TypeOK`, `TreeConsistent`, `WindowExact`, `SpentOnce`, `OneDispatchPerNote`, `ExitOpen`, `Solvent`, `RefinesShieldedPool` | 3 blindings, values 0–3, prices 0–2, existential deposit 2, 4 leaves, window 2 | 201,243 |
| `merkle_frontier` | `FrontierMatchesReference`, `PathsExact`, `RootNamesCount` | depth 3, three leaf values | 9,841 |
| `spend_circuit` | `ProofsBind`, `ValueExact`, `HonestAccepted` | 2 levels, 2 rounds, 2-bit values modulo 11, 2 blindings, keys and siblings | 55,280 |
| `tx_pool` | `StaleForEver`, `WithdrawalServed` | 2 blindings, 3 leaves, window 1, 2 pending calls | 74,078 |
| `authgate` | `SessionOnce`, `GrantsFinal` | 3 callers, 2 apps, 2 tx_ids, 2 blindings | 4,265 |
| `rwa_chain` | `OneClaimPerAsset`, `SaleFinal`, `ReleasedOnce` | 2 asset ids, the first from genesis | 82,348 |
| `settlement` | `KeysPaid`, `Accounted`, `GrantSettles` | 2 blindings, 2 tx_ids, 4 leaves, both channels may be closed | 195,466 |
| `proofhub_v1` | `TagSpentOnce`, `ResoldOnce`, `LegacyPlaces`, `RelistConserves` | 2 legacy notes, 4 tags, 3 leaves | 218,770 |
| `scan_coin` | `LocationsExact`, `CoinSpentOnce`, `CoinsBacked`, `FullGroupsFixed`, `RefinesShieldedPool`, `CoinExits` | 2 serials in 3 encodings, values −1, 1 and 3, prices 2 and 3, existential deposit 2, groups of 2, 2 calls in flight, 3 coins, 1 call of another form | 75,052 |
| `scan_pedersen` | `LanesOfMembershipAgree`, `WindowOrdered`, `NullifierSpentOnce`, `NotesBacked`, `RefinesShieldedPool`, `NoteExits` | 2 blindings, 2 nullifiers, values −1, 1 and 2, 2 inputs, 2 outputs, 3 leaves, window 2 | 54,855 |

What they show:

- **`proofhub_v2`**: whatever the order of deposits, both purchase lanes,
  withdrawals and price changes, no nullifier pays twice, a nullifier sends at
  most one message, a root is acceptable for exactly the window, every note
  (but the one that fills the tree) can always leave, and the pool covers what
  is still claimed. The instance fills the tree, overflows the window, and has
  notes that share a blinding. With an existential deposit above one the pool
  account can be reaped; every step is still a step of `ShieldedPool`, and the
  only value lost is the burnt dust.
- **`merkle_frontier`**: every sequence of leaves, repetitions included. With
  depth 3 a carry reaches every level, and every pattern of pending and stale
  nodes occurs; the theorems of section 4 hold for every depth.
- **`spend_circuit`**: every table either circuit accepts proves the relation
  the pallet relies on: one note with the signer's key lies under the root,
  the nullifier is its own, and value, price and change add up as integers.
  Conversely the table `build_spend_trace` fills in satisfies every constraint
  for every index and path, mode and value. Two levels and two rounds per
  permutation let every kind of row occur, and the carry from one level to the
  next; the theorems of section 4 hold for every depth, number of rounds and
  range, and every field with room for the sum of two values.
- **`tx_pool`**: `validate_unsigned` can only turn from valid to stale, so a
  pool that drops stale calls loses nothing; and a wallet that resubmits its
  withdrawal is served although roots leave the window (here after a single
  insertion), calls expire, and other calls hold its tags.
- **`authgate`**, **`rwa_chain`**: every interleaving of admin calls, hub
  calls, calls by accounts that are not a hub, and users. In `rwa_chain` the
  asset counter reaches its limit; properties about one asset leave out the
  last id, which `register_asset` replaces once the counter saturates.
- **`settlement`**: each key was paid for exactly once; each paid program is
  in exactly one of four places (on its way, dropped by the router, refused,
  done). Under fairness a queued key is granted unless AuthGate de-lists the
  app or another purchase uses its tx_id.
- **`scan_coin`**: several calls in flight, for one serial or for two, coins
  that join the group between proof and inclusion, rollover by deposits and by
  change, several coins under one serial, a serial in two encodings, changes
  below zero and from padding, a reaped pool account. Whatever the calls, the
  bytes of a serial are accepted once and sent once, locations and groups
  agree, and a full group stays as it is. As long as spends have the
  documented form a coin pays once and is backed, and it comes out at last.
- **`scan_pedersen`**: transfers that join two notes, name one twice or split
  into two, with one root for two leaves; any nullifier with any note, any
  amount with any deposit; a tree that fills up and a window that overflows.
  Whatever the calls, a nullifier is spent for one input and both ways of
  showing membership agree. As long as calls have the documented form, value
  is conserved although nobody sees it.
- **`proofhub_v1`**: reused tags, tx_ids and commitments, purchases with a
  change of the caller's choice, and a leaf vector that overflows, leave each tag spent once, each ownership resold once and no
  value created by a resale.

Bounds: the sets of values and blindings are the smallest in which two notes
share a blinding, two calls compete for a note, change is zero and non-zero,
and a price is set, raised and removed. The window, the trees, the counters
and the legacy vector are shorter than in the code precisely so that every run
reaches their limit; the capacity, the window and the depth of the tree are
parameters of the proofs too. Properties that quantify over pairs of notes,
calls or messages need two of each; a third blinding is there where two notes
share one and another note must stay unaffected (`proofhub_v2`). Three bounds
of `ScanCoin` keep its run finite: `MaxPending` calls in flight, so that two
calls race for one serial; `MaxCoins` coins from which on nothing makes new
ones, one more than a group holds, so that a second group starts; and
`MaxStray` calls of another than the documented form, as one is enough to leave
the behaviours about which the conditional properties speak, and the others
speak of what such a call leaves behind. The proofs use none of the three.

**Fairness.** Users, admins and hubs are never obliged to do anything, and a
channel may stay closed for ever. What is assumed:

- `Settlement`: weak fairness of AuthGate's delivery (execute or refuse) and of
  the RWA chain's. Inbound XCMP messages are served by the collators in every
  block, in order, without any call by a user.
- `TxPool`: the pool drops what is stale and, after 64 blocks, every other call
  (weak fairness); block authors include what stays valid, and the wallet
  submits its withdrawal again whenever it is gone (strong fairness, as expiry
  interrupts both). The tree is finite, so only finitely often can a new root
  push the wallet's out of the window; with an unbounded flow of insertions
  this promise would need the wallet to be faster than the window.
- `ScanCoin`: a pending call is included (weak, for every pair of prefix and
  serial); a wallet that wants out keeps submitting withdrawals under the
  canonical bytes of its serial (strong, as other calls interrupt it). That it succeeds rests on
  full groups being fixed, not on the model's finite set of coins
  (`FullGroupProofsLast` in section 4).
- `ScanPedersen`: a submitted withdrawal under the documented nullifier is
  included (weak). Its longevity is
  `u64::MAX` and it names no root, so nothing but a spend can remove it.

### Runs that end in a counterexample

| run | property | what the code does |
|---|---|---|
| `settlement_rwa` | `PurchaseSettles` | `RwaXcmDispatch::send` encodes 116 bytes of arguments, `xcm_record_purchase` declares 148 (it also takes `buyer`), so no purchase is ever recorded on the RWA chain, against PHC:435-436 |
| `proofhub_v1_transfer` | `TransferExecutable` | `send_transfer` names call index 6 (its comment says 5, which is `redeem_rwa_ownership`); the marketplace has 0 to 5, against PHC:497 |

### Observations without a run

- `Frontier::insert` stores the leaf that fills the tree nowhere (VER:714), and
  the root falls back to that of the empty tree (`RootNamesCount` states it;
  the test at VER:1804, which compares both roots, stops at 37 leaves). So no
  root ever covers the last of 2^20 leaves and that note cannot be spent. `ExitOpen` states the exception exactly.
- In the legacy lane a purchase or a resale writes its ownership under the
  tx_id it is given, also when that is taken, against "Unique tx ID" at PH:99.
- The pallet README says the legacy calls return `LegacyDisabled`; only
  `deposit_public` does.
- A payment note made by `relist_private` has no `rp_commitment` and so can be
  withdrawn but not spent on a purchase, unlike the comment at PH:88.
- `purchase_rwa` and `purchase_access` do not compare the BLAKE3 commitment of
  the change with the change the proof is about; `relist_private` does compare.
- The comments on `PurchaseAir` say that the change is what the purchase leaves
  over and that without a change the note must equal the price (VER:414-415,
  485-486, 579-580). The constraints say `v >= price` only: the bridge row
  switches all of them off (VER:430-431, 471-473), and the row after it fixes
  the first column alone (VER:502). `verify_purchase_proof` is as weak.
- What ScanProof's pallet documents but does not check is listed in section 2
  (*Calls of the documented form*); the conditional properties show exactly
  which guarantees rest on it.
- `SpendTagChangeRpCommitments` is written and never read.
- One leaf above its bound, `Leaves` is replaced by an empty vector
  (`unwrap_or_default`, PH:734), and new indices start again at 0.
- `release_after_redemption` (RG:176) releases a sold asset that was not
  redeemed, although the comment at MK:287 says it stays locked until then.
- The asset counter saturates at `u32::MAX`; the next registration replaces
  the asset there.
- The RWA chain accepts only para 2000 as origin; the comment on ScanProof's
  dispatcher (`src/scanproof/runtime/src/configs/mod.rs:429`) says it accepts
  para 2002 as well. Its purchase lane touches neither listings
  nor the registry.

## 4. Theorems

The theorems hold for every set of accounts, blindings, serials, tags, keys,
ids and commitments, all natural values and prices, and every capacity, window
length, group size, tree depth and number of assets. They rest on the named
assumptions of the component's module, which TLC evaluates in the runs:

| assumption | says | because |
|---|---|---|
| `ProofHubAssumption`, `ScanCoinAssumption`, `ScanPedersenAssumption` | the pool is an account; genesis balances are 0 or at least the existential deposit; note values of the hubs are naturals, scalars of ScanProof integers that include them, prices naturals; capacity, window and group size are positive; every serial has a canonical encoding and every blinding a documented nullifier; blindings, serials, nullifiers and values are finite sets | they are constants of the runtime, and `[u8; 32]` and `u64` have finitely many values |
| `LegacyAssumption`, `LegacyNoneAssumption` | the same for the legacy lane: finitely many tags, legacy notes with distinct commitments that fit the leaves; an absent value is none of the values stored | a storage map's `None` is not `Some` |
| `ExistentialDepositAssumption` | it is positive | pallet_balances demands it |
| `FrontierAssumption` | the depth is positive, and no leaf is the empty leaf | a note hash is a Poseidon output, taken as collision free |
| `CircuitAssumption` | rounds and levels are positive, and the field has more elements than two values can add up to | the circuit's constants: 64 rounds to half a block, 20 levels, 64-bit values in a field of 128 bits |
| `RwaAssumption` | at most as many genesis assets as there are ids | `GenesisConfig` numbers them |
| `AuthGateAssumption`, `NoneAssumption`, `AbsentAssumption`, `SettlementAssumption` | hubs are callers; an absent value is no record and no coin; an unopenable commitment has no opening | as above |

### The pools

| module | theorem | states |
|---|---|---|
| `HubSystem_proofs` | `InvCorrect`, `TypeCorrect`, `TreeCorrect` | the inductive invariant `IInv`; `TypeOK`; `TreeConsistent`: the leaf index is a bijection onto 0..count-1 |
| | `WindowCorrect`, `ExitCorrect` | `WindowExact`, `ExitOpen` |
| | `SpentOnceCorrect`, `DispatchCorrect`, `AppendOnlyCorrect` | `SpentOnce`, `OneDispatchPerNote`, `AppendOnly` |
| | `SolventCorrect` | `Solvent` |
| | `ExitFundedCorrect` | an unspent note passes every check of `withdraw_v2` |
| | `Refinement` | `RefinesShieldedPool` |
| `ScanCoin_proofs` | `CoinInvCorrect` | the inductive invariant `CoinInv` |
| | `LocationsCorrect`, `CoinSpentOnceCorrect`, `FullGroupsCorrect` | `LocationsExact`, `CoinSpentOnce`, `FullGroupsFixed` |
| | `CoinsBackedCorrect`, `CoinRefinement` | `CoinsBacked`, `RefinesShieldedPool`, both as long as spends have the documented form |
| | `FullGroupProofsLastCorrect` | a withdrawal proved about a full group keeps verifying until its serial is struck; the pool can pay it as long as spends have the documented form |
| `ScanPedersen_proofs` | `PedInvCorrect` | the inductive invariant `PedInv` |
| | `LanesCorrect`, `WindowCorrect` | `LanesOfMembershipAgree`, `WindowOrdered` |
| | `NullifierSpentOnceCorrect` | `NullifierSpentOnce` |
| | `NotesBackedCorrect`, `PedersenRefinement` | `NotesBacked`, `RefinesShieldedPool`, both as long as calls have the documented form |
| | `ExitFundedCorrect` | as long as calls have the documented form, an unspent note passes every check of `withdraw_private` |
| `ProofHubV1_proofs` | `V1InvCorrect` | the inductive invariant `V1Inv` |
| | `TagSpentOnceCorrect`, `ResoldOnceCorrect`, `LegacyPlacesCorrect`, `RelistConservesCorrect` | `TagSpentOnce`, `ResoldOnce`, `LegacyPlaces`, `RelistConserves` |

- **`IInv`** is the conjunction of `TypeOK`, `TreeConsistent`, `WindowShape`,
  `SpentOnce` and `OneDispatchPerNote`. `WindowExact` is not inductive: it says
  which roots are acceptable but not where they stand in `RecentRootsV2`, so it
  cannot tell which one the next shift removes. `WindowShape` says it: the
  window holds the consecutive roots that precede the current one, oldest
  first, and it is short only while the tree is young. `WindowExact` and
  `ExitOpen` are then arithmetic (`ShapeExact`, `CoverExact`). `SpentOnce` and
  `OneDispatchPerNote` need each other's nullifier facts: a nullifier not yet
  struck has released nothing and appears in no message, so the step that
  strikes it is the first for both (`SpendStep`, `DispatchStep`).
- **Solvency.** `Solvent`, `CoinsBacked` and `NotesBacked` compare the vault
  with a sum: of each tag that is not struck, the value of the greatest note
  issued under it, as no more than one can be spent. `PoolFacts` proves what
  they need about sums over a finite set. The library's induction theorems
  take an operator and cannot be used, so a statement about all finite sets is
  proved by taking a smallest counterexample (`LeastSubset`, from the
  well-foundedness of the subset order) and removing an element; that the
  folds the definitions are made of exist at all is proved the same way
  (`PartialSumsExist`). On top of them four lemmas do the accounting:
  issuing a note raises the claims by at most its value (`ClaimsRaised`),
  striking a tag lowers them by at least the value spent (`ClaimsSpent`), and
  both for several notes at once (`ClaimsRaisedAll`, `ClaimsSpentAll`), which
  the Pedersen lane's transfers need.
- **Getting out.** Liveness is beyond the prover, but what it rests on is not:
  at no time does the state of the chain forbid a withdrawal. `ExitFunded`
  joins `ExitOpen` (a root in the window covers the note) with `Solvent` (what
  covers all claims covers each of them, `ClaimCovered`); in the Pedersen lane
  it needs `NotesBacked` alone, as a withdrawal names no root. In the coin lane
  a coin that joins the group spoils the proofs made about it, so the theorem
  is about a step: once the group is full, an acceptable withdrawal keeps
  verifying whatever else is called (`FullGroupsFixed`), and the pool can pay
  it as long as spends have the documented form (`CoinsBacked`, and
  `AccountsStay`: no step empties the account it goes to). Three cases are excluded by name: the leaf that fills
  the tree, a pool account that was reaped with dust in it, and a payment too
  small to create the account it goes to.
- **Refinement.** Each call is a step of `ShieldedPool` under the mapping of
  section 2. The currency lemmas give what reaches the vault: a payment takes
  the amount or, to the pool itself, nothing (`PaymentOut`), and a deposit
  adds it (`PaymentIn`).
- **`CoinInv`** adds to `LocationsExact` where the first coin goes (`GroupsOK`),
  to `CoinSpentOnce` how often each serial was spent (`SerialsOK`), that a call
  in flight is under its own tag and well formed (`PendingOK`), and that documented spends make only coins of 64-bit
  values (`StraysOK`).
  `TargetRoom`, the fact that the next coin joins a group with room, gives
  both that locations stay exact and that full groups stay fixed.
- **`PedInv`** says that `Leaves`, `CommitmentIndex`, `CurrentRoot`,
  `RecentRoots` and `RootLeafCount` describe one append-only tree (`TreeOK`):
  a commitment's index is its place among the leaves (`IndexExact`), every
  root that can be used is recorded with the length of the prefix it commits
  to (`CountsExact`), and the window is ordered. Membership by index and by
  path can then not differ (`TreeMembership`), whatever the window's length.
  The rest of it counts the spends of each nullifier (`SpendsOK`) and says that
  documented calls make only notes of 64-bit values (`ValuesOK`).
- **`V1Inv`** describes the notes as `do_insert_note` leaves them (`NotesOK`):
  the count of leaves equals the number of indexed commitments, and then every
  place is taken once, or it is smaller. The second case is what
  `unwrap_or_default` leads to, and it is closed under insertions, since both
  numbers grow together: `LegacyPlaces` is not inductive without it.
  `RelistConserves` is accounting again: the buyer's tag leaves the sum, the
  payment and the change join it, and overwriting a note, reusing a spent tag
  or inserting a commitment twice only lowers it (`InsertedClaim`).

### The tree

| module | theorem | states |
|---|---|---|
| `MerkleFrontier_proofs` | `TreeInvCorrect` | the inductive invariant `TreeInv` |
| | `FrontierCorrect`, `PathsCorrect` | `FrontierMatchesReference`, `PathsExact` |
| | `RootNamesCountCorrect` | `RootNamesCount`, the fact by which `ProofHubV2` names roots by counts |

The heart of `TreeInv` is `Pending`: at each level where the count has a bit,
the stored node is the last complete subtree of the reference tree; at the
other levels nothing is said, and indeed stale nodes stay there.
`RootIsReference` folds it: the node carried upwards by `root` is, at every
level, the reference node that stands at the count's prefix, and everything to
the right of it is empty (`NodeBeyond`). `InsertPending` re-establishes it: an
insertion flips the trailing ones of the count (`Carry`), the climb merges
exactly the subtrees stored there (`ClimbNode`), and complete subtrees to the
left do not change (`NodeKept`). For paths, a fold against the siblings of the
reference tree meets the reference root only if, level by level downwards, its
node is the reference node, as hashes are injective (`PathLeaf`); two roots are
equal only if all leaves are (`SameLeaves`). All of these go over the levels of
a tree of any depth (`Upwards`, `Downwards`), and the recursive functions of
the model are first shown to satisfy their equations (`FoldEquation`,
`LevelsEquation`, ...).

### The circuits

| module | theorem | states |
|---|---|---|
| `SpendCircuit_proofs` | `InvCorrect` | the inductive invariant `IInv` |
| | `ProofsBindCorrect`, `ValueExactCorrect` | `ProofsBind`, `ValueExact`: what the verifier accepts is sound |
| | `HonestAcceptedCorrect` | `HonestAccepted`: what the wallet proves is accepted |

The verifier sees only pairs of rows, yet the properties relate cells that are
hundreds of rows apart. `IInv` says what has to be carried from one to the
other. The row counter is a block and a step in it (`Schedule`: exactly one
mask pattern for each); a block is working on one hash of the statement
(`Works`), the first on the nullifier, two on the note, two on each level of
the tree, two on the change; a digest that was shown is that of its block
(`Shown`); the accumulator is the sum of the bits read so far and below its
power of two, and a value is in range once its row has checked it (`Ranged`);
and the equation between value, price and change holds modulo the field, since
`v` and `cv` never change (`Conserved`). One lemma per ingredient shows that a
row keeps it: `WithinBlock`, `NextBlock`, `ShownStep`, `RangeStep`. In the last
row all blocks have been worked on, which is `ProofsBind`, and both values have
been checked, so the equation holds in the integers (`NoWrap`).

`HonestAccepted` is about whole tables and uses no invariant. `HonestRows`
shows, mask by mask, that consecutive rows of `build_spend_trace` meet the
constraints (`HonestBit`, `HonestAux`, `HonestHalf`, `HonestSum`,
`HonestState`); the accumulator is the value's low bits because of
`OneMoreBit`. That the digests are the public inputs goes over the blocks: the
first three give nullifier and leaf (`NoteBlocks`), two blocks turn a node of
the path into its parent (`LevelBlocks`, over all levels `TreeBlocks`), and the
last two give the leaf of the change (`ChangeBlocks`).

### The system

| module | theorem | states |
|---|---|---|
| `HubSystem_proofs` | `PoolInvCorrect`, `PoolImplementsLane` | the inductive invariant `PoolInv`; `TxPoolSpec => Spec`: every theorem of the lane holds behind the transaction pool |
| | `StaleForEverCorrect` | `StaleForEver` |
| | `SettleInvCorrect` | the inductive invariant `SettleInv` |
| | `KeysPaidCorrect`, `AccountedCorrect` | `KeysPaid`, `Accounted` |
| | `HubUndisturbed` | `SettleSpec => Spec`: every theorem of the lane holds of the hub in the composition |
| | `GateUndisturbed` | `SettleSpec => Gate!GateSpec`: seen from AuthGate the composition is AuthGate, so what is proved of it by itself, `SessionOnce` and `GrantsFinal`, holds there too |
| | `SessionsPaidCorrect` | from end to end: every session on AuthGate is the only one of its `tx_id`, and is backed by one message of the hub whose note was struck and paid for and bought nothing else, and whose commitment was opened for its own app |
| `Destinations_proofs` | `GateInvCorrect`, `SessionOnceCorrect`, `GrantsFinalCorrect` | the inductive invariant `GateInv`; `SessionOnce`; `GrantsFinal` |
| | `RwaInvCorrect`, `OneClaimCorrect`, `SaleFinalCorrect`, `ReleasedOnceCorrect` | the inductive invariant `RwaInv`; `OneClaimPerAsset`; `SaleFinal`; `ReleasedOnce` |

- `PoolInv` is `IInv` and, of every pending call, that its root is one the tree
  has had and its arguments are typed. A call that is included is then an
  action of the lane (`DispatchIsNext`). `WindowExact`, before and after the
  step, and a leaf count that never falls give `StaleForEver`.
- `SettleInv` is `IInv` with five facts about programs: a program names an
  entry of the lane it is for (`SentOK`); a queue holds programs the hub sent
  to that destination, none twice (`QueuesOK`); the records of AuthGate and of
  the RWA chain are what the hub told them (`GrantsOK`, `RecordsOK`); and a
  program is in exactly one of the places it can be (`PlacesOK`). A record
  names its program because no two purchases strike one nullifier, which is
  `OneDispatchPerNote` of the hub; that a key was paid for combines `GrantsOK`
  with it.
- `SessionsPaid` needs `SessionOnce` in the composition as well, which
  `SessionsOK` shows inductive relative to `SettleInv`, with nothing supposed of
  the commitments; `GrantsOK` then leads from the session to the message and
  `OneDispatchPerNote` from the message to the note.
- `GateInv` is `SessionOnce` with types: it is inductive because the grant's
  flag and `KeyUsed` are written in one call.
- `RwaInv` has four parts. `RegistryOK` says which ids are in use, so that a
  registration replaces none below the last; `ListingsOK` that what the
  marketplace calls sold is sold in the registry, which is why `list_asset`
  cannot reopen it; `ClaimsOK` that a redeemed listing has exactly one claim
  and an unused nullifier none; `PurchasesOK` counts releases.

`GateUndisturbed` supposes that the commitments the hub sends are among those
AuthGate's model knows: pairs that open them, or the one that nothing opens. In
the code both are `[u8; 32]`.

Only model-checked: liveness (`GrantSettles`, `WithdrawalServed`, `CoinExits`,
`NoteExits`), as fairness and ENABLED are beyond the prover; and the two runs
that end in a counterexample.

## 5. Not modelled

- The arithmetic of the Poseidon rounds and of the 128-bit field, the STARK
  protocol itself, `PurchaseAir` of the legacy lane, ML-DSA, and ScanProof's
  Ristretto arithmetic and Fiat-Shamir proofs: out of reach of explicit-state
  checking. Their relations appear as guards.
- `validate_unsigned` of the legacy calls and of the coin calls: their checks
  are a subset of those of the dispatchables, which are modelled.
- The v1 and v2 lanes over one pool account: checked separately; their
  composition is left in the plan.
- The earlier variant `scanproof/pallets/proof` has no manifest and is in no
  runtime.
- The RWA vault: configured by the RWA runtime, its source is not in the
  repository.
- The relay runtime and most of the parachain runtimes: configuration of
  Polkadot SDK pallets, with no protocol of their own. They and the weight
  files make up most of the repository's lines, which is why the mapped lines
  are a small share of the whole although nearly every pallet call is mapped. Weights
  are generated. The CLI and the scripts keep no state.

## 6. Plan

Done: the v2 lane, the Merkle tree, AuthGate and the RWA chain, the
settlement, the legacy lane, both lanes of ScanProof and the transaction pool,
and the rows of the circuits, all with their theorems. Left:

1. The v1 and the v2 lane composed over one pool account and one
   `NullifierUsed`, with the theorems that survive the sharing.
2. ScanProof as a second sender in `Settlement`.
