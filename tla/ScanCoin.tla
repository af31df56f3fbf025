------------------------------- MODULE ScanCoin -------------------------------
(***************************************************************************)
(* The coin lane ("Phase 10") of the ScanProof chain's pallet,             *)
(* scanproof/pallets/proofs: deposit_coin pays value into the pool account *)
(* for a coin s*G1 + v*G + r*H, which joins the group that is filling up;  *)
(* purchase_coin, purchase_access_coin and withdraw_coin spend one coin of *)
(* a group without naming it and publish its serial s.                     *)
(*                                                                         *)
(* A spend is made in two steps of two parties.  A wallet reads a group    *)
(* and proves a statement about one of its coins (module one_of_many of    *)
(* the verifier); later a block author includes the call, and the pallet   *)
(* verifies the proof against the group as it is then.  In between other   *)
(* coins may join the group, the price may change and the serial may be    *)
(* struck, by another call among others: the pool of transactions tells    *)
(* the three calls apart by their tag prefixes and admits one of each.     *)
(*                                                                         *)
(* Abstractions of the data (all of the control is kept):                  *)
(*   - a coin is its opening [s, v, r]: the generators are independent.    *)
(*     v is a scalar, written as an integer: the sums of a model stay far  *)
(*     below the order l of the group.  Points that nobody can open (the   *)
(*     padding of a group and what is cut from it) are opaque;             *)
(*   - 32 bytes published as a serial stand for the scalar s + q * l;      *)
(*   - a proof is its statement and its witness: it verifies exactly when  *)
(*     the statement is the one the pallet builds and the witness satisfies*)
(*     it.  The Fiat-Shamir challenge hashes all coins of the padded group,*)
(*     the serial, the price, the change and the public inputs, so all of  *)
(*     them are part of the statement;                                     *)
(*   - a change and the coin it becomes differ by a serial (verify_g1_pok):*)
(*     the two are written as the one coin;                                *)
(*   - tx_id and the commitments a purchase carries are opaque here.       *)
(*                                                                         *)
(* The pallet does not check all of the form the documentation gives a     *)
(* spend: that the serial published is the canonical encoding of the       *)
(* coin's, that the change carries no serial and a 64-bit value, and that  *)
(* the coin it is cut from is no padding.  The calls below take whatever   *)
(* the pallet takes; the history variable `strays` counts the spends that  *)
(* had another form, and the properties about value are stated for the     *)
(* behaviours in which there was none.                                     *)
(*                                                                         *)
(* A dispatchable that returns Err is rolled back by FRAME: the call is    *)
(* out of the pool and nothing else has changed.                           *)
(***************************************************************************)
EXTENDS Integers, Sequences, FiniteSetsExt, Currency

CONSTANTS
    Accounts,       \* AccountIds of the chain
    Pool,           \* T::PoolAccount
    Endowment,      \* balances at genesis
    Serials, Blindings,
    SerialBytes,    \* 32-byte encodings of serials a caller may publish
    Opaque,         \* points cut from the padding of a group
    Values,         \* scalars a coin may open to
    Amounts,        \* those of them that are u64 values
    Prices,         \* u64 prices of assets the root origin may set, 0 to de-list
    AppConfigs,     \* configurations of apps it may set
    RwaIds, AppIds,
    None,           \* absent value
    GroupCapacity,  \* coins per group (1024 in the code)
    MaxPending,     \* calls in flight at a time in this model
    MaxStray,       \* calls of another than the documented form
    MaxCoins        \* coins from which on this model makes no others

ASSUME ScanCoinAssumption ==
    /\ Pool \in Accounts
    /\ Endowment \in [Accounts -> Nat]
    /\ \A a \in Accounts : Endowment[a] = 0 \/ ExistentialDeposit <= Endowment[a]
    /\ SerialBytes \subseteq [s : Serials, q : Nat]
    /\ [s : Serials, q : {0}] \subseteq SerialBytes
    /\ Values \subseteq Int
    /\ Amounts \subseteq Values \cap Nat
    /\ Prices \subseteq Nat
    /\ 0 \in Prices
    /\ AppConfigs \subseteq [price : Nat, payment_account : Accounts]
    /\ IsFiniteSet(Serials)
    /\ IsFiniteSet(Amounts)
    /\ GroupCapacity \in Nat \ {0}

\* Scalar::from_bytes_mod_order, and the encoding a wallet uses.
from_bytes_mod_order(bytes) == bytes.s

Canonical(s) == [s |-> s, q |-> 0]

Coins == [s : Serials, v : Values, r : Blindings]

\* What decompresses, as far as a group may come to hold it.
Points == Coins \cup Opaque

ASSUME NoneAssumption == None \notin Points

VARIABLES
    balance,          \* the currency
    CoinGroups,       \* group_id -> coins in insertion order
    CurrentGroup,
    SerialUsed,       \* serial bytes mapped to true
    CoinLocation,     \* coin -> <<group_id, index>>
    RwaPrices, AccessKeyConfigs,
    sent,             \* XCM programs handed to the router
    pending,          \* tag -> the call in flight that provides it, or None
    burnt,            \* history: dust lost by the pool account
    spends,           \* history: serial bytes -> spends accepted with them
    strays            \* history: spends that had not the documented form

coinVars   == <<CoinGroups, CurrentGroup, CoinLocation>>
configVars == <<RwaPrices, AccessKeyConfigs>>
vars == <<balance, coinVars, SerialUsed, configVars, sent, pending, burnt, spends, strays>>

-------------------------------------------------------------------------------
(***************************************************************************)
(* Groups                                                                  *)
(***************************************************************************)
\* A coin nobody knows an opening of.
pad_coin(gid, i) == [pad |-> <<gid, i>>]

\* max(len, 2).next_power_of_two()
PaddedLen(len) ==
    CHOOSE n \in 2..(2 * len + 2) :
        /\ \E k \in 1..n : n = 2^k
        /\ len <= n
        /\ n = 2 \/ n < 2 * len

pad_group(coins, gid) ==
    [i \in 1..PaddedLen(Len(coins)) |->
        IF i <= Len(coins) THEN coins[i] ELSE pad_coin(gid, i - 1)]

\* CoinGroups::get, a ValueQuery.
Group(gid) == IF gid \in DOMAIN CoinGroups THEN CoinGroups[gid] ELSE << >>

PutCoin(gid, coin) ==
    /\ CurrentGroup' = gid
    /\ CoinGroups' = [g \in DOMAIN CoinGroups \cup {gid} |->
                        IF g = gid THEN Append(Group(gid), coin) ELSE CoinGroups[g]]
    /\ CoinLocation' = [c \in DOMAIN CoinLocation \cup {coin} |->
                          IF c = coin THEN <<gid, Len(Group(gid))>> ELSE CoinLocation[c]]

\* Faults: one coin too many joins a group; a full group is restarted in
\* place.
InsertCoin_OffByOne(coin) ==
    /\ coin \notin DOMAIN CoinLocation
    /\ PutCoin(IF Len(Group(CurrentGroup)) > GroupCapacity
               THEN CurrentGroup + 1 ELSE CurrentGroup, coin)

InsertCoin_Restart(coin) ==
    /\ coin \notin DOMAIN CoinLocation
    /\ IF Len(Group(CurrentGroup)) < GroupCapacity
       THEN PutCoin(CurrentGroup, coin)
       ELSE /\ CoinGroups' = [CoinGroups EXCEPT ![CurrentGroup] = <<coin>>]
            /\ CoinLocation' = [c \in DOMAIN CoinLocation \cup {coin} |->
                                  IF c = coin THEN <<CurrentGroup, 0>> ELSE CoinLocation[c]]
            /\ UNCHANGED CurrentGroup

\* A new coin joins the current group, or the next one when that is full.
InsertCoin(coin) ==
    /\ coin \notin DOMAIN CoinLocation
    /\ PutCoin(IF Len(Group(CurrentGroup)) >= GroupCapacity
               THEN CurrentGroup + 1 ELSE CurrentGroup, coin)

-------------------------------------------------------------------------------
(***************************************************************************)
(* Proofs and the calls that carry them                                    *)
(***************************************************************************)
Lanes == {"purchase_coin", "purchase_access_coin", "withdraw_coin"}

SetOf(coins) == {coins[i] : i \in DOMAIN coins}

\* `to` is the asset, the app or the account the call names; `change` is
\* None for a withdrawal and for a purchase that pays a whole coin.
Call == [call : Lanes, witness : Points \cup [pad : Nat \X Nat], gid : Nat,
         coins : Seq(Points \cup [pad : Nat \X Nat]), serial : SerialBytes, price : Nat,
         change : Points \cup {None}, to : RwaIds \cup AppIds \cup Accounts]

\* Fault: a coin may pay less than its value and leave no change.
OneOfMany_Unbalanced(tx) ==
    /\ tx.witness \in SetOf(tx.coins) \cap Coins
    /\ tx.witness.s = from_bytes_mod_order(tx.serial)
    /\ tx.witness.v >= tx.price

\* What the witness satisfies: it is one coin of the padded group and, less
\* the serial, the price and the change, a blinding.  Without a change its
\* serial and value are the ones published.  A change takes up whatever is
\* left: a value of either sign, what the coin's serial and the published
\* one differ by and, when it is cut from padding, that.
OneOfMany(tx) ==
    /\ tx.witness \in SetOf(tx.coins)
    /\ \/ /\ tx.change = None
          /\ tx.witness \in Coins
          /\ tx.witness.s = from_bytes_mod_order(tx.serial)
          /\ tx.witness.v = tx.price
       \/ /\ tx.witness \in Coins /\ tx.change \in Coins
          /\ tx.witness.v = tx.price + tx.change.v
       \/ tx.witness \notin Coins /\ tx.change \in Opaque

\* The form the documentation gives a spend: of a coin, under its serial,
\* with a change of 64 bits.
Documented(tx) ==
    /\ tx.witness \in Coins
    /\ tx.serial = Canonical(tx.witness.s)
    /\ tx.change # None => tx.change \in Coins /\ tx.change.v \in Amounts

\* Checked against the coins and the price the pallet reads itself.
verify_one_of_many(tx, coins, price) ==
    /\ tx.coins = coins
    /\ tx.price = price
    /\ OneOfMany(tx)

\* Fault: the serial is not looked up.
SpendOk_Unchecked(tx, price) ==
    /\ tx.gid \in DOMAIN CoinGroups
    /\ price > 0 \/ tx.call = "withdraw_coin"
    /\ verify_one_of_many(tx, pad_group(CoinGroups[tx.gid], tx.gid), price)
    /\ tx.change # None => tx.change \notin DOMAIN CoinLocation

\* What every spend of a coin requires, `price` being the configured price
\* of a purchase and the amount of a withdrawal.
SpendOk(tx, price) ==
    /\ tx.serial \notin SerialUsed
    /\ tx.gid \in DOMAIN CoinGroups
    /\ price > 0 \/ tx.call = "withdraw_coin"
    /\ verify_one_of_many(tx, pad_group(CoinGroups[tx.gid], tx.gid), price)
    /\ tx.change # None => tx.change \notin DOMAIN CoinLocation

PoolPays(to, amount) == TransferOk(balance, Pool, to, amount, FALSE)

\* Whether the dispatchable returns Ok.
Accepted(tx) ==
    CASE tx.call = "purchase_coin" -> SpendOk(tx, RwaPrices[tx.to])
      [] tx.call = "purchase_access_coin" ->
           /\ AccessKeyConfigs[tx.to] # None
           /\ SpendOk(tx, AccessKeyConfigs[tx.to].price)
           /\ PoolPays(AccessKeyConfigs[tx.to].payment_account, tx.price)
      [] tx.call = "withdraw_coin" -> SpendOk(tx, tx.price) /\ PoolPays(tx.to, tx.price)

-------------------------------------------------------------------------------
(***************************************************************************)
(* Dispatchables                                                           *)
(***************************************************************************)
CountSpend(tx) == spends' = [spends EXCEPT ![tx.serial] = @ + 1]

\* Fault: the serial is not marked.
StrikeSerial_Unmarked(tx) == CountSpend(tx) /\ UNCHANGED SerialUsed

\* Keyed by the bytes, not by the scalar they stand for.
StrikeSerial(tx) ==
    /\ SerialUsed' = SerialUsed \cup {tx.serial}
    /\ CountSpend(tx)

RegisterChange(tx) ==
    IF tx.change = None THEN UNCHANGED coinVars ELSE InsertCoin(tx.change)

PayFromPool(to, amount) ==
    /\ balance' = Transfer(balance, Pool, to, amount)
    /\ burnt' = burnt + Dust(balance, Pool, to, amount)

Message(tx, dest) == [dest |-> dest, id |-> tx.to, serial |-> tx.serial, price |-> tx.price]

\* Signed by `who`; verify_deposit_open ties the coin's value to the amount.
deposit_coin(who, coin) ==
    /\ coin.v \in Amounts
    /\ TransferOk(balance, who, Pool, coin.v, TRUE)
    /\ balance' = Transfer(balance, who, Pool, coin.v)
    /\ InsertCoin(coin)
    /\ UNCHANGED <<SerialUsed, configVars, sent, pending, burnt, spends, strays>>

purchase_coin(tx) ==
    /\ tx.call = "purchase_coin" /\ Accepted(tx)
    /\ RegisterChange(tx)
    /\ StrikeSerial(tx)
    /\ sent' = sent \cup {Message(tx, "rwa")}
    /\ strays' = strays + (IF Documented(tx) THEN 0 ELSE 1)
    /\ UNCHANGED <<balance, configVars, burnt>>

purchase_access_coin(tx) ==
    /\ tx.call = "purchase_access_coin" /\ Accepted(tx)
    /\ RegisterChange(tx)
    /\ StrikeSerial(tx)
    /\ PayFromPool(AccessKeyConfigs[tx.to].payment_account, tx.price)
    /\ sent' = sent \cup {Message(tx, "authgate")}
    /\ strays' = strays + (IF Documented(tx) THEN 0 ELSE 1)
    /\ UNCHANGED configVars

withdraw_coin(tx) ==
    /\ tx.call = "withdraw_coin" /\ Accepted(tx)
    /\ StrikeSerial(tx)
    /\ PayFromPool(tx.to, tx.price)
    /\ strays' = strays + (IF Documented(tx) THEN 0 ELSE 1)
    /\ UNCHANGED <<coinVars, configVars, sent>>

\* A call that fails leaves the pool of transactions and no other trace.
rejected(tx) ==
    /\ ~Accepted(tx)
    /\ UNCHANGED <<balance, coinVars, SerialUsed, configVars, sent, burnt, spends, strays>>

\* Root origin.
set_rwa_price(rwa_id, price) ==
    /\ RwaPrices' = [RwaPrices EXCEPT ![rwa_id] = price]
    /\ UNCHANGED <<balance, coinVars, SerialUsed, AccessKeyConfigs, sent, pending,
                   burnt, spends, strays>>

set_access_config(app_id, cfg) ==
    /\ AccessKeyConfigs' = [AccessKeyConfigs EXCEPT ![app_id] = cfg]
    /\ UNCHANGED <<balance, coinVars, SerialUsed, RwaPrices, sent, pending, burnt,
                   spends, strays>>

-------------------------------------------------------------------------------
(***************************************************************************)
(* Wallets and the pool of transactions.  Anybody may prove anything true  *)
(* about a group as it is; for a call and the bytes of a serial, the pool  *)
(* holds one transaction that validate_unsigned has not refused.           *)
(***************************************************************************)
Tags == Lanes \X SerialBytes

\* with_tag_prefix and and_provides(serial).
Tag(tx) == <<tx.call, tx.serial>>

InFlight == {t \in Tags : pending[t] # None}

\* The calls this model considers: MaxPending, MaxCoins and MaxStray.
InBounds(tx) ==
    /\ Cardinality(InFlight) < MaxPending
    /\ tx.change # None =>
         LET changes == {t \in InFlight : pending[t].change # None}
         IN  Cardinality(DOMAIN CoinLocation) + Cardinality(changes) < MaxCoins
    /\ ~Documented(tx) =>
         strays + Cardinality({t \in InFlight : ~Documented(pending[t])}) < MaxStray

Submit(tx) ==
    /\ InBounds(tx)
    /\ tx.serial \notin SerialUsed
    /\ tx.gid \in DOMAIN CoinGroups
    /\ pending[Tag(tx)] = None
    /\ OneOfMany(tx)
    /\ pending' = [pending EXCEPT ![Tag(tx)] = tx]
    /\ UNCHANGED <<balance, coinVars, SerialUsed, configVars, sent, burnt, spends, strays>>

\* The padded group a wallet reads.
View(gid) == pad_group(CoinGroups[gid], gid)

Proof(call, gid, witness, serial, price, change, to) ==
    [call |-> call, witness |-> witness, gid |-> gid, coins |-> View(gid),
     serial |-> serial, price |-> price, change |-> change, to |-> to]

ProveWithdraw ==
    \E gid \in DOMAIN CoinGroups, serial \in SerialBytes, amount \in Amounts, to \in Accounts :
    \E witness \in SetOf(View(gid)) :
        Submit(Proof("withdraw_coin", gid, witness, serial, amount, None, to))

ProvePurchase ==
    \E gid \in DOMAIN CoinGroups, serial \in SerialBytes, rwa_id \in RwaIds :
    \E witness \in SetOf(View(gid)), change \in Points \cup {None} :
        /\ RwaPrices[rwa_id] > 0
        /\ Submit(Proof("purchase_coin", gid, witness, serial,
                        RwaPrices[rwa_id], change, rwa_id))

ProveAccess ==
    \E gid \in DOMAIN CoinGroups, serial \in SerialBytes, app_id \in AppIds :
    \E witness \in SetOf(View(gid)), change \in Points \cup {None} :
        /\ AccessKeyConfigs[app_id] # None /\ AccessKeyConfigs[app_id].price > 0
        /\ Submit(Proof("purchase_access_coin", gid, witness, serial,
                        AccessKeyConfigs[app_id].price, change, app_id))

-------------------------------------------------------------------------------
Init ==
    /\ balance = Endowment
    /\ CoinGroups = [g \in {} |-> << >>]
    /\ CurrentGroup = 0
    /\ SerialUsed = {}
    /\ CoinLocation = [c \in {} |-> <<0, 0>>]
    /\ RwaPrices = [r \in RwaIds |-> 0]
    /\ AccessKeyConfigs = [a \in AppIds |-> None]
    /\ sent = {}
    /\ pending = [t \in Tags |-> None]
    /\ burnt = 0
    /\ spends = [b \in SerialBytes |-> 0]
    /\ strays = 0

Deposit ==
    /\ Cardinality(DOMAIN CoinLocation) < MaxCoins
    /\ \E who \in Accounts \ {Pool}, coin \in Coins : deposit_coin(who, coin)

Include(t) ==
    /\ pending[t] # None
    /\ \/ purchase_coin(pending[t])
       \/ purchase_access_coin(pending[t])
       \/ withdraw_coin(pending[t])
       \/ rejected(pending[t])
    /\ pending' = [pending EXCEPT ![t] = None]

SetRwaPrice == \E rwa_id \in RwaIds, price \in Prices : set_rwa_price(rwa_id, price)

SetAccessConfig ==
    \E app_id \in AppIds, cfg \in AppConfigs : set_access_config(app_id, cfg)

Next ==
    \/ Deposit
    \/ ProveWithdraw
    \/ ProvePurchase
    \/ ProveAccess
    \/ \E t \in Tags : Include(t)
    \/ SetRwaPrice
    \/ SetAccessConfig

Spec == Init /\ [][Next]_vars

\* A wallet takes out a coin of serial s, to an account the pool can pay.
Owned(s) == {w \in DOMAIN CoinLocation \cap Coins : w.s = s}

WithdrawOwn(s) ==
    \E w \in Owned(s), to \in Accounts \ {Pool} :
        /\ w.v \in Amounts /\ PoolPays(to, w.v)
        /\ Submit(Proof("withdraw_coin", CoinLocation[w][1], w, Canonical(s), w.v, None, to))

\* Block authors include what is pending; a wallet that wants out keeps
\* trying, whatever else is tried with its serial.
FairSpec ==
    /\ Spec
    /\ \A t \in Tags : WF_vars(Include(t))
    /\ \A s \in Serials : SF_vars(WithdrawOwn(s))

-------------------------------------------------------------------------------
(***************************************************************************)
(* Properties                                                              *)
(***************************************************************************)

\* CoinLocation and CoinGroups are inverse to one another, the groups are
\* numbered without a gap, and all but the current one are exactly full: a wallet
\* that follows CoinLocation finds its coin in a group that exists
\* (deposit_coin and the change branches, which repeat the rollover).
LocationsExact ==
    /\ \A c \in DOMAIN CoinLocation :
         /\ CoinLocation[c][1] \in DOMAIN CoinGroups
         /\ CoinLocation[c][2] \in 0..(Len(Group(CoinLocation[c][1])) - 1)
         /\ Group(CoinLocation[c][1])[CoinLocation[c][2] + 1] = c
    /\ \A g \in DOMAIN CoinGroups : \A i \in 1..Len(CoinGroups[g]) :
         CoinGroups[g][i] \in DOMAIN CoinLocation /\ CoinLocation[CoinGroups[g][i]] = <<g, i - 1>>
    /\ DOMAIN CoinGroups = IF DOMAIN CoinLocation = {} THEN {} ELSE 0..CurrentGroup
    /\ \A g \in 0..(CurrentGroup - 1) : Len(CoinGroups[g]) = GroupCapacity
    /\ Len(Group(CurrentGroup)) <= GroupCapacity

\* Every spend so far had the form the documentation gives it.
documented == strays = 0

\* Whichever of the three calls were in flight for them, the bytes of a
\* serial are accepted once and reach another chain in at most one message.
\* As long as the spends have the documented form, they are those of a coin
\* that was issued: no coin pays twice.
CoinSpentOnce ==
    /\ \A b \in SerialBytes : spends[b] = IF b \in SerialUsed THEN 1 ELSE 0
    /\ \A m \in sent : m.serial \in SerialUsed
    /\ \A m1, m2 \in sent : m1.serial = m2.serial => m1 = m2
    /\ documented => \A b \in SerialUsed :
         \E c \in DOMAIN CoinLocation \cap Coins : b = Canonical(c.s)

\* The serials that are struck in the form a wallet publishes them.
Struck == {s \in Serials : Canonical(s) \in SerialUsed}

\* The most the holder of an unused serial can still take out: coins that
\* share a serial can be spent only once between them.
CoinClaim(s) ==
    IF s \in Struck THEN 0 ELSE Max({c.v : c \in Owned(s)} \cup {0})

\* As long as the spends have the documented form, the pool account backs
\* every coin that can still be spent, up to the dust burnt when it was
\* reaped (deposit_coin and the three spends).
CoinsBacked ==
    documented => SumFunction([s \in Serials |-> CoinClaim(s)]) <= balance[Pool] + burnt

\* A coin that joins a group invalidates the proofs made about it.  Once a
\* group is full that is over: no step changes it again, so a proof about
\* it fails only because of its serial or its price.
FullGroupsFixed ==
    [][\A g \in DOMAIN CoinGroups :
         Len(CoinGroups[g]) = GroupCapacity => CoinGroups'[g] = CoinGroups[g]]_vars

Promise == INSTANCE ShieldedPool
    WITH Values <- Amounts, Tags <- Serials, Owners <- Blindings,
         issued <- {[v |-> c.v, b |-> c.s, pk |-> c.r] :
                        c \in DOMAIN CoinLocation \cap Coins},
         struck <- Struck,
         vault  <- balance[Pool] + burnt

\* As long as the spends have the documented form, the coin lane implements
\* the abstract shielded pool: a serial is struck once, against a coin that
\* was issued under it, and price and change add up to that coin although
\* the pallet does not know which one it is.
RefinesShieldedPool ==
    /\ Promise!PoolInit
    /\ [][documented' => [Promise!PoolNext]_(Promise!poolVars)]_vars

\* As long as the spends have the documented form, a wallet that keeps
\* proving gets its coin out, however the groups fill up under its proofs
\* and whatever else is in flight with its serial: one way or another the
\* serial is struck, unless the pool account was reaped and its remainder
\* burnt.
CoinExits ==
    \A s \in Serials :
        Owned(s) # {} ~> (s \in Struck \/ burnt > 0 \/ ~documented)
===============================================================================
