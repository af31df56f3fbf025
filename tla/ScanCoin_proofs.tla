---------------------------- MODULE ScanCoin_proofs ----------------------------
(***************************************************************************)
(* Proofs about ScanProof's coin lane, for every number of accounts,       *)
(* serials and coins, every price and every size of a group.               *)
(***************************************************************************)
EXTENDS ScanCoin, PoolFacts, TLAPS

-------------------------------------------------------------------------------
(***************************************************************************)
(* Groups                                                                  *)
(***************************************************************************)
GroupType ==
    /\ CurrentGroup \in Nat
    /\ DOMAIN CoinGroups \subseteq Nat
    /\ CoinGroups \in [DOMAIN CoinGroups -> Seq(Points)]
    /\ DOMAIN CoinLocation \subseteq Points
    /\ CoinLocation \in [DOMAIN CoinLocation -> Nat \X Nat]

\* LocationsExact leaves open where the first coin goes.
GroupsOK ==
    /\ GroupType
    /\ LocationsExact
    /\ DOMAIN CoinLocation = {} => CurrentGroup = 0

\* The group the next coin joins.
Target ==
    IF Len(Group(CurrentGroup)) >= GroupCapacity THEN CurrentGroup + 1 ELSE CurrentGroup

\* The next coin joins a group that has room, the current one or a new one.
LEMMA TargetRoom ==
    ASSUME GroupsOK
    PROVE  /\ Target \in Nat
           /\ Group(Target) \in Seq(Points)
           /\ Len(Group(Target)) \in Nat /\ Len(Group(Target)) < GroupCapacity
           /\ \A g \in DOMAIN CoinGroups : g <= Target
           /\ \A g \in 0..(Target - 1) :
                g \in DOMAIN CoinGroups /\ Len(CoinGroups[g]) = GroupCapacity
           /\ DOMAIN CoinGroups \cup {Target} = 0..Target
<1>1. /\ GroupCapacity \in Nat \ {0} /\ CurrentGroup \in Nat
      /\ \A g \in DOMAIN CoinGroups : CoinGroups[g] \in Seq(Points)
  BY ScanCoinAssumption DEF GroupsOK, GroupType
<1>2. ASSUME NEW g \in Nat PROVE Group(g) \in Seq(Points) /\ Len(Group(g)) \in Nat
  <2>1. CASE g \in DOMAIN CoinGroups
    <3>1. Group(g) = CoinGroups[g]
      BY <2>1 DEF Group
    <3> QED BY <1>1, <2>1, <3>1
  <2>2. CASE g \notin DOMAIN CoinGroups
    <3>1. Group(g) = << >>
      BY <2>2 DEF Group
    <3> QED BY <3>1
  <2> QED BY <2>1, <2>2
<1>3. CASE DOMAIN CoinLocation = {}
  <2>1. CurrentGroup = 0 /\ DOMAIN CoinGroups = {}
    BY <1>3 DEF GroupsOK, LocationsExact
  <2>2. Group(0) = << >> /\ Len(Group(0)) = 0
    BY <2>1 DEF Group
  <2>3. Target = 0
    BY <1>1, <2>1, <2>2 DEF Target
  <2> QED BY <1>1, <1>2, <2>1, <2>2, <2>3
<1>4. CASE DOMAIN CoinLocation # {}
  <2>1. /\ DOMAIN CoinGroups = 0..CurrentGroup
        /\ \A g \in 0..(CurrentGroup - 1) : Len(CoinGroups[g]) = GroupCapacity
        /\ Len(Group(CurrentGroup)) <= GroupCapacity
    BY <1>4 DEF GroupsOK, LocationsExact
  <2>2. Len(Group(CurrentGroup)) \in Nat
    BY <1>1, <1>2
  <2>3. CASE Len(Group(CurrentGroup)) >= GroupCapacity
    <3>1. Target = CurrentGroup + 1 /\ Target \notin DOMAIN CoinGroups
      BY <1>1, <2>1, <2>3 DEF Target
    <3>2. Group(Target) = << >> /\ Len(Group(Target)) = 0
      BY <3>1 DEF Group
    <3>3. Len(CoinGroups[CurrentGroup]) = GroupCapacity
      BY <1>1, <2>1, <2>2, <2>3 DEF Group
    <3>4. \A g \in 0..(Target - 1) : g \in DOMAIN CoinGroups /\ Len(CoinGroups[g]) = GroupCapacity
      BY <1>1, <2>1, <3>1, <3>3
    <3>5. DOMAIN CoinGroups \cup {Target} = 0..Target
      BY <1>1, <2>1, <3>1
    <3>6. Target \in Nat /\ Group(Target) \in Seq(Points)
      BY <1>1, <1>2, <3>1
    <3>7. \A g \in DOMAIN CoinGroups : g <= Target
      BY <1>1, <2>1, <3>1
    <3>8. Len(Group(Target)) \in Nat /\ Len(Group(Target)) < GroupCapacity
      BY <1>1, <3>2
    <3> QED BY <3>4, <3>5, <3>6, <3>7, <3>8
  <2>4. CASE ~(Len(Group(CurrentGroup)) >= GroupCapacity)
    <3>1. Target = CurrentGroup
      BY <2>4 DEF Target
    <3>2. Target \in Nat /\ Group(Target) \in Seq(Points)
      BY <1>1, <1>2, <3>1
    <3>3. Len(Group(Target)) \in Nat /\ Len(Group(Target)) < GroupCapacity
      BY <1>1, <2>2, <2>4, <3>1
    <3>4. \A g \in DOMAIN CoinGroups : g <= Target
      BY <1>1, <2>1, <3>1
    <3>5. \A g \in 0..(Target - 1) :
            g \in DOMAIN CoinGroups /\ Len(CoinGroups[g]) = GroupCapacity
      BY <1>1, <2>1, <3>1
    <3>6. DOMAIN CoinGroups \cup {Target} = 0..Target
      BY <1>1, <2>1, <3>1
    <3> QED BY <3>2, <3>3, <3>4, <3>5, <3>6
  <2> QED BY <2>3, <2>4
<1> QED BY <1>3, <1>4

\* What inserting a coin does, in terms of its group and position.
LEMMA InsertEffect ==
    ASSUME GroupsOK, NEW coin \in Points, InsertCoin(coin)
    PROVE  /\ coin \notin DOMAIN CoinLocation
           /\ CurrentGroup' = Target
           /\ DOMAIN CoinGroups' = 0..Target
           /\ \A g \in DOMAIN CoinGroups : g # Target => CoinGroups'[g] = CoinGroups[g]
           /\ CoinGroups'[Target] = Append(Group(Target), coin)
           /\ DOMAIN CoinLocation' = DOMAIN CoinLocation \cup {coin}
           /\ CoinLocation'[coin] = <<Target, Len(Group(Target))>>
           /\ \A c \in DOMAIN CoinLocation : CoinLocation'[c] = CoinLocation[c]
<1>1. coin \notin DOMAIN CoinLocation /\ PutCoin(Target, coin)
  BY DEF InsertCoin, Target
<1>2. DOMAIN CoinGroups \cup {Target} = 0..Target
  BY TargetRoom
<1> QED BY <1>1, <1>2 DEF PutCoin

\* Appending to a sequence: the old elements stay, the new one is last.
LEMMA AppendElements ==
    ASSUME NEW S, NEW s \in Seq(S), NEW e \in S
    PROVE  /\ Append(s, e) \in Seq(S)
           /\ Len(Append(s, e)) = Len(s) + 1
           /\ \A i \in 1..Len(s) : Append(s, e)[i] = s[i]
           /\ Append(s, e)[Len(s) + 1] = e
  OBVIOUS

\* Inserting a coin keeps locations and groups inverse to one another.
LEMMA InsertGroups ==
    ASSUME GroupsOK, NEW coin \in Points, InsertCoin(coin)
    PROVE  GroupsOK'
<1> DEFINE tg  == Target
           old == Group(tg)
           len == Len(old)
<1>1. /\ tg \in Nat /\ old \in Seq(Points) /\ len \in Nat /\ len < GroupCapacity
      /\ GroupCapacity \in Nat
      /\ \A g \in DOMAIN CoinGroups : g <= tg /\ g \in Nat
      /\ \A g \in 0..(tg - 1) : g \in DOMAIN CoinGroups /\ Len(CoinGroups[g]) = GroupCapacity
  BY TargetRoom, ScanCoinAssumption DEF GroupsOK, GroupType
<1>2. /\ coin \notin DOMAIN CoinLocation
      /\ CurrentGroup' = tg
      /\ DOMAIN CoinGroups' = 0..tg
      /\ \A g \in DOMAIN CoinGroups : g # tg => CoinGroups'[g] = CoinGroups[g]
      /\ CoinGroups'[tg] = Append(old, coin)
      /\ DOMAIN CoinLocation' = DOMAIN CoinLocation \cup {coin}
      /\ CoinLocation'[coin] = <<tg, len>>
      /\ \A c \in DOMAIN CoinLocation : CoinLocation'[c] = CoinLocation[c]
  BY InsertEffect
<1>3. /\ CoinGroups'[tg] \in Seq(Points) /\ Len(CoinGroups'[tg]) = len + 1
      /\ \A i \in 1..len : CoinGroups'[tg][i] = old[i]
      /\ CoinGroups'[tg][len + 1] = coin
  <2> HIDE DEF old
  <2>1. /\ Append(old, coin) \in Seq(Points) /\ Len(Append(old, coin)) = Len(old) + 1
        /\ \A i \in 1..Len(old) : Append(old, coin)[i] = old[i]
        /\ Append(old, coin)[Len(old) + 1] = coin
    BY <1>1, AppendElements
  <2> QED BY <1>2, <2>1
<1>4. tg \in DOMAIN CoinGroups => CoinGroups[tg] = old
  BY DEF Group
<1>5. tg \notin DOMAIN CoinGroups => len = 0
  BY DEF Group
<1> HIDE DEF tg, old, len
<1>6. GroupType'
  <2>1. CoinGroups' \in [DOMAIN CoinGroups' -> Seq(Points)]
    <3>1. \E D : CoinGroups' = [g \in D |-> CoinGroups'[g]]
      BY DEF InsertCoin, PutCoin
    <3>2. CoinGroups' = [g \in DOMAIN CoinGroups' |-> CoinGroups'[g]]
      BY <3>1
    <3>3. ASSUME NEW g \in DOMAIN CoinGroups' PROVE CoinGroups'[g] \in Seq(Points)
      <4>1. CASE g = tg
        BY <1>3, <4>1
      <4>2. CASE g # tg
        <5>1. g \in DOMAIN CoinGroups
          BY <1>1, <1>2, <4>2
        <5>2. CoinGroups[g] \in Seq(Points)
          BY <5>1 DEF GroupsOK, GroupType
        <5> QED BY <1>2, <4>2, <5>1, <5>2
      <4> QED BY <4>1, <4>2
    <3> QED BY <3>2, <3>3
  <2>2. CoinLocation' \in [DOMAIN CoinLocation' -> Nat \X Nat]
    <3>1. CoinLocation' = [c \in DOMAIN CoinLocation' |-> CoinLocation'[c]]
      BY DEF InsertCoin, PutCoin
    <3>2. ASSUME NEW c \in DOMAIN CoinLocation' PROVE CoinLocation'[c] \in Nat \X Nat
      <4>1. CASE c = coin
        <5>1. <<tg, len>> \in Nat \X Nat
          BY <1>1
        <5> QED BY <1>2, <4>1, <5>1
      <4>2. CASE c # coin
        <5>1. c \in DOMAIN CoinLocation
          BY <1>2, <4>2
        <5>2. CoinLocation[c] \in Nat \X Nat
          BY <5>1 DEF GroupsOK, GroupType
        <5> QED BY <1>2, <5>1, <5>2
      <4> QED BY <4>1, <4>2
    <3> QED BY <3>1, <3>2
  <2>3. DOMAIN CoinLocation' \subseteq Points /\ DOMAIN CoinGroups' \subseteq Nat
    BY <1>1, <1>2 DEF GroupsOK, GroupType
  <2> QED BY <1>1, <1>2, <2>1, <2>2, <2>3 DEF GroupType
<1>7. \A g \in DOMAIN CoinGroups' : Group(g)' = CoinGroups'[g]
  BY DEF Group
<1>8. ASSUME NEW c \in DOMAIN CoinLocation'
      PROVE  /\ CoinLocation'[c][1] \in DOMAIN CoinGroups'
             /\ CoinLocation'[c][2] \in 0..(Len(CoinGroups'[CoinLocation'[c][1]]) - 1)
             /\ CoinGroups'[CoinLocation'[c][1]][CoinLocation'[c][2] + 1] = c
  <2>1. CASE c = coin
    BY <1>1, <1>2, <1>3, <2>1
  <2>2. CASE c # coin
    <3> DEFINE g == CoinLocation[c][1]
               i == CoinLocation[c][2]
    <3>1. c \in DOMAIN CoinLocation /\ CoinLocation'[c] = CoinLocation[c]
      BY <1>2, <2>2
    <3>2. g \in DOMAIN CoinGroups /\ Group(g) = CoinGroups[g]
      BY <3>1 DEF GroupsOK, LocationsExact, Group
    <3>3. i \in 0..(Len(CoinGroups[g]) - 1) /\ CoinGroups[g][i + 1] = c
      BY <3>1, <3>2 DEF GroupsOK, LocationsExact
    <3> HIDE DEF g, i
    <3>4. g \in DOMAIN CoinGroups'
      BY <1>1, <1>2, <3>2
    <3>5. CASE g # tg
      <4>1. CoinGroups'[g] = CoinGroups[g]
        BY <1>2, <3>2, <3>5
      <4> QED BY <3>1, <3>3, <3>4, <4>1 DEF g, i
    <3>6. CASE g = tg
      <4>1. i \in 0..(len - 1) /\ old[i + 1] = c
        BY <1>4, <3>2, <3>3, <3>6 DEF len
      <4>2. i + 1 \in 1..len /\ i \in 0..len
        BY <1>1, <4>1
      <4>3. CoinGroups'[g][i + 1] = c /\ i \in 0..(Len(CoinGroups'[g]) - 1)
        BY <1>1, <1>3, <3>6, <4>1, <4>2
      <4> QED BY <3>1, <3>4, <4>3 DEF g, i
    <3> QED BY <3>5, <3>6
  <2> QED BY <2>1, <2>2
<1>9. ASSUME NEW g \in DOMAIN CoinGroups', NEW i \in 1..Len(CoinGroups'[g])
      PROVE  /\ CoinGroups'[g][i] \in DOMAIN CoinLocation'
             /\ CoinLocation'[CoinGroups'[g][i]] = <<g, i - 1>>
  <2>1. ASSUME g \in DOMAIN CoinGroups, i \in 1..Len(CoinGroups[g]),
               CoinGroups'[g][i] = CoinGroups[g][i]
        PROVE  /\ CoinGroups'[g][i] \in DOMAIN CoinLocation'
               /\ CoinLocation'[CoinGroups'[g][i]] = <<g, i - 1>>
    <3>1. /\ CoinGroups[g][i] \in DOMAIN CoinLocation
          /\ CoinLocation[CoinGroups[g][i]] = <<g, i - 1>>
      BY <2>1 DEF GroupsOK, LocationsExact
    <3> QED BY <1>2, <2>1, <3>1
  <2>2. CASE g # tg
    <3>1. g \in DOMAIN CoinGroups
      BY <1>1, <1>2, <2>2
    <3>2. CoinGroups'[g] = CoinGroups[g]
      BY <1>2, <2>2, <3>1
    <3> QED BY <2>1, <3>1, <3>2
  <2>3. CASE g = tg /\ i = len + 1
    BY <1>1, <1>2, <1>3, <2>3
  <2>4. CASE g = tg /\ i # len + 1
    <3>1. i \in 1..len
      BY <1>1, <1>3, <2>4
    <3>2. tg \in DOMAIN CoinGroups
      BY <1>1, <1>5, <3>1
    <3>3. i \in 1..Len(CoinGroups[g]) /\ CoinGroups'[g][i] = CoinGroups[g][i]
      BY <1>3, <1>4, <2>4, <3>1, <3>2 DEF len
    <3> QED BY <2>1, <2>4, <3>2, <3>3
  <2> QED BY <2>2, <2>3, <2>4
<1>10. \A g \in 0..(tg - 1) : Len(CoinGroups'[g]) = GroupCapacity
  BY <1>1, <1>2
<1>11. LocationsExact'
  <2>1. DOMAIN CoinLocation' # {} /\ DOMAIN CoinGroups' = 0..CurrentGroup'
    BY <1>2
  <2>2. Len(Group(CurrentGroup)') <= GroupCapacity
    <3>1. tg \in DOMAIN CoinGroups'
      BY <1>1, <1>2
    <3> QED BY <1>1, <1>2, <1>3, <1>7, <3>1
  <2>3. \A c \in DOMAIN CoinLocation' :
          /\ CoinLocation'[c][1] \in DOMAIN CoinGroups'
          /\ CoinLocation'[c][2] \in 0..(Len(Group(CoinLocation[c][1])') - 1)
          /\ Group(CoinLocation[c][1])'[CoinLocation'[c][2] + 1] = c
    BY <1>7, <1>8 DEF Group
  <2> QED BY <1>2, <1>9, <1>10, <2>1, <2>2, <2>3 DEF LocationsExact
<1> QED BY <1>2, <1>6, <1>11 DEF GroupsOK

\* What any step may do to the groups: add coins, but to no full group.
GroupsKept ==
    /\ GroupsOK'
    /\ DOMAIN CoinLocation \subseteq DOMAIN CoinLocation'
    /\ DOMAIN CoinGroups \subseteq DOMAIN CoinGroups'
    /\ \A g \in DOMAIN CoinGroups :
         Len(CoinGroups[g]) = GroupCapacity => CoinGroups'[g] = CoinGroups[g]

\* A coin joins a group with room, so the full ones stay as they are.
LEMMA InsertKeeps ==
    ASSUME GroupsOK, NEW coin \in Points, InsertCoin(coin)
    PROVE  GroupsKept
<1>1. GroupsOK'
  BY InsertGroups
<1>2. DOMAIN CoinLocation' = DOMAIN CoinLocation \cup {coin}
  BY InsertEffect
<1>3. ASSUME NEW g \in DOMAIN CoinGroups, Len(CoinGroups[g]) = GroupCapacity
      PROVE  CoinGroups'[g] = CoinGroups[g]
  <2>1. Len(Group(Target)) \in Nat /\ Len(Group(Target)) < GroupCapacity
    BY TargetRoom
  <2>2. Group(g) = CoinGroups[g]
    BY DEF Group
  <2>3. g # Target
    BY <1>3, <2>1, <2>2, ScanCoinAssumption
  <2> QED BY <2>3, InsertEffect
<1>4. DOMAIN CoinGroups \subseteq DOMAIN CoinGroups'
  BY DEF InsertCoin, PutCoin
<1> QED BY <1>1, <1>2, <1>3, <1>4 DEF GroupsKept

\* A step that leaves the coins alone keeps the groups.
LEMMA GroupsStutter ==
    ASSUME GroupsOK, UNCHANGED coinVars
    PROVE  GroupsKept
  BY DEF GroupsOK, GroupType, LocationsExact, Group, coinVars, GroupsKept

-------------------------------------------------------------------------------
(***************************************************************************)
(* Serials                                                                 *)
(***************************************************************************)

\* A call in flight, whatever has happened to the groups since it was made.
CallOK(tx, t) ==
    /\ Tag(tx) = t
    /\ tx.price \in Nat
    /\ tx.change \in Points \cup {None}
    /\ tx.call = "withdraw_coin" => tx.change = None /\ tx.to \in Accounts
    /\ tx.call = "purchase_access_coin" => tx.to \in AppIds

PendingOK ==
    /\ DOMAIN pending = Tags
    /\ \A t \in Tags : pending[t] # None => CallOK(pending[t], t)

ConfigOK ==
    /\ RwaPrices \in [RwaIds -> Prices]
    /\ AccessKeyConfigs \in [AppIds -> AppConfigs \cup {None}]

SerialsOK ==
    /\ SerialUsed \subseteq SerialBytes
    /\ spends \in [SerialBytes -> Nat]
    /\ CoinSpentOnce

\* The coins of documented deposits and changes.
RangedCoins == {c \in Coins : c.v \in Amounts}

StraysOK == strays \in Nat /\ (documented => DOMAIN CoinLocation \subseteq RangedCoins)

VaultType == balance \in [Accounts -> Nat] /\ burnt \in Nat

CoinInv == GroupsOK /\ PendingOK /\ ConfigOK /\ SerialsOK /\ StraysOK /\ VaultType

\* A call in flight is one of the three and names the bytes of a serial.
LEMMA CallTag ==
    ASSUME NEW t \in Tags, NEW tx, CallOK(tx, t)
    PROVE  tx.call \in Lanes /\ tx.serial \in SerialBytes
<1>1. PICK l \in Lanes, b \in SerialBytes : t = <<l, b>>
  BY DEF Tags
<1> QED BY <1>1 DEF CallOK, Tag

\* What a wallet reads and can open is in the group it read.
LEMMA WitnessHeld ==
    ASSUME GroupsOK, NEW gid \in DOMAIN CoinGroups,
           NEW w \in SetOf(pad_group(CoinGroups[gid], gid)), w \in Coins
    PROVE  w \in DOMAIN CoinLocation
<1> DEFINE coins == CoinGroups[gid]
<1>1. /\ coins \in Seq(Points)
      /\ \A i \in 1..Len(coins) : coins[i] \in DOMAIN CoinLocation
  BY DEF GroupsOK, GroupType, LocationsExact
<1> HIDE DEF coins
<1>2. PICK i \in 1..PaddedLen(Len(coins)) :
           w = IF i <= Len(coins) THEN coins[i] ELSE pad_coin(gid, i - 1)
  BY DEF SetOf, pad_group, coins
<1>3. i \in Int /\ 1 <= i
  OBVIOUS
<1>4. w # pad_coin(gid, i - 1)
  <2>1. w = [s |-> w.s, v |-> w.v, r |-> w.r]
    BY DEF Coins
  <2> QED BY <2>1 DEF pad_coin
<1>5. i \in 1..Len(coins)
  BY <1>1, <1>2, <1>3, <1>4
<1> QED BY <1>1, <1>2, <1>5

\* What the pallet has checked when it accepts a call.
LEMMA AcceptedSpend ==
    ASSUME CoinInv, NEW tx, Accepted(tx), tx.call \in Lanes
    PROVE  /\ tx.serial \notin SerialUsed /\ OneOfMany(tx)
           /\ tx.change # None => tx.change \notin DOMAIN CoinLocation
           /\ tx.call # "withdraw_coin" => tx.price > 0
           /\ tx.witness \in Coins => tx.witness \in DOMAIN CoinLocation
<1>1. PICK price : SpendOk(tx, price)
  BY DEF Accepted, Lanes
<1>2. /\ tx.gid \in DOMAIN CoinGroups /\ tx.price = price
      /\ tx.coins = pad_group(CoinGroups[tx.gid], tx.gid)
      /\ tx.serial \notin SerialUsed /\ OneOfMany(tx)
      /\ tx.change # None => tx.change \notin DOMAIN CoinLocation
      /\ price > 0 \/ tx.call = "withdraw_coin"
  BY <1>1 DEF SpendOk, verify_one_of_many
<1>3. tx.witness \in SetOf(pad_group(CoinGroups[tx.gid], tx.gid))
  BY <1>2 DEF OneOfMany
<1>4. tx.witness \in Coins => tx.witness \in DOMAIN CoinLocation
  BY <1>2, <1>3, WitnessHeld DEF CoinInv
<1> QED BY <1>2, <1>4

\* A step that strikes no serial and sends nothing keeps what was spent.
LEMMA SerialsStutter ==
    ASSUME SerialsOK, GroupsKept, UNCHANGED <<SerialUsed, spends, sent, strays>>
    PROVE  SerialsOK'
  BY DEF SerialsOK, CoinSpentOnce, GroupsKept, documented

\* A spend after which all have the documented form has it itself.
Recorded(tx) == strays' = strays + (IF Documented(tx) THEN 0 ELSE 1)

LEMMA RecordedSpend ==
    ASSUME strays \in Nat, NEW tx, Recorded(tx)
    PROVE  strays' \in Nat /\ (documented' => documented /\ Documented(tx))
  BY DEF Recorded, documented

\* A spend strikes fresh bytes, for which nothing had been spent or sent.
LEMMA StrikeKeeps ==
    ASSUME CoinInv, GroupsKept, NEW tx, tx.serial \in SerialBytes,
           tx.call \in Lanes, Accepted(tx), StrikeSerial(tx), Recorded(tx),
           sent' = sent \/ \E dest : sent' = sent \cup {Message(tx, dest)}
    PROVE  SerialsOK'
<1> DEFINE s == tx.serial
<1>1. /\ s \in SerialBytes \ SerialUsed
      /\ SerialUsed' = SerialUsed \cup {s} /\ spends' = [spends EXCEPT ![s] = @ + 1]
  BY AcceptedSpend DEF StrikeSerial, CountSpend
<1>2. /\ \A b \in SerialBytes : spends[b] = IF b \in SerialUsed THEN 1 ELSE 0
      /\ \A m \in sent : m.serial \in SerialUsed
      /\ \A m1, m2 \in sent : m1.serial = m2.serial => m1 = m2
      /\ spends \in [SerialBytes -> Nat] /\ SerialUsed \subseteq SerialBytes
  BY DEF CoinInv, SerialsOK, CoinSpentOnce
<1> HIDE DEF s
<1>3. /\ SerialUsed' \subseteq SerialBytes /\ spends' \in [SerialBytes -> Nat]
      /\ \A b \in SerialBytes : spends'[b] = IF b \in SerialUsed' THEN 1 ELSE 0
  BY <1>1, <1>2
<1>4. /\ \A m \in sent' : m.serial \in SerialUsed'
      /\ \A m1, m2 \in sent' : m1.serial = m2.serial => m1 = m2
  <2>1. CASE sent' = sent
    BY <1>1, <1>2, <2>1
  <2>2. ASSUME NEW dest, sent' = sent \cup {Message(tx, dest)}
        PROVE  /\ \A m \in sent' : m.serial \in SerialUsed'
               /\ \A m1, m2 \in sent' : m1.serial = m2.serial => m1 = m2
    <3>1. Message(tx, dest).serial = s
      BY DEF Message, s
    <3> HIDE DEF Message
    <3> QED BY <1>1, <1>2, <2>2, <3>1
  <2> QED BY <2>1, <2>2
<1>5. ASSUME documented', NEW b \in SerialUsed'
      PROVE  \E c \in DOMAIN CoinLocation' \cap Coins : b = Canonical(c.s)
  <2>1. documented /\ Documented(tx)
    BY <1>5, RecordedSpend DEF CoinInv, StraysOK
  <2>2. CASE b = s
    <3>1. /\ tx.witness \in DOMAIN CoinLocation \cap Coins /\ s = Canonical(tx.witness.s)
      BY <2>1, AcceptedSpend DEF Documented, s
    <3> QED BY <2>2, <3>1 DEF GroupsKept
  <2>3. CASE b # s
    <3>1. b \in SerialUsed
      BY <1>1, <2>3
    <3> QED BY <2>1, <3>1 DEF CoinInv, SerialsOK, CoinSpentOnce, GroupsKept
  <2> QED BY <2>2, <2>3
<1> QED BY <1>3, <1>4, <1>5 DEF SerialsOK, CoinSpentOnce

\* Including a call keeps groups and serials, whether it succeeds or fails,
\* and after a spend that is not of the documented form nothing is said.
LEMMA IncludeKeeps ==
    ASSUME CoinInv, NEW t \in Tags, Include(t)
    PROVE  /\ GroupsKept /\ SerialsOK' /\ strays' \in Nat
           /\ documented' => documented /\ (rejected(pending[t]) \/ Documented(pending[t]))
<1> DEFINE tx == pending[t]
<1>1. CallOK(tx, t)
  BY DEF Include, CoinInv, PendingOK
<1>2. tx.call \in Lanes /\ tx.serial \in SerialBytes /\ strays \in Nat
  BY <1>1, CallTag DEF CoinInv, StraysOK
<1>3. ASSUME RegisterChange(tx) PROVE GroupsKept
  <2>1. CASE tx.change = None
    BY <1>3, <2>1, GroupsStutter DEF RegisterChange, CoinInv
  <2>2. CASE tx.change # None
    BY <1>1, <1>3, <2>2, InsertKeeps DEF RegisterChange, CallOK, CoinInv
  <2> QED BY <2>1, <2>2
<1> HIDE DEF tx
<1>4. CASE purchase_coin(tx)
  <2>1. /\ Accepted(tx) /\ StrikeSerial(tx) /\ Recorded(tx) /\ GroupsKept
        /\ \E dest : sent' = sent \cup {Message(tx, dest)}
    BY <1>3, <1>4 DEF purchase_coin, Recorded
  <2> QED BY <1>2, <2>1, StrikeKeeps, RecordedSpend DEF tx
<1>5. CASE purchase_access_coin(tx)
  <2>1. /\ Accepted(tx) /\ StrikeSerial(tx) /\ Recorded(tx) /\ GroupsKept
        /\ \E dest : sent' = sent \cup {Message(tx, dest)}
    BY <1>3, <1>5 DEF purchase_access_coin, Recorded
  <2> QED BY <1>2, <2>1, StrikeKeeps, RecordedSpend DEF tx
<1>6. CASE withdraw_coin(tx)
  <2>1. Accepted(tx) /\ StrikeSerial(tx) /\ Recorded(tx) /\ sent' = sent /\ GroupsKept
    BY <1>6, GroupsStutter DEF withdraw_coin, Recorded, CoinInv
  <2> QED BY <1>2, <2>1, StrikeKeeps, RecordedSpend DEF tx
<1>7. CASE rejected(tx)
  <2>1. GroupsKept /\ UNCHANGED <<SerialUsed, spends, sent, strays>>
    BY <1>7, GroupsStutter DEF rejected, CoinInv
  <2> QED BY <1>2, <1>7, <2>1, SerialsStutter DEF CoinInv, documented, tx
<1> QED BY <1>4, <1>5, <1>6, <1>7 DEF Include, tx

-------------------------------------------------------------------------------
(***************************************************************************)
(* Steps                                                                   *)
(***************************************************************************)
Prove == ProveWithdraw \/ ProvePurchase \/ ProveAccess

\* A proof is submitted with a price and a change of the right types.
LEMMA ProveCall ==
    ASSUME CoinInv, Prove
    PROVE  \E tx : Submit(tx) /\ Tag(tx) \in Tags /\ CallOK(tx, Tag(tx))
<1> USE DEF CoinInv
<1>1. ASSUME NEW call \in Lanes, NEW gid, NEW witness, NEW serial \in SerialBytes,
             NEW price \in Nat, NEW change \in Points \cup {None}, NEW to,
             call = "withdraw_coin" => change = None /\ to \in Accounts,
             call = "purchase_access_coin" => to \in AppIds,
             Submit(Proof(call, gid, witness, serial, price, change, to))
      PROVE  \E tx : Submit(tx) /\ Tag(tx) \in Tags /\ CallOK(tx, Tag(tx))
  <2> DEFINE tx == Proof(call, gid, witness, serial, price, change, to)
  <2>1. /\ tx.call = call /\ tx.serial = serial /\ tx.price = price
        /\ tx.change = change /\ tx.to = to
    BY DEF Proof
  <2> HIDE DEF tx
  <2>2. Tag(tx) \in Tags /\ CallOK(tx, Tag(tx))
    BY <1>1, <2>1 DEF Tag, Tags, CallOK
  <2>3. Submit(tx)
    BY <1>1 DEF tx
  <2> QED BY <2>2, <2>3
<1>2. CASE ProveWithdraw
  <2>1. PICK gid \in DOMAIN CoinGroups, serial \in SerialBytes, amount \in Amounts,
             to \in Accounts :
          \E witness \in SetOf(View(gid)) :
            Submit(Proof("withdraw_coin", gid, witness, serial, amount, None, to))
    BY <1>2 DEF ProveWithdraw
  <2>2. PICK witness \in SetOf(View(gid)) :
          Submit(Proof("withdraw_coin", gid, witness, serial, amount, None, to))
    BY <2>1
  <2>3. amount \in Nat /\ "withdraw_coin" \in Lanes
    BY ScanCoinAssumption DEF Lanes
  <2> QED BY <1>1, <2>2, <2>3
<1>3. CASE ProvePurchase
  <2>1. PICK gid \in DOMAIN CoinGroups, serial \in SerialBytes, rwa_id \in RwaIds :
          \E witness \in SetOf(View(gid)), change \in Points \cup {None} :
            Submit(Proof("purchase_coin", gid, witness, serial, RwaPrices[rwa_id], change, rwa_id))
    BY <1>3 DEF ProvePurchase
  <2>2. PICK witness \in SetOf(View(gid)), change \in Points \cup {None} :
          Submit(Proof("purchase_coin", gid, witness, serial, RwaPrices[rwa_id], change, rwa_id))
    BY <2>1
  <2>3. RwaPrices[rwa_id] \in Nat /\ "purchase_coin" \in Lanes
    BY ScanCoinAssumption DEF ConfigOK, Lanes
  <2> QED BY <1>1, <2>2, <2>3
<1>4. CASE ProveAccess
  <2>1. PICK gid \in DOMAIN CoinGroups, serial \in SerialBytes, app_id \in AppIds :
          /\ AccessKeyConfigs[app_id] # None
          /\ \E witness \in SetOf(View(gid)), change \in Points \cup {None} :
               Submit(Proof("purchase_access_coin", gid, witness, serial,
                            AccessKeyConfigs[app_id].price, change, app_id))
    BY <1>4 DEF ProveAccess
  <2>2. PICK witness \in SetOf(View(gid)), change \in Points \cup {None} :
          Submit(Proof("purchase_access_coin", gid, witness, serial,
                       AccessKeyConfigs[app_id].price, change, app_id))
    BY <2>1
  <2>3. AccessKeyConfigs[app_id] \in AppConfigs /\ "purchase_access_coin" \in Lanes
    BY <2>1 DEF ConfigOK, Lanes
  <2>4. AccessKeyConfigs[app_id].price \in Nat
    BY <2>3, ScanCoinAssumption
  <2> QED BY <1>1, <2>2, <2>3, <2>4
<1> QED BY <1>2, <1>3, <1>4 DEF Prove

\* A step that only submits a call or sets a price.
LEMMA QuietStep ==
    ASSUME CoinInv, Prove \/ SetRwaPrice \/ SetAccessConfig \/ UNCHANGED vars
    PROVE  UNCHANGED <<balance, coinVars, SerialUsed, sent, burnt, spends, strays>>
<1>1. CASE Prove
  BY <1>1, ProveCall DEF Submit
<1>2. CASE SetRwaPrice \/ SetAccessConfig \/ UNCHANGED vars
  BY <1>2 DEF SetRwaPrice, set_rwa_price, SetAccessConfig, set_access_config, vars
<1> QED BY <1>1, <1>2

\* Every step keeps groups and serials.
LEMMA NextKeeps ==
    ASSUME CoinInv, [Next]_vars
    PROVE  GroupsKept /\ SerialsOK' /\ strays' \in Nat
<1>1. CASE Deposit
  <2>1. PICK who \in Accounts \ {Pool}, coin \in Coins : deposit_coin(who, coin)
    BY <1>1 DEF Deposit
  <2>2. GroupsKept
    BY <2>1, InsertKeeps DEF deposit_coin, CoinInv, Points
  <2> QED BY <2>1, <2>2, SerialsStutter DEF deposit_coin, CoinInv, StraysOK
<1>2. CASE \E t \in Tags : Include(t)
  BY <1>2, IncludeKeeps
<1>3. CASE Prove \/ SetRwaPrice \/ SetAccessConfig \/ UNCHANGED vars
  <2>1. UNCHANGED <<coinVars, SerialUsed, spends, sent, strays>>
    BY <1>3, QuietStep
  <2>2. GroupsKept
    BY <2>1, GroupsStutter DEF CoinInv
  <2> QED BY <2>1, <2>2, SerialsStutter DEF CoinInv, StraysOK
<1> QED BY <1>1, <1>2, <1>3 DEF Next, Prove

\* Every step keeps the prices typed.
LEMMA NextConfig ==
    ASSUME CoinInv, [Next]_vars
    PROVE  ConfigOK'
<1> USE DEF CoinInv, ConfigOK
<1>1. CASE SetRwaPrice
  BY <1>1 DEF SetRwaPrice, set_rwa_price
<1>2. CASE SetAccessConfig
  BY <1>2 DEF SetAccessConfig, set_access_config
<1>3. CASE Deposit \/ Prove \/ UNCHANGED vars \/ \E t \in Tags : Include(t)
  <2>1. UNCHANGED configVars
    <3>1. CASE Deposit \/ UNCHANGED vars
      BY <3>1 DEF Deposit, deposit_coin, vars
    <3>2. CASE Prove
      BY <3>2, ProveCall DEF Submit
    <3>3. CASE \E t \in Tags : Include(t)
      BY <3>3 DEF Include, purchase_coin, purchase_access_coin, withdraw_coin, rejected
    <3> QED BY <1>3, <3>1, <3>2, <3>3
  <2> QED BY <2>1 DEF configVars
<1> QED BY <1>1, <1>2, <1>3 DEF Next, Prove

\* A call in flight stays the call it was.
LEMMA NextPending ==
    ASSUME CoinInv, [Next]_vars
    PROVE  PendingOK'
<1> USE DEF CoinInv
<1>1. CASE Prove
  <2>1. PICK tx : Submit(tx) /\ Tag(tx) \in Tags /\ CallOK(tx, Tag(tx))
    BY <1>1, ProveCall
  <2>2. pending' = [pending EXCEPT ![Tag(tx)] = tx]
    BY <2>1 DEF Submit
  <2>3. \A z \in Tags : pending'[z] = IF z = Tag(tx) THEN tx ELSE pending[z]
    BY <2>2 DEF PendingOK
  <2> QED BY <2>1, <2>2, <2>3 DEF PendingOK
<1>2. CASE \E t \in Tags : Include(t)
  BY <1>2 DEF Include, PendingOK
<1>3. CASE Deposit \/ SetRwaPrice \/ SetAccessConfig \/ UNCHANGED vars
  <2>1. pending' = pending
    BY <1>3 DEF Deposit, deposit_coin, SetRwaPrice, set_rwa_price, SetAccessConfig,
                set_access_config, vars
  <2> QED BY <2>1 DEF PendingOK
<1> QED BY <1>1, <1>2, <1>3 DEF Next, Prove

-------------------------------------------------------------------------------
(***************************************************************************)
(* The pool account                                                        *)
(***************************************************************************)

\* What the pool account has taken in and not paid out, the dust it lost
\* included.
Vault == balance[Pool] + burnt

\* A payment out of the pool takes its amount out of the vault, or nothing
\* when it is made to the pool itself (PayFromPool).
LEMMA PoolPayment ==
    ASSUME VaultType, NEW to \in Accounts, NEW amount \in Nat,
           PoolPays(to, amount), PayFromPool(to, amount)
    PROVE  VaultType' /\ Vault' \in {Vault, Vault - amount}
<1> DEFINE d == Dust(balance, Pool, to, amount)
<1>1. Pool \in Accounts /\ TransferOk(balance, Pool, to, amount, FALSE)
  BY ScanCoinAssumption DEF PoolPays
<1>2. balance' = Transfer(balance, Pool, to, amount) /\ burnt' = burnt + d
  BY DEF PayFromPool
<1>3. Transfer(balance, Pool, to, amount) \in [Accounts -> Nat] /\ d \in Nat
  BY <1>1, TransferType DEF VaultType
<1>4. Transfer(balance, Pool, to, amount)[Pool] + (burnt + d)
        \in {balance[Pool] + burnt, balance[Pool] + burnt - amount}
  BY <1>1, PaymentOut DEF VaultType
<1>5. balance[Pool] \in Nat /\ burnt \in Nat
  BY <1>1 DEF VaultType
<1> HIDE DEF d
<1>6. VaultType'
  BY <1>2, <1>3 DEF VaultType
<1>7. Vault' \in {Vault, Vault - amount}
  BY <1>2, <1>3, <1>4, <1>5 DEF Vault
<1> QED BY <1>6, <1>7

\* A deposit adds exactly the coin's value to the vault (deposit_coin).
LEMMA DepositVault ==
    ASSUME VaultType, NEW who \in Accounts \ {Pool}, NEW coin \in Coins,
           deposit_coin(who, coin)
    PROVE  VaultType' /\ Vault' = Vault + coin.v
<1>1. /\ coin.v \in Nat /\ Pool \in Accounts /\ burnt' = burnt
      /\ TransferOk(balance, who, Pool, coin.v, TRUE)
      /\ balance' = Transfer(balance, who, Pool, coin.v)
  BY ScanCoinAssumption DEF deposit_coin, Coins
<1>2. Transfer(balance, who, Pool, coin.v) \in [Accounts -> Nat]
  BY <1>1, TransferType DEF VaultType
<1>3. Transfer(balance, who, Pool, coin.v)[Pool] = balance[Pool] + coin.v
  BY <1>1, PaymentIn DEF VaultType
<1>4. balance[Pool] \in Nat /\ burnt \in Nat
  BY <1>1 DEF VaultType
<1> QED BY <1>1, <1>2, <1>3, <1>4 DEF VaultType, Vault

\* The effect of a documented spend, whichever of the three calls makes it:
\* coin w is struck, the price is paid out or kept, and what is left of w is
\* the change, if any.
Spend(w, price, change) ==
    /\ w.s \notin Struck /\ Struck' = Struck \cup {w.s}
    /\ Vault' \in {Vault, Vault - price}
    /\ IF change = None
       THEN w.v = price /\ CoinLocation' = CoinLocation
       ELSE /\ change \in RangedCoins \ DOMAIN CoinLocation /\ price > 0
            /\ w.v = price + change.v
            /\ DOMAIN CoinLocation' = DOMAIN CoinLocation \cup {change}

SomeSpend ==
    \E w \in DOMAIN CoinLocation, price \in Nat, change \in Points \cup {None} :
        Spend(w, price, change)

SomeDeposit ==
    \E coin \in RangedCoins \ DOMAIN CoinLocation :
        /\ DOMAIN CoinLocation' = DOMAIN CoinLocation \cup {coin}
        /\ Vault' = Vault + coin.v
        /\ Struck' = Struck

\* What a step does to coins, serials and the currency as long as spends
\* have the documented form.
Effect ==
    \/ SomeDeposit
    \/ SomeSpend
    \/ UNCHANGED <<CoinLocation, SerialUsed, balance, burnt>>

\* An accepted documented call strikes the serial of one coin, and price and
\* change add up to it.
LEMMA DocumentedEffect ==
    ASSUME CoinInv, NEW tx, tx.call \in Lanes, Accepted(tx), Documented(tx),
           tx.price \in Nat, tx.change \in Points \cup {None},
           tx.call = "withdraw_coin" => tx.change = None,
           StrikeSerial(tx), RegisterChange(tx), Vault' \in {Vault, Vault - tx.price}
    PROVE  SomeSpend
<1>1. /\ tx.witness \in DOMAIN CoinLocation /\ tx.witness \in Coins
      /\ tx.serial = Canonical(tx.witness.s) /\ tx.serial \notin SerialUsed
      /\ SerialUsed' = SerialUsed \cup {tx.serial}
  BY AcceptedSpend DEF Documented, StrikeSerial
<1>2. /\ tx.witness.s \in Serials
      /\ \A s \in Serials : Canonical(s) = tx.serial => s = tx.witness.s
  <2>1. \A s : Canonical(s).s = s
    BY DEF Canonical
  <2> QED BY <1>1, <2>1 DEF Coins
<1>3. tx.witness.s \notin Struck /\ Struck' = Struck \cup {tx.witness.s}
  BY <1>1, <1>2 DEF Struck
<1>4. CASE tx.change = None
  <2>1. tx.witness.v = tx.price
    BY <1>1, <1>4, AcceptedSpend, NoneAssumption DEF OneOfMany, Points
  <2>2. CoinLocation' = CoinLocation
    BY <1>4 DEF RegisterChange, coinVars
  <2>3. Spend(tx.witness, tx.price, tx.change)
    BY <1>3, <1>4, <2>1, <2>2 DEF Spend
  <2> QED BY <1>1, <2>3 DEF SomeSpend
<1>5. CASE tx.change # None
  <2>1. /\ tx.change \in RangedCoins /\ tx.price > 0
        /\ tx.change \notin DOMAIN CoinLocation
    BY <1>5, AcceptedSpend DEF Documented, RangedCoins
  <2>2. tx.witness.v = tx.price + tx.change.v
    BY <1>1, <1>5, AcceptedSpend DEF OneOfMany
  <2>3. DOMAIN CoinLocation' = DOMAIN CoinLocation \cup {tx.change}
    BY <1>5 DEF RegisterChange, InsertCoin, PutCoin
  <2>4. Spend(tx.witness, tx.price, tx.change)
    BY <1>3, <1>5, <2>1, <2>2, <2>3 DEF Spend
  <2> QED BY <1>1, <2>4 DEF SomeSpend
<1> QED BY <1>4, <1>5

\* Including a call keeps the currency typed; a documented one spends one
\* coin, or leaves coins, serials and the currency as they are.
LEMMA IncludeSpends ==
    ASSUME CoinInv, NEW t \in Tags, Include(t)
    PROVE  VaultType' /\ (documented' => Effect)
<1> DEFINE tx == pending[t]
<1>1. CallOK(tx, t)
  BY DEF Include, CoinInv, PendingOK
<1>2. /\ VaultType /\ tx.price \in Nat /\ tx.call \in Lanes
      /\ tx.change \in Points \cup {None}
      /\ tx.call = "withdraw_coin" => tx.change = None
      /\ documented' => rejected(tx) \/ Documented(tx)
  BY <1>1, CallTag, IncludeKeeps DEF CoinInv, CallOK
<1> HIDE DEF tx
<1>3. CASE purchase_coin(tx)
  <2>1. balance' = balance /\ burnt' = burnt
    BY <1>3 DEF purchase_coin
  <2>2. Accepted(tx) /\ StrikeSerial(tx) /\ RegisterChange(tx) /\ Vault' = Vault
    BY <1>3, <2>1 DEF purchase_coin, Vault
  <2>3. documented' => Effect
    BY <1>2, <2>2, DocumentedEffect DEF Effect, rejected
  <2> QED BY <1>2, <2>1, <2>3 DEF VaultType
<1>4. CASE purchase_access_coin(tx)
  <2> DEFINE cfg == AccessKeyConfigs[tx.to]
  <2>1. tx.to \in AppIds
    BY <1>1, <1>4 DEF purchase_access_coin, CallOK, tx
  <2>2. cfg # None /\ PoolPays(cfg.payment_account, tx.price)
    BY <1>4 DEF purchase_access_coin, Accepted
  <2>3. cfg \in AppConfigs
    BY <2>1, <2>2 DEF CoinInv, ConfigOK
  <2>4. cfg.payment_account \in Accounts /\ PayFromPool(cfg.payment_account, tx.price)
    BY <1>4, <2>3, ScanCoinAssumption DEF purchase_access_coin
  <2> HIDE DEF cfg
  <2>5. VaultType' /\ Vault' \in {Vault, Vault - tx.price}
    BY <1>2, <2>2, <2>4, PoolPayment
  <2>6. Accepted(tx) /\ StrikeSerial(tx) /\ RegisterChange(tx)
    BY <1>4 DEF purchase_access_coin
  <2>7. documented' => Effect
    BY <1>2, <2>5, <2>6, DocumentedEffect DEF Effect, rejected
  <2> QED BY <2>5, <2>7
<1>5. CASE withdraw_coin(tx)
  <2>1. tx.change = None /\ tx.to \in Accounts
    BY <1>1, <1>5 DEF withdraw_coin, CallOK, tx
  <2>2. PoolPays(tx.to, tx.price) /\ PayFromPool(tx.to, tx.price)
    BY <1>5 DEF withdraw_coin, Accepted
  <2>3. VaultType' /\ Vault' \in {Vault, Vault - tx.price}
    BY <1>2, <2>1, <2>2, PoolPayment
  <2>4. Accepted(tx) /\ StrikeSerial(tx) /\ RegisterChange(tx)
    BY <1>5, <2>1 DEF withdraw_coin, RegisterChange
  <2>5. documented' => Effect
    BY <1>2, <2>3, <2>4, DocumentedEffect DEF Effect, rejected
  <2> QED BY <2>3, <2>5
<1>6. CASE rejected(tx)
  BY <1>2, <1>6 DEF rejected, coinVars, VaultType, Effect
<1> QED BY <1>3, <1>4, <1>5, <1>6 DEF Include, tx

\* What a step does to coins, serials and the currency.
LEMMA NextEffect ==
    ASSUME CoinInv, [Next]_vars
    PROVE  VaultType' /\ (documented' => documented /\ Effect)
<1>1. CASE Deposit
  <2>1. PICK who \in Accounts \ {Pool}, coin \in Coins : deposit_coin(who, coin)
    BY <1>1 DEF Deposit
  <2>2. VaultType' /\ Vault' = Vault + coin.v
    BY <2>1, DepositVault DEF CoinInv
  <2>3. /\ coin \in RangedCoins \ DOMAIN CoinLocation /\ SerialUsed' = SerialUsed
        /\ DOMAIN CoinLocation' = DOMAIN CoinLocation \cup {coin} /\ strays' = strays
    BY <2>1 DEF deposit_coin, InsertCoin, PutCoin, RangedCoins
  <2> QED BY <2>2, <2>3 DEF Effect, SomeDeposit, Struck, documented
<1>2. CASE \E t \in Tags : Include(t)
  BY <1>2, IncludeSpends, IncludeKeeps
<1>3. CASE Prove \/ SetRwaPrice \/ SetAccessConfig \/ UNCHANGED vars
  BY <1>3, QuietStep DEF CoinInv, VaultType, Effect, coinVars, documented
<1> QED BY <1>1, <1>2, <1>3 DEF Next, Prove

\* Every step keeps the coins ranged as long as spends are documented.
LEMMA NextStrays == CoinInv /\ [Next]_vars => StraysOK'
<1> SUFFICES ASSUME CoinInv, [Next]_vars PROVE StraysOK'
  OBVIOUS
<1>1. strays' \in Nat
  BY NextKeeps
<1>2. ASSUME documented' PROVE DOMAIN CoinLocation' \subseteq RangedCoins
  <2>1. Effect /\ DOMAIN CoinLocation \subseteq RangedCoins
    BY <1>2, NextEffect DEF CoinInv, StraysOK
  <2>2. CASE SomeDeposit
    BY <2>1, <2>2 DEF SomeDeposit
  <2>3. ASSUME NEW w, NEW price, NEW change, Spend(w, price, change)
        PROVE  DOMAIN CoinLocation' \subseteq RangedCoins
    <3>1. CASE change = None
      BY <2>1, <2>3, <3>1 DEF Spend
    <3>2. CASE change # None
      BY <2>1, <2>3, <3>2 DEF Spend
    <3> QED BY <3>1, <3>2
  <2> QED BY <2>1, <2>2, <2>3 DEF Effect, SomeSpend
<1> QED BY <1>1, <1>2 DEF StraysOK

-------------------------------------------------------------------------------
(***************************************************************************)
(* The properties                                                          *)
(***************************************************************************)

\* At genesis there is no coin, no call and no price.
LEMMA CoinInitInv == Init => CoinInv
<1> SUFFICES ASSUME Init PROVE CoinInv
  OBVIOUS
<1>1. DOMAIN CoinGroups = {} /\ DOMAIN CoinLocation = {} /\ CurrentGroup = 0
  BY DEF Init
<1>2. GroupType
  BY <1>1 DEF Init, GroupType
<1>3. LocationsExact
  <2>1. Len(Group(CurrentGroup)) = 0
    BY <1>1 DEF Group
  <2> QED BY <1>1, <2>1, ScanCoinAssumption DEF LocationsExact
<1>4. PendingOK
  BY DEF Init, PendingOK
<1>5. ConfigOK
  BY ScanCoinAssumption DEF Init, ConfigOK
<1>6. SerialsOK
  BY DEF Init, SerialsOK, CoinSpentOnce
<1>7. StraysOK
  BY DEF Init, StraysOK
<1>8. VaultType
  BY ScanCoinAssumption DEF Init, VaultType
<1> QED BY <1>1, <1>2, <1>3, <1>4, <1>5, <1>6, <1>7, <1>8 DEF CoinInv, GroupsOK

\* Every step preserves the invariant.
LEMMA CoinNextInv == CoinInv /\ [Next]_vars => CoinInv'
  BY NextKeeps, NextConfig, NextPending, NextStrays, NextEffect DEF CoinInv, GroupsKept

\* The inductive invariant holds of every behaviour.
THEOREM CoinInvCorrect == Spec => []CoinInv
  BY CoinInitInv, CoinNextInv, PTL DEF Spec

\* For every size of a group a wallet finds each coin where its location
\* says, in groups that are numbered without a gap and filled in order.
THEOREM LocationsCorrect == Spec => []LocationsExact
<1>1. CoinInv => LocationsExact
  BY DEF CoinInv, GroupsOK
<1> QED BY <1>1, CoinInvCorrect, PTL

\* Whatever calls are in flight for them, the bytes of a serial are accepted
\* and sent to another chain at most once; they are those of a coin as long
\* as spends have the documented form.
THEOREM CoinSpentOnceCorrect == Spec => []CoinSpentOnce
<1>1. CoinInv => CoinSpentOnce
  BY DEF CoinInv, SerialsOK
<1> QED BY <1>1, CoinInvCorrect, PTL

\* A full group never changes again, whatever form the spends have.
THEOREM FullGroupsCorrect == Spec => FullGroupsFixed
<1>1. CoinInv /\ [Next]_vars =>
        [\A g \in DOMAIN CoinGroups :
           Len(CoinGroups[g]) = GroupCapacity => CoinGroups'[g] = CoinGroups[g]]_vars
  BY NextKeeps DEF GroupsKept
<1> QED BY <1>1, CoinInvCorrect, PTL DEF Spec, FullGroupsFixed

-------------------------------------------------------------------------------
(***************************************************************************)
(* The coin lane is solvent                                                *)
(***************************************************************************)
Worth == [s \in Serials |-> {c.v : c \in Owned(s)}]

\* There are finitely many values, so the claims of module PoolFacts are
\* those of the coins.
LEMMA WorthType ==
    ASSUME CoinInv, documented
    PROVE  /\ Worth \in Worths(Serials)
           /\ CoinsBacked <=> SumFunction(OpenClaims(Worth, Struck)) <= Vault
<1>1. \A s \in Serials : Worth[s] \subseteq Amounts
  BY DEF Worth, Owned, CoinInv, StraysOK, RangedCoins
<1>2. \A s \in Serials : Worth[s] \subseteq Nat /\ IsFiniteSet(Worth[s])
  BY <1>1, FS_Subset, ScanCoinAssumption
<1>3. Worth \in Worths(Serials)
  BY <1>2 DEF Worth, Worths
<1>4. [s \in Serials |-> CoinClaim(s)] = OpenClaims(Worth, Struck)
  BY DEF CoinClaim, OpenClaims, Worth
<1> QED BY <1>3, <1>4 DEF CoinsBacked, Vault

LEMMA WorthTypeNext ==
    ASSUME CoinInv', documented'
    PROVE  /\ Worth' \in Worths(Serials)
           /\ CoinsBacked' <=> SumFunction(OpenClaims(Worth', Struck')) <= Vault'
<1>1. (CoinInv /\ documented =>
         /\ Worth \in Worths(Serials)
         /\ CoinsBacked <=> SumFunction(OpenClaims(Worth, Struck)) <= Vault)'
  BY WorthType, PTL
<1> QED BY <1>1

\* As long as spends have the documented form, the coins held are ranged.
LEMMA RangedHeld ==
    ASSUME CoinInv, documented
    PROVE  /\ DOMAIN CoinLocation \subseteq RangedCoins
           /\ DOMAIN CoinLocation \cap Coins = DOMAIN CoinLocation
           /\ \A s \in Serials, c \in DOMAIN CoinLocation : c \in Owned(s) <=> c.s = s
  BY DEF CoinInv, StraysOK, RangedCoins, Owned

LEMMA RangedCoin ==
    \A c \in RangedCoins : c \in Coins /\ c.s \in Serials /\ c.v \in Amounts /\ c.v \in Nat
  BY ScanCoinAssumption DEF RangedCoins, Coins

\* A coin that is issued adds its value under its own serial.
LEMMA WorthIssued ==
    ASSUME CoinInv, documented, CoinInv', documented', NEW coin \in RangedCoins,
           DOMAIN CoinLocation' = DOMAIN CoinLocation \cup {coin}
    PROVE  /\ coin.v \in Nat
           /\ \A spent : SumFunction(OpenClaims(Worth', spent))
                           <= SumFunction(OpenClaims(Worth, spent)) + coin.v
<1>1. /\ coin.s \in Serials /\ coin.v \in Nat /\ coin \in Coins
      /\ IsFiniteSet(Serials)
  BY RangedCoin, ScanCoinAssumption
<1>2. Worth \in Worths(Serials) /\ Worth' \in Worths(Serials)
  BY WorthType, WorthTypeNext
<1>3. /\ \A s \in Serials \ {coin.s} : Worth'[s] = Worth[s]
      /\ Worth'[coin.s] \subseteq Worth[coin.s] \cup {coin.v}
  BY <1>1 DEF Worth, Owned
<1>4. Worth' \in [Serials -> SUBSET Nat]
  BY <1>2 DEF Worths
<1> QED BY <1>1, <1>2, <1>3, <1>4, ClaimsRaised

\* Every documented step keeps the coins backed: a deposit is paid in, and
\* a spend closes a claim of at least what it pays out and what it opens.
LEMMA NextBacked == CoinInv /\ CoinInv' /\ CoinsBacked /\ [Next]_vars => CoinsBacked'
<1> SUFFICES ASSUME CoinInv, CoinInv', CoinsBacked, [Next]_vars, documented'
             PROVE  CoinsBacked'
  BY DEF CoinsBacked
<1> DEFINE S(worth, spent) == SumFunction(OpenClaims(worth, spent))
<1>1. documented /\ Effect
  BY NextEffect
<1>2. /\ Worth \in Worths(Serials) /\ Worth' \in Worths(Serials)
      /\ S(Worth, Struck) <= Vault
      /\ CoinsBacked' <=> S(Worth', Struck') <= Vault'
  BY <1>1, WorthType, WorthTypeNext
<1>3. /\ \A spent : S(Worth, spent) \in Nat /\ S(Worth', spent) \in Nat
      /\ Vault \in Nat /\ Vault' \in Nat
  <2>1. \A spent : S(Worth, spent) \in Nat /\ S(Worth', spent) \in Nat
    BY <1>2, ClaimsType, ScanCoinAssumption
  <2>2. Vault \in Nat /\ Vault' \in Nat
    BY ScanCoinAssumption DEF Vault, CoinInv, VaultType
  <2> QED BY <2>1, <2>2
<1>4. CASE SomeDeposit
  <2>1. PICK coin \in RangedCoins : /\ DOMAIN CoinLocation' = DOMAIN CoinLocation \cup {coin}
                                    /\ Vault' = Vault + coin.v
                                    /\ Struck' = Struck
    BY <1>4 DEF SomeDeposit
  <2>2. coin.v \in Nat /\ S(Worth', Struck) <= S(Worth, Struck) + coin.v
    BY <1>1, <2>1, WorthIssued
  <2> HIDE DEF S
  <2> QED BY <1>2, <1>3, <2>1, <2>2
<1>5. CASE SomeSpend
  <2>1. PICK w \in DOMAIN CoinLocation, price \in Nat, change \in Points \cup {None} :
             Spend(w, price, change)
    BY <1>5 DEF SomeSpend
  <2>2. /\ w.s \in Serials \ Struck /\ w.v \in Nat /\ w.v \in Worth[w.s]
        /\ Struck' = Struck \cup {w.s}
    BY <1>1, <2>1, RangedHeld, RangedCoin DEF Spend, Worth
  <2>3. S(Worth, Struck') + w.v <= S(Worth, Struck)
    BY <1>2, <2>2, ClaimsSpent, ScanCoinAssumption
  <2>4. Vault' \in {Vault, Vault - price}
    BY <2>1 DEF Spend
  <2>5. CASE change = None
    <3>1. w.v = price /\ Worth' = Worth
      BY <2>1, <2>5 DEF Spend, Worth, Owned
    <3> HIDE DEF S
    <3> QED BY <1>2, <1>3, <2>2, <2>3, <2>4, <3>1
  <2>6. CASE change # None
    <3>1. /\ change \in RangedCoins /\ w.v = price + change.v
          /\ DOMAIN CoinLocation' = DOMAIN CoinLocation \cup {change}
      BY <2>1, <2>6 DEF Spend
    <3>2. change.v \in Nat /\ S(Worth', Struck') <= S(Worth, Struck') + change.v
      BY <1>1, <3>1, WorthIssued
    <3> HIDE DEF S
    <3> QED BY <1>2, <1>3, <2>2, <2>3, <2>4, <3>1, <3>2
  <2> QED BY <2>5, <2>6
<1>6. CASE UNCHANGED <<CoinLocation, SerialUsed, balance, burnt>>
  <2>1. Worth' = Worth /\ Struck' = Struck /\ Vault' = Vault
    BY <1>6 DEF Worth, Owned, Struck, Vault
  <2> QED BY <1>2, <2>1
<1> QED BY <1>1, <1>4, <1>5, <1>6 DEF Effect

\* As long as spends have the documented form, the pool account backs every
\* coin that can still be spent, whatever calls are in flight and whatever
\* prices change under them.
THEOREM CoinsBackedCorrect == Spec => []CoinsBacked
<1>1. Init => CoinsBacked
  <2> SUFFICES ASSUME Init PROVE CoinsBacked
    OBVIOUS
  <2>1. CoinInv /\ documented
    BY CoinInitInv DEF Init, documented
  <2>2. Worth = [s \in Serials |-> {}]
    BY DEF Init, Worth, Owned
  <2>3. SumFunction(OpenClaims(Worth, Struck)) = 0
    BY <2>2, NoClaims, ScanCoinAssumption
  <2>4. Vault \in Nat
    BY <2>1, ScanCoinAssumption DEF CoinInv, VaultType, Vault
  <2> QED BY <2>1, <2>3, <2>4, WorthType
<1> QED BY <1>1, NextBacked, CoinInvCorrect, PTL DEF Spec

-------------------------------------------------------------------------------
(***************************************************************************)
(* A proof about a full group lasts                                        *)
(***************************************************************************)
\* No account but the pool's is ever emptied: a deposit must leave its
\* account alive (KeepAlive), and nobody else pays.
LEMMA AccountsStay ==
    ASSUME CoinInv, [Next]_vars, NEW a \in Accounts \ {Pool}, balance[a] > 0
    PROVE  balance'[a] > 0
<1>1. balance \in [Accounts -> Nat] /\ Pool \in Accounts /\ ExistentialDeposit \in Nat \ {0}
  BY ScanCoinAssumption, ExistentialDepositAssumption DEF CoinInv, VaultType
<1>2. ASSUME NEW to \in Accounts, NEW amount \in Nat, PayFromPool(to, amount)
      PROVE  balance'[a] > 0
  BY <1>1, <1>2 DEF PayFromPool, Transfer
<1>3. CASE Deposit
  <2>1. PICK who \in Accounts \ {Pool}, coin \in Coins : deposit_coin(who, coin)
    BY <1>3 DEF Deposit
  <2>2. /\ coin.v \in Nat /\ TransferOk(balance, who, Pool, coin.v, TRUE)
        /\ balance' = Transfer(balance, who, Pool, coin.v)
    BY <2>1, ScanCoinAssumption DEF deposit_coin
  <2> QED BY <1>1, <2>2 DEF TransferOk, Transfer, Dust, NoOp
<1>4. CASE \E t \in Tags : Include(t)
  <2>1. PICK t \in Tags : Include(t)
    BY <1>4
  <2>2. CallOK(pending[t], t)
    BY <2>1 DEF Include, CoinInv, PendingOK
  <2> DEFINE tx == pending[t]
  <2>3. CASE purchase_coin(tx) \/ rejected(tx)
    BY <2>3 DEF purchase_coin, rejected
  <2>4. CASE purchase_access_coin(tx)
    <3>1. AccessKeyConfigs[tx.to] \in AppConfigs
      BY <2>2, <2>4 DEF purchase_access_coin, Accepted, CallOK, CoinInv, ConfigOK
    <3>2. AccessKeyConfigs[tx.to].payment_account \in Accounts
      BY <3>1, ScanCoinAssumption
    <3> QED BY <1>2, <2>2, <2>4, <3>2 DEF purchase_access_coin, CallOK
  <2>5. CASE withdraw_coin(tx)
    BY <1>2, <2>2, <2>5 DEF withdraw_coin, CallOK
  <2> QED BY <2>1, <2>3, <2>4, <2>5 DEF Include
<1>5. CASE Prove \/ SetRwaPrice \/ SetAccessConfig \/ UNCHANGED vars
  BY <1>5, QuietStep
<1> QED BY <1>3, <1>4, <1>5 DEF Next, Prove

\* What a withdrawal has proved about a full group is not outrun: it stays
\* verified whatever is included before it, in whatever form, until the
\* bytes of its serial are struck.  If spends have the documented form and
\* the pool account was not reaped, it can also be paid.
FullGroupProofsLast ==
    [][\A t \in Tags :
         /\ pending[t] # None /\ pending[t].call = "withdraw_coin" /\ Accepted(pending[t])
         /\ Len(CoinGroups[pending[t].gid]) = GroupCapacity
         /\ pending'[t] = pending[t] /\ pending[t].serial \notin SerialUsed'
         => /\ SpendOk(pending[t], pending[t].price)'
            /\ documented' /\ Documented(pending[t]) /\ burnt' = 0
                 => Accepted(pending[t])']_vars

\* What such a withdrawal needs of the group, the serial and the vault is
\* what a step keeps.
LEMMA NextLasts ==
    ASSUME CoinInv, CoinInv', CoinsBacked', [Next]_vars, NEW t \in Tags,
           pending[t] # None, pending[t].call = "withdraw_coin", Accepted(pending[t]),
           Len(CoinGroups[pending[t].gid]) = GroupCapacity,
           pending'[t] = pending[t], pending[t].serial \notin SerialUsed'
    PROVE  /\ SpendOk(pending[t], pending[t].price)'
           /\ documented' /\ Documented(pending[t]) /\ burnt' = 0 => Accepted(pending[t])'
<1> DEFINE tx == pending[t]
<1>1. /\ CallOK(tx, t) /\ tx' = tx
      /\ tx.price \in Nat /\ tx.to \in Accounts /\ tx.change = None
  BY DEF CoinInv, PendingOK, CallOK
<1>2. SpendOk(tx, tx.price) /\ PoolPays(tx.to, tx.price)
  BY DEF Accepted
<1>3. /\ tx.gid \in DOMAIN CoinGroups
      /\ verify_one_of_many(tx, pad_group(CoinGroups[tx.gid], tx.gid), tx.price)
  BY <1>2 DEF SpendOk
<1>4. tx.gid \in DOMAIN CoinGroups' /\ CoinGroups'[tx.gid] = CoinGroups[tx.gid]
  BY <1>3, NextKeeps DEF GroupsKept
<1>5. SpendOk(tx, tx.price)'
  BY <1>1, <1>2, <1>3, <1>4 DEF SpendOk, verify_one_of_many, OneOfMany
<1>6. ASSUME documented', Documented(tx), burnt' = 0
      PROVE  Accepted(tx)'
  <2>1. tx.price <= balance'[Pool]
    <3>1. /\ tx.witness \in DOMAIN CoinLocation /\ tx.witness \in Coins
          /\ tx.serial = Canonical(tx.witness.s) /\ tx.witness.v = tx.price
      <4>1. tx.call \in Lanes
        BY DEF Lanes
      <4>2. OneOfMany(tx) /\ (tx.witness \in Coins => tx.witness \in DOMAIN CoinLocation)
        BY <4>1, AcceptedSpend
      <4>3. tx.witness \in Coins /\ tx.serial = Canonical(tx.witness.s)
        BY <1>6 DEF Documented
      <4> QED BY <1>1, <4>2, <4>3, NoneAssumption DEF OneOfMany, Points
    <3>2. tx.witness.s \in Serials \ Struck'
      BY <3>1 DEF Struck, Coins
    <3>3. tx.price \in Worth'[tx.witness.s]
      <4>1. DOMAIN CoinLocation \subseteq DOMAIN CoinLocation'
        BY NextKeeps DEF GroupsKept
      <4> QED BY <3>1, <3>2, <4>1 DEF Worth, Owned
    <3>4. /\ Worth' \in Worths(Serials)
          /\ SumFunction(OpenClaims(Worth', Struck')) <= Vault'
      BY <1>6, WorthTypeNext
    <3>5. /\ tx.price <= SumFunction(OpenClaims(Worth', Struck'))
          /\ SumFunction(OpenClaims(Worth', Struck')) \in Nat
      BY <3>2, <3>3, <3>4, ClaimCovered, ClaimsType, ScanCoinAssumption
    <3>6. balance'[Pool] \in Nat /\ Vault' = balance'[Pool] + burnt'
      BY ScanCoinAssumption DEF CoinInv, VaultType, Vault
    <3> QED BY <1>1, <1>6, <3>4, <3>5, <3>6
  <2>2. PoolPays(tx.to, tx.price)'
    <3>1. CASE NoOp(Pool, tx.to, tx.price)
      BY <1>1, <3>1 DEF PoolPays, TransferOk
    <3>2. CASE ~NoOp(Pool, tx.to, tx.price)
      <4>1. tx.to \in Accounts \ {Pool} /\ (balance[tx.to] = 0 => ExistentialDeposit <= tx.price)
        BY <1>1, <1>2, <3>2 DEF PoolPays, TransferOk, NoOp
      <4>2. balance[tx.to] \in Nat
        BY <4>1 DEF CoinInv, VaultType
      <4>3. balance'[tx.to] = 0 => ExistentialDeposit <= tx.price
        BY <4>1, <4>2, AccountsStay
      <4> QED BY <1>1, <2>1, <4>3 DEF PoolPays, TransferOk
    <3> QED BY <3>1, <3>2
  <2> HIDE DEF tx
  <2>3. tx'.call = "withdraw_coin"
    BY <1>1 DEF tx
  <2> QED BY <1>5, <2>2, <2>3 DEF Accepted
<1> HIDE DEF tx
<1>7. /\ SpendOk(tx, tx.price)'
      /\ documented' /\ Documented(tx) /\ burnt' = 0 => Accepted(tx)'
  BY <1>5, <1>6
<1> QED BY <1>7 DEF tx

\* What takes a coin out of a full group cannot be outrun: with fairness,
\* which TLC checks (CoinExits), this is why the wallet gets out.
THEOREM FullGroupProofsLastCorrect == Spec => FullGroupProofsLast
<1>1. CoinInv /\ CoinInv' /\ CoinsBacked' /\ [Next]_vars =>
        [\A t \in Tags :
           /\ pending[t] # None /\ pending[t].call = "withdraw_coin" /\ Accepted(pending[t])
           /\ Len(CoinGroups[pending[t].gid]) = GroupCapacity
           /\ pending'[t] = pending[t] /\ pending[t].serial \notin SerialUsed'
           => /\ SpendOk(pending[t], pending[t].price)'
              /\ documented' /\ Documented(pending[t]) /\ burnt' = 0
                   => Accepted(pending[t])']_vars
  BY NextLasts
<1> QED BY <1>1, CoinInvCorrect, CoinsBackedCorrect, PTL DEF Spec, FullGroupProofsLast

-------------------------------------------------------------------------------
(***************************************************************************)
(* The coin lane implements the abstract shielded pool                     *)
(***************************************************************************)
NoteOf(c) == [v |-> c.v, b |-> c.s, pk |-> c.r]

Issued == {NoteOf(c) : c \in DOMAIN CoinLocation \cap Coins}

\* A ranged coin is a note, and different coins are different notes.
LEMMA CoinNotes ==
    /\ \A c \in RangedCoins : /\ NoteOf(c) \in Promise!Note
                              /\ NoteOf(c).v = c.v /\ NoteOf(c).b = c.s
    /\ \A c1, c2 \in RangedCoins : NoteOf(c1) = NoteOf(c2) => c1 = c2
<1>1. \A c \in RangedCoins : /\ NoteOf(c) \in Promise!Note /\ NoteOf(c).pk = c.r
                             /\ NoteOf(c).v = c.v /\ NoteOf(c).b = c.s
  BY DEF NoteOf, Promise!Note, RangedCoins, Coins
<1>2. ASSUME NEW c1 \in RangedCoins, NEW c2 \in RangedCoins, NoteOf(c1) = NoteOf(c2)
      PROVE  c1 = c2
  <2>1. c1.v = c2.v /\ c1.s = c2.s /\ c1.r = c2.r
    BY <1>1, <1>2
  <2> QED BY <2>1 DEF RangedCoins, Coins
<1> QED BY <1>1, <1>2

\* Every documented step of the lane is one of the abstract pool or leaves
\* it alone.
LEMMA NextPool ==
    CoinInv /\ [Next]_vars => (documented' => [Promise!PoolNext]_(Promise!poolVars))
<1> SUFFICES ASSUME CoinInv, [Next]_vars, documented'
             PROVE  Promise!PoolNext \/ UNCHANGED Promise!poolVars
  OBVIOUS
<1>1. /\ documented /\ Effect /\ DOMAIN CoinLocation \subseteq RangedCoins
      /\ \A c \in RangedCoins : /\ NoteOf(c) \in Promise!Note
                                /\ NoteOf(c).v = c.v /\ NoteOf(c).b = c.s
  BY NextEffect, RangedHeld, CoinNotes
<1>2. Vault \in Nat /\ \A c \in RangedCoins : c \in Coins /\ c.v \in Nat
  <2>1. Vault \in Nat
    BY ScanCoinAssumption DEF CoinInv, VaultType, Vault
  <2> QED BY <2>1, RangedCoin
<1>3. ASSUME NEW c \in RangedCoins \ DOMAIN CoinLocation PROVE NoteOf(c) \notin Issued
  BY <1>1, CoinNotes DEF Issued
<1>4. ASSUME NEW c \in RangedCoins, DOMAIN CoinLocation' = DOMAIN CoinLocation \cup {c}
      PROVE  Issued' = Issued \cup {NoteOf(c)}
  BY <1>2, <1>4 DEF Issued
<1>5. CASE SomeDeposit
  <2>1. PICK coin \in RangedCoins \ DOMAIN CoinLocation :
             /\ DOMAIN CoinLocation' = DOMAIN CoinLocation \cup {coin}
             /\ Vault' = Vault + coin.v
             /\ Struck' = Struck
    BY <1>5 DEF SomeDeposit
  <2>2. NoteOf(coin) \notin Issued /\ Issued' = Issued \cup {NoteOf(coin)}
    BY <1>3, <1>4, <2>1
  <2>3. Promise!Issue(NoteOf(coin))
    BY <1>1, <2>1, <2>2 DEF Promise!Issue, Issued, NoteOf, Vault
  <2> QED BY <1>1, <2>3 DEF Promise!PoolNext
<1>6. ASSUME NEW w \in DOMAIN CoinLocation, NEW price \in Nat,
             NEW change \in Points \cup {None}, Spend(w, price, change)
      PROVE  Promise!PoolNext
  <2>1. /\ w \in RangedCoins /\ w \in Coins /\ NoteOf(w) \in Issued
        /\ NoteOf(w).b \notin Struck /\ Struck' = Struck \cup {NoteOf(w).b}
        /\ Vault' \in {Vault, Vault - price}
    BY <1>1, <1>2, <1>6 DEF Spend, Issued
  <2>2. Promise!Strike(NoteOf(w))
    BY <2>1 DEF Promise!Strike, Issued, NoteOf
  <2>3. CASE change = None
    <3>1. NoteOf(w).v = price /\ Issued' = Issued
      BY <1>1, <1>6, <2>1, <2>3 DEF Spend, Issued
    <3>2. Promise!Redeem(NoteOf(w))
      BY <2>1, <2>2, <3>1 DEF Promise!Redeem, Issued, NoteOf, Vault
    <3> QED BY <1>1, <2>1, <3>2 DEF Promise!PoolNext
  <2>4. CASE change # None
    <3>1. /\ change \in RangedCoins \ DOMAIN CoinLocation /\ price > 0
          /\ w.v = price + change.v
          /\ DOMAIN CoinLocation' = DOMAIN CoinLocation \cup {change}
      BY <1>6, <2>4 DEF Spend
    <3>2. NoteOf(change) \notin Issued /\ Issued' = Issued \cup {NoteOf(change)}
      BY <1>3, <1>4, <3>1
    <3>3. /\ NoteOf(change).v < NoteOf(w).v
          /\ NoteOf(w).v - NoteOf(change).v = price
      BY <1>1, <1>2, <2>1, <3>1
    <3>4. Vault' \in {Vault, Vault - (NoteOf(w).v - NoteOf(change).v)}
      BY <2>1, <3>3
    <3>5. Promise!Purchase(NoteOf(w), NoteOf(change))
      BY <2>2, <3>2, <3>3, <3>4 DEF Promise!Purchase, Issued, NoteOf, Vault
    <3> QED BY <1>1, <2>1, <3>1, <3>5 DEF Promise!PoolNext
  <2> QED BY <2>3, <2>4
<1>7. CASE UNCHANGED <<CoinLocation, SerialUsed, balance, burnt>>
  BY <1>7 DEF Promise!poolVars, Struck
<1> QED BY <1>1, <1>5, <1>6, <1>7 DEF Effect, SomeSpend

\* As long as spends have the documented form, every step of the coin lane
\* is one of the abstract pool: a serial is struck once, against a coin
\* issued under it, and price and change add up to that coin.
THEOREM CoinRefinement == Spec => RefinesShieldedPool
<1>1. Init => Promise!PoolInit
  <2> SUFFICES ASSUME Init PROVE Promise!PoolInit
    OBVIOUS
  <2>1. Struck = {} /\ DOMAIN CoinLocation = {}
    BY DEF Init, Struck
  <2>2. balance[Pool] + burnt \in Nat
    BY CoinInitInv, ScanCoinAssumption DEF CoinInv, VaultType
  <2> QED BY <2>1, <2>2 DEF Promise!PoolInit
<1>2. CoinInv /\ [Next]_vars =>
        [documented' => [Promise!PoolNext]_(Promise!poolVars)]_vars
  BY NextPool
<1> QED BY <1>1, <1>2, CoinInvCorrect, PTL DEF Spec, RefinesShieldedPool
===============================================================================
