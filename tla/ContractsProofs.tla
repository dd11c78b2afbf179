--------------------------- MODULE ContractsProofs ---------------------------
(***************************************************************************)
(* The four contracts, for any accounts, fees, batches and old             *)
(* deployments: the money, the access it buys, the profiles and what is    *)
(* left of them by a migration, the levels, and the lists read in pages;   *)
(* the role table each of them embeds; and the player token, for any       *)
(* holders, supply, pages and transfers, with the sums it needs.           *)
(***************************************************************************)
EXTENDS ScoutOffContracts, AccessControl, PlayerToken, FiniteSetTheorems, SequenceTheorems,
        WellFoundedInduction, TLAPS

-----------------------------------------------------------------------------
(* The money and the records of the subscription contract.                 *)
MoneyTypes ==
    /\ ledger \in Nat \ {0}
    /\ expiresAt \in [Scouts -> Nat]
    /\ feeBps \in Nat
    /\ feeBalance \in Nat
    /\ tokens \in [Holders -> Nat]

Money == MoneyTypes /\ FeeBalanceBacked

(* What a scout has once bought.                                           *)
HasAccess(s, p) == has_paid_contact(s, p) \/ expiresAt[s] # NeverSubscribed

LEMMA Transferred ==
    ASSUME MoneyTypes, NEW from \in Holders, NEW to \in Holders, from # to,
           NEW amount \in Nat, transfer(from, to, amount)
    PROVE  /\ tokens' \in [Holders -> Nat]
           /\ tokens'[from] = tokens[from] - amount
           /\ tokens'[to] = tokens[to] + amount
           /\ \A h \in Holders \ {from, to} : tokens'[h] = tokens[h]
<1>1. /\ DOMAIN tokens = Holders /\ tokens[from] \in Nat /\ tokens[to] \in Nat
      /\ amount <= tokens[from]
      /\ tokens' = [tokens EXCEPT ![from] = @ - amount, ![to] = @ + amount]
  BY DEF MoneyTypes, transfer
<1>2. \A h \in Holders : tokens'[h] = IF h = to THEN tokens[to] + amount
                                      ELSE IF h = from THEN tokens[from] - amount ELSE tokens[h]
  BY <1>1
<1>3. DOMAIN tokens' = Holders
  BY <1>1
<1>4. \A h \in Holders : tokens'[h] \in Nat
  BY <1>1, <1>2 DEF MoneyTypes
<1>5. QED
  BY <1>1, <1>2, <1>3, <1>4

(* Every call of the subscription contract keeps the books, and takes no   *)
(* access away.                                                            *)
LEMMA SubscriptionStepKeeps ==
    ASSUME Money, SubscriptionStep
    PROVE  Money' /\ \A s \in Scouts : \A p : HasAccess(s, p) => HasAccess(s, p)'
<1>1. /\ SUBSCRIPTION \in Holders /\ FeeManager \in Holders /\ SUBSCRIPTION # FeeManager
      /\ \A s \in Scouts : s \in Holders /\ s # SUBSCRIPTION
  BY SubscriptionAssumption DEF Holders
<1>2. ASSUME UNCHANGED moneyVars, ledger' \in Nat \ {0}, expiresAt' \in [Scouts -> Nat], feeBps' \in Nat
      PROVE  Money'
  BY <1>2 DEF Money, MoneyTypes, FeeBalanceBacked, moneyVars
<1>3. ASSUME contactFee \subseteq contactFee', \A s \in Scouts : expiresAt'[s] = expiresAt[s] \/ expiresAt'[s] # 0
      PROVE  \A s \in Scouts : \A p : HasAccess(s, p) => HasAccess(s, p)'
  BY <1>3 DEF HasAccess, has_paid_contact, NeverSubscribed
<1>4. ASSUME NEW s \in Scouts, NEW fee \in Nat, CollectFee(s, fee)
      PROVE  tokens' \in [Holders -> Nat] /\ feeBalance' \in Nat /\ FeeBalanceBacked'
  <2>1. tokens' \in [Holders -> Nat] /\ tokens'[SUBSCRIPTION] = tokens[SUBSCRIPTION] + fee
    BY <1>1, <1>4, Transferred DEF CollectFee, Money
  <2>2. QED
    BY <1>4, <2>1 DEF CollectFee, Money, MoneyTypes, FeeBalanceBacked
<1>5. CASE CloseLedger
  BY <1>2, <1>3, <1>5 DEF CloseLedger, accountVars, Money, MoneyTypes
<1>6. ASSUME NEW a \in PauserHolders, pause_subscription(a) \/ unpause_subscription(a)
      PROVE  Money' /\ \A s \in Scouts : \A p : HasAccess(s, p) => HasAccess(s, p)'
  BY <1>2, <1>3, <1>6 DEF pause_subscription, unpause_subscription, subscriptionVars, accountVars,
     Money, MoneyTypes
<1>7. ASSUME NEW s \in Scouts, NEW t \in Tiers, NEW d \in DurationDays, subscribe(s, t, d)
      PROVE  Money' /\ \A k \in Scouts : \A p : HasAccess(k, p) => HasAccess(k, p)'
  <2> DEFINE fee == calculate_subscription_fee(t, d)
             until == ledger + d * LEDGERS_PER_DAY
  <2>1. d \in Nat /\ t \in Nat /\ BASE_FEE \in Nat /\ LEDGERS_PER_DAY \in Nat /\ ledger \in Nat \ {0}
    BY SubscriptionAssumption DEF Money, MoneyTypes
  <2>2. fee \in Nat /\ d * LEDGERS_PER_DAY \in Nat
    BY <2>1 DEF calculate_subscription_fee, PREMIUM_TIER_MULTIPLIER
  <2>3. until \in Nat \ {0}
    BY <2>1, <2>2
  <2>4. tokens' \in [Holders -> Nat] /\ feeBalance' \in Nat /\ FeeBalanceBacked'
    BY <1>4, <1>7, <2>2 DEF subscribe
  <2>5. expiresAt' = [expiresAt EXCEPT ![s] = until]
    BY <1>7 DEF subscribe
  <2>6. expiresAt' \in [Scouts -> Nat] /\ \A k \in Scouts : expiresAt'[k] = expiresAt[k] \/ expiresAt'[k] # 0
    <3> HIDE DEF until
    <3>1. QED
      BY <2>3, <2>5 DEF Money, MoneyTypes
  <2>7. QED
    BY <1>3, <1>7, <2>1, <2>4, <2>6 DEF subscribe, Money, MoneyTypes
<1>8. ASSUME NEW s \in Scouts, NEW p, pay_to_contact(s, p)
      PROVE  Money' /\ \A k \in Scouts : \A q : HasAccess(k, q) => HasAccess(k, q)'
  <2>1. calculate_contact_fee \in Int
    BY SubscriptionAssumption DEF calculate_contact_fee, BpsDenominator, Money, MoneyTypes
  <2>2. CASE calculate_contact_fee > 0
    <3>1. tokens' \in [Holders -> Nat] /\ feeBalance' \in Nat /\ FeeBalanceBacked'
      BY <1>4, <1>8, <2>1, <2>2 DEF pay_to_contact
    <3>2. QED
      BY <1>3, <1>8, <3>1 DEF pay_to_contact, Money, MoneyTypes
  <2>3. CASE ~ (calculate_contact_fee > 0)
    BY <1>2, <1>3, <1>8, <2>3 DEF pay_to_contact, Money, MoneyTypes
  <2>4. QED
    BY <2>2, <2>3
<1>9. ASSUME NEW n \in 1..feeBalance, withdraw_fees(FeeManager, n)
      PROVE  Money' /\ \A k \in Scouts : \A q : HasAccess(k, q) => HasAccess(k, q)'
  <2>1. n \in Nat /\ n <= feeBalance /\ feeBalance \in Nat
    BY DEF Money, MoneyTypes
  <2>2. tokens' \in [Holders -> Nat] /\ tokens'[SUBSCRIPTION] = tokens[SUBSCRIPTION] - n
    BY <1>1, <1>9, <2>1, Transferred DEF withdraw_fees, Money
  <2>3. QED
    BY <1>3, <1>9, <2>1, <2>2 DEF withdraw_fees, accountVars, Money, MoneyTypes, FeeBalanceBacked
<1>10. ASSUME NEW b \in FeeBpsChoices, set_platform_fee_bps(b)
       PROVE  Money' /\ \A k \in Scouts : \A q : HasAccess(k, q) => HasAccess(k, q)'
  BY <1>2, <1>3, <1>10, SubscriptionAssumption DEF set_platform_fee_bps, Money, MoneyTypes
<1>11. ASSUME NEW s \in Scouts, cancel_subscription(s)
       PROVE  Money' /\ \A k \in Scouts : \A q : HasAccess(k, q) => HasAccess(k, q)'
  BY <1>2, <1>3, <1>11 DEF cancel_subscription, Money, MoneyTypes
<1>12. QED
  BY <1>5, <1>6, <1>7, <1>8, <1>9, <1>10, <1>11 DEF SubscriptionStep

LEMMA MoneyKept ==
    ASSUME Money, [Next]_vars
    PROVE  Money' /\ \A s \in Scouts : \A p : HasAccess(s, p) => HasAccess(s, p)'
<1>1. CASE UNCHANGED subscriptionVars
  BY <1>1 DEF subscriptionVars, accountVars, moneyVars, Money, MoneyTypes, FeeBalanceBacked, HasAccess,
     has_paid_contact
<1>2. QED
  BY <1>1, SubscriptionStepKeeps DEF Next, vars, RegisterStep, ProgressStep, Approval, ConnectionStep,
     TrialOffer

LEMMA MoneyInvariant == Spec => []Money
<1>1. Init => Money
  BY SubscriptionAssumption DEF Init, SubscriptionInit, Money, MoneyTypes, FeeBalanceBacked, Holders,
     NeverSubscribed
<1>2. Money /\ [Next]_vars => Money'
  BY MoneyKept
<1>3. QED
  BY <1>1, <1>2, PTL DEF Spec

(* Whatever is paid, changed and withdrawn in whatever order, the balance  *)
(* that bounds a withdrawal (subscription/src/lib.rs, withdraw_fees) is    *)
(* what the contract's account holds.                                      *)
THEOREM FeesAreBacked == Spec => []FeeBalanceBacked
<1>1. Money => FeeBalanceBacked
  BY DEF Money
<1>2. QED
  BY <1>1, MoneyInvariant, PTL

-----------------------------------------------------------------------------
(* Connections and offers.                                                 *)
Contacts == connections \in [Scouts \X PlayerIds -> Status] /\ EveryContactPaidFor

LEMMA ContactsKept ==
    ASSUME Money, Contacts, [Next]_vars
    PROVE  Contacts'
<1>1. \A s \in Scouts : \A p : HasAccess(s, p) => HasAccess(s, p)'
  BY MoneyKept
<1>2. \A s \in Scouts : \A p : verify_scout_access(s, p) => HasAccess(s, p)
  BY DEF verify_scout_access, is_subscribed, HasAccess, NeverSubscribed, Money, MoneyTypes
<1>3. CASE UNCHANGED <<connections, trialOffers>>
  BY <1>1, <1>3 DEF Contacts, EveryContactPaidFor, HasAccess
<1>4. ASSUME NEW s \in Scouts, NEW p \in PlayerIds, create_connection(s, p)
      PROVE  Contacts'
  BY <1>1, <1>2, <1>4 DEF create_connection, offerVars, Contacts, EveryContactPaidFor, HasAccess, Status
<1>5. ASSUME NEW s \in Scouts, NEW p \in PlayerIds, close_connection(s, p)
      PROVE  Contacts'
  BY <1>1, <1>2, <1>5 DEF close_connection, offerVars, Contacts, EveryContactPaidFor, HasAccess, Status
<1>6. ASSUME NEW s \in Scouts, NEW p \in PlayerIds, log_trial_offer(s, p)
      PROVE  Contacts'
  BY <1>1, <1>2, <1>6 DEF log_trial_offer, linkVars, Contacts, EveryContactPaidFor, HasAccess
<1>7. CASE UNCHANGED connectionVars
  BY <1>3, <1>7 DEF connectionVars, linkVars, offerVars
<1>8. CASE \E a \in PauserHolders : pause_connection(a) \/ unpause_connection(a)
  BY <1>7, <1>8 DEF pause_connection, unpause_connection
<1>9. QED
  BY <1>4, <1>5, <1>6, <1>7, <1>8 DEF Next, vars, RegisterStep, ProgressStep, Approval,
     SubscriptionStep, ConnectionStep, TrialOffer

(* No scout has a connection or an offer that somebody else's payment      *)
(* opened (connection/src/lib.rs, verify_scout_access), however access     *)
(* expires, is cancelled and is bought again.                              *)
THEOREM ContactsArePaidFor == Spec => []EveryContactPaidFor
<1>1. Init => Contacts
  BY DEF Init, ConnectionInit, Contacts, EveryContactPaidFor, Status
<1>2. Money /\ Contacts /\ [Next]_vars => Contacts'
  BY ContactsKept
<1>3. Contacts => EveryContactPaidFor
  BY DEF Contacts
<1>4. QED
  BY <1>1, <1>2, <1>3, MoneyInvariant, PTL DEF Spec

-----------------------------------------------------------------------------
(* The profiles of the register contract.                                  *)
ProfileTypes ==
    /\ counter \in 0..MaxPlayers
    /\ persistentPlayer \in [PlayerIds -> PlayerData \cup {NoPlayer}]
    /\ instancePlayer \in [PlayerIds -> PlayerData \cup {NoPlayer}]
    /\ persistentWallet \in [Wallets -> Nat]
    /\ instanceWallet \in [Wallets -> Nat]
    /\ migrationCursor \in Nat \ {0}
    /\ playerDataMigrated \in BOOLEAN

(* Exactly the ids handed out have a profile.                              *)
IdsAreDense == \A id \in PlayerIds : get_player_data(id) # NoPlayer <=> id <= counter

(* What is left in instance storage lies between the cursor of the         *)
(* migration and the last id, and a wallet left there is the player's own. *)
Remains(id) == ~playerDataMigrated /\ id \in migrationCursor..counter
LeftoversAhead ==
    /\ \A id \in PlayerIds : instancePlayer[id] # NoPlayer => Remains(id)
    /\ \A w \in Wallets : instanceWallet[w] # 0 =>
          /\ Remains(instanceWallet[w])
          /\ get_player_data(instanceWallet[w]).wallet = w

Profiles == ProfileTypes /\ IdsAreDense /\ WalletsAndPlayersAgree /\ LeftoversAhead

(* What can be read.                                                       *)
LEMMA Readings ==
    ASSUME ProfileTypes
    PROVE  /\ \A id \in PlayerIds : get_player_data(id) \in PlayerData \cup {NoPlayer}
           /\ \A w \in Wallets : get_player_id(w) \in Nat
           /\ 1..counter \subseteq PlayerIds
           /\ \A player \in PlayerData : player # NoPlayer /\ player.wallet \in Wallets
  BY RegisterAssumption DEF ProfileTypes, get_player_data, get_player_id, PlayerIds, PlayerData

(* Profiles and their wallets are found where they were.                   *)
LEMMA SameReadings ==
    ASSUME Profiles, ProfileTypes', counter' = counter,
           \A id \in PlayerIds :
              /\ get_player_data(id)' # NoPlayer <=> get_player_data(id) # NoPlayer
              /\ get_player_data(id)'.wallet = get_player_data(id).wallet,
           \A w \in Wallets : get_player_id(w)' = get_player_id(w)
    PROVE  IdsAreDense' /\ WalletsAndPlayersAgree'
<1>1. IdsAreDense'
  BY DEF Profiles, IdsAreDense
<1>2. ASSUME NEW id \in 1..counter'
      PROVE  get_player_data(id)' # NoPlayer /\ get_player_id(get_player_data(id).wallet)' = id
  BY <1>2, Readings DEF Profiles, WalletsAndPlayersAgree
<1>3. ASSUME NEW w \in Wallets, wallet_is_registered(w)'
      PROVE  /\ get_player_id(w)' <= counter'
             /\ get_player_data(get_player_id(w))'.wallet = w
  <2>1. get_player_id(w)' = get_player_id(w) /\ get_player_id(w) # 0
    BY <1>3 DEF wallet_is_registered
  <2>2. get_player_id(w) <= counter /\ get_player_data(get_player_id(w)).wallet = w
    BY <2>1 DEF Profiles, WalletsAndPlayersAgree, wallet_is_registered
  <2>3. get_player_id(w) \in PlayerIds
    BY <2>1, <2>2, Readings DEF Profiles, ProfileTypes
  <2>4. PICK id \in PlayerIds : id = get_player_id(w)
    BY <2>3
  <2>5. get_player_id(w)' = id /\ id <= counter /\ get_player_data(id)'.wallet = w
    BY <2>1, <2>2, <2>4
  <2>6. QED
    BY <2>5 DEF get_player_data
<1>4. QED
  BY <1>1, <1>2, <1>3 DEF WalletsAndPlayersAgree

(* A profile is written anew (set_player_data): the instance copy goes.    *)
LEMMA Stored ==
    ASSUME Profiles, NEW id \in 1..counter, NEW player \in PlayerData,
           player.wallet = get_player_data(id).wallet, StorePlayer(id, player), UNCHANGED migrationVars
    PROVE  /\ Profiles'
           /\ get_player_data(id)' = player
           /\ \A k \in PlayerIds \ {id} : get_player_data(k)' = get_player_data(k)
<1>1. id \in PlayerIds /\ player # NoPlayer /\ get_player_data(id) # NoPlayer
  BY Readings DEF Profiles, IdsAreDense
<1>2. /\ get_player_data(id)' = player
      /\ \A k \in PlayerIds \ {id} : get_player_data(k)' = get_player_data(k)
      /\ \A w \in Wallets : get_player_id(w)' = get_player_id(w)
  BY <1>1 DEF StorePlayer, get_player_data, get_player_id, Profiles, ProfileTypes
<1>3. ProfileTypes'
  BY <1>1 DEF StorePlayer, Profiles, ProfileTypes, migrationVars
<1>4. counter' = counter
  BY DEF StorePlayer
<1>5. IdsAreDense' /\ WalletsAndPlayersAgree'
  BY <1>1, <1>2, <1>3, <1>4, SameReadings
<1>6. LeftoversAhead'
  <2>1. \A k \in PlayerIds : get_player_data(k)'.wallet = get_player_data(k).wallet
    BY <1>1, <1>2
  <2>2. \A k : Remains(k)' <=> Remains(k)
    BY <1>4 DEF Remains, migrationVars
  <2>3. \A k : Remains(k) => k \in PlayerIds
    BY Readings DEF Remains, Profiles, ProfileTypes, PlayerIds
  <2>4. \A k \in PlayerIds : instancePlayer'[k] # NoPlayer => Remains(k)'
    BY <2>2 DEF StorePlayer, Profiles, LeftoversAhead, ProfileTypes
  <2>5. ASSUME NEW w \in Wallets, instanceWallet'[w] # 0
        PROVE  Remains(instanceWallet[w])' /\ get_player_data(instanceWallet[w])'.wallet = w
    <3>1. PICK k \in PlayerIds : k = instanceWallet[w] /\ k = instanceWallet'[w]
      BY <2>3, <2>5 DEF StorePlayer, Profiles, LeftoversAhead
    <3>2. Remains(k)' /\ get_player_data(k)'.wallet = w
      BY <2>1, <2>2, <2>5, <3>1 DEF StorePlayer, Profiles, LeftoversAhead
    <3>3. QED
      BY <3>1, <3>2 DEF Remains, get_player_data
  <2>6. QED
    BY <2>4, <2>5 DEF LeftoversAhead
<1>7. QED
  BY <1>2, <1>3, <1>5, <1>6 DEF Profiles

(* A wallet that neither storage knows gets the next id.                   *)
LEMMA Registered ==
    ASSUME Profiles, NEW w \in Wallets, NEW uri \in Uris, register_player(w, uri)
    PROVE  /\ Profiles'
           /\ counter' = counter + 1 /\ counter' \in PlayerIds
           /\ get_player_data(counter)' = [wallet |-> w, uri |-> uri, level |-> 0]
           /\ \A id \in 1..counter : get_player_data(id)' = get_player_data(id)
<1> DEFINE new == [wallet |-> w, uri |-> uri, level |-> 0]
<1>1. PICK n \in PlayerIds : n = counter + 1 /\ n = counter'
  BY RegisterAssumption DEF register_player, Profiles, ProfileTypes, PlayerIds
<1>2. /\ counter \in Nat /\ new \in PlayerData /\ new # NoPlayer /\ n # 0
      /\ persistentWallet[w] = 0 /\ instanceWallet[w] = 0
      /\ \A id \in 1..counter : id \in PlayerIds /\ id # n
      /\ \A id \in PlayerIds : id <= n <=> id <= counter \/ id = n
  BY <1>1, RegisterAssumption DEF register_player, wallet_is_registered, get_player_id, Profiles,
     ProfileTypes, PlayerIds, PlayerData, Levels
<1>3. /\ persistentPlayer' = [persistentPlayer EXCEPT ![n] = new] /\ instancePlayer' = instancePlayer
      /\ persistentWallet' = [persistentWallet EXCEPT ![w] = n] /\ instanceWallet' = instanceWallet
      /\ UNCHANGED migrationVars
  BY <1>1 DEF register_player
<1> HIDE DEF new
<1>4. ProfileTypes'
  BY <1>1, <1>2, <1>3 DEF Profiles, ProfileTypes, PlayerIds, migrationVars
<1>5. /\ get_player_data(n)' = new
      /\ \A id \in PlayerIds \ {n} : get_player_data(id)' = get_player_data(id)
      /\ get_player_id(w)' = n
      /\ \A k \in Wallets \ {w} : get_player_id(k)' = get_player_id(k)
  BY <1>1, <1>2, <1>3 DEF get_player_data, get_player_id, Profiles, ProfileTypes
<1>6. IdsAreDense'
  BY <1>1, <1>2, <1>5 DEF Profiles, IdsAreDense
<1>7. new.wallet = w
  BY DEF new
<1>8. WalletsAndPlayersAgree'
  <2>1. ASSUME NEW id \in 1..counter'
        PROVE  get_player_data(id)' # NoPlayer /\ get_player_id(get_player_data(id).wallet)' = id
    <3>1. CASE id = n
      BY <1>2, <1>5, <1>7, <3>1 DEF get_player_id, get_player_data
    <3>2. CASE id # n
      <4>1. id \in 1..counter /\ id \in PlayerIds
        BY <1>1, <1>2, <2>1, <3>2
      <4>2. get_player_data(id) # NoPlayer /\ get_player_id(get_player_data(id).wallet) = id
        BY <4>1 DEF Profiles, WalletsAndPlayersAgree
      <4>3. PICK k \in Wallets : k = get_player_data(id).wallet
        BY <4>1, <4>2, Readings DEF Profiles
      <4>4. k # w
        BY <1>2, <4>1, <4>2, <4>3 DEF get_player_id
      <4>5. get_player_id(k)' = id /\ get_player_data(id)' = get_player_data(id)
        BY <1>5, <3>2, <4>1, <4>2, <4>3, <4>4
      <4>6. QED
        BY <4>2, <4>3, <4>5 DEF get_player_id
    <3>3. QED
      BY <3>1, <3>2
  <2>2. ASSUME NEW k \in Wallets, wallet_is_registered(k)'
        PROVE  get_player_id(k)' <= counter' /\ get_player_data(get_player_id(k))'.wallet = k
    <3>1. CASE k = w
      BY <1>1, <1>2, <1>5, <1>7, <3>1 DEF get_player_data
    <3>2. CASE k # w
      <4>1. get_player_id(k)' = get_player_id(k) /\ get_player_id(k) # 0
        BY <1>5, <2>2, <3>2 DEF wallet_is_registered
      <4>2. /\ get_player_id(k) <= counter /\ get_player_data(get_player_id(k)).wallet = k
            /\ get_player_id(k) \in Nat
        BY <4>1, Readings DEF Profiles, WalletsAndPlayersAgree, wallet_is_registered
      <4>3. PICK id \in 1..counter : id = get_player_id(k)
        BY <4>1, <4>2, <1>2
      <4>4. get_player_id(k)' = id /\ get_player_data(id)'.wallet = k /\ id <= counter'
        BY <1>1, <1>2, <1>5, <4>1, <4>2, <4>3
      <4>5. QED
        BY <4>4 DEF get_player_data
    <3>3. QED
      BY <3>1, <3>2
  <2>3. QED
    BY <2>1, <2>2 DEF WalletsAndPlayersAgree
<1>9. LeftoversAhead'
  <2>1. \A k : Remains(k) => Remains(k)' /\ k \in 1..counter
    BY <1>1, <1>2, <1>3 DEF Remains, migrationVars, Profiles, ProfileTypes
  <2>2. ASSUME NEW k \in Wallets, instanceWallet'[k] # 0
        PROVE  Remains(instanceWallet[k])' /\ get_player_data(instanceWallet[k])'.wallet = k
    <3>1. PICK id \in 1..counter : id = instanceWallet[k] /\ id = instanceWallet'[k]
      BY <1>3, <2>1, <2>2 DEF Profiles, LeftoversAhead
    <3>2. Remains(id)' /\ get_player_data(id)'.wallet = k
      BY <1>2, <1>3, <1>5, <2>1, <2>2, <3>1 DEF Profiles, LeftoversAhead
    <3>3. QED
      BY <3>1, <3>2 DEF Remains, get_player_data
  <2>3. QED
    BY <1>3, <2>1, <2>2 DEF LeftoversAhead, Profiles
<1>10. QED
  BY <1>1, <1>2, <1>4, <1>5, <1>6, <1>8, <1>9 DEF Profiles, get_player_data, new

(* One batch moves what is read, and what it does not move lies ahead.     *)
LEMMA Migrated ==
    ASSUME Profiles, NEW limit \in 1..MAX_PLAYER_MIGRATION_BATCH, migrate_players(limit)
    PROVE  /\ Profiles' /\ counter' = counter
           /\ \A id \in PlayerIds : get_player_data(id)' = get_player_data(id)
<1> DEFINE upto == Smaller(migrationCursor + limit - 1, counter)
           batch == InBatch(upto)
<1>1. /\ counter \in Nat /\ upto \in Int /\ upto <= counter /\ migrationCursor \in Nat \ {0}
      /\ counter' = counter /\ ~playerDataMigrated /\ MovePlayers(batch)
      /\ playerDataMigrated' = (upto = counter)
      /\ migrationCursor' = IF playerDataMigrated' THEN 1 ELSE upto + 1
  BY RegisterAssumption DEF migrate_players, Smaller, Profiles, ProfileTypes
<1>2. upto >= migrationCursor \/ upto = counter
  BY <1>1 DEF Smaller
<1> HIDE DEF upto
<1>3. \A id \in PlayerIds : id \in batch <=> id \in migrationCursor..upto
  BY <1>1 DEF InBatch, Profiles, IdsAreDense, PlayerIds
<1>4. /\ batch \subseteq 1..counter
      /\ \A id \in batch : id \in PlayerIds /\ get_player_data(id) \in PlayerData /\ id # 0
  BY <1>1, Readings, RegisterAssumption DEF InBatch, Profiles
<1> HIDE DEF batch
<1>5. ASSUME NEW id \in PlayerIds
      PROVE  get_player_data(id)' = get_player_data(id)
  <2>1. CASE id \in batch
    BY <1>1, <1>4, <2>1, Readings DEF MovePlayers, get_player_data, Profiles
  <2>2. CASE id \notin batch
    BY <1>1, <2>2 DEF MovePlayers, get_player_data
  <2>3. QED
    BY <2>1, <2>2
<1>6. ASSUME NEW w \in Wallets
      PROVE  get_player_id(w)' = get_player_id(w) /\ persistentWallet'[w] \in Nat
  <2>1. CASE OwnedIn(batch, w) # {}
    <3>1. PICK id \in OwnedIn(batch, w) : persistentWallet'[w] = id
      BY <1>1, <2>1 DEF MovePlayers
    <3>2. id \in 1..counter /\ get_player_data(id).wallet = w
      BY <1>4 DEF OwnedIn
    <3>3. get_player_id(w) = id /\ id # 0
      BY <3>2 DEF Profiles, WalletsAndPlayersAgree
    <3>4. QED
      BY <1>1, <3>1, <3>2, <3>3 DEF get_player_id
  <2>2. CASE OwnedIn(batch, w) = {}
    BY <1>1, <2>2 DEF MovePlayers, get_player_id, Profiles, ProfileTypes
  <2>3. QED
    BY <2>1, <2>2
<1>7. ProfileTypes'
  <2>1. \A id \in PlayerIds : persistentPlayer'[id] \in PlayerData \cup {NoPlayer}
    BY <1>1, <1>4 DEF MovePlayers, Profiles, ProfileTypes
  <2>2. \A id \in PlayerIds : instancePlayer'[id] \in PlayerData \cup {NoPlayer}
    BY <1>1 DEF MovePlayers, Profiles, ProfileTypes
  <2>3. \A w \in Wallets : persistentWallet'[w] \in Nat /\ instanceWallet'[w] \in Nat
    BY <1>1, <1>6 DEF MovePlayers, Profiles, ProfileTypes
  <2>4. /\ DOMAIN persistentPlayer' = PlayerIds /\ DOMAIN instancePlayer' = PlayerIds
        /\ DOMAIN persistentWallet' = Wallets /\ DOMAIN instanceWallet' = Wallets
        /\ persistentPlayer' = [id \in PlayerIds |-> persistentPlayer'[id]]
        /\ instancePlayer' = [id \in PlayerIds |-> instancePlayer'[id]]
        /\ persistentWallet' = [w \in Wallets |-> persistentWallet'[w]]
        /\ instanceWallet' = [w \in Wallets |-> instanceWallet'[w]]
    BY <1>1 DEF MovePlayers
  <2>5. migrationCursor' \in Nat \ {0} /\ playerDataMigrated' \in BOOLEAN /\ counter' \in 0..MaxPlayers
    BY <1>1, <1>2 DEF Profiles, ProfileTypes
  <2>6. QED
    BY <2>1, <2>2, <2>3, <2>4, <2>5 DEF ProfileTypes
<1>8. IdsAreDense' /\ WalletsAndPlayersAgree'
  BY <1>1, <1>5, <1>6, <1>7, SameReadings
<1>9. ASSUME NEW id \in PlayerIds, Remains(id), id \notin batch
      PROVE  Remains(id)'
  <2>1. id \in Int /\ migrationCursor <= id /\ id <= counter
    BY <1>1, <1>9 DEF Remains, PlayerIds
  <2>2. ~ (id <= upto)
    BY <1>1, <1>3, <1>9, <2>1
  <2>3. upto # counter /\ upto + 1 <= id
    BY <1>1, <2>1, <2>2
  <2>4. ~playerDataMigrated' /\ migrationCursor' = upto + 1
    BY <1>1, <2>3
  <2>5. QED
    BY <1>1, <2>1, <2>3, <2>4 DEF Remains
<1>10. LeftoversAhead'
  <2>1. \A id \in PlayerIds : instancePlayer'[id] # NoPlayer => Remains(id)'
    BY <1>1, <1>9 DEF MovePlayers, Profiles, LeftoversAhead
  <2>2. ASSUME NEW w \in Wallets, instanceWallet'[w] # 0
        PROVE  Remains(instanceWallet[w])' /\ get_player_data(instanceWallet[w])'.wallet = w
    <3>1. OwnedIn(batch, w) = {} /\ instanceWallet'[w] = instanceWallet[w]
      BY <1>1, <2>2 DEF MovePlayers
    <3>2. Remains(instanceWallet[w]) /\ get_player_data(instanceWallet[w]).wallet = w
      BY <2>2, <3>1 DEF Profiles, LeftoversAhead
    <3>3. PICK id \in PlayerIds : id = instanceWallet[w]
      BY <1>1, <3>2, Readings DEF Remains, Profiles
    <3>4. id \notin batch
      BY <3>1, <3>2, <3>3 DEF OwnedIn
    <3>5. Remains(id)' /\ get_player_data(id)'.wallet = w
      BY <1>5, <1>9, <3>2, <3>3, <3>4
    <3>6. QED
      BY <3>1, <3>3, <3>5 DEF Remains, get_player_data
  <2>3. QED
    BY <2>1, <2>2 DEF LeftoversAhead
<1>11. QED
  BY <1>1, <1>5, <1>7, <1>8, <1>10 DEF Profiles

(* The call of the two contracts that raise a level.                       *)
LEMMA Raised ==
    ASSUME Profiles, NEW invoker, NEW id \in PlayerIds, NEW level \in Levels,
           update_progress_level(invoker, id, level), UNCHANGED migrationVars
    PROVE  /\ Profiles' /\ counter' = counter
           /\ id \in 1..counter
           /\ get_player_data(id)'.level = IF level > get_player_data(id).level
                                           THEN level ELSE get_player_data(id).level
           /\ \A k \in PlayerIds \ {id} : get_player_data(k)' = get_player_data(k)
<1> DEFINE old == get_player_data(id)
           raised == [old EXCEPT !.level = IF level > @ THEN level ELSE @]
<1>1. old \in PlayerData /\ id \in 1..counter
  BY Readings DEF update_progress_level, Profiles, IdsAreDense, PlayerIds, ProfileTypes
<1>2. raised \in PlayerData /\ raised.wallet = old.wallet
      /\ raised.level = IF level > old.level THEN level ELSE old.level
  BY <1>1 DEF PlayerData, Levels
<1>3. StorePlayer(id, raised)
  BY DEF update_progress_level
<1> HIDE DEF raised, old
<1>4. Profiles' /\ get_player_data(id)' = raised /\ \A k \in PlayerIds \ {id} : get_player_data(k)' = get_player_data(k)
  BY <1>1, <1>2, <1>3, Stored DEF old
<1>5. counter' = counter
  BY <1>3 DEF StorePlayer
<1>6. QED
  BY <1>1, <1>2, <1>4, <1>5 DEF old

LEMMA NewLevels == \A t \in MilestoneTypes : new_level(t) \in Levels
  BY DEF new_level, Levels

-----------------------------------------------------------------------------
(* What one step does to the profiles, the milestones and the offers.      *)
(* The step leaves the register's records alone.                           *)
Untouched == UNCHANGED <<profileVars, migrationVars>>

LEMMA UntouchedKeeps ==
    ASSUME Profiles, Untouched
    PROVE  /\ Profiles' /\ counter' = counter
           /\ \A id : get_player_data(id)' = get_player_data(id)
<1>1. \A id : get_player_data(id)' = get_player_data(id) /\ (Remains(id)' <=> Remains(id))
  BY DEF Untouched, profileVars, migrationVars, get_player_data, Remains
<1>2. \A w : get_player_id(w)' = get_player_id(w)
  BY DEF Untouched, profileVars, get_player_id
<1>3. ProfileTypes' /\ counter' = counter
  BY DEF Untouched, profileVars, migrationVars, Profiles, ProfileTypes
<1>4. IdsAreDense' /\ WalletsAndPlayersAgree'
  BY <1>1, <1>2, <1>3, SameReadings DEF Profiles
<1>5. LeftoversAhead'
  BY DEF Untouched, profileVars, migrationVars, Profiles, LeftoversAhead, Remains, get_player_data
<1>6. QED
  BY <1>1, <1>3, <1>4, <1>5 DEF Profiles

LEMMA StepCases ==
    ASSUME [Next]_vars
    PROVE  \/ Untouched /\ UNCHANGED <<milestones, trialOffers>>
           \/ /\ \E v \in Validators, p \in PlayerIds, t \in MilestoneTypes : submit_milestone(v, p, t)
              /\ Untouched /\ UNCHANGED trialOffers
           \/ /\ \E w \in Wallets, u \in Uris : register_player(w, u)
              /\ UNCHANGED <<milestones, trialOffers>>
           \/ /\ \E id \in 1..counter, u \in Uris : update_profile(id, u)
              /\ UNCHANGED <<milestones, trialOffers>>
           \/ /\ \E limit \in 1..MAX_PLAYER_MIGRATION_BATCH : migrate_players(limit)
              /\ UNCHANGED <<milestones, trialOffers>>
           \/ /\ \E v \in Validators, m \in MilestoneIds : approve_milestone(v, m)
              /\ UNCHANGED trialOffers
           \/ /\ \E s \in Scouts, p \in PlayerIds : log_trial_offer(s, p)
              /\ UNCHANGED milestones
<1>1. CASE RegisterStep
  BY <1>1 DEF RegisterStep, pause_register, unpause_register, add_authorized_updater,
     remove_authorized_updater, registerVars, Untouched, progressVars, connectionVars, offerVars
<1>2. CASE ProgressStep
  BY <1>2 DEF ProgressStep, pause_progress, unpause_progress, register_validator, revoke_validator,
     registerVars, Untouched, progressVars, connectionVars, offerVars
<1>3. CASE Approval
  BY <1>3 DEF Approval, connectionVars, offerVars
<1>4. CASE SubscriptionStep
  BY <1>4 DEF SubscriptionStep, registerVars, Untouched, progressVars, connectionVars, offerVars
<1>5. CASE ConnectionStep
  BY <1>5 DEF ConnectionStep, pause_connection, unpause_connection, create_connection,
     close_connection, registerVars, Untouched, progressVars, connectionVars, offerVars
<1>6. CASE TrialOffer
  BY <1>6 DEF TrialOffer, progressVars
<1>7. CASE UNCHANGED vars
  BY <1>7 DEF vars, registerVars, Untouched, progressVars, connectionVars, offerVars
<1>8. QED
  BY <1>1, <1>2, <1>3, <1>4, <1>5, <1>6, <1>7 DEF Next

(* What an approval does: the milestone is marked, its player raised.      *)
LEMMA Approved ==
    ASSUME Profiles, milestones \in Seq(MilestoneData),
           NEW v, NEW m, approve_milestone(v, m)
    PROVE  /\ m \in 1..Len(milestones)
           /\ milestones' = [milestones EXCEPT ![m].approved = TRUE]
           /\ \E p \in PlayerIds, level \in Levels :
                 /\ p = milestones[m].player
                 /\ level = new_level(milestones[m].type)
                 /\ update_progress_level(PROGRESS, p, level)
                 /\ UNCHANGED migrationVars
<1>1. m \in 1..Len(milestones) /\ milestones[m] \in MilestoneData
  BY DEF approve_milestone, milestoneCounter
<1>2. milestones[m].player \in PlayerIds /\ milestones[m].type \in MilestoneTypes
  BY <1>1 DEF MilestoneData
<1>3. QED
  BY <1>1, <1>2, NewLevels DEF approve_milestone

LEMMA MilestonesKept ==
    ASSUME Profiles, milestones \in Seq(MilestoneData), [Next]_vars
    PROVE  milestones' \in Seq(MilestoneData)
<1>1. ASSUME NEW v \in Validators, NEW p \in PlayerIds, NEW t \in MilestoneTypes, submit_milestone(v, p, t)
      PROVE  milestones' \in Seq(MilestoneData)
  <2>1. [player |-> p, type |-> t, validator |-> v, approved |-> FALSE] \in MilestoneData
    BY DEF MilestoneData
  <2>2. QED
    BY <1>1, <2>1 DEF submit_milestone
<1>2. ASSUME NEW v, NEW m, approve_milestone(v, m)
      PROVE  milestones' \in Seq(MilestoneData)
  <2>1. m \in 1..Len(milestones) /\ milestones' = [milestones EXCEPT ![m].approved = TRUE]
    BY <1>2, Approved
  <2>2. milestones[m] \in MilestoneData
    BY <2>1
  <2>3. [milestones[m] EXCEPT !.approved = TRUE] \in MilestoneData
    BY <2>2 DEF MilestoneData
  <2>4. QED
    BY <2>1, <2>3
<1>3. CASE UNCHANGED milestones
  BY <1>3
<1>4. QED
  BY <1>1, <1>2, <1>3, StepCases DEF register_player, update_profile, migrate_players

(* The action ProfilesSurviveEveryStep is about.                           *)
Gains ==
    \A id \in 1..counter :
      /\ get_player_data(id)'.level >= get_player_data(id).level
      /\ (migrationVars' # migrationVars =>
            get_player_data(id)' = get_player_data(id))

Records == Profiles /\ milestones \in Seq(MilestoneData)

LEMMA RegisterKept ==
    ASSUME Records, [Next]_vars
    PROVE  Records' /\ Gains
<1>1. /\ 1..counter \subseteq PlayerIds
      /\ \A id \in 1..counter : get_player_data(id) \in PlayerData /\ get_player_data(id).level \in Int
  BY Readings DEF Records, Profiles, IdsAreDense, PlayerData, Levels
<1>2. ASSUME Untouched
      PROVE  Profiles' /\ Gains
  <2>1. UNCHANGED migrationVars /\ Profiles'
    BY <1>2, UntouchedKeeps DEF Untouched, Records
  <2>2. \A id : get_player_data(id)' = get_player_data(id)
    BY <1>2, UntouchedKeeps DEF Records
  <2>3. \A id \in 1..counter : get_player_data(id)'.level >= get_player_data(id).level
    BY <1>1, <2>2
  <2>4. QED
    BY <2>1, <2>2, <2>3 DEF Gains
<1>3. ASSUME NEW w \in Wallets, NEW u \in Uris, register_player(w, u)
      PROVE  Profiles' /\ Gains
  BY <1>1, <1>3, Registered DEF Records, Gains
<1>4. ASSUME NEW id \in 1..counter, NEW u \in Uris, update_profile(id, u)
      PROVE  Profiles' /\ Gains
  <2> DEFINE new == [get_player_data(id) EXCEPT !.uri = u]
  <2>1. new \in PlayerData /\ new.wallet = get_player_data(id).wallet /\ new.level = get_player_data(id).level
    BY <1>1 DEF PlayerData
  <2>2. StorePlayer(id, new) /\ UNCHANGED migrationVars
    BY <1>4 DEF update_profile
  <2> HIDE DEF new
  <2>3. QED
    BY <1>1, <2>1, <2>2, Stored DEF Records, Gains
<1>5. ASSUME NEW limit \in 1..MAX_PLAYER_MIGRATION_BATCH, migrate_players(limit)
      PROVE  Profiles' /\ Gains
  BY <1>1, <1>5, Migrated DEF Records, Gains
<1>6. ASSUME NEW invoker, NEW p \in PlayerIds, NEW level \in Levels,
             update_progress_level(invoker, p, level), UNCHANGED migrationVars
      PROVE  Profiles' /\ Gains
  BY <1>1, <1>6, Raised DEF Records, Gains, Levels
<1>7. ASSUME NEW v, NEW m, approve_milestone(v, m)
      PROVE  Profiles' /\ Gains
  BY <1>6, <1>7, Approved DEF Records
<1>8. ASSUME NEW s \in Scouts, NEW p \in PlayerIds, log_trial_offer(s, p)
      PROVE  Profiles' /\ Gains
  BY <1>6, <1>8 DEF log_trial_offer, Levels
<1>9. Profiles' /\ Gains
  BY <1>2, <1>3, <1>4, <1>5, <1>7, <1>8, StepCases
<1>10. QED
  BY <1>9, MilestonesKept DEF Records

LEMMA RecordsInvariant == Spec => []Records
<1>1. ASSUME Init
      PROVE  Records
  <2>1. /\ counter \in 0..MaxPlayers /\ PlayerIds = 1..MaxPlayers /\ MaxPlayers \in Nat
        /\ migrationCursor = 1 /\ playerDataMigrated \in BOOLEAN
    <3>1. MaxPlayers \in Nat /\ Len(LegacyPlayers) \in Nat /\ Len(LegacyPlayers) <= MaxPlayers
      BY RegisterAssumption
    <3>2. counter = 0 \/ counter = Len(LegacyPlayers)
      BY <1>1 DEF Init, RegisterInit
    <3>3. migrationCursor = 1 /\ playerDataMigrated \in BOOLEAN
      BY <1>1 DEF Init, RegisterInit
    <3>4. QED
      BY <3>1, <3>2, <3>3 DEF PlayerIds
  <2>2. \A id \in PlayerIds : get_player_data(id) = instancePlayer[id]
    BY <1>1 DEF Init, RegisterInit, get_player_data
  <2>3. \A w \in Wallets : persistentWallet[w] = 0 /\ get_player_id(w) = instanceWallet[w]
    BY <1>1 DEF Init, RegisterInit, get_player_id
  <2>4. CASE playerDataMigrated
    <3>1. /\ counter = 0 /\ instancePlayer = [id \in PlayerIds |-> NoPlayer]
          /\ instanceWallet = [w \in Wallets |-> 0]
      BY <1>1, <2>4 DEF Init, RegisterInit
    <3>2. ProfileTypes
      BY <1>1, <2>1, <3>1 DEF Init, RegisterInit, ProfileTypes
    <3>3. IdsAreDense /\ LeftoversAhead
      BY <2>1, <2>2, <3>1 DEF IdsAreDense, LeftoversAhead
    <3>4. WalletsAndPlayersAgree
      BY <2>3, <3>1 DEF WalletsAndPlayersAgree, wallet_is_registered
    <3>5. QED
      BY <1>1, <3>2, <3>3, <3>4 DEF Records, Profiles, Init, ProgressInit
  <2>5. CASE ~playerDataMigrated
    <3> DEFINE Owns(id, w) == LegacyPlayers[id].wallet = w
    <3>1. /\ counter = Len(LegacyPlayers)
          /\ instancePlayer = [id \in PlayerIds |-> IF id <= counter THEN LegacyPlayers[id] ELSE NoPlayer]
          /\ instanceWallet = [w \in Wallets |-> IF \E id \in 1..counter : Owns(id, w)
                                                 THEN CHOOSE id \in 1..counter : Owns(id, w) ELSE 0]
      BY <1>1, <2>5 DEF Init, RegisterInit
    <3>2. /\ \A id \in 1..counter : id \in PlayerIds /\ LegacyPlayers[id] \in PlayerData
          /\ \A id \in PlayerIds : id <= counter => id \in 1..counter
      BY <2>1, <3>1, RegisterAssumption
    <3>3. \A player \in PlayerData : player # NoPlayer /\ player.wallet \in Wallets
      BY RegisterAssumption DEF PlayerData
    <3>4. \A id \in 1..counter : get_player_data(id) = LegacyPlayers[id]
      BY <2>1, <2>2, <3>1, <3>2
    <3>5. \A i, j \in 1..counter : LegacyPlayers[i].wallet = LegacyPlayers[j].wallet => i = j
      BY <3>1, RegisterAssumption
    <3>6. \A id \in 1..counter, w \in Wallets : Owns(id, w) => instanceWallet[w] = id
      BY <3>1, <3>5
    <3>7. ASSUME NEW w \in Wallets
          PROVE  instanceWallet[w] # 0 => instanceWallet[w] \in 1..counter /\ Owns(instanceWallet[w], w)
      BY <3>1, <3>6
    <3>8. ProfileTypes
      <4>1. instancePlayer \in [PlayerIds -> PlayerData \cup {NoPlayer}]
        BY <3>1, <3>2
      <4>2. \A w \in Wallets : instanceWallet[w] \in Nat
        BY <3>7, <2>1
      <4>3. instanceWallet \in [Wallets -> Nat]
        BY <3>1, <4>2
      <4>4. QED
        BY <1>1, <2>1, <4>1, <4>3 DEF Init, RegisterInit, ProfileTypes
    <3>9. IdsAreDense
      BY <2>2, <3>1, <3>2, <3>3 DEF IdsAreDense
    <3>10. WalletsAndPlayersAgree
      <4>1. ASSUME NEW id \in 1..counter
            PROVE  get_player_data(id) # NoPlayer /\ get_player_id(get_player_data(id).wallet) = id
        BY <2>3, <3>2, <3>3, <3>4, <3>6
      <4>2. ASSUME NEW w \in Wallets, wallet_is_registered(w)
            PROVE  get_player_id(w) <= counter /\ get_player_data(get_player_id(w)).wallet = w
        BY <2>1, <2>3, <3>4, <3>7, <4>2 DEF wallet_is_registered
      <4>3. QED
        BY <4>1, <4>2 DEF WalletsAndPlayersAgree
    <3>11. LeftoversAhead
      <4>1. \A id \in 1..counter : Remains(id)
        BY <2>1, <2>5 DEF Remains
      <4>2. \A id \in PlayerIds : instancePlayer[id] # NoPlayer => id \in 1..counter
        BY <3>1, <3>2
      <4>3. \A w \in Wallets : instanceWallet[w] # 0 =>
               Remains(instanceWallet[w]) /\ get_player_data(instanceWallet[w]).wallet = w
        BY <3>4, <3>7, <4>1
      <4>4. QED
        BY <4>1, <4>2, <4>3 DEF LeftoversAhead
    <3>12. QED
      BY <1>1, <3>8, <3>9, <3>10, <3>11 DEF Records, Profiles, Init, ProgressInit
  <2>6. QED
    BY <2>4, <2>5
<1>2. Records /\ [Next]_vars => Records'
  BY RegisterKept
<1>3. QED
  BY <1>1, <1>2, PTL DEF Spec

(* One wallet, one player, in both storages together, for any old          *)
(* deployment and any mixture of batches, registrations and updates        *)
(* (register/src/lib.rs, get_player_id and migrate_players_as).            *)
THEOREM WalletsAndPlayersStayOne == Spec => []WalletsAndPlayersAgree
<1>1. Records => WalletsAndPlayersAgree
  BY DEF Records, Profiles
<1>2. QED
  BY <1>1, RecordsInvariant, PTL

(* A migration that reports completion has moved everything                *)
(* (register/src/lib.rs, migrate_players_as), whatever the batch sizes.    *)
THEOREM MigrationsFinish == Spec => []MigrationLeavesNothingBehind
<1>1. Records => MigrationLeavesNothingBehind
  BY DEF Records, Profiles, LeftoversAhead, Remains, MigrationLeavesNothingBehind
<1>2. QED
  BY <1>1, RecordsInvariant, PTL

(* No step of any of the four contracts lowers a level or lets a migration *)
(* change a profile (register/src/lib.rs, set_player_data).                *)
THEOREM ProfilesSurvive == Spec => ProfilesSurviveEveryStep
<1>1. Records /\ [Next]_vars => [Gains]_registerVars
  BY RegisterKept
<1>2. QED
  BY <1>1, RecordsInvariant, PTL DEF Spec, ProfilesSurviveEveryStep, Gains

-----------------------------------------------------------------------------
(* The levels, and the records of the other two contracts they rest on.    *)
Granted(p, level) ==
    \/ level = 0
    \/ \E m \in 1..Len(milestones) : /\ milestones[m].player = p
                                     /\ milestones[m].approved
                                     /\ new_level(milestones[m].type) = level
    \/ level = 3 /\ \E o \in trialOffers : o[2] = p

Higher(a, b) == IF b > a THEN b ELSE a

LEMMA Highest ==
    ASSUME NEW S \in SUBSET Levels, S # {}
    PROVE  Max(S) \in S /\ \A y \in S : y <= Max(S)
<1>1. \E x \in S : \A y \in S : x >= y
  <2>1. \A y \in S : y = 0 \/ y = 1 \/ y = 2 \/ y = 3
    BY DEF Levels
  <2>2. CASE 3 \in S
    BY <2>1, <2>2
  <2>3. CASE 3 \notin S /\ 2 \in S
    BY <2>1, <2>3
  <2>4. CASE 3 \notin S /\ 2 \notin S /\ 1 \in S
    BY <2>1, <2>4
  <2>5. CASE 3 \notin S /\ 2 \notin S /\ 1 \notin S
    BY <2>1, <2>5
  <2>6. QED
    BY <2>2, <2>3, <2>4, <2>5
<1>2. PICK x \in S : x = Max(S) /\ \A y \in S : x >= y
  BY <1>1 DEF Max
<1>3. QED
  BY <1>2 DEF Levels

LEMMA HighestOfTwo ==
    ASSUME NEW a \in Levels, NEW b \in Levels
    PROVE  Max({a, b}) = Higher(a, b)
<1>1. {a, b} \in SUBSET Levels /\ {a, b} # {}
  OBVIOUS
<1>2. Max({a, b}) \in {a, b} /\ \A y \in {a, b} : y <= Max({a, b})
  BY <1>1, Highest
<1>3. QED
  BY <1>2 DEF Levels, Higher

(* Earned is the highest level granted.                                    *)
MilestonesTyped == milestones \in Seq(MilestoneData)

EarnedIsHighest ==
    \A p : \E e \in Levels :
        /\ e = Earned(p)
        /\ Granted(p, e)
        /\ \A level : Granted(p, level) => level <= e

LEMMA EarnedNow == MilestonesTyped => EarnedIsHighest
<1> SUFFICES ASSUME MilestonesTyped, NEW p
             PROVE  \E e \in Levels : /\ e = Earned(p)
                                      /\ Granted(p, e)
                                      /\ \A level : Granted(p, level) => level <= e
  BY DEF EarnedIsHighest
<1> DEFINE S == {0} \cup {new_level(milestones[m].type) :
                            m \in {n \in 1..milestoneCounter :
                                     milestones[n].player = p /\ milestones[n].approved}}
                  \cup {3 : o \in {o \in trialOffers : o[2] = p}}
<1>1. \A level : level \in S <=> Granted(p, level)
  BY DEF Granted, milestoneCounter
<1>2. S \in SUBSET Levels
  <2>1. ASSUME NEW m \in 1..Len(milestones)
        PROVE  new_level(milestones[m].type) \in Levels
    <3>1. milestones[m] \in MilestoneData
      BY DEF MilestonesTyped
    <3>2. QED
      BY <3>1, NewLevels DEF MilestoneData
  <2>2. QED
    BY <1>1, <2>1 DEF Granted, Levels
<1>3. S # {}
  OBVIOUS
<1>4. Earned(p) = Max(S)
  BY DEF Earned
<1> HIDE DEF S
<1>5. Max(S) \in S /\ \A y \in S : y <= Max(S)
  BY <1>2, <1>3, Highest
<1>6. QED
  BY <1>1, <1>2, <1>4, <1>5

LEMMA EarnedNext == MilestonesTyped' => EarnedIsHighest'
  BY EarnedNow, PTL

(* A step that grants p a level raises what p has earned to it, and what   *)
(* it grants nobody stays.                                                 *)
LEMMA EarnedMoves ==
    ASSUME MilestonesTyped, MilestonesTyped', NEW p, NEW new \in Levels,
           \A level : Granted(p, level)' <=> Granted(p, level) \/ level = new
    PROVE  Earned(p)' = Higher(Earned(p), new)
<1>1. PICK e \in Levels : /\ e = Earned(p) /\ Granted(p, e)
                          /\ \A level : Granted(p, level) => level <= e
  BY EarnedNow DEF EarnedIsHighest
<1>2. PICK f \in Levels : /\ f = Earned(p)' /\ Granted(p, f)'
                          /\ \A level : Granted(p, level)' => level <= f
  BY EarnedNext DEF EarnedIsHighest
<1>3. e <= f /\ new <= f /\ (f <= e \/ f = new)
  BY <1>1, <1>2
<1>4. QED
  BY <1>1, <1>2, <1>3 DEF Higher, Levels

LEMMA EarnedStays ==
    ASSUME MilestonesTyped, MilestonesTyped', NEW p,
           \A level : Granted(p, level)' <=> Granted(p, level)
    PROVE  Earned(p)' = Earned(p) /\ Earned(p) \in Levels
<1>1. PICK e \in Levels : e = Earned(p) /\ Granted(p, e)
  BY EarnedNow DEF EarnedIsHighest
<1>2. \A level : Granted(p, level)' <=> Granted(p, level) \/ level = 0
  BY DEF Granted
<1>3. Earned(p)' = Higher(Earned(p), 0)
  BY <1>2, EarnedMoves DEF Levels
<1>4. QED
  BY <1>1, <1>3 DEF Higher, Levels

LEMMA LegacyLevels == \A p : LegacyLevel(p) \in Levels
<1>1. \A p \in DOMAIN LegacyPlayers : LegacyPlayers[p].level \in Levels
  <2>1. \A p \in DOMAIN LegacyPlayers : LegacyPlayers[p] \in PlayerData
    BY RegisterAssumption
  <2>2. QED
    BY <2>1 DEF PlayerData
<1>2. QED
  BY <1>1 DEF LegacyLevel, Levels

(* LevelIsEarned without Max.                                              *)
LEMMA LevelChoices ==
    ASSUME NEW p, NEW e \in Levels
    PROVE  Max({e, LegacyLevel(p)}) = Higher(e, LegacyLevel(p))
  BY HighestOfTwo, LegacyLevels

Justified(p) == \E e \in Levels :
    /\ e = Earned(p)
    /\ get_player_data(p).level = e \/ get_player_data(p).level = Higher(e, LegacyLevel(p))

Unearned(p) == \E e \in Levels : e = Earned(p) /\ e = 0

Ladder == /\ \A p \in 1..counter : Justified(p)
          /\ \A p \in PlayerIds : p > counter => Unearned(p)

LEMMA LadderIsLevelIsEarned == MilestonesTyped => (Ladder <=> LevelIsEarned)
<1> SUFFICES ASSUME MilestonesTyped
             PROVE  Ladder <=> LevelIsEarned
  OBVIOUS
<1>1. ASSUME NEW p
      PROVE  /\ Justified(p) <=> get_player_data(p).level \in {Earned(p), Max({Earned(p), LegacyLevel(p)})}
             /\ Unearned(p) <=> Earned(p) = 0
  <2>1. Earned(p) \in Levels
    BY EarnedNow DEF EarnedIsHighest
  <2>2. Max({Earned(p), LegacyLevel(p)}) = Higher(Earned(p), LegacyLevel(p))
    BY <2>1, LevelChoices
  <2>3. QED
    BY <2>1, <2>2 DEF Justified, Unearned
<1>2. QED
  BY <1>1 DEF Ladder, LevelIsEarned

(* Nobody is granted anything and nobody's level moves.                    *)
LEMMA LadderStays ==
    ASSUME MilestonesTyped, MilestonesTyped', NEW p,
           \A level : Granted(p, level)' <=> Granted(p, level)
    PROVE  /\ Unearned(p) => Unearned(p)'
           /\ Justified(p) /\ get_player_data(p)'.level = get_player_data(p).level => Justified(p)'
<1>1. Earned(p)' = Earned(p)
  BY EarnedStays
<1>2. QED
  BY <1>1 DEF Unearned, Justified

LEMMA LadderRises ==
    ASSUME MilestonesTyped, MilestonesTyped', NEW p, NEW new \in Levels,
           \A level : Granted(p, level)' <=> Granted(p, level) \/ level = new,
           get_player_data(p)'.level = Higher(get_player_data(p).level, new),
           Justified(p)
    PROVE  Justified(p)'
<1>1. PICK e \in Levels : /\ e = Earned(p)
                          /\ \/ get_player_data(p).level = e
                             \/ get_player_data(p).level = Higher(e, LegacyLevel(p))
  BY DEF Justified
<1>2. Earned(p)' = Higher(e, new) /\ Higher(e, new) \in Levels
  BY <1>1, EarnedMoves DEF Higher
<1>3. /\ Higher(Higher(e, LegacyLevel(p)), new) = Higher(Higher(e, new), LegacyLevel(p))
  BY LegacyLevels DEF Higher, Levels
<1>4. \/ get_player_data(p)'.level = Higher(e, new)
      \/ get_player_data(p)'.level = Higher(Higher(e, new), LegacyLevel(p))
  BY <1>1, <1>3
<1>5. QED
  BY <1>2, <1>4 DEF Justified

(* The records that grant a level and the level it raises move together.   *)
LEMMA LadderKept ==
    ASSUME Records, Ladder, [Next]_vars
    PROVE  Ladder'
<1>1. MilestonesTyped /\ MilestonesTyped' /\ Profiles /\ Profiles'
  BY RegisterKept DEF Records, MilestonesTyped
<1>2. 1..counter \subseteq PlayerIds /\ counter \in Nat
  BY <1>1, Readings DEF Profiles, ProfileTypes
<1>3. ASSUME counter' = counter,
             \A p \in PlayerIds : \A level : Granted(p, level)' <=> Granted(p, level),
             \A p \in 1..counter : get_player_data(p)'.level = get_player_data(p).level
      PROVE  Ladder'
  BY <1>1, <1>2, <1>3, LadderStays DEF Ladder
<1>4. ASSUME NEW id \in PlayerIds, NEW new \in Levels, NEW invoker,
             update_progress_level(invoker, id, new), UNCHANGED migrationVars,
             \A level : Granted(id, level)' <=> Granted(id, level) \/ level = new,
             \A p \in PlayerIds \ {id} : \A level : Granted(p, level)' <=> Granted(p, level)
      PROVE  Ladder'
  <2>1. /\ counter' = counter /\ id \in 1..counter
        /\ get_player_data(id)'.level = Higher(get_player_data(id).level, new)
        /\ \A p \in PlayerIds \ {id} : get_player_data(p)' = get_player_data(p)
    BY <1>1, <1>4, Raised DEF Higher
  <2>2. Justified(id)'
    BY <1>1, <1>4, <2>1, LadderRises DEF Ladder
  <2>3. \A p \in PlayerIds \ {id} : /\ Unearned(p) => Unearned(p)'
                                    /\ Justified(p) => Justified(p)'
    BY <1>1, <1>4, <2>1, LadderStays
  <2>4. \A p \in 1..counter : Justified(p)'
    BY <1>2, <2>2, <2>3 DEF Ladder
  <2>5. \A p \in PlayerIds : p > counter => Unearned(p)'
    <3>1. ~ (id > counter)
      BY <1>2, <2>1
    <3>2. QED
      BY <2>3, <3>1 DEF Ladder
  <2>6. QED
    BY <2>1, <2>4, <2>5 DEF Ladder
<1>5. ASSUME UNCHANGED <<milestones, trialOffers>>
      PROVE  \A p \in PlayerIds : \A level : Granted(p, level)' <=> Granted(p, level)
  BY <1>5 DEF Granted
<1>6. ASSUME Untouched, UNCHANGED <<milestones, trialOffers>>
      PROVE  Ladder'
  BY <1>1, <1>3, <1>5, <1>6, UntouchedKeeps
<1>7. ASSUME NEW v \in Validators, NEW p \in PlayerIds, NEW t \in MilestoneTypes,
             submit_milestone(v, p, t), Untouched, UNCHANGED trialOffers
      PROVE  Ladder'
  <2> DEFINE new == [player |-> p, type |-> t, validator |-> v, approved |-> FALSE]
  <2>1. milestones' = Append(milestones, new) /\ new.approved = FALSE
    BY <1>7 DEF submit_milestone
  <2> HIDE DEF new
  <2>2. /\ Len(milestones') = Len(milestones) + 1 /\ Len(milestones) \in Nat
        /\ \A m \in 1..Len(milestones) : milestones'[m] = milestones[m]
        /\ milestones'[Len(milestones) + 1] = new
    BY <1>1, <2>1 DEF MilestonesTyped
  <2>3. ASSUME NEW q, NEW level
        PROVE  Granted(q, level)' <=> Granted(q, level)
    <3>1. \A m \in 1..Len(milestones') :
              milestones'[m].approved => m \in 1..Len(milestones) /\ milestones'[m] = milestones[m]
      BY <2>1, <2>2
    <3>2. \A m \in 1..Len(milestones) : m \in 1..Len(milestones') /\ milestones'[m] = milestones[m]
      BY <2>2
    <3>3. trialOffers' = trialOffers
      BY <1>7
    <3>4. QED
      BY <3>1, <3>2, <3>3 DEF Granted
  <2>4. QED
    BY <1>1, <1>3, <1>7, <2>3, UntouchedKeeps
<1>8. ASSUME NEW w \in Wallets, NEW u \in Uris, register_player(w, u),
             UNCHANGED <<milestones, trialOffers>>
      PROVE  Ladder'
  <2>1. PICK n \in PlayerIds : n = counter' /\ n = counter + 1
    BY <1>1, <1>8, Registered
  <2>2. /\ get_player_data(n)'.level = 0
        /\ \A id \in 1..counter : get_player_data(id)' = get_player_data(id)
    <3>1. get_player_data(n)' = [wallet |-> w, uri |-> u, level |-> 0]
      BY <1>1, <1>8, <2>1, Registered DEF get_player_data
    <3>2. QED
      BY <1>1, <1>8, <3>1, Registered
  <2>3. \A p \in PlayerIds : Unearned(p) => Unearned(p)'
    BY <1>1, <1>5, <1>8, LadderStays
  <2>4. \A p \in 1..counter : Justified(p)'
    BY <1>1, <1>2, <1>5, <1>8, <2>2, LadderStays DEF Ladder
  <2>5. Justified(n)'
    BY <1>2, <2>1, <2>2, <2>3 DEF Ladder, Unearned, Justified
  <2>6. QED
    BY <1>2, <2>1, <2>3, <2>4, <2>5 DEF Ladder, PlayerIds
<1>9. ASSUME NEW id \in 1..counter, NEW u \in Uris, update_profile(id, u),
             UNCHANGED <<milestones, trialOffers>>
      PROVE  Ladder'
  <2> DEFINE new == [get_player_data(id) EXCEPT !.uri = u]
  <2>1. get_player_data(id) \in PlayerData
    BY <1>1, <1>2, Readings DEF Profiles, IdsAreDense
  <2>2. new \in PlayerData /\ new.wallet = get_player_data(id).wallet /\ new.level = get_player_data(id).level
    BY <2>1 DEF PlayerData
  <2>3. StorePlayer(id, new) /\ UNCHANGED migrationVars /\ counter' = counter
    BY <1>9 DEF update_profile, StorePlayer
  <2> HIDE DEF new
  <2>4. \A p \in 1..counter : get_player_data(p)'.level = get_player_data(p).level
    BY <1>1, <1>2, <2>2, <2>3, Stored
  <2>5. QED
    BY <1>3, <1>5, <1>9, <2>3, <2>4
<1>10. ASSUME NEW limit \in 1..MAX_PLAYER_MIGRATION_BATCH, migrate_players(limit),
              UNCHANGED <<milestones, trialOffers>>
       PROVE  Ladder'
  BY <1>1, <1>2, <1>3, <1>5, <1>10, Migrated
<1>11. ASSUME NEW v, NEW m, approve_milestone(v, m), UNCHANGED trialOffers
       PROVE  Ladder'
  <2>1. /\ m \in 1..Len(milestones)
        /\ milestones' = [milestones EXCEPT ![m].approved = TRUE]
    BY <1>1, <1>11, Approved DEF MilestonesTyped
  <2>2. PICK id \in PlayerIds, new \in Levels :
           /\ id = milestones[m].player /\ new = new_level(milestones[m].type)
           /\ update_progress_level(PROGRESS, id, new) /\ UNCHANGED migrationVars
    BY <1>1, <1>11, Approved DEF MilestonesTyped
  <2>3. /\ Len(milestones') = Len(milestones)
        /\ \A n \in 1..Len(milestones) :
              /\ milestones'[n].player = milestones[n].player
              /\ milestones'[n].type = milestones[n].type
              /\ milestones'[n].approved <=> milestones[n].approved \/ n = m
    <3>1. \A n \in 1..Len(milestones) : milestones[n] \in MilestoneData
      BY <1>1 DEF MilestonesTyped
    <3>2. QED
      BY <1>1, <2>1, <3>1 DEF MilestonesTyped, MilestoneData
  <2>4. \A level : Granted(id, level)' <=> Granted(id, level) \/ level = new
    BY <1>11, <2>1, <2>2, <2>3 DEF Granted
  <2>5. \A p \in PlayerIds \ {id} : \A level : Granted(p, level)' <=> Granted(p, level)
    BY <1>11, <2>1, <2>2, <2>3 DEF Granted
  <2>6. QED
    BY <1>4, <2>2, <2>4, <2>5
<1>12. ASSUME NEW s \in Scouts, NEW id \in PlayerIds, log_trial_offer(s, id), UNCHANGED milestones
       PROVE  Ladder'
  <2>1. \A level : Granted(id, level)' <=> Granted(id, level) \/ level = 3
    BY <1>12 DEF log_trial_offer, Granted
  <2>2. \A p \in PlayerIds \ {id} : \A level : Granted(p, level)' <=> Granted(p, level)
    BY <1>12 DEF log_trial_offer, Granted
  <2>3. QED
    BY <1>4, <1>12, <2>1, <2>2 DEF log_trial_offer, Levels
<1>13. QED
  BY <1>6, <1>7, <1>8, <1>9, <1>10, <1>11, <1>12, StepCases

(* A level is what approved milestones and offers have earned, or what an  *)
(* old deployment brought, and never stays behind them: the approval       *)
(* (progress/src/lib.rs, approve_milestone), the offer (connection/src/    *)
(* lib.rs, log_trial_offer) and the level stand or fall together.          *)
THEOREM LevelsAreEarned == Spec => []LevelIsEarned
<1>1. ASSUME Init, Records
      PROVE  Ladder
  <2>1. MilestonesTyped /\ milestones = <<>> /\ trialOffers = {}
    BY <1>1 DEF Init, ProgressInit, ConnectionInit, MilestonesTyped
  <2>2. \A p : \A level : Granted(p, level) <=> level = 0
    BY <2>1 DEF Granted
  <2>3. \A p : Unearned(p)
    BY <2>1, <2>2, EarnedNow DEF EarnedIsHighest, Unearned
  <2>4. ASSUME NEW p \in 1..counter
        PROVE  get_player_data(p).level = LegacyLevel(p)
    <3>1. counter = Len(LegacyPlayers)
      BY <1>1, <2>4, RegisterAssumption DEF Init, RegisterInit
    <3>2. p \in PlayerIds /\ p \in DOMAIN LegacyPlayers
      BY <1>1, <2>4, <3>1, Readings, RegisterAssumption DEF Records, Profiles
    <3>3. instancePlayer[p] = LegacyPlayers[p] /\ persistentPlayer[p] = NoPlayer
      BY <1>1, <2>4, <3>1, <3>2, RegisterAssumption DEF Init, RegisterInit
    <3>4. QED
      BY <3>2, <3>3 DEF get_player_data, LegacyLevel
  <2>5. \A p \in 1..counter : Justified(p)
    BY <2>3, <2>4, LegacyLevels DEF Unearned, Justified, Higher, Levels
  <2>6. QED
    BY <2>3, <2>5 DEF Ladder
<1>2. Records /\ Ladder /\ [Next]_vars => Ladder'
  BY LadderKept
<1>3. Records /\ Ladder => LevelIsEarned
  BY LadderIsLevelIsEarned DEF Records, MilestonesTyped
<1>4. QED
  BY <1>1, <1>2, <1>3, RecordsInvariant, PTL DEF Spec

-----------------------------------------------------------------------------
(* Reading a list page by page.  A page is a piece of the list that begins *)
(* where it is asked for, and the next one begins behind it.               *)
LEMMA PageStep ==
    ASSUME NEW T, NEW list \in Seq(T), NEW limit \in Nat \ {0},
           NEW start \in 0..Len(list)
    PROVE  LET page == Page(list, start, limit)
           IN  /\ page.next \in {NoNext} \cup (start + 1)..(Len(list) - 1)
               /\ page.items \in Seq(T)
               /\ page.next = NoNext => page.items = SubSeq(list, start + 1, Len(list))
               /\ page.next # NoNext =>
                     page.items = SubSeq(list, start + 1, page.next)
<1> DEFINE total == Len(list)
           size == Smaller(limit, MAX_PAGE_SIZE)
           end == Smaller(start + size, total)
           page == Page(list, start, limit)
<1>1. total \in Nat /\ size \in Nat \ {0} /\ MAX_PAGE_SIZE \in Nat \ {0}
  BY PlatformAssumption, LenProperties DEF Smaller
<1> HIDE DEF size
<1>2. CASE start >= total
  <2>1. start = total
    BY <1>1, <1>2
  <2>2. page.items = <<>> /\ page.next = NoNext
    BY <1>2 DEF Page
  <2>3. SubSeq(list, start + 1, total) = <<>>
    BY <1>1, <2>1, SubSeqEmpty
  <2>4. page.items \in Seq(T)
    BY <2>2, EmptySeq
  <2>5. page.items = SubSeq(list, start + 1, total)
    BY <2>1, <2>2, <2>3
  <2> HIDE DEF page
  <2>6. QED
    BY <2>2, <2>4, <2>5 DEF page
<1>3. CASE start < total
  <2>1. /\ page.items = SubSeq(list, start + 1, end)
        /\ page.next = IF end < total THEN end ELSE NoNext
    <3>1. ~(start >= total)
      BY <1>1, <1>3
    <3>2. page = [items |-> SubSeq(list, start + 1, end),
                  next  |-> IF end < total THEN end ELSE NoNext]
      BY <3>1, Zenon DEF Page, size
    <3> HIDE DEF page, end, total
    <3>3. QED
      BY <3>2
  <2>2. end \in (start + 1)..total
    BY <1>1, <1>3 DEF Smaller
  <2> HIDE DEF end, page
  <2>3. SubSeq(list, start + 1, end) \in Seq(T)
    <3>1. \A i \in (start + 1)..end : list[i] \in T
      BY <1>1, <2>2, ElementOfSeq
    <3>2. QED
      BY <1>1, <2>2, <3>1, SubSeqProperties
  <2>4. CASE end < total
    BY <1>1, <2>1, <2>2, <2>3, <2>4 DEF NoNext, page
  <2>5. CASE end = total
    BY <1>1, <2>1, <2>2, <2>3, <2>5 DEF NoNext, page
  <2>6. QED
    BY <1>1, <2>2, <2>4, <2>5
<1>4. QED
  BY <1>1, <1>2, <1>3

(* Whatever comes after a page, if it is the rest of the list, completes   *)
(* it.                                                                     *)
LEMMA PageCompletes ==
    ASSUME NEW T, NEW list \in Seq(T), NEW limit \in Nat \ {0},
           NEW start \in 0..Len(list), NEW rest,
           LET next == Page(list, start, limit).next
           IN  rest = IF next = NoNext THEN <<>> ELSE SubSeq(list, next + 1, Len(list))
    PROVE  Page(list, start, limit).items \o rest = SubSeq(list, start + 1, Len(list))
<1> DEFINE page == Page(list, start, limit)
<1>1. /\ page.next \in {NoNext} \cup (start + 1)..(Len(list) - 1)
      /\ page.items \in Seq(T)
      /\ page.next = NoNext => page.items = SubSeq(list, start + 1, Len(list))
      /\ page.next # NoNext => page.items = SubSeq(list, start + 1, page.next)
  BY PageStep
<1>2. rest = IF page.next = NoNext THEN <<>> ELSE SubSeq(list, page.next + 1, Len(list))
  OBVIOUS
<1>3. Len(list) \in Nat
  BY LenProperties
<1> SUFFICES page.items \o rest = SubSeq(list, start + 1, Len(list))
  OBVIOUS
<1> HIDE DEF page
<1>4. CASE page.next = NoNext
  BY <1>1, <1>2, <1>4, ConcatEmptySeq
<1>5. CASE page.next # NoNext
  <2>1. page.next \in (start + 1)..(Len(list) - 1)
    BY <1>1, <1>5
  <2>2. SubSeq(list, start + 1, page.next) \o SubSeq(list, page.next + 1, Len(list))
          = SubSeq(list, start + 1, Len(list))
    <3>1. /\ start + 1 \in 1..(Len(list) + 1)
          /\ page.next \in ((start + 1) - 1)..Len(list)
          /\ Len(list) \in page.next..Len(list)
      BY <1>3, <2>1
    <3>2. QED
      BY <3>1, ConcatAdjacentSubSeq
  <2>3. QED
    BY <1>1, <1>2, <1>5, <2>2
<1>6. QED
  BY <1>4, <1>5

(* Of counterexamples there would be a first.                              *)
LEMMA FirstOf ==
    ASSUME NEW S, S \subseteq Nat, S # {}
    PROVE  \E i \in S : \A j \in S : i <= j
<1>1. PICK i \in S : \A j \in S : <<j, i>> \notin OpToRel(<, Nat)
  BY NatLessThanWellFounded, WFMin
<1>2. \A j \in S : ~(j < i)
  BY <1>1 DEF OpToRel
<1>3. QED
  BY <1>2

(* Following next from the first page reads the list, for every limit.     *)
LEMMA AllPagesAreTheList ==
    ASSUME NEW T, NEW list \in Seq(T), NEW limit \in Nat \ {0}
    PROVE  ReadAllPages(list, limit) = list
<1> DEFINE n == Len(list)
           next(start) == Page(list, start, limit).next
           items(start) == Page(list, start, limit).items
           Walks(g) == g = [start \in -1..n |->
                              IF start = NoNext THEN <<>> ELSE items(start) \o g[next(start)]]
           rest(start) == SubSeq(list, start + 1, n)
<1>1. n \in Nat
  BY LenProperties
<1>2. \A start \in 0..n : next(start) \in {NoNext} \cup (start + 1)..(n - 1)
  BY PageStep
<1>3. \A start \in 0..n : \A r :
        r = (IF next(start) = NoNext THEN <<>> ELSE rest(next(start)))
          => items(start) \o r = rest(start)
  BY PageCompletes
<1> HIDE DEF n, next, items, rest
<1>4. \E g : Walks(g)
  <2> DEFINE f == [start \in -1..n |-> IF start = NoNext THEN <<>> ELSE rest(start)]
  <2>1. /\ f = [start \in -1..n |-> f[start]] /\ f[NoNext] = <<>>
        /\ \A start \in 0..n : f[start] = rest(start) /\ start # NoNext
    BY <1>1 DEF NoNext
  <2> HIDE DEF f
  <2>2. \A start \in -1..n : start = NoNext \/ start \in 0..n
    BY <1>1 DEF NoNext
  <2>3. ASSUME NEW start \in 0..n
        PROVE  items(start) \o f[next(start)] = rest(start)
    <3>1. f[next(start)] = IF next(start) = NoNext THEN <<>> ELSE rest(next(start))
      <4>1. next(start) = NoNext \/ next(start) \in 0..n
        BY <1>1, <1>2
      <4>2. QED
        BY <2>1, <4>1
    <3>2. QED
      BY <1>3, <3>1
  <2> DEFINE w(start) == IF start = NoNext THEN <<>> ELSE items(start) \o f[next(start)]
  <2>4. \A start \in -1..n : w(start) = f[start]
    BY <2>1, <2>2, <2>3
  <2> HIDE DEF w
  <2>5. f = [start \in -1..n |-> w(start)]
    BY <2>1, <2>4
  <2>6. Walks(f)
    BY <2>5 DEF w
  <2>7. QED
    BY <2>6
<1> DEFINE walk == CHOOSE g : Walks(g)
<1>5. Walks(walk)
  BY <1>4
<1>6. ReadAllPages(list, limit) = walk[0]
  BY DEF ReadAllPages, n, next, items
<1> HIDE DEF walk
<1>7. /\ walk[NoNext] = <<>>
      /\ \A start \in 0..n : walk[start] = items(start) \o walk[next(start)]
  <2>1. NoNext \in -1..n /\ \A start \in 0..n : start \in -1..n /\ start # NoNext
    BY <1>1 DEF NoNext
  <2>2. QED
    BY <1>5, <2>1
<1>8. \A start \in 0..n : walk[start] = rest(start)
  <2> DEFINE Wrong == {start \in 0..n : walk[start] # rest(start)}
             Left == {n - start : start \in Wrong}
  <2>1. SUFFICES ASSUME Wrong # {} PROVE FALSE
    OBVIOUS
  <2>2. Left \subseteq Nat /\ Left # {}
    BY <1>1, <2>1
  <2>3. PICK k \in Left : \A j \in Left : k <= j
    <3> HIDE DEF Left
    <3>1. QED
      BY <2>2, FirstOf
  <2>4. PICK start \in Wrong : k = n - start
    BY <2>3
  <2>5. start \in 0..n
    BY <2>4
  <2>6. next(start) = NoNext \/ walk[next(start)] = rest(next(start))
    <3>1. SUFFICES ASSUME next(start) # NoNext PROVE walk[next(start)] = rest(next(start))
      OBVIOUS
    <3>2. next(start) \in (start + 1)..(n - 1) /\ next(start) \in 0..n
      BY <1>1, <1>2, <2>5, <3>1
    <3>3. n - next(start) < k
      BY <1>1, <2>4, <2>5, <3>2
    <3>4. n - next(start) \notin Left
      <4> HIDE DEF Left
      <4>1. k \in Int /\ n - next(start) \in Int
        BY <1>1, <2>4, <2>5, <3>2
      <4>2. QED
        BY <2>3, <3>3, <4>1
    <3>5. QED
      BY <3>2, <3>4
  <2>7. walk[next(start)] = IF next(start) = NoNext THEN <<>> ELSE rest(next(start))
    BY <1>7, <2>6
  <2>8. walk[start] = rest(start)
    BY <1>3, <1>7, <2>5, <2>7
  <2>9. QED
    BY <2>4, <2>8
<1>9. walk[0] = rest(0)
  BY <1>1, <1>8
<1>10. rest(0) = list
  BY SubSeqFull DEF rest, n
<1>11. QED
  BY <1>6, <1>9, <1>10

-----------------------------------------------------------------------------
(* What the lists hold: every recorded pair, once.                         *)
HoldsOnce(list, recorded) == IsInjective(list) /\ ToSet(list) = recorded

ListTypes ==
    /\ connections \in [Scouts \X PlayerIds -> Status]
    /\ trialOffers \subseteq Scouts \X PlayerIds
    /\ scoutConnections \in [Scouts -> Seq(PlayerIds)]
    /\ scoutOffers \in [Scouts -> Seq(PlayerIds)]
    /\ playerConnections \in [PlayerIds -> Seq(Scouts)]

Connected(s) == {p \in PlayerIds : connections[<<s, p>>] # "none"}
OfferedBy(s) == {p \in PlayerIds : <<s, p>> \in trialOffers}
OfferedTo(p) == {s \in Scouts : <<s, p>> \in trialOffers}

Lists ==
    /\ ListTypes
    /\ \A s \in Scouts : HoldsOnce(scoutConnections[s], Connected(s))
    /\ \A s \in Scouts : HoldsOnce(scoutOffers[s], OfferedBy(s))
    /\ \A p \in PlayerIds : HoldsOnce(playerConnections[p], OfferedTo(p))

LEMMA ListedOnceMore ==
    ASSUME NEW T, NEW list \in Seq(T), NEW e \in T, NEW recorded, HoldsOnce(list, recorded),
           e \notin recorded
    PROVE  HoldsOnce(Append(list, e), recorded \cup {e}) /\ Append(list, e) \in Seq(T)
<1> DEFINE longer == Append(list, e)
           n == Len(list)
<1>1. n \in Nat /\ DOMAIN list = 1..n
  BY LenProperties
<1>2. /\ longer \in Seq(T) /\ DOMAIN longer = 1..(n + 1)
      /\ \A i \in 1..n : longer[i] = list[i]
      /\ longer[n + 1] = e
  BY AppendProperties, LenProperties
<1> HIDE DEF longer, n
<1>3. \A i \in 1..n : list[i] # e
  BY <1>1 DEF HoldsOnce, ToSet
<1>4. IsInjective(longer)
  <2>1. \A i, j \in 1..n : list[i] = list[j] => i = j
    BY <1>1 DEF HoldsOnce, IsInjective
  <2>2. ASSUME NEW i \in 1..(n + 1), NEW j \in 1..(n + 1), longer[i] = longer[j]
        PROVE  i = j
    BY <1>1, <1>2, <1>3, <2>1, <2>2
  <2>3. QED
    BY <1>2, <2>2 DEF IsInjective
<1>5. ToSet(longer) = recorded \cup {e}
  <2>1. recorded = {list[i] : i \in 1..n}
    BY <1>1 DEF HoldsOnce, ToSet
  <2>2. ToSet(longer) = {longer[i] : i \in 1..(n + 1)}
    BY <1>2 DEF ToSet
  <2>3. \A x : (\E i \in 1..(n + 1) : x = longer[i]) <=> (\E i \in 1..n : x = list[i]) \/ x = e
    BY <1>1, <1>2
  <2>4. QED
    BY <2>1, <2>2, <2>3
<1>6. QED
  BY <1>2, <1>4, <1>5 DEF HoldsOnce, longer

LEMMA ListedContains ==
    ASSUME NEW T, NEW list \in Seq(T), NEW recorded, HoldsOnce(list, recorded), NEW e
    PROVE  Contains(list, e) <=> e \in recorded
<1>1. DOMAIN list = 1..Len(list)
  BY LenProperties
<1>2. QED
  BY <1>1 DEF HoldsOnce, ToSet, Contains

(* An opening lists the player unless it is a reopening; an offer is new   *)
(* and is listed under both parties.                                       *)
LEMMA ListsKept ==
    ASSUME Lists, [Next]_vars
    PROVE  Lists'
<1>1. CASE UNCHANGED connectionVars
  BY <1>1 DEF connectionVars, linkVars, offerVars, Lists, ListTypes, Connected, OfferedBy, OfferedTo
<1>2. ASSUME NEW s \in Scouts, NEW p \in PlayerIds, create_connection(s, p)
      PROVE  Lists'
  <2> DEFINE list == scoutConnections[s]
             longer == IF Contains(list, p) THEN list ELSE Append(list, p)
  <2>1. /\ UNCHANGED <<trialOffers, scoutOffers, playerConnections>>
        /\ connections' = [connections EXCEPT ![<<s, p>>] = "Active"]
        /\ scoutConnections' = [scoutConnections EXCEPT ![s] = longer]
    BY <1>2 DEF create_connection, offerVars
  <2>2. list \in Seq(PlayerIds) /\ HoldsOnce(list, Connected(s))
    BY DEF Lists, ListTypes
  <2>3. longer \in Seq(PlayerIds) /\ HoldsOnce(longer, Connected(s) \cup {p})
    <3>1. CASE Contains(list, p)
      <4>1. Connected(s) \cup {p} = Connected(s)
        BY <2>2, <3>1, ListedContains
      <4>2. QED
        BY <2>2, <3>1, <4>1
    <3>2. CASE ~Contains(list, p)
      <4>1. p \notin Connected(s)
        BY <2>2, <3>2, ListedContains
      <4>2. QED
        BY <2>2, <3>2, <4>1, ListedOnceMore
    <3>3. QED
      BY <3>1, <3>2
  <2> HIDE DEF longer, list
  <2>4. ListTypes'
    BY <2>1, <2>3 DEF Lists, ListTypes, Status
  <2>5. \A t \in Scouts : Connected(t)' = IF t = s THEN Connected(s) \cup {p} ELSE Connected(t)
    BY <2>1 DEF Lists, ListTypes, Connected
  <2>6. \A t \in Scouts : HoldsOnce(scoutConnections'[t], Connected(t)')
    <3>1. \A t \in Scouts : scoutConnections'[t] = IF t = s THEN longer ELSE scoutConnections[t]
      BY <2>1 DEF Lists, ListTypes
    <3>2. QED
      BY <2>3, <2>5, <3>1 DEF Lists
  <2>7. QED
    BY <2>1, <2>4, <2>6 DEF Lists, HoldsOnce, OfferedBy, OfferedTo
<1>3. ASSUME NEW s \in Scouts, NEW p \in PlayerIds, close_connection(s, p)
      PROVE  Lists'
  <2>1. /\ UNCHANGED <<scoutConnections, trialOffers, scoutOffers, playerConnections>>
        /\ connections[<<s, p>>] = "Active"
        /\ connections' = [connections EXCEPT ![<<s, p>>] = "Closed"]
    BY <1>3 DEF close_connection, offerVars
  <2>2. ListTypes'
    BY <2>1 DEF Lists, ListTypes, Status
  <2>3. \A t \in Scouts : Connected(t)' = Connected(t)
    BY <2>1 DEF Lists, ListTypes, Connected
  <2>4. QED
    BY <2>1, <2>2, <2>3 DEF Lists, HoldsOnce, OfferedBy, OfferedTo
<1>4. ASSUME NEW s \in Scouts, NEW p \in PlayerIds, log_trial_offer(s, p)
      PROVE  Lists'
  <2>1. /\ UNCHANGED <<connections, scoutConnections>>
        /\ <<s, p>> \notin trialOffers
        /\ trialOffers' = trialOffers \cup {<<s, p>>}
        /\ scoutOffers' = [scoutOffers EXCEPT ![s] = Append(@, p)]
        /\ playerConnections' = [playerConnections EXCEPT ![p] = Append(@, s)]
    BY <1>4 DEF log_trial_offer, linkVars
  <2>2. /\ HoldsOnce(Append(scoutOffers[s], p), OfferedBy(s) \cup {p})
        /\ Append(scoutOffers[s], p) \in Seq(PlayerIds)
    <3>1. p \notin OfferedBy(s)
      BY <2>1 DEF OfferedBy
    <3>2. scoutOffers[s] \in Seq(PlayerIds) /\ HoldsOnce(scoutOffers[s], OfferedBy(s))
      BY DEF Lists, ListTypes
    <3>3. QED
      BY <3>1, <3>2, ListedOnceMore
  <2>3. /\ HoldsOnce(Append(playerConnections[p], s), OfferedTo(p) \cup {s})
        /\ Append(playerConnections[p], s) \in Seq(Scouts)
    <3>1. s \notin OfferedTo(p)
      BY <2>1 DEF OfferedTo
    <3>2. playerConnections[p] \in Seq(Scouts) /\ HoldsOnce(playerConnections[p], OfferedTo(p))
      BY DEF Lists, ListTypes
    <3>3. QED
      BY <3>1, <3>2, ListedOnceMore
  <2>4. ListTypes'
    BY <2>1, <2>2, <2>3 DEF Lists, ListTypes
  <2>5. \A t \in Scouts : /\ OfferedBy(t)' = IF t = s THEN OfferedBy(s) \cup {p} ELSE OfferedBy(t)
                          /\ scoutOffers'[t] = IF t = s THEN Append(scoutOffers[s], p)
                                               ELSE scoutOffers[t]
    BY <2>1 DEF Lists, ListTypes, OfferedBy
  <2>6. \A q \in PlayerIds : /\ OfferedTo(q)' = IF q = p THEN OfferedTo(p) \cup {s} ELSE OfferedTo(q)
                             /\ playerConnections'[q] = IF q = p THEN Append(playerConnections[p], s)
                                                        ELSE playerConnections[q]
    BY <2>1 DEF Lists, ListTypes, OfferedTo
  <2>7. \A t \in Scouts : HoldsOnce(scoutOffers'[t], OfferedBy(t)')
    BY <2>2, <2>5 DEF Lists
  <2>8. \A q \in PlayerIds : HoldsOnce(playerConnections'[q], OfferedTo(q)')
    BY <2>3, <2>6 DEF Lists
  <2>9. \A t \in Scouts : HoldsOnce(scoutConnections'[t], Connected(t)')
    BY <2>1 DEF Lists, Connected
  <2>10. QED
    BY <2>4, <2>7, <2>8, <2>9 DEF Lists, HoldsOnce
<1>5. CASE \E a \in PauserHolders : pause_connection(a) \/ unpause_connection(a)
  BY <1>1, <1>5 DEF pause_connection, unpause_connection
<1>6. QED
  BY <1>1, <1>2, <1>3, <1>4, <1>5 DEF Next, vars, RegisterStep, ProgressStep, Approval,
     SubscriptionStep, ConnectionStep, TrialOffer

(* A client that follows next reads every recorded connection and offer    *)
(* once (list_connections_page, get_connections_page,                      *)
(* get_trial_offers_page), for lists of any length and every limit.        *)
THEOREM ListsAreRead == Spec => []ListsMatchRecords
<1>1. Init => Lists
  <2> SUFFICES ASSUME Init PROVE Lists
    OBVIOUS
  <2>1. ListTypes
    BY EmptySeq DEF Init, ConnectionInit, ListTypes, Status
  <2>2. HoldsOnce(<<>>, {})
    BY DEF HoldsOnce, IsInjective, ToSet
  <2>3. /\ \A s \in Scouts : /\ scoutConnections[s] = <<>> /\ Connected(s) = {}
                             /\ scoutOffers[s] = <<>> /\ OfferedBy(s) = {}
        /\ \A p \in PlayerIds : playerConnections[p] = <<>> /\ OfferedTo(p) = {}
    BY DEF Init, ConnectionInit, Connected, OfferedBy, OfferedTo
  <2>4. QED
    BY <2>1, <2>2, <2>3 DEF Lists
<1>2. Lists /\ [Next]_vars => Lists'
  BY ListsKept
<1>3. Lists => ListsMatchRecords
  <2> SUFFICES ASSUME Lists PROVE ListsMatchRecords
    OBVIOUS
  <2>1. ASSUME NEW T, NEW list \in Seq(T), NEW recorded, HoldsOnce(list, recorded)
        PROVE  ReadsOnce(list, recorded)
    <3>1. \A limit \in 1..(MAX_PAGE_SIZE + 1) : ReadAllPages(list, limit) = list
      <4>1. \A limit \in 1..(MAX_PAGE_SIZE + 1) : limit \in Nat \ {0}
        BY PlatformAssumption
      <4>2. QED
        BY <4>1, <2>1, AllPagesAreTheList
    <3>2. QED
      BY <2>1, <3>1 DEF HoldsOnce, ReadsOnce
  <2>2. QED
    BY <2>1 DEF Lists, ListTypes, ListsMatchRecords, Connected, OfferedBy, OfferedTo
<1>4. QED
  BY <1>1, <1>2, <1>3, PTL DEF Spec

-----------------------------------------------------------------------------
(* The role table every contract embeds (AccessControl), for every set of  *)
(* addresses, every set of roles and every width of the counter.           *)

(* The inductive invariant.  The three facts proved of the root role lean  *)
(* on each other: the guard "count > 1" of remove_role keeps a root admin  *)
(* only while the counter is exact, and only root admins change the root   *)
(* role only while the root role administers itself.                       *)
RootSelfAdministered == roleAdmin[DEFAULT_ADMIN] = DEFAULT_ADMIN

RootTableEmpty == ~rolesInitialized => members[DEFAULT_ADMIN] = {}

RolesInv ==
    /\ RolesTypeOK
    /\ AdminCountExact
    /\ RootNeverOrphaned
    /\ RootSelfAdministered
    /\ RootTableEmpty

-----------------------------------------------------------------------------
(* Adding an address to a finite set of root admins adds one to the count; *)
(* removing one of several takes one away and leaves somebody.             *)
LEMMA CountAfterGrant ==
    ASSUME NEW S, IsFiniteSet(S), NEW x, x \notin S
    PROVE  /\ IsFiniteSet(S \cup {x})
           /\ Cardinality(S \cup {x}) = Cardinality(S) + 1
  BY FS_AddElement

(* Removing one of several root admins takes one away and leaves somebody. *)
LEMMA CountAfterRemoval ==
    ASSUME NEW S, IsFiniteSet(S), NEW x \in S, Cardinality(S) > 1
    PROVE  /\ IsFiniteSet(S \ {x})
           /\ Cardinality(S \ {x}) = Cardinality(S) - 1
           /\ S \ {x} # {}
<1>1. /\ IsFiniteSet(S \ {x})
      /\ Cardinality(S \ {x}) = Cardinality(S) - 1
  BY FS_RemoveElement
<1>2. Cardinality(S) \in Nat
  BY FS_CardinalityType
<1>3. Cardinality(S \ {x}) # 0
  BY <1>1, <1>2
<1>4. QED
  BY <1>1, <1>3, FS_EmptySet

-----------------------------------------------------------------------------
(* access::initialize builds a table with one root admin and counts it.    *)
LEMMA BootstrapKeepsRolesInv ==
    ASSUME RolesInv, NEW admin \in Addresses, Bootstrap(admin),
           initialized' \in BOOLEAN, storedAdmin' \in Addresses \cup {NoAddress},
           actor' \in Addresses \cup {NoAddress}
    PROVE  RolesInv'
<1> USE RolesAssumption, MaxAdminCountAssumption
<1>1. RolesTypeOK'
  BY DEF RolesInv, RolesTypeOK, Bootstrap
<1>2. members'[DEFAULT_ADMIN] = {admin}
  BY DEF RolesInv, RolesTypeOK, Bootstrap, RootTableEmpty
<1>3. rolesInitialized' /\ roleAdminCount' = 1 /\ roleAdmin' = roleAdmin
  BY DEF Bootstrap
<1>4. IsFiniteSet({admin}) /\ Cardinality({admin}) = 1
  BY FS_Singleton
<1>5. AdminCountExact' /\ RootNeverOrphaned'
  BY <1>2, <1>3, <1>4 DEF AdminCountExact, RootNeverOrphaned
<1>6. RootSelfAdministered' /\ RootTableEmpty'
  BY <1>3 DEF RolesInv, RootSelfAdministered, RootTableEmpty
<1>7. QED
  BY <1>1, <1>5, <1>6 DEF RolesInv

(* grant_role counts a new root admin once and an old one not at all.      *)
LEMMA GrantKeepsRolesInv ==
    ASSUME RolesInv, NEW c \in Addresses, NEW r \in ROLES, NEW a \in Addresses,
           grant_role(c, r, a)
    PROVE  RolesInv'
<1> USE RolesAssumption, MaxAdminCountAssumption
<1>1. rolesInitialized /\ rolesInitialized' /\ roleAdmin' = roleAdmin
  BY DEF grant_role, require_role, RolesInv, RolesTypeOK
<1>2. RootSelfAdministered' /\ RootTableEmpty'
  BY <1>1 DEF RolesInv, RootSelfAdministered, RootTableEmpty
<1>3. CASE r = DEFAULT_ADMIN
  <2>1. /\ members'[DEFAULT_ADMIN] = members[DEFAULT_ADMIN] \cup {a}
        /\ a \notin members[DEFAULT_ADMIN]
        /\ roleAdminCount < MaxAdminCount
        /\ roleAdminCount' = roleAdminCount + 1
    BY <1>3 DEF grant_role, Grant, has_role, RolesInv, RolesTypeOK
  <2>2. RolesTypeOK'
    BY <2>1, <1>3 DEF RolesInv, RolesTypeOK, grant_role, Grant, instance
  <2>3. AdminCountExact' /\ RootNeverOrphaned'
    BY <1>1, <2>1, CountAfterGrant
    DEF RolesInv, AdminCountExact, RootNeverOrphaned
  <2>4. QED
    BY <1>2, <2>2, <2>3 DEF RolesInv
<1>4. CASE r # DEFAULT_ADMIN
  <2>1. /\ members'[DEFAULT_ADMIN] = members[DEFAULT_ADMIN]
        /\ roleAdminCount' = roleAdminCount
    BY <1>4 DEF grant_role, Grant, RolesInv, RolesTypeOK
  <2>2. RolesTypeOK'
    BY <2>1, <1>4 DEF RolesInv, RolesTypeOK, grant_role, Grant, instance
  <2>3. AdminCountExact' /\ RootNeverOrphaned'
    BY <1>1, <2>1 DEF RolesInv, AdminCountExact, RootNeverOrphaned
  <2>4. QED
    BY <1>2, <2>2, <2>3 DEF RolesInv
<1>5. QED
  BY <1>3, <1>4

(* revoke_role and renounce_role both end in remove_role.                  *)
LEMMA RemovalKeepsRolesInv ==
    ASSUME RolesInv, rolesInitialized, NEW r \in ROLES, NEW a \in Addresses,
           remove_role(r, a), actor' \in Addresses,
           UNCHANGED <<instance, rolesInitialized, roleAdmin>>
    PROVE  RolesInv'
<1> USE RolesAssumption, MaxAdminCountAssumption
<1>1. rolesInitialized' /\ RootSelfAdministered' /\ RootTableEmpty'
  BY DEF RolesInv, RootSelfAdministered, RootTableEmpty
<1>2. CASE r = DEFAULT_ADMIN
  <2>1. /\ members'[DEFAULT_ADMIN] = members[DEFAULT_ADMIN] \ {a}
        /\ a \in members[DEFAULT_ADMIN]
        /\ roleAdminCount > 1
        /\ roleAdminCount' = roleAdminCount - 1
    BY <1>2 DEF remove_role, has_role, RolesInv, RolesTypeOK
  <2>2. RolesTypeOK'
    BY <2>1, <1>2 DEF RolesInv, RolesTypeOK, remove_role, instance
  <2>3. AdminCountExact' /\ RootNeverOrphaned'
    BY <1>1, <2>1, CountAfterRemoval
    DEF RolesInv, AdminCountExact, RootNeverOrphaned
  <2>4. QED
    BY <1>1, <2>2, <2>3 DEF RolesInv
<1>3. CASE r # DEFAULT_ADMIN
  <2>1. /\ members'[DEFAULT_ADMIN] = members[DEFAULT_ADMIN]
        /\ roleAdminCount' = roleAdminCount
    BY <1>3 DEF remove_role, RolesInv, RolesTypeOK
  <2>2. RolesTypeOK'
    BY <2>1, <1>3 DEF RolesInv, RolesTypeOK, remove_role, instance
  <2>3. AdminCountExact' /\ RootNeverOrphaned'
    BY <1>1, <2>1 DEF RolesInv, AdminCountExact, RootNeverOrphaned
  <2>4. QED
    BY <1>1, <2>2, <2>3 DEF RolesInv
<1>4. QED
  BY <1>2, <1>3

(* set_role_admin never touches the administration of the root role.       *)
LEMMA SetRoleAdminKeepsRolesInv ==
    ASSUME RolesInv, NEW c \in Addresses, NEW r \in ROLES, NEW s \in ROLES,
           set_role_admin(c, r, s)
    PROVE  RolesInv'
<1> USE RolesAssumption
<1>1. RolesTypeOK'
  BY DEF RolesInv, RolesTypeOK, set_role_admin, instance
<1>2. RootSelfAdministered'
  BY DEF RolesInv, RolesTypeOK, RootSelfAdministered, set_role_admin
<1>3. AdminCountExact' /\ RootNeverOrphaned' /\ RootTableEmpty'
  BY DEF RolesInv, AdminCountExact, RootNeverOrphaned, RootTableEmpty, set_role_admin
<1>4. QED
  BY <1>1, <1>2, <1>3 DEF RolesInv

(* The invariant holds before the contract is initialized.                 *)
LEMMA RolesInvInit == RolesInit => RolesInv
<1> SUFFICES ASSUME RolesInit PROVE RolesInv
  OBVIOUS
<1>1. ~rolesInitialized
  BY DEF RolesInit
<1>2. RolesTypeOK
  <2>1. /\ initialized \in BOOLEAN
        /\ rolesInitialized \in BOOLEAN
        /\ storedAdmin \in Addresses \cup {NoAddress}
        /\ actor \in Addresses \cup {NoAddress}
    BY DEF RolesInit
  <2>2. /\ members \in [ROLES -> SUBSET Addresses]
        /\ roleAdmin \in [ROLES -> ROLES]
        /\ roleAdminCount \in 0..MaxAdminCount
    BY RolesAssumption, MaxAdminCountAssumption DEF RolesInit
  <2>3. QED
    BY <2>1, <2>2 DEF RolesTypeOK
<1>3. RootSelfAdministered /\ RootTableEmpty
  BY RolesAssumption DEF RolesInit, RootSelfAdministered, RootTableEmpty
<1>4. QED
  BY <1>1, <1>2, <1>3 DEF RolesInv, AdminCountExact, RootNeverOrphaned

(* Every action of the contract keeps the invariant.                       *)
LEMMA RolesInvNext == RolesInv /\ [RolesNext]_roleVars => RolesInv'
<1> SUFFICES ASSUME RolesInv, [RolesNext]_roleVars PROVE RolesInv'
  OBVIOUS
<1>1. ASSUME NEW a \in Addresses, initialize(a) PROVE RolesInv'
  BY <1>1, BootstrapKeepsRolesInv DEF initialize
<1>2. ASSUME NEW a \in Addresses, initialize_roles(a) PROVE RolesInv'
  <2>1. /\ initialized' \in BOOLEAN
        /\ storedAdmin' \in Addresses \cup {NoAddress}
    BY <1>2 DEF initialize_roles, instance, RolesInv, RolesTypeOK
  <2>2. QED
    BY <1>2, <2>1, BootstrapKeepsRolesInv DEF initialize_roles
<1>3. ASSUME NEW c \in Addresses, NEW a \in Addresses, NEW r \in ROLES,
             grant_role(c, r, a)
      PROVE  RolesInv'
  BY <1>3, GrantKeepsRolesInv
<1>4. ASSUME NEW c \in Addresses, NEW a \in Addresses, NEW r \in ROLES,
             revoke_role(c, r, a)
      PROVE  RolesInv'
  BY <1>4, RemovalKeepsRolesInv DEF revoke_role, require_role
<1>5. ASSUME NEW a \in Addresses, NEW r \in ROLES, renounce_role(a, r)
      PROVE  RolesInv'
  BY <1>5, RemovalKeepsRolesInv DEF renounce_role, require_role
<1>6. ASSUME NEW c \in Addresses, NEW r \in ROLES, NEW s \in ROLES,
             set_role_admin(c, r, s)
      PROVE  RolesInv'
  BY <1>6, SetRoleAdminKeepsRolesInv
<1>7. CASE UNCHANGED roleVars
  BY <1>7 DEF roleVars, RolesInv, RolesTypeOK, AdminCountExact, RootNeverOrphaned,
     RootSelfAdministered, RootTableEmpty
<1>8. QED
  BY <1>1, <1>2, <1>3, <1>4, <1>5, <1>6, <1>7 DEF RolesNext

-----------------------------------------------------------------------------
(* The invariant holds of every state the contract can reach.              *)
THEOREM RolesInvariant == RolesSpec => []RolesInv
  BY RolesInvInit, RolesInvNext, PTL DEF RolesSpec

(* Every storage key of the role table keeps its type: the admin counter   *)
(* of access.rs stays within its u32.                                      *)
THEOREM RolesTypeCorrect == RolesSpec => []RolesTypeOK
<1>1. RolesInv => RolesTypeOK
  BY DEF RolesInv
<1>2. QED
  BY <1>1, RolesInvariant, PTL

(* The last-admin counter is the number of root admins (access.rs,         *)
(* RoleAdminCount), after any history of grants and removals.              *)
THEOREM AdminCountCorrect == RolesSpec => []AdminCountExact
<1>1. RolesInv => AdminCountExact
  BY DEF RolesInv
<1>2. QED
  BY <1>1, RolesInvariant, PTL

(* No history of calls leaves a bootstrapped contract without a root admin *)
(* (the guard of remove_role in access.rs).                                *)
THEOREM RootAlwaysHeld == RolesSpec => []RootNeverOrphaned
<1>1. RolesInv => RootNeverOrphaned
  BY DEF RolesInv
<1>2. QED
  BY <1>1, RolesInvariant, PTL

(* Only a root admin ever adds or removes a root admin (grant_role,        *)
(* revoke_role, renounce_role and set_role_admin together).                *)
THEOREM RootDecidedByRoot == RolesSpec => RootChangedByRootOnly
<1>1. RolesInv /\ [RolesNext]_roleVars
        => [rolesInitialized /\ members'[DEFAULT_ADMIN] # members[DEFAULT_ADMIN]
              => actor' \in members[DEFAULT_ADMIN]]_roleVars
  <2> SUFFICES ASSUME RolesInv, RolesNext, rolesInitialized,
                      members'[DEFAULT_ADMIN] # members[DEFAULT_ADMIN]
               PROVE  actor' \in members[DEFAULT_ADMIN]
    OBVIOUS
  <2> USE RolesAssumption
  <2>1. ASSUME NEW a \in Addresses, initialize(a) \/ initialize_roles(a)
        PROVE  FALSE
    BY <2>1 DEF initialize, initialize_roles, Bootstrap
  <2>2. ASSUME NEW c \in Addresses, NEW a \in Addresses, NEW r \in ROLES,
               grant_role(c, r, a) \/ revoke_role(c, r, a)
        PROVE  actor' \in members[DEFAULT_ADMIN]
    <3>1. r = DEFAULT_ADMIN
      BY <2>2 DEF grant_role, revoke_role, Grant, remove_role, RolesInv, RolesTypeOK
    <3>2. QED
      BY <2>2, <3>1 DEF grant_role, revoke_role, require_role, has_role,
         RolesInv, RootSelfAdministered
  <2>3. ASSUME NEW a \in Addresses, NEW r \in ROLES, renounce_role(a, r)
        PROVE  actor' \in members[DEFAULT_ADMIN]
    <3>1. r = DEFAULT_ADMIN
      BY <2>3 DEF renounce_role, remove_role, RolesInv, RolesTypeOK
    <3>2. QED
      BY <2>3, <3>1 DEF renounce_role, require_role, has_role
  <2>4. ASSUME NEW c \in Addresses, NEW r \in ROLES, NEW s \in ROLES,
               set_role_admin(c, r, s)
        PROVE  FALSE
    BY <2>4 DEF set_role_admin
  <2>5. QED
    BY <2>1, <2>2, <2>3, <2>4 DEF RolesNext
<1>2. QED
  BY <1>1, RolesInvariant, PTL DEF RolesSpec, RootChangedByRootOnly

-----------------------------------------------------------------------------
(* Induction over the natural numbers, for a set of them.                  *)
LEMMA EveryNumber ==
    ASSUME NEW Good, 0 \in Good, \A n \in Nat : n \in Good => n + 1 \in Good
    PROVE  \A n \in Nat : n \in Good
<1> DEFINE Bad == {n \in Nat : n \notin Good}
<1>1. SUFFICES ASSUME Bad # {} PROVE FALSE
  OBVIOUS
<1>2. PICK n \in Bad : \A m \in Bad : n <= m
  <2>1. Bad \subseteq Nat
    OBVIOUS
  <2> HIDE DEF Bad
  <2>2. QED
    BY <1>1, <2>1, FirstOf
<1>3. n \in Nat /\ n # 0 /\ n - 1 \in Nat /\ n - 1 \notin Bad
  BY <1>2
<1>4. n - 1 \in Good /\ (n - 1) + 1 = n
  BY <1>3
<1>5. QED
  BY <1>2, <1>3, <1>4

(* Induction over the subsets of a finite set, for a set of them.          *)
LEMMA EverySubset ==
    ASSUME NEW S, IsFiniteSet(S), NEW Good, {} \in Good,
           \A s \in SUBSET S : s # {} =>
               \E x \in s : s \ {x} \in Good => s \in Good
    PROVE  \A s \in SUBSET S : s \in Good
<1> DEFINE Upto == {n \in Nat : \A s \in SUBSET S : Cardinality(s) <= n => s \in Good}
<1>1. \A s \in SUBSET S : IsFiniteSet(s) /\ Cardinality(s) \in Nat
  BY FS_Subset, FS_CardinalityType
<1>2. 0 \in Upto
  <2>1. \A s \in SUBSET S : Cardinality(s) <= 0 => s = {}
    BY <1>1, FS_EmptySet
  <2>2. QED
    BY <2>1
<1>3. ASSUME NEW n \in Nat, n \in Upto PROVE n + 1 \in Upto
  <2>0. n + 1 \in Nat
    OBVIOUS
  <2>1. SUFFICES ASSUME NEW s \in SUBSET S, Cardinality(s) <= n + 1, s # {}
                 PROVE  s \in Good
    BY <2>0
  <2>2. PICK x \in s : s \ {x} \in Good => s \in Good
    BY <2>1
  <2>3. Cardinality(s \ {x}) = Cardinality(s) - 1
    BY <1>1, FS_RemoveElement
  <2>4. s \ {x} \in Good
    BY <1>1, <1>3, <2>1, <2>3
  <2>5. QED
    BY <2>2, <2>4
<1>4. Cardinality(S) \in Upto
  <2> HIDE DEF Upto
  <2>1. \A n \in Nat : n \in Upto
    BY <1>2, <1>3, EveryNumber
  <2>2. QED
    BY <1>1, <2>1
<1>5. QED
  BY <1>1, <1>4, FS_Subset

(* A fold over the subsets of a finite set, one chosen element at a time,  *)
(* is defined.                                                             *)
Chooses(choose, S) == \A s \in SUBSET S : s # {} => choose[s] \in s

IsFold(iter, S, base, choose, step) ==
    /\ iter[{}] = base
    /\ \A s \in SUBSET S : s # {} =>
          iter[s] = step[<<choose[s], iter[s \ {choose[s]}]>>]

LEMMA FoldIsDefined ==
    ASSUME NEW S, IsFiniteSet(S), NEW V, NEW base \in V, NEW choose,
           Chooses(choose, S), NEW step \in [S \X V -> V]
    PROVE  \E iter \in [SUBSET S -> V] : IsFold(iter, S, base, choose, step)
<1> DEFINE Small(n) == {s \in SUBSET S : Cardinality(s) <= n}
           rest(s) == s \ {choose[s]}
           Folds(h, n) == /\ h \in [Small(n) -> V]
                          /\ h[{}] = base
                          /\ \A s \in Small(n) : s # {} => h[s] = step[<<choose[s], h[rest(s)]>>]
           Good == {n \in Nat : \E h : Folds(h, n)}
<1>1. \A s \in SUBSET S : IsFiniteSet(s) /\ Cardinality(s) \in Nat
  BY FS_Subset, FS_CardinalityType
<1>2. 0 \in Good
  <2>1. \A s \in Small(0) : s = {}
    BY <1>1, FS_EmptySet
  <2>2. {} \in Small(0)
    BY FS_EmptySet
  <2>3. Folds([s \in Small(0) |-> base], 0)
    BY <2>1, <2>2
  <2>4. QED
    BY <2>3
<1>3. ASSUME NEW n \in Nat, n \in Good PROVE n + 1 \in Good
  <2>1. PICK h : Folds(h, n)
    BY <1>3
  <2>2. \A s \in Small(n + 1) : s # {} =>
            choose[s] \in S /\ rest(s) \in Small(n)
    <3>1. SUFFICES ASSUME NEW s \in Small(n + 1), s # {}
                   PROVE  choose[s] \in S /\ rest(s) \in Small(n)
      OBVIOUS
    <3>2. choose[s] \in s /\ s \in SUBSET S
      BY <3>1 DEF Chooses
    <3>3. Cardinality(rest(s)) = Cardinality(s) - 1
      BY <1>1, <3>2, FS_RemoveElement
    <3>4. QED
      BY <1>1, <3>1, <3>2, <3>3
  <2>3. {} \in Small(n) /\ \A s \in Small(n) : s \in Small(n + 1)
    <3>1. \A s \in SUBSET S : Cardinality(s) <= n => Cardinality(s) <= n + 1
      BY <1>1
    <3>2. Cardinality({}) <= n
      BY FS_EmptySet
    <3>3. QED
      BY <3>1, <3>2
  <2> DEFINE g == [s \in Small(n + 1) |-> IF s = {} THEN base
                                          ELSE step[<<choose[s], h[rest(s)]>>]]
  <2>4. h \in [Small(n) -> V] /\ h[{}] = base
        /\ \A s \in Small(n) : s # {} => h[s] = step[<<choose[s], h[rest(s)]>>]
    BY <2>1
  <2> HIDE DEF Small, rest
  <2>5. g[{}] = base /\ \A s \in Small(n + 1) : s # {} => g[s] = step[<<choose[s], h[rest(s)]>>]
    BY <2>3
  <2>6. \A s \in Small(n) : g[s] = h[s]
    BY <2>3, <2>4, <2>5
  <2>7. \A s \in Small(n + 1) : g[s] \in V
    BY <2>2, <2>4
  <2>8. g \in [Small(n + 1) -> V]
    BY <2>7
  <2> HIDE DEF g
  <2>9. Folds(g, n + 1)
    BY <2>2, <2>5, <2>6, <2>8
  <2> HIDE DEF Folds
  <2>10. QED
    BY <2>9
<1>4. Cardinality(S) \in Good
  <2> HIDE DEF Good
  <2>1. \A n \in Nat : n \in Good
    BY <1>2, <1>3, EveryNumber
  <2>2. QED
    BY <1>1, <2>1
<1>5. Small(Cardinality(S)) = SUBSET S
  BY FS_Subset
<1>6. PICK h : Folds(h, Cardinality(S))
  BY <1>4
<1>7. h \in [SUBSET S -> V] /\ IsFold(h, S, base, choose, step)
  BY <1>5, <1>6 DEF IsFold
<1>8. QED
  BY <1>7

-----------------------------------------------------------------------------
(* A sum adds one chosen element after another.                            *)
Chosen(s) == CHOOSE x \in s : TRUE

AddsUp(sum, f, S) ==
    /\ SumFunction(f) = sum[S]
    /\ sum[{}] = 0
    /\ \A s \in SUBSET S : s # {} =>
          /\ Chosen(s) \in s
          /\ sum[s] = f[Chosen(s)] + sum[s \ {Chosen(s)}]

(* The sum of a function is the last of the sums over the subsets of its   *)
(* domain, each one element more than another.                             *)
LEMMA SumUnfolds ==
    ASSUME NEW S, IsFiniteSet(S), NEW f \in [S -> Nat]
    PROVE  \E sum \in [SUBSET S -> Nat] : AddsUp(sum, f, S)
<1> DEFINE choose == [s \in SUBSET S |-> Chosen(s)]
           step == [p \in S \X Nat |-> f[p[1]] + p[2]]
           Sums(sum) == sum = [s \in SUBSET S |->
                                  IF s = {} THEN 0
                                  ELSE f[CHOOSE x \in s : TRUE]
                                         + sum[s \ {CHOOSE x \in s : TRUE}]]
<1>1. \A s \in SUBSET S : s # {} => Chosen(s) \in s
  BY DEF Chosen
<1>2. step \in [S \X Nat -> Nat] /\ \A x \in S, n \in Nat : step[<<x, n>>] = f[x] + n
  OBVIOUS
<1>3. PICK it \in [SUBSET S -> Nat] : IsFold(it, S, 0, choose, step)
  <2>1. Chooses(choose, S)
    BY <1>1 DEF Chooses
  <2>2. step \in [S \X Nat -> Nat]
    BY <1>2
  <2> HIDE DEF step, choose
  <2>3. 0 \in Nat
    OBVIOUS
  <2>4. QED
    BY <2>1, <2>2, <2>3, FoldIsDefined
<1>4. \A s \in SUBSET S : s # {} => it[s] = f[Chosen(s)] + it[s \ {Chosen(s)}]
  <2>1. \A s \in SUBSET S : s # {} => /\ choose[s] = Chosen(s)
                                     /\ Chosen(s) \in S
                                     /\ it[s \ {Chosen(s)}] \in Nat
    BY <1>1
  <2> HIDE DEF step, choose
  <2>2. QED
    BY <1>2, <1>3, <2>1 DEF IsFold
<1>5. \E sum : Sums(sum)
  <2> DEFINE e(s) == IF s = {} THEN 0 ELSE f[Chosen(s)] + it[s \ {Chosen(s)}]
  <2>1. \A s \in SUBSET S : it[s] = e(s)
    BY <1>3, <1>4 DEF IsFold
  <2> HIDE DEF e
  <2>2. it = [s \in SUBSET S |-> e(s)]
    BY <1>3, <2>1
  <2>3. Sums(it)
    BY <2>2 DEF e, Chosen
  <2>4. QED
    BY <2>3
<1> DEFINE sum == CHOOSE sum : Sums(sum)
<1>6. Sums(sum)
  BY <1>5
<1>7. SumFunction(f) = sum[S]
  <2>1. DOMAIN f = S
    OBVIOUS
  <2>2. QED
    BY <2>1 DEF SumFunction, SumFunctionOnSet, FoldFunctionOnSet, MapThenFoldSet
<1> HIDE DEF sum
<1>8. /\ DOMAIN sum = SUBSET S /\ sum[{}] = 0
      /\ \A s \in SUBSET S : s # {} => sum[s] = f[Chosen(s)] + sum[s \ {Chosen(s)}]
  BY <1>6 DEF Chosen
<1>9. \A s \in SUBSET S : sum[s] = it[s]
  <2> DEFINE Good == {s \in SUBSET S : sum[s] = it[s]}
  <2>1. {} \in Good
    BY <1>3, <1>8 DEF IsFold
  <2>2. \A s \in SUBSET S : s # {} => \E x \in s : s \ {x} \in Good => s \in Good
    BY <1>1, <1>4, <1>8
  <2> HIDE DEF Good
  <2>3. \A s \in SUBSET S : s \in Good
    BY <2>1, <2>2, EverySubset
  <2>4. QED
    BY <2>3 DEF Good
<1>10. sum = it
  BY <1>6, <1>9
<1>11. QED
  BY <1>1, <1>4, <1>7, <1>8, <1>10 DEF AddsUp

(* A function that is d more at one point sums up to d more.               *)
LEMMA SumChanges ==
    ASSUME NEW S, IsFiniteSet(S), NEW f \in [S -> Nat], NEW g \in [S -> Nat],
           NEW a \in S, NEW d \in Nat, g[a] = f[a] + d,
           \A x \in S \ {a} : g[x] = f[x]
    PROVE  SumFunction(g) = SumFunction(f) + d
<1>1. PICK sf \in [SUBSET S -> Nat] : AddsUp(sf, f, S)
  BY SumUnfolds
<1>2. PICK sg \in [SUBSET S -> Nat] : AddsUp(sg, g, S)
  BY SumUnfolds
<1> DEFINE Good == {s \in SUBSET S : sg[s] = sf[s] + IF a \in s THEN d ELSE 0}
<1>3. {} \in Good
  BY <1>1, <1>2 DEF AddsUp
<1>4. ASSUME NEW s \in SUBSET S, s # {}
      PROVE  \E x \in s : s \ {x} \in Good => s \in Good
  <2> DEFINE x == Chosen(s)
             r == s \ {x}
  <2>1. /\ x \in s /\ r \in SUBSET S
        /\ sf[s] = f[x] + sf[r] /\ sg[s] = g[x] + sg[r]
    BY <1>1, <1>2, <1>4 DEF AddsUp
  <2>2. f[x] \in Nat /\ g[x] \in Nat /\ sf[r] \in Nat /\ sg[r] \in Nat /\ f[a] \in Nat
    BY <2>1
  <2>3. x = a => a \in s /\ a \notin r
    BY <2>1
  <2>4. x # a => g[x] = f[x] /\ (a \in s <=> a \in r)
    BY <2>1
  <2> HIDE DEF r, x
  <2>5. ASSUME r \in Good PROVE sg[s] = sf[s] + IF a \in s THEN d ELSE 0
    BY <2>1, <2>2, <2>3, <2>4, <2>5
  <2>6. r \in Good => s \in Good
    BY <2>5
  <2>7. QED
    BY <2>1, <2>6 DEF r
<1>5. S \in Good
  <2> HIDE DEF Good
  <2>1. \A s \in SUBSET S : s \in Good
    BY <1>3, <1>4, EverySubset
  <2>2. QED
    BY <2>1
<1>6. QED
  BY <1>1, <1>2, <1>5 DEF AddsUp

(* A sum of natural numbers is one.                                        *)
LEMMA SumIsNat ==
    ASSUME NEW S, IsFiniteSet(S), NEW f \in [S -> Nat]
    PROVE  SumFunction(f) \in Nat
<1>1. PICK sum \in [SUBSET S -> Nat] : AddsUp(sum, f, S)
  BY SumUnfolds
<1>2. QED
  BY <1>1 DEF AddsUp

(* No part is more than the sum.                                           *)
LEMMA PartOfSum ==
    ASSUME NEW S, IsFiniteSet(S), NEW f \in [S -> Nat], NEW a \in S
    PROVE  f[a] <= SumFunction(f)
<1> DEFINE g == [f EXCEPT ![a] = 0]
<1>1. /\ g \in [S -> Nat] /\ f[a] \in Nat /\ f[a] = g[a] + f[a]
      /\ \A x \in S \ {a} : f[x] = g[x]
  OBVIOUS
<1> HIDE DEF g
<1>2. PICK d \in Nat : f[a] = d /\ f[a] = g[a] + d
  BY <1>1
<1>3. SumFunction(f) = SumFunction(g) + d
  BY <1>1, <1>2, SumChanges
<1>4. SumFunction(g) \in Nat
  BY <1>1, SumIsNat
<1>5. d <= SumFunction(f)
  BY <1>3, <1>4
<1>6. QED
  BY <1>2, <1>5

(* The sum of ones counts.                                                 *)
LEMMA SumCounts ==
    ASSUME NEW S, IsFiniteSet(S), NEW A
    PROVE  SumFunction([x \in S |-> IF x \in A THEN 1 ELSE 0]) = Cardinality(S \cap A)
<1> DEFINE f == [x \in S |-> IF x \in A THEN 1 ELSE 0]
<1>1. f \in [S -> Nat] /\ \A x \in S : f[x] = IF x \in A THEN 1 ELSE 0
  OBVIOUS
<1> HIDE DEF f
<1>2. PICK sf \in [SUBSET S -> Nat] : AddsUp(sf, f, S)
  BY <1>1, SumUnfolds
<1> DEFINE Good == {s \in SUBSET S : sf[s] = Cardinality(s \cap A)}
<1>3. {} \in Good
  BY <1>2, FS_EmptySet DEF AddsUp
<1>4. ASSUME NEW s \in SUBSET S, s # {}
      PROVE  \E x \in s : s \ {x} \in Good => s \in Good
  <2> DEFINE x == Chosen(s)
             r == s \ {x}
  <2>1. x \in s /\ r \in SUBSET S /\ sf[s] = f[x] + sf[r] /\ x \in S
    BY <1>2, <1>4 DEF AddsUp
  <2>2. IsFiniteSet(s \cap A)
    BY FS_Subset
  <2>3. Cardinality(s \cap A) \in Nat
    BY <2>2, FS_CardinalityType
  <2>4. Cardinality(r \cap A) = IF x \in A THEN Cardinality(s \cap A) - 1
                                           ELSE Cardinality(s \cap A)
    <3>1. r \cap A = (s \cap A) \ {x} /\ (x \in A <=> x \in s \cap A)
      BY <2>1
    <3> DEFINE c == s \cap A
    <3>2. IsFiniteSet(c)
      BY <2>2
    <3> HIDE DEF r, x, c
    <3>3. Cardinality(c \ {x}) = IF x \in c THEN Cardinality(c) - 1 ELSE Cardinality(c)
      BY <3>2, FS_RemoveElement
    <3>4. QED
      BY <3>1, <3>3 DEF c
  <2> HIDE DEF r, x
  <2>5. r \in Good => s \in Good
    BY <1>1, <2>1, <2>3, <2>4
  <2>6. QED
    BY <2>1, <2>5 DEF r
<1>5. S \in Good
  <2> HIDE DEF Good
  <2>1. \A s \in SUBSET S : s \in Good
    BY <1>3, <1>4, EverySubset
  <2>2. QED
    BY <2>1
<1>6. QED
  BY <1>2, <1>5 DEF f, AddsUp

(* What is nowhere adds up to nothing.                                     *)
LEMMA SumOfNone ==
    ASSUME NEW S, IsFiniteSet(S), NEW f, f = [x \in S |-> 0]
    PROVE  SumFunction(f) = 0
<1>1. f = [x \in S |-> IF x \in {} THEN 1 ELSE 0]
  OBVIOUS
<1>2. SumFunction(f) = Cardinality(S \cap {})
  BY <1>1, SumCounts
<1>3. QED
  BY <1>2, FS_EmptySet

-----------------------------------------------------------------------------
(* A list without repetitions is as long as the set of its elements.       *)
LEMMA ListedOnceCounts ==
    ASSUME NEW T, NEW s \in Seq(T)
    PROVE  /\ IsFiniteSet(ToSet(s))
           /\ Cardinality(ToSet(s)) = Len(s) <=> IsInjective(s)
<1>1. Len(s) \in Nat /\ DOMAIN s = 1..Len(s) /\ \A i \in 1..Len(s) : s[i] \in T
  BY LenProperties, ElementOfSeq
<1>2. s \in Surjection(1..Len(s), ToSet(s))
  BY <1>1 DEF Surjection, ToSet
<1>3. IsFiniteSet(1..Len(s)) /\ Cardinality(1..Len(s)) = Len(s)
  <2>1. PICK n \in Nat : n = Len(s)
    BY <1>1
  <2>2. IsFiniteSet(1..n) /\ Cardinality(1..n) = n
    BY FS_Interval
  <2>3. QED
    BY <2>1, <2>2
<1>4. /\ IsFiniteSet(ToSet(s))
      /\ Cardinality(ToSet(s)) = Cardinality(1..Len(s)) <=> s \in Injection(1..Len(s), ToSet(s))
  BY <1>2, <1>3, FS_Surjection
<1>5. s \in Injection(1..Len(s), ToSet(s)) <=> IsInjective(s)
  BY <1>1, <1>2 DEF Injection, Surjection
<1>6. QED
  BY <1>3, <1>4, <1>5

(* The elements of two lists one after the other, and when none is there   *)
(* twice.                                                                  *)
LEMMA ConcatListsOnce ==
    ASSUME NEW T, NEW s \in Seq(T), NEW t \in Seq(T)
    PROVE  /\ ToSet(s \o t) = ToSet(s) \cup ToSet(t)
           /\ IsInjective(s \o t) <=> /\ IsInjective(s)
                                      /\ IsInjective(t)
                                      /\ ToSet(s) \cap ToSet(t) = {}
<1> DEFINE m == Len(s)
           n == Len(t)
           c == s \o t
<1>1. /\ m \in Nat /\ n \in Nat
      /\ DOMAIN s = 1..m /\ DOMAIN t = 1..n /\ DOMAIN c = 1..(m + n)
  BY LenProperties, ConcatProperties
<1>2. /\ \A i \in 1..m : i \in 1..(m + n) /\ c[i] = s[i]
      /\ \A j \in 1..n : m + j \in 1..(m + n) /\ c[m + j] = t[j]
  <2>1. \A i \in 1..(m + n) : c[i] = IF i <= m THEN s[i] ELSE t[i - m]
    BY ConcatProperties
  <2> HIDE DEF m, n, c
  <2>2. \A i \in 1..m : i \in 1..(m + n) /\ c[i] = s[i]
    BY <1>1, <2>1
  <2>3. \A j \in 1..n : m + j \in 1..(m + n) /\ ~(m + j <= m) /\ (m + j) - m = j
    BY <1>1
  <2>4. QED
    BY <2>1, <2>2, <2>3
<1>3. \A k \in 1..(m + n) : k \in 1..m \/ \E j \in 1..n : k = m + j
  <2> HIDE DEF m, n
  <2>1. SUFFICES ASSUME NEW k \in 1..(m + n), k \notin 1..m
                 PROVE  \E j \in 1..n : k = m + j
    OBVIOUS
  <2>2. k - m \in 1..n /\ k = m + (k - m)
    BY <1>1, <2>1
  <2>3. QED
    BY <2>2
<1> HIDE DEF m, n, c
<1>4. ToSet(c) = ToSet(s) \cup ToSet(t)
  <2>1. ToSet(s) \subseteq ToSet(c) /\ ToSet(t) \subseteq ToSet(c)
    BY <1>1, <1>2 DEF ToSet
  <2>2. ASSUME NEW x \in ToSet(c) PROVE x \in ToSet(s) \/ x \in ToSet(t)
    <3>1. PICK k \in 1..(m + n) : x = c[k]
      BY <1>1 DEF ToSet
    <3>2. CASE k \in 1..m
      BY <1>1, <1>2, <3>1, <3>2 DEF ToSet
    <3>3. CASE k \notin 1..m
      <4>1. PICK j \in 1..n : k = m + j
        BY <1>3, <3>3
      <4>2. QED
        BY <1>1, <1>2, <3>1, <4>1 DEF ToSet
    <3>4. QED
      BY <3>2, <3>3
  <2>3. QED
    BY <2>1, <2>2
<1>5. IsInjective(c) => IsInjective(s) /\ IsInjective(t) /\ ToSet(s) \cap ToSet(t) = {}
  <2>1. SUFFICES ASSUME \A a, b \in 1..(m + n) : c[a] = c[b] => a = b
                 PROVE  IsInjective(s) /\ IsInjective(t) /\ ToSet(s) \cap ToSet(t) = {}
    BY <1>1 DEF IsInjective
  <2>2. IsInjective(s)
    BY <1>1, <1>2, <2>1 DEF IsInjective
  <2>3. \A i, j \in 1..n : m + i = m + j => i = j
    BY <1>1
  <2>4. IsInjective(t)
    BY <1>1, <1>2, <2>1, <2>3 DEF IsInjective
  <2>5. \A i \in 1..m, j \in 1..n : i # m + j
    BY <1>1
  <2>6. \A i \in 1..m, j \in 1..n : s[i] # t[j]
    BY <1>2, <2>1, <2>5
  <2>7. QED
    BY <1>1, <2>2, <2>4, <2>6 DEF ToSet
<1>6. ASSUME IsInjective(s), IsInjective(t), ToSet(s) \cap ToSet(t) = {}
      PROVE  IsInjective(c)
  <2>1. \A i \in 1..m, j \in 1..n : s[i] # t[j]
    BY <1>1, <1>6 DEF ToSet
  <2>2. \A i, j \in 1..m : s[i] = s[j] => i = j
    BY <1>1, <1>6 DEF IsInjective
  <2>3. \A i, j \in 1..n : t[i] = t[j] => i = j
    BY <1>1, <1>6 DEF IsInjective
  <2>4. SUFFICES ASSUME NEW a \in 1..(m + n), NEW b \in 1..(m + n), c[a] = c[b]
                 PROVE  a = b
    BY <1>1 DEF IsInjective
  <2>5. CASE a \in 1..m /\ b \in 1..m
    BY <1>2, <2>2, <2>4, <2>5
  <2>6. CASE a \in 1..m /\ b \notin 1..m
    BY <1>2, <1>3, <2>1, <2>4, <2>6
  <2>7. CASE a \notin 1..m /\ b \in 1..m
    BY <1>2, <1>3, <2>1, <2>4, <2>7
  <2>8. CASE a \notin 1..m /\ b \notin 1..m
    BY <1>2, <1>3, <2>3, <2>4, <2>8
  <2>9. QED
    BY <2>5, <2>6, <2>7, <2>8
<1>7. QED
  BY <1>4, <1>5, <1>6 DEF c

(* The pages one after the other.                                          *)
Flattens(flat, seqs) ==
    /\ flat[1] = seqs[1]
    /\ \A i \in 1..Len(seqs) : i # 1 => flat[i] = flat[i - 1] \o seqs[i]

(* FlattenSeq takes one page after another.                                *)
LEMMA FlattenUnfolds ==
    ASSUME NEW T, NEW seqs \in Seq(Seq(T)), seqs # <<>>
    PROVE  \E flat \in [1..Len(seqs) -> Seq(T)] :
              FlattenSeq(seqs) = flat[Len(seqs)] /\ Flattens(flat, seqs)
<1> DEFINE n == Len(seqs)
           Fits(h, k) == /\ h \in [1..k -> Seq(T)]
                         /\ \A i \in 1..k : h[i] = IF i = 1 THEN seqs[i] ELSE h[i - 1] \o seqs[i]
           Good == {k \in Nat : k <= n => \E h : Fits(h, k)}
           Solves(h) == h = [i \in 1..Len(seqs) |-> IF i = 1 THEN seqs[i]
                                                     ELSE h[i - 1] \o seqs[i]]
<1>1. n \in Nat /\ n > 0 /\ DOMAIN seqs = 1..n /\ \A i \in 1..n : seqs[i] \in Seq(T)
  BY LenProperties, ElementOfSeq, EmptySeq
<1>2. \A s, t \in Seq(T) : s \o t \in Seq(T)
  BY ConcatProperties
<1> HIDE DEF n
<1>3. 0 \in Good
  <2>1. Fits([i \in 1..0 |-> seqs[1]], 0)
    OBVIOUS
  <2>2. QED
    BY <2>1
<1>4. ASSUME NEW k \in Nat, k \in Good PROVE k + 1 \in Good
  <2>1. SUFFICES ASSUME k + 1 <= n PROVE \E h : Fits(h, k + 1)
    <3> HIDE DEF Fits
    <3>1. QED
      OBVIOUS
  <2>2. PICK h : Fits(h, k)
    <3> HIDE DEF Fits
    <3>1. k <= n
      BY <1>1, <2>1
    <3>2. QED
      BY <1>4, <3>1
  <2> DEFINE g == [i \in 1..(k + 1) |-> IF i = k + 1
                                        THEN IF i = 1 THEN seqs[i] ELSE h[i - 1] \o seqs[i]
                                        ELSE h[i]]
  <2>3. /\ \A i \in 1..k : i \in 1..(k + 1) /\ i # k + 1 /\ i \in 1..n
        /\ k + 1 \in 1..n /\ k + 1 \in 1..(k + 1) /\ (k + 1) - 1 = k
        /\ k + 1 # 1 => k \in 1..k
        /\ \A i \in 1..(k + 1) : i = k + 1 \/ i \in 1..k
        /\ \A i \in 1..(k + 1) : i # 1 => i - 1 \in 1..k
    BY <1>1, <2>1
  <2>4. \A i \in 1..k : g[i] = h[i]
    BY <2>3
  <2>5. g[k + 1] = IF k + 1 = 1 THEN seqs[k + 1] ELSE h[k] \o seqs[k + 1]
    BY <2>3
  <2>6. DOMAIN g = 1..(k + 1)
    OBVIOUS
  <2>7. \A i \in 1..k : h[i] \in Seq(T) /\ h[i] = IF i = 1 THEN seqs[i] ELSE h[i - 1] \o seqs[i]
    BY <2>2
  <2>8. g = [i \in 1..(k + 1) |-> g[i]]
    BY <2>6
  <2> HIDE DEF g
  <2>9. \A i \in 1..(k + 1) : g[i] \in Seq(T)
    <3>1. \A i \in 1..k : g[i] \in Seq(T)
      BY <2>4, <2>7
    <3>2. k + 1 # 1 => h[k] \in Seq(T)
      BY <2>3, <2>7
    <3>3. seqs[k + 1] \in Seq(T)
      BY <1>1, <2>3
    <3>4. g[k + 1] \in Seq(T)
      BY <1>2, <2>5, <3>2, <3>3
    <3>5. QED
      BY <2>3, <3>1, <3>4
  <2>10. \A i \in 1..(k + 1) : g[i] = IF i = 1 THEN seqs[i] ELSE g[i - 1] \o seqs[i]
    <3>1. SUFFICES ASSUME NEW i \in 1..(k + 1)
                   PROVE  g[i] = IF i = 1 THEN seqs[i] ELSE g[i - 1] \o seqs[i]
      OBVIOUS
    <3>2. CASE i = 1
      BY <2>3, <2>4, <2>5, <2>7, <3>2
    <3>3. CASE i # 1
      <4>1. g[i - 1] = h[i - 1]
        BY <2>3, <2>4, <3>3
      <4>2. g[i] = h[i - 1] \o seqs[i]
        BY <2>3, <2>4, <2>5, <2>7, <3>3
      <4>3. QED
        BY <3>3, <4>1, <4>2
    <3>4. QED
      BY <3>2, <3>3
  <2>11. g \in [1..(k + 1) -> Seq(T)]
    BY <2>8, <2>9
  <2>12. Fits(g, k + 1)
    BY <2>10, <2>11
  <2> HIDE DEF Fits
  <2>13. QED
    BY <2>12
<1>5. PICK h : Fits(h, n)
  <2>1. n \in Good
    <3> HIDE DEF Good
    <3>1. QED
      BY <1>1, <1>3, <1>4, EveryNumber
  <2> HIDE DEF Fits
  <2>2. QED
    BY <1>1, <2>1
<1>6. \E flat : Solves(flat)
  <2> DEFINE e(i) == IF i = 1 THEN seqs[i] ELSE h[i - 1] \o seqs[i]
  <2>1. \A i \in 1..n : h[i] = e(i)
    BY <1>5
  <2>2. h \in [1..n -> Seq(T)]
    BY <1>5
  <2> HIDE DEF e
  <2>3. h = [i \in 1..n |-> e(i)]
    BY <2>1, <2>2
  <2>4. Solves(h)
    BY <2>3 DEF e, n
  <2>5. QED
    BY <2>4
<1> DEFINE flat == CHOOSE g : Solves(g)
<1>7. Solves(flat)
  BY <1>6
<1>8. FlattenSeq(seqs) = flat[n]
  BY <1>1 DEF FlattenSeq, n
<1> HIDE DEF flat
<1>9. \A i \in 1..n : flat[i] = IF i = 1 THEN seqs[i] ELSE flat[i - 1] \o seqs[i]
  BY <1>7 DEF n
<1>10. \A i \in 1..n : flat[i] \in Seq(T)
  <2> DEFINE Typed == {k \in Nat : k \in 1..n => flat[k] \in Seq(T)}
  <2>1. 0 \in Typed
    OBVIOUS
  <2>2. ASSUME NEW k \in Nat, k \in Typed PROVE k + 1 \in Typed
    <3>1. SUFFICES ASSUME k + 1 \in 1..n PROVE flat[k + 1] \in Seq(T)
      OBVIOUS
    <3>2. (k + 1) - 1 = k /\ (k + 1 = 1 \/ k \in 1..n)
      BY <1>1, <3>1
    <3>3. QED
      BY <1>1, <1>2, <1>9, <2>2, <3>1, <3>2
  <2> HIDE DEF Typed
  <2>3. \A k \in Nat : k \in Typed
    BY <2>1, <2>2, EveryNumber
  <2>4. QED
    BY <1>1, <2>3 DEF Typed
<1>11. flat \in [1..n -> Seq(T)]
  BY <1>7, <1>10 DEF n
<1>12. Flattens(flat, seqs)
  <2>1. 1 \in 1..n
    BY <1>1
  <2>2. QED
    BY <1>9, <2>1 DEF Flattens, n
<1>13. QED
  BY <1>8, <1>11, <1>12 DEF n

(* Flattening the same pages gives the same list.                          *)
SameUpTo(n, p, q) == \A i \in 1..n : p[i] = q[i]

LEMMA FlattensAlike ==
    ASSUME NEW n \in Nat, NEW p, NEW q, NEW fp, NEW fq,
           Flattens(fp, p), Flattens(fq, q), n <= Len(p), n <= Len(q),
           Len(p) \in Nat, Len(q) \in Nat, SameUpTo(n, p, q)
    PROVE  SameUpTo(n, fp, fq)
<1> DEFINE Good == {i \in Nat : i \in 1..n => fp[i] = fq[i]}
<1>1. 0 \in Good
  OBVIOUS
<1>2. ASSUME NEW i \in Nat, i \in Good PROVE i + 1 \in Good
  <2>1. SUFFICES ASSUME i + 1 \in 1..n PROVE fp[i + 1] = fq[i + 1]
    OBVIOUS
  <2>2. /\ i + 1 \in 1..Len(p) /\ i + 1 \in 1..Len(q) /\ (i + 1) - 1 = i
        /\ i + 1 # 1 => i \in 1..n
    BY <2>1
  <2>3. CASE i + 1 = 1
    <3>1. fp[1] = p[1] /\ fq[1] = q[1] /\ 1 \in 1..n
      BY <2>1, <2>3 DEF Flattens
    <3>2. p[1] = q[1]
      BY <3>1 DEF SameUpTo
    <3>3. QED
      BY <2>3, <3>1, <3>2
  <2>4. CASE i + 1 # 1
    <3>1. fp[i + 1] = fp[i] \o p[i + 1] /\ fq[i + 1] = fq[i] \o q[i + 1]
      BY <2>2, <2>4 DEF Flattens
    <3>2. fp[i] = fq[i] /\ p[i + 1] = q[i + 1]
      BY <1>2, <2>1, <2>2, <2>4 DEF SameUpTo
    <3>3. QED
      BY <3>1, <3>2
  <2>5. QED
    BY <2>3, <2>4
<1> HIDE DEF Good
<1>3. \A i \in Nat : i \in Good
  BY <1>1, <1>2, EveryNumber
<1>4. QED
  BY <1>3 DEF Good, SameUpTo

(* What is on the pages is a list of what the pages have.                  *)
LEMMA FlattenTyped ==
    ASSUME NEW T, NEW seqs \in Seq(Seq(T))
    PROVE  FlattenSeq(seqs) \in Seq(T)
<1>1. CASE seqs = <<>>
  <2>1. FlattenSeq(seqs) = <<>>
    BY <1>1 DEF FlattenSeq
  <2>2. QED
    BY <2>1
<1>2. CASE seqs # <<>>
  <2>1. PICK flat \in [1..Len(seqs) -> Seq(T)] : FlattenSeq(seqs) = flat[Len(seqs)]
    BY <1>2, FlattenUnfolds
  <2>2. Len(seqs) \in 1..Len(seqs)
    BY <1>2, LenProperties, EmptySeq
  <2>3. QED
    BY <2>1, <2>2
<1>3. QED
  BY <1>1, <1>2

(* One page more, and its holders come last.                               *)
LEMMA FlattenAppend ==
    ASSUME NEW T, NEW pages \in Seq(Seq(T)), NEW page \in Seq(T)
    PROVE  FlattenSeq(Append(pages, page)) = FlattenSeq(pages) \o page
<1> DEFINE n == Len(pages)
           more == Append(pages, page)
<1>1. /\ more \in Seq(Seq(T)) /\ more # <<>> /\ Len(more) = n + 1
      /\ \A i \in 1..n : more[i] = pages[i]
      /\ more[n + 1] = page
  BY AppendProperties
<1>2. n \in Nat /\ (pages # <<>> => n # 0)
  BY LenProperties, EmptySeq
<1> HIDE DEF more
<1>3. PICK fm \in [1..Len(more) -> Seq(T)] :
          FlattenSeq(more) = fm[Len(more)] /\ Flattens(fm, more)
  BY <1>1, FlattenUnfolds
<1>4. CASE pages = <<>>
  <2>1. n = 0 /\ FlattenSeq(pages) = <<>>
    BY <1>4 DEF FlattenSeq
  <2>2. FlattenSeq(more) = page
    BY <1>1, <1>3, <2>1 DEF Flattens
  <2>3. QED
    BY <2>1, <2>2, ConcatEmptySeq DEF more
<1>5. CASE pages # <<>>
  <2>1. PICK fp \in [1..n -> Seq(T)] : FlattenSeq(pages) = fp[n] /\ Flattens(fp, pages)
    BY <1>5, FlattenUnfolds
  <2> HIDE DEF n
  <2>2. n <= n /\ n <= n + 1 /\ n + 1 \in Nat /\ n \in 1..n /\ n + 1 \in 1..(n + 1)
        /\ n + 1 # 1 /\ (n + 1) - 1 = n
    BY <1>2, <1>5
  <2>3. \A i \in 1..n : fp[i] = fm[i]
    <3>1. Flattens(fp, pages) /\ Flattens(fm, more)
      BY <1>3, <2>1
    <3>2. n <= Len(pages) /\ n <= Len(more) /\ Len(pages) \in Nat /\ Len(more) \in Nat
      BY <1>1, <1>2, <2>2 DEF n
    <3>3. SameUpTo(n, pages, more)
      BY <1>1 DEF SameUpTo
    <3>4. SameUpTo(n, fp, fm)
      BY <1>2, <3>1, <3>2, <3>3, FlattensAlike
    <3>5. QED
      BY <3>4 DEF SameUpTo
  <2>4. fm[n + 1] = fm[n] \o page
    BY <1>1, <1>3, <2>2 DEF Flattens
  <2>5. QED
    BY <1>1, <1>3, <2>1, <2>2, <2>3, <2>4 DEF more
<1>6. QED
  BY <1>4, <1>5

-----------------------------------------------------------------------------
(* Pages, none over its size.                                              *)
PagesOf(T) == {pages \in Seq(Seq(T)) :
                  \A i \in DOMAIN pages : Len(pages[i]) <= MAX_HOLDERS_PER_PAGE}

(* AppendHolder keeps the size of the pages, and the holder comes last.    *)
LEMMA HolderAppended ==
    ASSUME NEW T, NEW pages \in PagesOf(T), NEW h \in T
    PROVE  /\ AppendHolder(pages, h) \in PagesOf(T)
           /\ FlattenSeq(AppendHolder(pages, h)) = Append(FlattenSeq(pages), h)
<1>1. /\ pages \in Seq(Seq(T))
      /\ \A i \in DOMAIN pages : Len(pages[i]) <= MAX_HOLDERS_PER_PAGE
      /\ FlattenSeq(pages) \in Seq(T)
      /\ MAX_HOLDERS_PER_PAGE \in Nat /\ MAX_HOLDERS_PER_PAGE > 0
  BY FlattenTyped, PlayerTokenAssumption DEF PagesOf
<1>2. CASE pages = <<>> \/ Len(Last(pages)) >= MAX_HOLDERS_PER_PAGE
  <2> DEFINE page == <<h>>
             more == Append(pages, page)
  <2>1. page \in Seq(T) /\ Len(page) = 1
    OBVIOUS
  <2>2. AppendHolder(pages, h) = more
    BY <1>2 DEF AppendHolder
  <2> HIDE DEF page
  <2>3. /\ more \in Seq(Seq(T)) /\ Len(more) = Len(pages) + 1
        /\ \A i \in 1..Len(pages) : more[i] = pages[i]
        /\ more[Len(pages) + 1] = page
        /\ Len(pages) \in Nat /\ DOMAIN pages = 1..Len(pages)
        /\ DOMAIN more = 1..(Len(pages) + 1)
    BY <1>1, <2>1, AppendProperties, LenProperties
  <2>4. FlattenSeq(more) = FlattenSeq(pages) \o page
    BY <1>1, <2>1, FlattenAppend
  <2>5. FlattenSeq(more) = Append(FlattenSeq(pages), h)
    BY <1>1, <2>4, AppendIsConcat DEF page
  <2> HIDE DEF more
  <2>6. \A i \in DOMAIN more : Len(more[i]) <= MAX_HOLDERS_PER_PAGE
    <3>1. \A i \in 1..(Len(pages) + 1) : i \in 1..Len(pages) \/ i = Len(pages) + 1
      BY <2>3
    <3>2. 1 <= MAX_HOLDERS_PER_PAGE
      BY <1>1
    <3>3. QED
      BY <1>1, <2>1, <2>3, <3>1, <3>2
  <2>7. QED
    BY <2>2, <2>3, <2>5, <2>6 DEF PagesOf
<1>3. CASE pages # <<>> /\ ~(Len(Last(pages)) >= MAX_HOLDERS_PER_PAGE)
  <2>1. PICK front \in Seq(Seq(T)), last \in Seq(T) : pages = Append(front, last)
    BY <1>1, <1>3, SequenceEmptyOrAppend
  <2> DEFINE n == Len(front) + 1
             page == Append(last, h)
             more == Append(front, page)
  <2>2. /\ Len(front) \in Nat /\ DOMAIN front = 1..Len(front)
        /\ Len(pages) = n /\ DOMAIN pages = 1..n
        /\ pages[n] = last
        /\ \A i \in 1..Len(front) : pages[i] = front[i]
    BY <1>1, <2>1, AppendProperties, LenProperties
  <2>3. page \in Seq(T) /\ Len(page) = Len(last) + 1
    BY AppendProperties
  <2> HIDE DEF page
  <2>4. /\ more \in Seq(Seq(T)) /\ Len(more) = n /\ DOMAIN more = 1..n
        /\ more[n] = page
        /\ \A i \in 1..Len(front) : more[i] = front[i]
    BY <2>3, AppendProperties, LenProperties
  <2>5. \A i \in 1..n : i = n \/ i \in 1..Len(front)
    BY <2>2
  <2>6. Len(last) < MAX_HOLDERS_PER_PAGE
    <3>1. Len(last) \in Nat
      BY LenProperties
    <3>2. Last(pages) = last
      BY <2>2 DEF Last
    <3>3. QED
      BY <1>1, <1>3, <3>1, <3>2
  <2>7. AppendHolder(pages, h) = [pages EXCEPT ![n] = page]
    BY <1>3, <2>2 DEF AppendHolder, page
  <2> DEFINE new == [pages EXCEPT ![n] = page]
  <2>8. /\ new \in Seq(Seq(T)) /\ Len(new) = n /\ DOMAIN new = 1..n
        /\ \A i \in 1..n : new[i] = IF i = n THEN page ELSE pages[i]
    <3>1. n \in 1..Len(pages)
      BY <2>2
    <3>2. new \in Seq(Seq(T)) /\ Len(new) = Len(pages)
      BY <1>1, <2>3, <3>1, ExceptSeq
    <3>3. DOMAIN new = 1..n
      BY <2>2
    <3>4. \A i \in 1..n : new[i] = IF i = n THEN page ELSE pages[i]
      BY <2>2
    <3>5. QED
      BY <2>2, <3>2, <3>3, <3>4
  <2> HIDE DEF new
  <2>9. new = more
    <3>1. \A i \in 1..n : new[i] = more[i]
      <4>1. n \notin 1..Len(front)
        BY <2>2
      <4>2. QED
        BY <2>2, <2>4, <2>5, <2>8, <4>1
    <3> HIDE DEF more, n
    <3>2. QED
      BY <2>4, <2>8, <3>1, SeqEqual
  <2>10. FlattenSeq(more) = FlattenSeq(front) \o page
    BY <2>3, FlattenAppend
  <2>11. FlattenSeq(pages) = FlattenSeq(front) \o last /\ FlattenSeq(front) \in Seq(T)
    BY <2>1, FlattenAppend, FlattenTyped
  <2>12. page = last \o <<h>> /\ <<h>> \in Seq(T)
    BY AppendIsConcat DEF page
  <2>13. FlattenSeq(more) = (FlattenSeq(front) \o last) \o <<h>>
    BY <2>10, <2>11, <2>12, ConcatAssociative
  <2>14. FlattenSeq(more) = Append(FlattenSeq(pages), h)
    BY <1>1, <2>11, <2>13, AppendIsConcat
  <2> HIDE DEF more, n
  <2>15. \A i \in DOMAIN more : Len(more[i]) <= MAX_HOLDERS_PER_PAGE
    <3>1. Len(last) \in Nat /\ Len(page) <= MAX_HOLDERS_PER_PAGE
      BY <1>1, <2>3, <2>6, LenProperties
    <3>2. \A i \in 1..n : i # n => more[i] = pages[i]
      BY <2>2, <2>4, <2>5
    <3>3. QED
      BY <1>1, <2>2, <2>4, <3>1, <3>2
  <2>16. QED
    BY <2>4, <2>7, <2>9, <2>14, <2>15 DEF PagesOf, new
<1>4. QED
  BY <1>2, <1>3

-----------------------------------------------------------------------------
(* The greatest of some numbers is one of them, and no less than any.      *)
LEMMA MaxIsThere ==
    ASSUME NEW n \in Nat, NEW S \in SUBSET (1..n), S # {}
    PROVE  Max(S) \in S /\ \A i \in S : i <= Max(S)
<1> DEFINE Left == {n - i : i \in S}
<1>1. Left \subseteq Nat /\ Left # {}
  <2>1. \A i \in S : n - i \in Nat
    OBVIOUS
  <2>2. QED
    BY <2>1
<1>2. PICK k \in Left : \A j \in Left : k <= j
  <2> HIDE DEF Left
  <2>1. QED
    BY <1>1, FirstOf
<1>3. PICK m \in S : k = n - m
  BY <1>2
<1>4. \A i \in S : m >= i
  <2>1. SUFFICES ASSUME NEW i \in S PROVE m >= i
    OBVIOUS
  <2>2. n - i \in Left /\ i \in Int /\ m \in Int
    OBVIOUS
  <2>3. n - m <= n - i
    BY <1>2, <1>3, <2>2
  <2>4. QED
    BY <2>2, <2>3
<1>5. Max(S) \in S /\ \A i \in S : Max(S) >= i
  BY <1>3, <1>4 DEF Max
<1>6. QED
  BY <1>5

(* So do all the holders that a migration step appends.                    *)
LEMMA HoldersAppended ==
    ASSUME NEW T, NEW pages \in PagesOf(T), NEW list \in Seq(T)
    PROVE  /\ FoldLeft(AppendHolder, pages, list) \in PagesOf(T)
           /\ FlattenSeq(FoldLeft(AppendHolder, pages, list)) = FlattenSeq(pages) \o list
<1> DEFINE n == Len(list)
           D == 1..n
           V == PagesOf(T)
           choose == [s \in SUBSET D |-> Max(s)]
           step == [p \in D \X V |-> AppendHolder(p[2], list[p[1]])]
           Folds(h) == h = [s \in SUBSET D |->
                               IF s = {} THEN pages
                               ELSE AppendHolder(h[s \ {Max(s)}], list[Max(s)])]
<1>1. n \in Nat /\ DOMAIN list = D /\ \A i \in D : list[i] \in T
  BY LenProperties, ElementOfSeq
<1>2. IsFiniteSet(D)
  <2> HIDE DEF n
  <2>1. QED
    BY <1>1, FS_Interval
<1>3. \A s \in SUBSET D : s # {} => Max(s) \in s
  BY <1>1, MaxIsThere
<1>4. Chooses(choose, D)
  BY <1>3 DEF Chooses
<1> HIDE DEF n
<1>5. step \in [D \X V -> V] /\ \A i \in D, r \in V : step[<<i, r>>] = AppendHolder(r, list[i])
  <2>1. \A i \in D, r \in V : AppendHolder(r, list[i]) \in V
    BY <1>1, HolderAppended
  <2> HIDE DEF V, D
  <2>2. QED
    BY <2>1
<1>6. PICK it \in [SUBSET D -> V] : IsFold(it, D, pages, choose, step)
  <2>1. pages \in V
    OBVIOUS
  <2> HIDE DEF D, V, choose, step
  <2>2. QED
    BY <1>2, <1>4, <1>5, <2>1, FoldIsDefined
<1>7. /\ it[{}] = pages
      /\ \A s \in SUBSET D : s # {} => it[s] = AppendHolder(it[s \ {Max(s)}], list[Max(s)])
  <2>1. \A s \in SUBSET D : s # {} => /\ choose[s] = Max(s)
                                     /\ Max(s) \in D
                                     /\ it[s \ {Max(s)}] \in V
    BY <1>3
  <2> HIDE DEF D, V, choose, step
  <2>2. QED
    BY <1>5, <1>6, <2>1 DEF IsFold
<1> HIDE DEF choose, step, V
<1>8. \E h : Folds(h)
  <2> DEFINE e(s) == IF s = {} THEN pages ELSE AppendHolder(it[s \ {Max(s)}], list[Max(s)])
  <2>1. \A s \in SUBSET D : it[s] = e(s)
    BY <1>7
  <2> HIDE DEF e
  <2>2. it = [s \in SUBSET D |-> e(s)]
    BY <1>6, <2>1
  <2>3. Folds(it)
    BY <2>2 DEF e
  <2>4. QED
    BY <2>3
<1> DEFINE fold == CHOOSE h : Folds(h)
<1>9. Folds(fold)
  BY <1>8
<1>10. FoldLeft(AppendHolder, pages, list) = fold[D]
  BY <1>1 DEF FoldLeft, MapThenFoldSet
<1> HIDE DEF fold
<1>11. /\ DOMAIN fold = SUBSET D /\ fold[{}] = pages
       /\ \A s \in SUBSET D : s # {} =>
             fold[s] = AppendHolder(fold[s \ {Max(s)}], list[Max(s)])
  BY <1>9
<1>12. \A s \in SUBSET D : fold[s] = it[s]
  <2> DEFINE Good == {s \in SUBSET D : fold[s] = it[s]}
  <2>1. {} \in Good
    BY <1>7, <1>11
  <2>2. \A s \in SUBSET D : s # {} => \E x \in s : s \ {x} \in Good => s \in Good
    BY <1>3, <1>7, <1>11
  <2> HIDE DEF Good, D
  <2>3. \A s \in SUBSET D : s \in Good
    BY <1>2, <2>1, <2>2, EverySubset
  <2>4. QED
    BY <2>3 DEF Good
<1> DEFINE Reached == {i \in Nat : i \in 0..n =>
                          /\ it[1..i] \in V
                          /\ FlattenSeq(it[1..i]) = FlattenSeq(pages) \o SubSeq(list, 1, i)}
<1>13. FlattenSeq(pages) \in Seq(T)
  BY FlattenTyped DEF PagesOf
<1>14. 0 \in Reached
  <2>1. 1..0 = {} /\ SubSeq(list, 1, 0) = <<>>
    BY SubSeqEmpty
  <2>2. QED
    BY <1>7, <1>13, <2>1, ConcatEmptySeq DEF V
<1>15. ASSUME NEW i \in Nat, i \in Reached PROVE i + 1 \in Reached
  <2>1. SUFFICES ASSUME i + 1 \in 0..n
                 PROVE  /\ it[1..(i + 1)] \in V
                        /\ FlattenSeq(it[1..(i + 1)])
                               = FlattenSeq(pages) \o SubSeq(list, 1, i + 1)
    <3>1. i + 1 \in Nat
      OBVIOUS
    <3>2. QED
      BY <3>1
  <2>2. /\ i \in 0..n /\ i + 1 \in 1..n /\ (i + 1) - 1 = i /\ 1 \in 1..n
        /\ 1..(i + 1) \in SUBSET D /\ 1..(i + 1) # {}
        /\ (1..(i + 1)) \ {i + 1} = 1..i
    <3>1. i \in 0..n /\ i + 1 \in 1..n /\ (i + 1) - 1 = i /\ 1 \in 1..n
      BY <1>1, <2>1
    <3>2. \A j \in 1..(i + 1) : j \in D
      BY <1>1, <3>1
    <3>3. i + 1 \in 1..(i + 1)
      OBVIOUS
    <3>4. (1..(i + 1)) \ {i + 1} = 1..i
      OBVIOUS
    <3>5. QED
      BY <3>1, <3>2, <3>3, <3>4
  <2>3. Max(1..(i + 1)) = i + 1
    <3>1. i + 1 \in 1..(i + 1)
      OBVIOUS
    <3>2. Max(1..(i + 1)) \in 1..(i + 1) /\ \A j \in 1..(i + 1) : j <= Max(1..(i + 1))
      BY <1>1, <2>2, MaxIsThere
    <3>3. QED
      BY <3>1, <3>2
  <2>4. it[1..(i + 1)] = AppendHolder(it[1..i], list[i + 1])
    BY <1>7, <2>2, <2>3
  <2> DEFINE before == SubSeq(list, 1, i)
             so == it[1..i]
  <2>5. /\ so \in PagesOf(T) /\ FlattenSeq(so) = FlattenSeq(pages) \o before
        /\ list[i + 1] \in T
    BY <1>1, <1>15, <2>2 DEF V
  <2>6. before \in Seq(T)
    <3>1. \A j \in 1..i : list[j] \in T
      BY <1>1, <2>2
    <3>2. QED
      BY <3>1, SubSeqProperties
  <2>7. SubSeq(list, 1, i + 1) = before \o <<list[i + 1]>>
    <3>1. 1 \in 1..Len(list) /\ i + 1 \in 1..Len(list)
      BY <2>2 DEF n
    <3>2. SubSeq(list, 1, i + 1) = SubSeq(list, 1, (i + 1) - 1) \o <<list[i + 1]>>
      BY <3>1, SubSeqRecursiveSecond
    <3>3. QED
      BY <2>2, <3>2
  <2> HIDE DEF before, so
  <2>8. /\ AppendHolder(so, list[i + 1]) \in PagesOf(T)
        /\ FlattenSeq(AppendHolder(so, list[i + 1])) = Append(FlattenSeq(pages) \o before, list[i + 1])
    BY <2>5, HolderAppended
  <2>9. Append(FlattenSeq(pages) \o before, list[i + 1])
           = FlattenSeq(pages) \o (before \o <<list[i + 1]>>)
    <3> DEFINE a == FlattenSeq(pages)
               x == list[i + 1]
               one == <<x>>
    <3>1. a \in Seq(T) /\ x \in T /\ one \in Seq(T)
      BY <1>13, <2>5
    <3> HIDE DEF a, x
    <3>2. a \o before \in Seq(T)
      BY <2>6, <3>1, ConcatProperties
    <3>3. Append(a \o before, x) = (a \o before) \o one
      BY <3>1, <3>2, AppendIsConcat
    <3> HIDE DEF one
    <3>4. (a \o before) \o one = a \o (before \o one)
      BY <2>6, <3>1, ConcatAssociative
    <3>5. QED
      BY <3>3, <3>4 DEF a, x, one
  <2>10. QED
    BY <2>4, <2>7, <2>8, <2>9 DEF V, so
<1>16. n \in Reached
  <2> HIDE DEF Reached
  <2>1. \A i \in Nat : i \in Reached
    BY <1>14, <1>15, EveryNumber
  <2>2. QED
    BY <1>1, <2>1
<1>17. SubSeq(list, 1, n) = list
  BY SubSeqFull DEF n
<1>18. fold[D] = it[D] /\ n \in 0..n
  BY <1>1, <1>12
<1>19. QED
  BY <1>10, <1>16, <1>17, <1>18 DEF V

(* A migration step takes a piece out of the middle of the old list.       *)
LEMMA PieceMoved ==
    ASSUME NEW T, NEW flat \in Seq(T), NEW a \in Seq(T), NEW b \in Seq(T), NEW c \in Seq(T)
    PROVE  /\ ToSet((flat \o b) \o (a \o c)) = ToSet(flat \o (a \o (b \o c)))
           /\ IsInjective(flat \o (a \o (b \o c))) => IsInjective((flat \o b) \o (a \o c))
<1>1. /\ flat \o b \in Seq(T) /\ a \o c \in Seq(T) /\ b \o c \in Seq(T)
      /\ a \o (b \o c) \in Seq(T)
  BY ConcatProperties
<1> DEFINE fb == flat \o b
           ac == a \o c
           bc == b \o c
           abc == a \o bc
<1>2. /\ ToSet(fb) = ToSet(flat) \cup ToSet(b)
      /\ ToSet(ac) = ToSet(a) \cup ToSet(c)
      /\ ToSet(bc) = ToSet(b) \cup ToSet(c)
      /\ ToSet(abc) = ToSet(a) \cup ToSet(bc)
      /\ ToSet(fb \o ac) = ToSet(fb) \cup ToSet(ac)
      /\ ToSet(flat \o abc) = ToSet(flat) \cup ToSet(abc)
  <2>1. fb \in Seq(T) /\ ac \in Seq(T) /\ bc \in Seq(T) /\ abc \in Seq(T)
    BY <1>1
  <2>2. /\ ToSet(fb) = ToSet(flat) \cup ToSet(b)
        /\ ToSet(ac) = ToSet(a) \cup ToSet(c)
        /\ ToSet(bc) = ToSet(b) \cup ToSet(c)
    BY ConcatListsOnce
  <2> HIDE DEF fb, ac, bc
  <2>3. ToSet(abc) = ToSet(a) \cup ToSet(bc)
    BY <2>1, ConcatListsOnce
  <2> HIDE DEF abc
  <2>4. QED
    BY <2>1, <2>2, <2>3, ConcatListsOnce
<1>3. /\ IsInjective(flat \o abc) => IsInjective(flat) /\ IsInjective(abc)
                                       /\ ToSet(flat) \cap ToSet(abc) = {}
      /\ IsInjective(abc) => IsInjective(a) /\ IsInjective(bc) /\ ToSet(a) \cap ToSet(bc) = {}
      /\ IsInjective(bc) => IsInjective(b) /\ IsInjective(c) /\ ToSet(b) \cap ToSet(c) = {}
      /\ IsInjective(flat) /\ IsInjective(b) /\ ToSet(flat) \cap ToSet(b) = {} => IsInjective(fb)
      /\ IsInjective(a) /\ IsInjective(c) /\ ToSet(a) \cap ToSet(c) = {} => IsInjective(ac)
      /\ IsInjective(fb) /\ IsInjective(ac) /\ ToSet(fb) \cap ToSet(ac) = {}
            => IsInjective(fb \o ac)
  <2>1. fb \in Seq(T) /\ ac \in Seq(T) /\ bc \in Seq(T) /\ abc \in Seq(T)
    BY <1>1
  <2>2. /\ IsInjective(bc) => IsInjective(b) /\ IsInjective(c) /\ ToSet(b) \cap ToSet(c) = {}
        /\ IsInjective(flat) /\ IsInjective(b) /\ ToSet(flat) \cap ToSet(b) = {} => IsInjective(fb)
        /\ IsInjective(a) /\ IsInjective(c) /\ ToSet(a) \cap ToSet(c) = {} => IsInjective(ac)
    BY ConcatListsOnce
  <2> HIDE DEF fb, ac, bc
  <2>3. IsInjective(abc) => IsInjective(a) /\ IsInjective(bc) /\ ToSet(a) \cap ToSet(bc) = {}
    BY <2>1, ConcatListsOnce
  <2> HIDE DEF abc
  <2>4. /\ IsInjective(flat \o abc) => IsInjective(flat) /\ IsInjective(abc)
                                         /\ ToSet(flat) \cap ToSet(abc) = {}
        /\ IsInjective(fb) /\ IsInjective(ac) /\ ToSet(fb) \cap ToSet(ac) = {}
              => IsInjective(fb \o ac)
    BY <2>1, ConcatListsOnce
  <2>5. QED
    BY <2>2, <2>3, <2>4
<1> HIDE DEF fb, ac, bc, abc
<1>4. ToSet(fb \o ac) = ToSet(flat \o abc)
  BY <1>2
<1>5. IsInjective(flat \o abc) => IsInjective(fb \o ac)
  BY <1>2, <1>3
<1>6. QED
  BY <1>4, <1>5 DEF fb, ac, bc, abc

-----------------------------------------------------------------------------
(* What the calls of the player token contract preserve.                   *)
HolderTypes ==
    /\ meta \in [supply : {0, Supply}, sold : 0..Supply, distributed : Nat]
    /\ balance \in [TokenHolders -> 0..Supply]
    /\ holderPages \in Seq(Seq(TokenHolders))
    /\ legacyHolders \in Seq(TokenHolders)

(* Nothing is sold or paid out before tokens are issued.                   *)
NothingBeforeIssue == meta.supply = 0 => meta.sold = 0 /\ meta.distributed = 0

(* HoldersListedOnce, in terms of the list and not of its length.          *)
Holdings ==
    /\ HolderTypes
    /\ NothingBeforeIssue
    /\ meta.sold = SumFunction(balance)
    /\ holderPages \in PagesOf(TokenHolders)
    /\ IsInjective(Listed)
    /\ \A h \in TokenHolders : balance[h] > 0 <=> h \in ToSet(Listed)

(* The pages and the old list are lists of holders.                        *)
LEMMA HoldingsList ==
    ASSUME HolderTypes
    PROVE  /\ FlattenSeq(holderPages) \in Seq(TokenHolders)
           /\ Listed \in Seq(TokenHolders)
<1>1. FlattenSeq(holderPages) \in Seq(TokenHolders)
  BY FlattenTyped DEF HolderTypes
<1>2. QED
  BY <1>1, ConcatProperties DEF HolderTypes, Listed

(* HoldersListedOnce follows.                                              *)
LEMMA HoldingsMean ==
    ASSUME Holdings
    PROVE  HoldersListedOnce
<1>1. HolderTypes /\ Listed \in Seq(TokenHolders)
  BY HoldingsList DEF Holdings
<1>2. Cardinality(ToSet(Listed)) = Len(Listed) <=> IsInjective(Listed)
  BY <1>1, ListedOnceCounts
<1>3. \A i \in DOMAIN holderPages : Len(holderPages[i]) <= MAX_HOLDERS_PER_PAGE
  BY DEF Holdings, PagesOf
<1>4. meta.sold = SumFunction(balance) /\ IsInjective(Listed)
      /\ \A h \in TokenHolders : balance[h] > 0 <=> h \in ToSet(Listed)
  BY DEF Holdings
<1>5. QED
  BY <1>2, <1>3, <1>4 DEF HoldersListedOnce

(* A new contract and one with an old list start with Holdings.            *)
LEMMA HoldingsStart ==
    ASSUME TokenInit
    PROVE  Holdings
<1>1. PICK list \in {<<>>, Legacy} :
        /\ legacyHolders = list
        /\ meta = [supply |-> IF list = <<>> THEN 0 ELSE Supply,
                   sold |-> Len(list), distributed |-> 0]
        /\ balance = [h \in TokenHolders |-> IF h \in ToSet(list) THEN 1 ELSE 0]
  BY DEF TokenInit
<1>2. /\ list \in Seq(TokenHolders) /\ IsInjective(list) /\ Len(list) \in 0..Supply
      /\ Supply \in Nat /\ Supply > 0 /\ IsFiniteSet(TokenHolders)
  <2>1. Len(Legacy) \in Nat
    BY PlayerTokenAssumption, LenProperties
  <2>2. <<>> \in Seq(TokenHolders) /\ Len(<<>>) = 0 /\ IsInjective(<<>>)
    BY DEF IsInjective
  <2>3. /\ Legacy \in Seq(TokenHolders) /\ IsInjective(Legacy) /\ Len(Legacy) <= Supply
        /\ Supply \in Nat /\ Supply > 0 /\ IsFiniteSet(TokenHolders)
    BY PlayerTokenAssumption
  <2>4. CASE list = <<>>
    BY <2>2, <2>3, <2>4
  <2>5. CASE list = Legacy
    BY <2>1, <2>3, <2>5
  <2>6. QED
    BY <1>1, <2>4, <2>5
<1>3. holderPages = <<>>
  BY DEF TokenInit
<1>4. Listed = list
  <2>1. FlattenSeq(holderPages) = <<>>
    BY <1>3 DEF FlattenSeq
  <2>2. QED
    BY <1>1, <1>2, <2>1, ConcatEmptySeq DEF Listed
<1>5. HolderTypes
  <2>1. meta \in [supply : {0, Supply}, sold : 0..Supply, distributed : Nat]
    BY <1>1, <1>2
  <2>2. balance \in [TokenHolders -> 0..Supply]
    BY <1>1, <1>2
  <2>3. QED
    BY <1>1, <1>2, <1>3, <2>1, <2>2 DEF HolderTypes
<1>6. NothingBeforeIssue
  <2>1. list = <<>> => Len(list) = 0
    OBVIOUS
  <2>2. QED
    BY <1>1, <1>2, <2>1 DEF NothingBeforeIssue
<1>7. \A h \in TokenHolders : balance[h] > 0 <=> h \in ToSet(Listed)
  BY <1>1, <1>4
<1>8. meta.sold = SumFunction(balance)
  <2>1. SumFunction(balance) = Cardinality(TokenHolders \cap ToSet(list))
    BY <1>1, <1>2, SumCounts
  <2>2. TokenHolders \cap ToSet(list) = ToSet(list)
    BY <1>2, LenProperties, ElementOfSeq DEF ToSet
  <2>3. Cardinality(ToSet(list)) = Len(list)
    BY <1>2, ListedOnceCounts
  <2>4. QED
    BY <1>1, <2>1, <2>2, <2>3
<1>9. holderPages \in PagesOf(TokenHolders)
  BY <1>3 DEF PagesOf
<1>10. QED
  BY <1>2, <1>4, <1>5, <1>6, <1>7, <1>8, <1>9 DEF Holdings

(* Tokens are issued where none are held.                                  *)
LEMMA IssueKeepsHoldings ==
    ASSUME Holdings, issue_tokens
    PROVE  Holdings'
<1>1. /\ meta.supply = 0 /\ meta.sold = 0
      /\ meta' = [supply |-> Supply, sold |-> 0, distributed |-> 0]
      /\ UNCHANGED <<balance, holderPages, legacyHolders>>
  BY DEF issue_tokens, Holdings, NothingBeforeIssue
<1>2. Supply \in Nat /\ Supply > 0
  BY PlayerTokenAssumption
<1>3. Listed' = Listed
  BY <1>1 DEF Listed
<1>4. HolderTypes'
  BY <1>1, <1>2 DEF Holdings, HolderTypes
<1>5. NothingBeforeIssue'
  BY <1>1, <1>2 DEF NothingBeforeIssue
<1>6. meta'.sold = SumFunction(balance')
  <2>1. meta.sold = SumFunction(balance) /\ meta'.sold = 0
    BY <1>1 DEF Holdings
  <2>2. QED
    BY <1>1, <2>1
<1>7. QED
  BY <1>1, <1>3, <1>4, <1>5, <1>6 DEF Holdings

(* The next holder, on the pages and ahead of the old list.                *)
LEMMA HolderInserted ==
    ASSUME NEW T, NEW flat \in Seq(T), NEW old \in Seq(T), NEW h \in T,
           IsInjective(flat \o old), h \notin ToSet(flat \o old)
    PROVE  /\ IsInjective(Append(flat, h) \o old)
           /\ ToSet(Append(flat, h) \o old) = ToSet(flat \o old) \cup {h}
<1> DEFINE one == <<h>>
           more == flat \o one
<1>1. one \in Seq(T) /\ ToSet(one) = {h} /\ IsInjective(one)
  BY DEF ToSet, IsInjective
<1>2. Append(flat, h) = more
  BY AppendIsConcat
<1> HIDE DEF one
<1>3. more \in Seq(T)
  BY <1>1, ConcatProperties
<1>4. /\ ToSet(more) = ToSet(flat) \cup {h}
      /\ IsInjective(more) <=> IsInjective(flat) /\ h \notin ToSet(flat)
  BY <1>1, ConcatListsOnce
<1> HIDE DEF more
<1>5. /\ ToSet(more \o old) = ToSet(more) \cup ToSet(old)
      /\ IsInjective(more) /\ IsInjective(old) /\ ToSet(more) \cap ToSet(old) = {}
            => IsInjective(more \o old)
  BY <1>3, ConcatListsOnce
<1>6. /\ ToSet(flat \o old) = ToSet(flat) \cup ToSet(old)
      /\ IsInjective(flat) /\ IsInjective(old) /\ ToSet(flat) \cap ToSet(old) = {}
  BY ConcatListsOnce
<1>7. QED
  BY <1>2, <1>4, <1>5, <1>6

(* A purchase adds to the sum and lists who had nothing before.            *)
LEMMA BuyKeepsHoldings ==
    ASSUME Holdings, NEW h \in TokenHolders, NEW amount \in Amounts, buy_token(h, amount)
    PROVE  Holdings'
<1>1. /\ meta.supply > 0 /\ amount > 0 /\ amount <= meta.supply - meta.sold
      /\ balance' = [balance EXCEPT ![h] = @ + amount]
      /\ holderPages' = IF balance[h] = 0 THEN AppendHolder(holderPages, h) ELSE holderPages
      /\ meta' = [meta EXCEPT !.sold = @ + amount]
      /\ legacyHolders' = legacyHolders
  BY DEF buy_token
<1>2. /\ amount \in Nat /\ Supply \in Nat /\ Supply > 0 /\ IsFiniteSet(TokenHolders)
  BY PlayerTokenAssumption
<1>3. /\ HolderTypes /\ meta.sold = SumFunction(balance)
      /\ meta \in [supply : {0, Supply}, sold : 0..Supply, distributed : Nat]
      /\ balance \in [TokenHolders -> 0..Supply] /\ balance \in [TokenHolders -> Nat]
      /\ meta.supply \in {0, Supply} /\ meta.sold \in 0..Supply /\ meta.distributed \in Nat
  BY <1>2 DEF Holdings, HolderTypes
<1>4. meta.supply = Supply /\ meta.sold + amount \in 0..Supply
  BY <1>1, <1>2, <1>3
<1>5. balance[h] \in Nat /\ balance[h] <= meta.sold
  BY <1>2, <1>3, PartOfSum
<1>6. /\ balance'[h] = balance[h] + amount /\ \A g \in TokenHolders \ {h} : balance'[g] = balance[g]
      /\ DOMAIN balance' = TokenHolders /\ balance' = [g \in TokenHolders |-> balance'[g]]
  BY <1>1, <1>3
<1>7. balance'[h] \in 0..Supply /\ balance'[h] > 0
  BY <1>1, <1>2, <1>3, <1>4, <1>5, <1>6
<1>8. balance' \in [TokenHolders -> 0..Supply] /\ balance' \in [TokenHolders -> Nat]
  <2>1. \A g \in TokenHolders : balance'[g] \in 0..Supply /\ balance'[g] \in Nat
    BY <1>2, <1>3, <1>6, <1>7
  <2>2. QED
    BY <1>6, <2>1
<1>9. /\ meta' \in [supply : {0, Supply}, sold : 0..Supply, distributed : Nat]
      /\ meta'.sold = meta.sold + amount /\ meta'.supply = Supply
  BY <1>1, <1>3, <1>4
<1>10. meta'.sold = SumFunction(balance')
  <2>1. SumFunction(balance') = SumFunction(balance) + amount
    BY <1>2, <1>3, <1>6, <1>8, SumChanges
  <2>2. QED
    BY <1>3, <1>9, <2>1
<1> DEFINE flat == FlattenSeq(holderPages)
<1>11. /\ holderPages \in PagesOf(TokenHolders) /\ IsInjective(Listed)
       /\ flat \in Seq(TokenHolders) /\ legacyHolders \in Seq(TokenHolders)
       /\ Listed = flat \o legacyHolders
       /\ \A g \in TokenHolders : balance[g] > 0 <=> g \in ToSet(Listed)
  BY <1>3, HoldingsList DEF Holdings, HolderTypes, Listed
<1>12. /\ holderPages' \in PagesOf(TokenHolders)
       /\ IsInjective(Listed')
       /\ ToSet(Listed') = ToSet(Listed) \cup {h}
  <2>1. CASE balance[h] = 0
    <3>1. /\ holderPages' \in PagesOf(TokenHolders)
          /\ FlattenSeq(holderPages') = Append(flat, h)
      BY <1>1, <1>11, <2>1, HolderAppended
    <3>2. Listed' = Append(flat, h) \o legacyHolders
      BY <1>1, <3>1 DEF Listed
    <3>3. h \notin ToSet(Listed)
      BY <1>11, <2>1
    <3> HIDE DEF flat
    <3>4. QED
      BY <1>11, <3>1, <3>2, <3>3, HolderInserted
  <2>2. CASE balance[h] # 0
    <3>1. holderPages' = holderPages /\ Listed' = Listed
      BY <1>1, <2>2 DEF Listed
    <3>2. h \in ToSet(Listed)
      BY <1>5, <1>11, <2>2
    <3>3. QED
      BY <1>11, <3>1, <3>2
  <2>3. QED
    BY <2>1, <2>2
<1>13. \A g \in TokenHolders : balance'[g] > 0 <=> g \in ToSet(Listed')
  BY <1>6, <1>7, <1>11, <1>12
<1>14. HolderTypes'
  BY <1>1, <1>8, <1>9, <1>11, <1>12 DEF HolderTypes, PagesOf
<1>15. NothingBeforeIssue'
  BY <1>2, <1>9 DEF NothingBeforeIssue
<1>16. QED
  BY <1>10, <1>12, <1>13, <1>14, <1>15 DEF Holdings

(* A migration step moves its piece of the old list to the pages.          *)
LEMMA MigrationKeepsHoldings ==
    ASSUME Holdings, NEW start \in 0..Len(Legacy), NEW count \in 0..Len(Legacy),
           migrate_player_step(start, count)
    PROVE  Holdings'
<1> DEFINE n == Len(legacyHolders)
           end == Min({n, start + count})
           a == SubSeq(legacyHolders, 1, start)
           b == SubSeq(legacyHolders, start + 1, end)
           c == SubSeq(legacyHolders, end + 1, n)
           flat == FlattenSeq(holderPages)
<1>1. /\ start < n
      /\ holderPages' = FoldLeft(AppendHolder, holderPages, b)
      /\ legacyHolders' = a \o c
      /\ UNCHANGED <<meta, balance>>
  BY DEF migrate_player_step, Rest
<1>2. /\ HolderTypes /\ holderPages \in PagesOf(TokenHolders)
      /\ legacyHolders \in Seq(TokenHolders)
      /\ flat \in Seq(TokenHolders)
      /\ Listed = flat \o legacyHolders
      /\ IsInjective(Listed)
  BY HoldingsList DEF Holdings, HolderTypes, Listed
<1>3. n \in Nat /\ start \in Nat /\ count \in Nat
  <2>1. Len(Legacy) \in Nat
    BY PlayerTokenAssumption, LenProperties
  <2>2. QED
    BY <1>2, <2>1, LenProperties
<1>4. end \in start..n
  <2>1. PICK m \in {n, start + count} : m <= n /\ m <= start + count
    <3> HIDE DEF n
    <3>1. QED
      BY <1>3
  <2>2. end \in {n, start + count} /\ end <= n
    <3> HIDE DEF n
    <3>1. \E x \in {n, start + count} : \A y \in {n, start + count} : x <= y
      BY <1>3, <2>1
    <3>2. end \in {n, start + count} /\ \A y \in {n, start + count} : end <= y
      BY <3>1 DEF Min
    <3>3. QED
      BY <3>2
  <2> HIDE DEF n, end
  <2>3. QED
    BY <1>1, <1>3, <2>2
<1>5. legacyHolders = a \o (b \o c)
  <2> HIDE DEF end
  <2>1. /\ start + 1 \in 1..(n + 1) /\ end \in ((start + 1) - 1)..n /\ n \in end..n
        /\ 1 \in 1..(n + 1) /\ start \in (1 - 1)..n /\ n \in start..n
    BY <1>1, <1>3, <1>4
  <2>2. b \o c = SubSeq(legacyHolders, start + 1, n)
    BY <1>2, <2>1, ConcatAdjacentSubSeq
  <2>3. a \o SubSeq(legacyHolders, start + 1, n) = SubSeq(legacyHolders, 1, n)
    BY <1>2, <2>1, ConcatAdjacentSubSeq
  <2>4. SubSeq(legacyHolders, 1, n) = legacyHolders
    BY <1>2, SubSeqFull
  <2>5. QED
    BY <2>2, <2>3, <2>4
<1>6. a \in Seq(TokenHolders) /\ b \in Seq(TokenHolders) /\ c \in Seq(TokenHolders)
  <2>1. \A i \in 1..n : legacyHolders[i] \in TokenHolders
    BY <1>2, ElementOfSeq
  <2> HIDE DEF n, end
  <2>2. /\ 1 \in Int /\ start \in Int /\ start + 1 \in Int /\ end \in Int
        /\ end + 1 \in Int /\ n \in Int
        /\ \A i \in 1..start : i \in 1..n
        /\ \A i \in (start + 1)..end : i \in 1..n
        /\ \A i \in (end + 1)..n : i \in 1..n
    BY <1>1, <1>3, <1>4
  <2>3. QED
    BY <2>1, <2>2, SubSeqProperties
<1> HIDE DEF a, b, c, flat
<1>7. /\ holderPages' \in PagesOf(TokenHolders)
      /\ FlattenSeq(holderPages') = flat \o b
  BY <1>1, <1>2, <1>6, HoldersAppended DEF flat
<1>8. Listed' = (flat \o b) \o (a \o c)
  BY <1>1, <1>7 DEF Listed
<1>9. IsInjective(Listed') /\ ToSet(Listed') = ToSet(Listed)
  BY <1>2, <1>5, <1>6, <1>8, PieceMoved
<1>10. HolderTypes'
  <2>1. legacyHolders' \in Seq(TokenHolders)
    BY <1>1, <1>6, ConcatProperties
  <2>2. QED
    BY <1>1, <1>2, <1>7, <2>1 DEF HolderTypes, PagesOf
<1>11. NothingBeforeIssue'
  BY <1>1 DEF Holdings, NothingBeforeIssue
<1>12. QED
  BY <1>1, <1>7, <1>9, <1>10, <1>11 DEF Holdings

-----------------------------------------------------------------------------
(* What distribute_fee preserves.                                          *)
PayoutTypes ==
    /\ transfers \in [Transfers -> [fee : {0} \cup Fees, accumulated : Nat]]
    /\ processed \subseteq Transfers \X Pages
    /\ payouts \in [Pages -> SUBSET [holder : TokenHolders, amount : Nat]]

(* A page of a transfer is processed for a fee, and what is pending on a   *)
(* page was put there for a transfer that has processed it.                *)
PayoutsHaveTransfers ==
    /\ \A t \in Transfers, page \in Pages :
          <<t, page>> \in processed => transfers[t].fee > 0
    /\ \A page \in Pages :
          (\A t \in Transfers : <<t, page>> \notin processed) => payouts[page] = {}

Payouts ==
    /\ PayoutTypes
    /\ \A page \in Pages : IsFiniteSet(payouts[page])
    /\ PayoutsHaveTransfers
    /\ PayoutsAddUp

(* The shares of a page add up to an amount, no shares to nothing.         *)
LEMMA TotalOfShares ==
    ASSUME NEW shares \in SUBSET [holder : TokenHolders, amount : Nat], IsFiniteSet(shares)
    PROVE  Total(shares) \in Nat
<1>1. [s \in shares |-> s.amount] \in [shares -> Nat]
  OBVIOUS
<1>2. QED
  BY <1>1, SumIsNat DEF Total

LEMMA TotalOfNone == Total({}) = 0
<1> DEFINE f == [s \in {} |-> s.amount]
<1>1. f = [s \in {} |-> 0] /\ IsFiniteSet({})
  BY FS_EmptySet
<1> HIDE DEF f
<1>2. SumFunction(f) = 0
  BY <1>1, SumOfNone
<1>3. QED
  BY <1>2 DEF Total, f

(* The shares of a page are amounts, for finitely many holders.            *)
LEMMA SharesTyped ==
    ASSUME HolderTypes, meta.sold > 0, NEW fee \in Nat, NEW page \in Pages
    PROVE  /\ Shares(fee, page) \in SUBSET [holder : TokenHolders, amount : Nat]
           /\ IsFiniteSet(Shares(fee, page))
<1> DEFINE paid == {g \in HoldersOn(page) : share(fee, g) > 0}
           row(h) == [holder |-> h, amount |-> share(fee, h)]
           rows == [h \in paid |-> row(h)]
<1>1. HoldersOn(page) \subseteq TokenHolders
  <2>1. CASE page < Len(holderPages)
    <3>1. page \in Nat /\ Len(holderPages) \in Nat
      BY PlayerTokenAssumption, LenProperties DEF HolderTypes
    <3>2. page + 1 \in 1..Len(holderPages)
      BY <2>1, <3>1
    <3>3. holderPages[page + 1] \in Seq(TokenHolders)
      BY <3>2, ElementOfSeq DEF HolderTypes
    <3> DEFINE p == holderPages[page + 1]
    <3>4. p \in Seq(TokenHolders)
      BY <3>3
    <3>5. HoldersOn(page) = ToSet(p)
      BY <2>1 DEF HoldersOn
    <3> HIDE DEF p
    <3>6. DOMAIN p = 1..Len(p) /\ \A i \in 1..Len(p) : p[i] \in TokenHolders
      BY <3>4, LenProperties, ElementOfSeq
    <3>7. QED
      BY <3>5, <3>6 DEF ToSet
  <2>2. CASE ~(page < Len(holderPages))
    BY <2>2 DEF HoldersOn
  <2>3. QED
    BY <2>1, <2>2
<1>2. \A h \in TokenHolders : share(fee, h) \in Int
  <2>1. SUFFICES ASSUME NEW h \in TokenHolders PROVE share(fee, h) \in Int
    OBVIOUS
  <2>2. balance[h] \in Int /\ meta.sold \in Int /\ meta.sold > 0
    BY PlayerTokenAssumption DEF HolderTypes
  <2>3. fee * balance[h] \in Int
    BY <2>2
  <2>4. QED
    BY <2>2, <2>3 DEF share
<1>3. \A h \in paid : h \in TokenHolders /\ share(fee, h) \in Nat
  BY <1>1, <1>2
<1>4. Shares(fee, page) = {row(h) : h \in paid}
  BY DEF Shares
<1>5. IsFiniteSet(paid)
  <2>1. paid \in SUBSET TokenHolders
    BY <1>3
  <2>2. IsFiniteSet(TokenHolders)
    BY PlayerTokenAssumption
  <2> HIDE DEF paid
  <2>3. QED
    BY <2>1, <2>2, FS_Subset
<1> HIDE DEF paid
<1>6. rows \in Surjection(paid, Shares(fee, page))
  BY <1>4 DEF Surjection
<1>7. IsFiniteSet(Shares(fee, page))
  <2> HIDE DEF rows
  <2>1. QED
    BY <1>5, <1>6, FS_Surjection
<1>8. \A h \in paid : row(h) \in [holder : TokenHolders, amount : Nat]
  BY <1>3
<1>9. QED
  BY <1>4, <1>7, <1>8

(* Nothing is paid out at first.                                           *)
LEMMA PayoutsStart ==
    ASSUME TokenInit
    PROVE  Payouts
<1>1. /\ transfers = [t \in Transfers |-> NoTransfer] /\ processed = {}
      /\ payouts = [page \in Pages |-> {}] /\ meta.distributed = 0
  BY DEF TokenInit
<1>2. IsFiniteSet(Transfers) /\ IsFiniteSet(Pages)
  BY PlayerTokenAssumption
<1>3. PayoutTypes
  BY <1>1 DEF PayoutTypes, NoTransfer
<1>4. PayoutsHaveTransfers
  BY <1>1 DEF PayoutsHaveTransfers
<1>5. \A page \in Pages : IsFiniteSet(payouts[page])
  BY <1>1, FS_EmptySet
<1>6. SumFunction([t \in Transfers |-> transfers[t].accumulated]) = 0
  <2> DEFINE f == [t \in Transfers |-> transfers[t].accumulated]
  <2>1. f = [t \in Transfers |-> 0]
    BY <1>1 DEF NoTransfer
  <2> HIDE DEF f
  <2>2. SumFunction(f) = 0
    BY <1>2, <2>1, SumOfNone
  <2>3. QED
    BY <2>2 DEF f
<1>7. SumFunction([page \in Pages |-> Total(payouts[page])]) = 0
  <2> DEFINE f == [page \in Pages |-> Total(payouts[page])]
  <2>1. f = [page \in Pages |-> 0]
    BY <1>1, TotalOfNone
  <2> HIDE DEF f
  <2>2. SumFunction(f) = 0
    BY <1>2, <2>1, SumOfNone
  <2>3. QED
    BY <2>2 DEF f
<1>8. \A t \in Transfers : transfers[t].accumulated = 0 /\ transfers[t].fee = 0
  BY <1>1 DEF NoTransfer
<1>9. PayoutsAddUp
  BY <1>1, <1>6, <1>7, <1>8 DEF PayoutsAddUp
<1>10. QED
  BY <1>3, <1>4, <1>5, <1>9 DEF Payouts

(* A page's total is added to the transfer, to the player and, where       *)
(* nothing was pending yet, to what is pending.                            *)
LEMMA DistributionKeepsPayouts ==
    ASSUME Holdings, Payouts, NEW t \in Transfers, NEW fee \in Fees, NEW page \in Pages,
           distribute_fee(t, fee, page)
    PROVE  Payouts'
<1> DEFINE shares == Shares(fee, page)
           total == Total(shares)
<1>1. /\ fee > 0 /\ meta.sold > 0 /\ transfers[t].fee \in {0, fee}
      /\ <<t, page>> \notin processed
      /\ transfers[t].accumulated + total <= fee
      /\ transfers' = [transfers EXCEPT ![t] = [fee |-> fee, accumulated |-> @.accumulated + total]]
      /\ meta' = [meta EXCEPT !.distributed = @ + total]
      /\ payouts' = IF shares = {} THEN payouts ELSE [payouts EXCEPT ![page] = shares]
      /\ processed' = processed \cup {<<t, page>>}
  BY DEF distribute_fee
<1>2. HolderTypes /\ PayoutTypes /\ PayoutsHaveTransfers /\ PayoutsAddUp
  BY DEF Holdings, Payouts
<1>3. fee \in Nat /\ IsFiniteSet(Transfers) /\ IsFiniteSet(Pages)
  BY PlayerTokenAssumption
<1>4. /\ shares \in SUBSET [holder : TokenHolders, amount : Nat] /\ IsFiniteSet(shares)
      /\ shares = {} => total = 0
  BY <1>1, <1>2, <1>3, SharesTyped, TotalOfNone
<1>5. total \in Nat
  BY <1>4, TotalOfShares
<1> HIDE DEF shares
<1>6. /\ transfers \in [Transfers -> [fee : {0} \cup Fees, accumulated : Nat]]
      /\ payouts \in [Pages -> SUBSET [holder : TokenHolders, amount : Nat]]
      /\ \A u \in Transfers : transfers[u].accumulated \in Nat
      /\ \A p \in Pages : IsFiniteSet(payouts[p])
                            /\ payouts[p] \in SUBSET [holder : TokenHolders, amount : Nat]
  BY <1>2 DEF PayoutTypes, Payouts
<1> HIDE DEF total
<1>7. /\ DOMAIN transfers' = Transfers
      /\ transfers'[t] = [fee |-> fee, accumulated |-> transfers[t].accumulated + total]
      /\ \A u \in Transfers \ {t} : transfers'[u] = transfers[u]
  BY <1>1, <1>6
<1>8. /\ DOMAIN payouts' = Pages
      /\ payouts'[page] = IF shares = {} THEN payouts[page] ELSE shares
      /\ \A p \in Pages \ {page} : payouts'[p] = payouts[p]
  BY <1>1, <1>6
<1>9. PayoutTypes'
  <2>1. transfers' \in [Transfers -> [fee : {0} \cup Fees, accumulated : Nat]]
    <3>1. [fee |-> fee, accumulated |-> transfers[t].accumulated + total]
             \in [fee : {0} \cup Fees, accumulated : Nat]
      BY <1>5, <1>6
    <3>2. QED
      BY <1>1, <1>6, <3>1
  <2>2. payouts' \in [Pages -> SUBSET [holder : TokenHolders, amount : Nat]]
    BY <1>1, <1>4, <1>6
  <2>3. processed' \subseteq Transfers \X Pages
    BY <1>1, <1>2 DEF PayoutTypes
  <2>4. QED
    BY <2>1, <2>2, <2>3 DEF PayoutTypes
<1>10. \A p \in Pages : IsFiniteSet(payouts'[p])
  BY <1>4, <1>6, <1>8
<1>11. PayoutsHaveTransfers'
  <2>1. \A u \in Transfers, p \in Pages : <<u, p>> \in processed' => transfers'[u].fee > 0
    <3>1. SUFFICES ASSUME NEW u \in Transfers, NEW p \in Pages, <<u, p>> \in processed'
                   PROVE  transfers'[u].fee > 0
      OBVIOUS
    <3>2. CASE u = t
      BY <1>1, <1>7, <3>2
    <3>3. CASE u # t
      <4>1. <<u, p>> \in processed
        BY <1>1, <3>1, <3>3
      <4>2. QED
        BY <1>2, <1>7, <3>3, <4>1 DEF PayoutsHaveTransfers
    <3>4. QED
      BY <3>2, <3>3
  <2>2. ASSUME NEW p \in Pages, \A u \in Transfers : <<u, p>> \notin processed'
        PROVE  payouts'[p] = {}
    <3>1. p # page /\ \A u \in Transfers : <<u, p>> \notin processed
      BY <1>1, <2>2
    <3>2. QED
      BY <1>2, <1>8, <3>1 DEF PayoutsHaveTransfers
  <2>3. QED
    BY <2>1, <2>2 DEF PayoutsHaveTransfers
<1>12. meta'.distributed = SumFunction([u \in Transfers |-> transfers'[u].accumulated])
  <2> DEFINE f == [u \in Transfers |-> transfers[u].accumulated]
             g == [u \in Transfers |-> transfers'[u].accumulated]
  <2>1. /\ f \in [Transfers -> Nat] /\ g \in [Transfers -> Nat]
        /\ g[t] = f[t] + total /\ \A u \in Transfers \ {t} : g[u] = f[u]
    <3>1. \A u \in Transfers : transfers'[u].accumulated \in Nat
      BY <1>9 DEF PayoutTypes
    <3>2. transfers'[t].accumulated = transfers[t].accumulated + total
      BY <1>7
    <3>3. QED
      BY <1>6, <1>7, <3>1, <3>2
  <2>2. meta.distributed = SumFunction(f)
    BY <1>2 DEF PayoutsAddUp
  <2> HIDE DEF f, g
  <2>3. SumFunction(g) = SumFunction(f) + total
    BY <1>3, <1>5, <2>1, SumChanges
  <2>4. meta'.distributed = meta.distributed + total
    BY <1>1, <1>2 DEF HolderTypes
  <2>5. QED
    BY <2>2, <2>3, <2>4 DEF g
<1>13. \A u \in Transfers : transfers'[u].accumulated <= transfers'[u].fee
  BY <1>1, <1>2, <1>7 DEF PayoutsAddUp
<1>14. ASSUME NEW u \in Transfers, \A v \in Transfers \ {u} : transfers'[v] = NoTransfer
       PROVE  SumFunction([p \in Pages |-> Total(payouts'[p])]) = transfers'[u].accumulated
  <2>1. u = t
    <3>1. transfers'[t].fee = fee /\ NoTransfer.fee = 0
      BY <1>7 DEF NoTransfer
    <3>2. QED
      BY <1>1, <1>3, <1>14, <3>1
  <2>2. \A v \in Transfers \ {t} : transfers[v] = NoTransfer
    BY <1>7, <1>14, <2>1
  <2> DEFINE f == [p \in Pages |-> Total(payouts[p])]
             g == [p \in Pages |-> Total(payouts'[p])]
  <2>3. SumFunction(f) = transfers[t].accumulated
    BY <1>2, <2>2 DEF PayoutsAddUp
  <2>4. payouts[page] = {}
    <3>1. \A v \in Transfers : <<v, page>> \notin processed
      <4>1. SUFFICES ASSUME NEW v \in Transfers \ {t} PROVE <<v, page>> \notin processed
        BY <1>1
      <4>2. ~(transfers[v].fee > 0)
        BY <2>2 DEF NoTransfer
      <4>3. QED
        BY <1>2, <4>2 DEF PayoutsHaveTransfers
    <3>2. QED
      BY <1>2, <3>1 DEF PayoutsHaveTransfers
  <2>5. Total(payouts[page]) = 0 /\ Total(payouts'[page]) = total
    BY <1>4, <1>8, <2>4, TotalOfNone DEF total
  <2>6. /\ f \in [Pages -> Nat] /\ g \in [Pages -> Nat]
        /\ g[page] = f[page] + total /\ \A p \in Pages \ {page} : g[p] = f[p]
    <3>1. \A p \in Pages : Total(payouts[p]) \in Nat
      BY <1>6, TotalOfShares
    <3>2. \A p \in Pages \ {page} : Total(payouts'[p]) = Total(payouts[p])
      BY <1>8
    <3>3. \A p \in Pages : Total(payouts'[p]) \in Nat
      BY <1>5, <2>5, <3>1, <3>2
    <3>4. QED
      BY <1>5, <2>5, <3>1, <3>2, <3>3
  <2> HIDE DEF f, g
  <2>7. SumFunction(g) = SumFunction(f) + total
    BY <1>3, <1>5, <2>6, SumChanges
  <2>8. transfers'[u].accumulated = transfers[t].accumulated + total
    BY <1>7, <2>1
  <2>9. QED
    BY <2>3, <2>7, <2>8 DEF g
<1>15. PayoutsAddUp'
  BY <1>12, <1>13, <1>14 DEF PayoutsAddUp
<1>16. QED
  BY <1>9, <1>10, <1>11, <1>15 DEF Payouts

-----------------------------------------------------------------------------
(* The invariant: every call preserves it.                                 *)
TokenInv ==
    /\ tokenPaused \in BOOLEAN
    /\ Holdings
    /\ Payouts

(* What a call leaves alone stays as it is.                                *)
LEMMA PayoutsUntouched ==
    ASSUME Payouts, UNCHANGED <<transfers, processed, payouts>>,
           meta'.distributed = meta.distributed
    PROVE  Payouts'
BY DEF Payouts, PayoutTypes, PayoutsHaveTransfers, PayoutsAddUp

LEMMA HoldingsUntouched ==
    ASSUME Holdings, UNCHANGED <<balance, holderPages, legacyHolders>>,
           meta'.supply = meta.supply, meta'.sold = meta.sold,
           meta' \in [supply : {0, Supply}, sold : 0..Supply, distributed : Nat],
           meta.supply = 0 => meta'.distributed = 0
    PROVE  Holdings'
<1>1. Listed' = Listed
  BY DEF Listed
<1>2. QED
  BY <1>1 DEF Holdings, HolderTypes, NothingBeforeIssue

LEMMA TokenStarts == TokenInit => TokenInv
BY HoldingsStart, PayoutsStart DEF TokenInv, TokenInit

LEMMA TokenStays == TokenInv /\ [TokenNext]_tokenVars => TokenInv'
<1>1. SUFFICES ASSUME TokenInv, [TokenNext]_tokenVars PROVE TokenInv'
  OBVIOUS
<1>2. /\ tokenPaused \in BOOLEAN /\ Holdings /\ Payouts /\ HolderTypes
      /\ meta \in [supply : {0, Supply}, sold : 0..Supply, distributed : Nat]
      /\ meta.supply = 0 => meta.sold = 0 /\ meta.distributed = 0
  BY <1>1 DEF TokenInv, Holdings, HolderTypes, NothingBeforeIssue
<1>3. ASSUME NEW p \in BOOLEAN, set_token_paused(p) PROVE TokenInv'
  BY <1>2, <1>3, HoldingsUntouched, PayoutsUntouched DEF set_token_paused, TokenInv
<1>4. CASE issue_tokens
  <2>1. meta.supply = 0 /\ meta.distributed = 0 /\ meta'.distributed = 0
        /\ UNCHANGED <<tokenPaused, transfers, processed, payouts>>
    BY <1>2, <1>4 DEF issue_tokens
  <2>2. Payouts'
    BY <1>2, <2>1, PayoutsUntouched
  <2>3. QED
    BY <1>2, <1>4, <2>1, <2>2, IssueKeepsHoldings DEF TokenInv
<1>5. ASSUME NEW h \in TokenHolders, NEW amount \in Amounts, buy_token(h, amount)
      PROVE  TokenInv'
  <2>1. meta'.distributed = meta.distributed
        /\ UNCHANGED <<tokenPaused, transfers, processed, payouts>>
    BY <1>2, <1>5 DEF buy_token
  <2>2. Payouts'
    BY <1>2, <2>1, PayoutsUntouched
  <2>3. QED
    BY <1>2, <1>5, <2>1, <2>2, BuyKeepsHoldings DEF TokenInv
<1>6. ASSUME NEW t \in Transfers, NEW fee \in Fees, NEW page \in Pages,
             distribute_fee(t, fee, page)
      PROVE  TokenInv'
  <2> DEFINE total == Total(Shares(fee, page))
  <2>1. /\ meta.sold > 0 /\ meta' = [meta EXCEPT !.distributed = @ + total]
        /\ UNCHANGED <<tokenPaused, balance, holderPages, legacyHolders>>
    BY <1>6 DEF distribute_fee
  <2>2. total \in Nat
    <3>1. fee \in Nat
      BY PlayerTokenAssumption
    <3>2. QED
      BY <1>2, <2>1, <3>1, SharesTyped, TotalOfShares
  <2> HIDE DEF total
  <2>3. /\ meta'.supply = meta.supply /\ meta'.sold = meta.sold
        /\ meta' \in [supply : {0, Supply}, sold : 0..Supply, distributed : Nat]
        /\ meta.supply # 0
    BY <1>2, <2>1, <2>2
  <2>4. Holdings'
    BY <1>2, <2>1, <2>3, HoldingsUntouched
  <2>5. QED
    BY <1>2, <1>6, <2>1, <2>4, DistributionKeepsPayouts DEF TokenInv
<1>7. ASSUME NEW start \in 0..Len(Legacy), NEW count \in 0..Len(Legacy),
             migrate_player_step(start, count)
      PROVE  TokenInv'
  <2>1. UNCHANGED <<tokenPaused, meta, transfers, processed, payouts>>
    BY <1>7 DEF migrate_player_step
  <2>2. Payouts'
    BY <1>2, <2>1, PayoutsUntouched
  <2>3. QED
    BY <1>2, <1>7, <2>1, <2>2, MigrationKeepsHoldings DEF TokenInv
<1>8. CASE UNCHANGED tokenVars
  BY <1>2, <1>8, HoldingsUntouched, PayoutsUntouched DEF tokenVars, TokenInv
<1>9. QED
  BY <1>1, <1>3, <1>4, <1>5, <1>6, <1>7, <1>8 DEF TokenNext

LEMMA TokenInvHolds == TokenSpec => []TokenInv
BY TokenStarts, TokenStays, PTL DEF TokenSpec

(* Every variable of the player token contract keeps its type; no balance  *)
(* and no sale ever exceeds the supply.                                    *)
THEOREM TokenTypesHold == TokenSpec => []TokenTypes
<1>1. TokenInv => TokenTypes
  BY DEF TokenInv, Holdings, HolderTypes, Payouts, PayoutTypes, TokenTypes
<1>2. QED
  BY <1>1, TokenInvHolds, PTL

(* What buy_token sold is what holders have, and whatever is bought        *)
(* between the steps of a migration, in whatever pieces                    *)
(* migrate_player_step moves the old list, every holder is listed once, on *)
(* a page or in the old list, and no page is too long.                     *)
THEOREM EveryHolderListedOnce == TokenSpec => []HoldersListedOnce
<1>1. TokenInv => HoldersListedOnce
  BY HoldingsMean DEF TokenInv
<1>2. QED
  BY <1>1, TokenInvHolds, PTL

(* distribute_fee never pays out more than the fee of a transfer, the      *)
(* player's total is what the transfers paid, and the payouts pending for  *)
(* a single transfer add up to what it accumulated, in whatever order its  *)
(* pages are distributed and whatever is bought in between.                *)
THEOREM FeesAreSharedOut == TokenSpec => []PayoutsAddUp
<1>1. TokenInv => PayoutsAddUp
  BY DEF TokenInv, Payouts
<1>2. QED
  BY <1>1, TokenInvHolds, PTL
=============================================================================
