---------------------------- MODULE Subscription ----------------------------
(***************************************************************************)
(* The subscription contract (contracts/subscription/src/lib.rs): scouts   *)
(* pay for a period of access or for one player's contact, the contract    *)
(* accounts for the fees it holds and the fee manager withdraws them.      *)
(* The payment token is an external contract: a transfer moves an amount   *)
(* or fails the invocation.                                                *)
(***************************************************************************)
EXTENDS Platform

CONSTANTS
    Scouts,
    SubscriptionPlayers,  \* player ids a contact fee may be paid for
    FeeManager,           \* the account that may hold FEE_MANAGER
    InitialTokens,        \* what each scout's account holds at first
    InitialFeeBps,        \* platform_fee_bps given to initialize, unchecked
    FeeBpsChoices,        \* values given to set_platform_fee_bps
    Tiers,                \* values given as tier
    DurationDays,         \* values given as duration_days
    BASE_FEE,             \* BASE_FEE_STROOPS
    LEDGERS_PER_DAY,
    U32Max,
    MaxLedger             \* bound on the ledger sequence

(* A contract signs no transaction: it is neither a scout nor the one who  *)
(* withdraws.                                                              *)
ASSUME SubscriptionAssumption ==
    /\ SUBSCRIPTION \notin Scouts \cup {FeeManager}
    /\ InitialTokens \in Nat /\ BASE_FEE \in Nat \ {0}
    /\ LEDGERS_PER_DAY \in Nat \ {0} /\ U32Max \in Nat /\ MaxLedger \in Nat
    /\ DurationDays \subseteq 0..U32Max /\ Tiers \subseteq 0..U32Max
    /\ FeeBpsChoices \subseteq Nat /\ InitialFeeBps \in Nat

PREMIUM_TIER_MULTIPLIER == 2
BpsDenominator == 10000
NeverSubscribed == 0      \* expires_at of a scout without a record

VARIABLES
    ledger,        \* env.ledger().sequence()
    expiresAt,     \* DataKey::Subscription(scout).expires_at
    contactFee,    \* DataKey::ContactFee(scout, player): the pairs paid for
    feeBps,        \* DataKey::PlatformFeeBps
    feeBalance,    \* DataKey::PlatformFeeBalance
    tokens         \* the token contract's balances

accountVars == <<expiresAt, contactFee, feeBps>>
moneyVars == <<feeBalance, tokens>>
subscriptionVars == <<ledger, accountVars, moneyVars>>

Holders == Scouts \cup {FeeManager, SUBSCRIPTION}

SubscriptionInit ==
    /\ ledger = 1
    /\ expiresAt = [s \in Scouts |-> NeverSubscribed]
    /\ contactFee = {}
    /\ feeBps = InitialFeeBps
    /\ feeBalance = 0
    /\ tokens = [h \in Holders |-> IF h \in Scouts THEN InitialTokens ELSE 0]

(* TokenClient::transfer.                                                  *)
transfer(from, to, amount) ==
    /\ amount <= tokens[from]
    /\ tokens' = [tokens EXCEPT ![from] = @ - amount, ![to] = @ + amount]

calculate_subscription_fee(tier, days) ==
    BASE_FEE * (IF tier <= 1 THEN 1 ELSE PREMIUM_TIER_MULTIPLIER) * days

calculate_contact_fee == (BASE_FEE * feeBps) \div BpsDenominator

is_subscribed(scout) == ledger < expiresAt[scout]
has_paid_contact(scout, player) == <<scout, player>> \in contactFee

CloseLedger ==
    /\ ledger < MaxLedger
    /\ ledger' = ledger + 1
    /\ UNCHANGED <<accountVars, moneyVars, paused>>

pause_subscription(admin) == set_paused(SUBSCRIPTION, admin, TRUE)
                             /\ UNCHANGED subscriptionVars
unpause_subscription(admin) == set_paused(SUBSCRIPTION, admin, FALSE)
                               /\ UNCHANGED subscriptionVars

CollectFee(scout, fee) ==
    /\ transfer(scout, SUBSCRIPTION, fee)
    /\ feeBalance' = feeBalance + fee

(* A new subscription replaces the record, whatever was left of the old    *)
(* one.  The two checked additions on u32 fail the call on overflow.       *)
subscribe(scout, tier, days) ==
    /\ ~paused[SUBSCRIPTION]
    /\ calculate_subscription_fee(tier, days) > 0
    /\ days * LEDGERS_PER_DAY <= U32Max
    /\ ledger + days * LEDGERS_PER_DAY <= U32Max
    /\ CollectFee(scout, calculate_subscription_fee(tier, days))
    /\ expiresAt' = [expiresAt EXCEPT ![scout] = ledger + days * LEDGERS_PER_DAY]
    /\ UNCHANGED <<ledger, contactFee, feeBps, paused>>

(* Mutant: the fee that is transferred is not added to the balance.        *)
PayWithoutAccounting(scout, player) ==
    /\ ~paused[SUBSCRIPTION]
    /\ ~has_paid_contact(scout, player)
    /\ transfer(scout, SUBSCRIPTION, calculate_contact_fee)
    /\ contactFee' = contactFee \cup {<<scout, player>>}
    /\ UNCHANGED <<ledger, expiresAt, feeBps, feeBalance, paused>>

(* Paying again for the same contact is a no-op; a fee that rounds down to *)
(* zero unlocks the contact without a transfer.                            *)
pay_to_contact(scout, player) ==
    /\ ~paused[SUBSCRIPTION]
    /\ ~has_paid_contact(scout, player)
    /\ IF calculate_contact_fee > 0 THEN CollectFee(scout, calculate_contact_fee)
                                    ELSE UNCHANGED moneyVars
    /\ contactFee' = contactFee \cup {<<scout, player>>}
    /\ UNCHANGED <<ledger, expiresAt, feeBps, paused>>

withdraw_fees(admin, amount) ==
    /\ ~paused[SUBSCRIPTION]
    /\ amount > 0
    /\ admin = FeeManager
    /\ amount <= feeBalance
    /\ transfer(SUBSCRIPTION, admin, amount)
    /\ feeBalance' = feeBalance - amount
    /\ UNCHANGED <<ledger, accountVars, paused>>

set_platform_fee_bps(bps) ==
    /\ ~paused[SUBSCRIPTION]
    /\ bps <= BpsDenominator
    /\ feeBps' = bps
    /\ UNCHANGED <<ledger, expiresAt, contactFee, moneyVars, paused>>

cancel_subscription(scout) ==
    /\ ~paused[SUBSCRIPTION]
    /\ expiresAt[scout] # NeverSubscribed
    /\ ledger < expiresAt[scout]
    /\ expiresAt' = [expiresAt EXCEPT ![scout] = ledger]
    /\ UNCHANGED <<ledger, contactFee, feeBps, moneyVars, paused>>

SubscriptionTypeOK ==
    /\ ledger \in 1..MaxLedger
    /\ expiresAt \in [Scouts -> 0..U32Max]
    /\ contactFee \subseteq Scouts \X SubscriptionPlayers
    /\ feeBps \in {InitialFeeBps} \cup FeeBpsChoices
    /\ feeBalance \in Nat
    /\ tokens \in [Holders -> Nat]
=============================================================================
