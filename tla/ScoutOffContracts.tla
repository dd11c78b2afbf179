------------------------- MODULE ScoutOffContracts -------------------------
(***************************************************************************)
(* The four contracts together.  Each invocation is one step: Soroban runs *)
(* it, and the invocations it makes, atomically; what interleaves is the   *)
(* order in which players, validators, scouts and administrators call.     *)
(***************************************************************************)
EXTENDS Progress, Connection

vars == <<paused, registerVars, progressVars, subscriptionVars, connectionVars>>

Init ==
    /\ paused = [c \in Contracts |-> FALSE]
    /\ RegisterInit
    /\ ProgressInit
    /\ SubscriptionInit
    /\ ConnectionInit

(* A call that stays inside the register contract.                         *)
RegisterStep ==
    /\ \/ \E a \in PauserHolders : pause_register(a)
       \/ \E a \in PauserHolders : unpause_register(a)
       \/ \E w \in Wallets, u \in Uris : register_player(w, u)
       \/ \E id \in 1..counter, u \in Uris : update_profile(id, u)
       \/ \E limit \in 1..MAX_PLAYER_MIGRATION_BATCH : migrate_players(limit)
       \/ \E u \in {PROGRESS, CONNECTION} : add_authorized_updater(u)
       \/ \E u \in {PROGRESS, CONNECTION} : remove_authorized_updater(u)
    /\ UNCHANGED <<progressVars, subscriptionVars, connectionVars>>

ProgressStep ==
    /\ \/ \E a \in PauserHolders : pause_progress(a)
       \/ \E a \in PauserHolders : unpause_progress(a)
       \/ \E v \in Validators : register_validator(v)
       \/ \E v \in Validators : revoke_validator(v)
       \/ \E v \in Validators, p \in PlayerIds, t \in MilestoneTypes :
             submit_milestone(v, p, t)
    /\ UNCHANGED <<registerVars, subscriptionVars, connectionVars>>

Approval ==
    /\ \E v \in Validators, m \in MilestoneIds : approve_milestone(v, m)
    /\ UNCHANGED <<subscriptionVars, connectionVars>>

SubscriptionStep ==
    /\ \/ CloseLedger
       \/ \E a \in PauserHolders : pause_subscription(a)
       \/ \E a \in PauserHolders : unpause_subscription(a)
       \/ \E s \in Scouts, t \in Tiers, d \in DurationDays : subscribe(s, t, d)
       \/ \E s \in Scouts, p \in SubscriptionPlayers : pay_to_contact(s, p)
       \/ \E n \in 1..feeBalance : withdraw_fees(FeeManager, n)
       \/ \E b \in FeeBpsChoices : set_platform_fee_bps(b)
       \/ \E s \in Scouts : cancel_subscription(s)
    /\ UNCHANGED <<registerVars, progressVars, connectionVars>>

ConnectionStep ==
    /\ \/ \E a \in PauserHolders : pause_connection(a)
       \/ \E a \in PauserHolders : unpause_connection(a)
       \/ \E s \in Scouts, p \in PlayerIds : create_connection(s, p)
       \/ \E s \in Scouts, p \in PlayerIds : close_connection(s, p)
    /\ UNCHANGED <<registerVars, progressVars, subscriptionVars>>

TrialOffer ==
    /\ \E s \in Scouts, p \in PlayerIds : log_trial_offer(s, p)
    /\ UNCHANGED <<progressVars, subscriptionVars>>

Next == RegisterStep \/ ProgressStep \/ Approval \/ SubscriptionStep
        \/ ConnectionStep \/ TrialOffer

Spec == Init /\ [][Next]_vars

-----------------------------------------------------------------------------
TypeOK ==
    /\ RegisterTypeOK
    /\ ProgressTypeOK
    /\ SubscriptionTypeOK
    /\ ConnectionTypeOK

(* What a player has been granted: the levels of the approved milestones,  *)
(* and 3 for a trial offer.                                                *)
Earned(p) ==
    Max({0} \cup {new_level(milestones[m].type) :
                    m \in {n \in 1..milestoneCounter :
                             milestones[n].player = p /\ milestones[n].approved}}
            \cup {3 : o \in {o \in trialOffers : o[2] = p}})

LegacyLevel(p) == IF p \in DOMAIN LegacyPlayers THEN LegacyPlayers[p].level ELSE 0

(* The level in the register is exactly what the other two contracts'      *)
(* records justify (with the level an old deployment brought along): an    *)
(* approval or offer that is recorded has raised it, and nothing else has. *)
(* The records and the level are written by different contracts.           *)
LevelIsEarned ==
    /\ \A p \in 1..counter :
          get_player_data(p).level \in {Earned(p), Max({Earned(p), LegacyLevel(p)})}
    /\ \A p \in PlayerIds : p > counter => Earned(p) = 0

(* Every fee the contract says it holds is there to be withdrawn: the      *)
(* accounted balance equals the tokens the contract's account holds, after *)
(* any mixture of subscriptions, contact fees, fee changes and withdrawals *)
(* (subscription/src/lib.rs, PlatformFeeBalance).                          *)
FeeBalanceBacked == feeBalance = tokens[SUBSCRIPTION]

(* Nobody reaches a player on somebody else's payment: whoever has, or     *)
(* had, a connection or an offer has itself unlocked that contact (for the *)
(* fee of that moment, which may be zero) or has bought a subscription.    *)
EveryContactPaidFor ==
    \A s \in Scouts, p \in PlayerIds :
        connections[<<s, p>>] # "none" \/ <<s, p>> \in trialOffers
          => has_paid_contact(s, p) \/ expiresAt[s] # NeverSubscribed

(* A client that follows next from page to page, whatever limit it asks    *)
(* for, reads each recorded connection and offer once and nothing else     *)
(* (list_connections_page, get_connections_page, get_trial_offers_page),   *)
(* although a connection can be closed and opened again and an offer is    *)
(* listed under both parties.                                              *)
ReadsOnce(list, recorded) ==
    \A limit \in 1..(MAX_PAGE_SIZE + 1) :
        LET read == ReadAllPages(list, limit)
        IN  IsInjective(read) /\ ToSet(read) = recorded

ListsMatchRecords ==
    /\ \A s \in Scouts :
          /\ ReadsOnce(scoutConnections[s], {p \in PlayerIds : connections[<<s, p>>] # "none"})
          /\ ReadsOnce(scoutOffers[s], {p \in PlayerIds : <<s, p>> \in trialOffers})
    /\ \A p \in PlayerIds :
          ReadsOnce(playerConnections[p], {s \in Scouts : <<s, p>> \in trialOffers})

-----------------------------------------------------------------------------
(* "Any address in the authorized-updaters allowlist (registered via       *)
(* add_authorized_updater) may call this" (register/src/lib.rs, the doc    *)
(* comment of update_progress_level).                                      *)
AnyListedUpdaterMayCall ==
    \A u \in ToSet(updaters) : InvokerAuthorized(u)
=============================================================================
