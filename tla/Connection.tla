----------------------------- MODULE Connection -----------------------------
(***************************************************************************)
(* The connection contract (contracts/connection/src/lib.rs): connections  *)
(* between scouts and players, and trial offers, both behind the access    *)
(* that the subscription contract sells.  A trial offer raises the         *)
(* player's level in the register contract within the same transaction.    *)
(***************************************************************************)
EXTENDS Register, Subscription

VARIABLES
    connections,       \* DataKey::Connection(scout, player): its status
    scoutConnections,  \* DataKey::ScoutConnections(scout)
    trialOffers,       \* DataKey::TrialOfferKey(scout, player)
    scoutOffers,       \* DataKey::ScoutOffers(scout)
    playerConnections  \* DataKey::PlayerConnections(player)

linkVars == <<connections, scoutConnections>>
offerVars == <<trialOffers, scoutOffers, playerConnections>>
connectionVars == <<linkVars, offerVars>>

Status == {"none", "Active", "Closed"}

ConnectionInit ==
    /\ connections = [pair \in Scouts \X PlayerIds |-> "none"]
    /\ scoutConnections = [s \in Scouts |-> <<>>]
    /\ trialOffers = {}
    /\ scoutOffers = [s \in Scouts |-> <<>>]
    /\ playerConnections = [p \in PlayerIds |-> <<>>]

pause_connection(admin) == set_paused(CONNECTION, admin, TRUE)
                           /\ UNCHANGED connectionVars
unpause_connection(admin) == set_paused(CONNECTION, admin, FALSE)
                             /\ UNCHANGED connectionVars

(* Mutant: the contact fee is looked up by player alone.                   *)
AccessPaidByAnybody(scout, player) ==
    is_subscribed(scout) \/ \E s \in Scouts : has_paid_contact(s, player)

(* Two reads of the subscription contract, either of which gives access;   *)
(* its pause switch does not close them.                                   *)
verify_scout_access(scout, player) ==
    is_subscribed(scout) \/ has_paid_contact(scout, player)

(* Mutant: every opening appends to the scout's list.                      *)
CreateAppendingAlways(scout, player) ==
    /\ ~paused[CONNECTION]
    /\ connections[<<scout, player>>] # "Active"
    /\ verify_scout_access(scout, player)
    /\ connections' = [connections EXCEPT ![<<scout, player>>] = "Active"]
    /\ scoutConnections' = [scoutConnections EXCEPT ![scout] = Append(@, player)]
    /\ UNCHANGED <<offerVars, paused>>

(* An active connection is left as it is; a closed one is opened again.    *)
create_connection(scout, player) ==
    /\ ~paused[CONNECTION]
    /\ connections[<<scout, player>>] # "Active"
    /\ verify_scout_access(scout, player)
    /\ connections' = [connections EXCEPT ![<<scout, player>>] = "Active"]
    /\ scoutConnections' = [scoutConnections EXCEPT ![scout] =
                              IF Contains(@, player) THEN @ ELSE Append(@, player)]
    /\ UNCHANGED <<offerVars, paused>>

(* The key is built from the caller, so only the scout finds a record.     *)
close_connection(caller, player) ==
    /\ ~paused[CONNECTION]
    /\ connections[<<caller, player>>] = "Active"
    /\ connections' = [connections EXCEPT ![<<caller, player>>] = "Closed"]
    /\ UNCHANGED <<scoutConnections, offerVars, paused>>

(* Idempotent for a pair; the call into the register fails the whole       *)
(* invocation when it fails.                                               *)
log_trial_offer(scout, player) ==
    /\ ~paused[CONNECTION]
    /\ <<scout, player>> \notin trialOffers
    /\ verify_scout_access(scout, player)
    /\ trialOffers' = trialOffers \cup {<<scout, player>>}
    /\ scoutOffers' = [scoutOffers EXCEPT ![scout] = Append(@, player)]
    /\ playerConnections' = [playerConnections EXCEPT ![player] = Append(@, scout)]
    /\ update_progress_level(CONNECTION, player, 3)
    /\ UNCHANGED <<linkVars, migrationVars, updaters, paused>>

ConnectionTypeOK ==
    /\ connections \in [Scouts \X PlayerIds -> Status]
    /\ scoutConnections \in [Scouts -> Seq(PlayerIds)]
    /\ trialOffers \subseteq Scouts \X PlayerIds
    /\ scoutOffers \in [Scouts -> Seq(PlayerIds)]
    /\ playerConnections \in [PlayerIds -> Seq(Scouts)]
=============================================================================
