------------------------------ MODULE Register ------------------------------
(***************************************************************************)
(* The register contract (contracts/register/src/lib.rs): player profiles, *)
(* their progress level, and the move of both from instance storage, where *)
(* old deployments keep them, to persistent storage.                       *)
(*                                                                         *)
(* A failed invocation changes nothing, so only successful ones are        *)
(* actions.  Position and region never change after registration and no    *)
(* property tells them apart: they are left out.                           *)
(***************************************************************************)
EXTENDS Platform

CONSTANTS
    Wallets,                    \* accounts that register as players
    Uris,                       \* metadata URIs
    NoPlayer,                   \* no record under a storage key
    LegacyPlayers,              \* profiles an old deployment starts with
    MaxPlayers,                 \* bound on registrations
    MAX_PLAYER_MIGRATION_BATCH,
    MAX_AUTHORIZED_UPDATERS

PlayerIds == 1..MaxPlayers
Levels == 0..3
PlayerData == [wallet : Wallets, uri : Uris, level : Levels]

ASSUME RegisterAssumption ==
    /\ NoPlayer \notin PlayerData
    /\ LegacyPlayers \in Seq(PlayerData)
    /\ MaxPlayers \in Nat /\ Len(LegacyPlayers) <= MaxPlayers
    /\ \A i, j \in DOMAIN LegacyPlayers :
          LegacyPlayers[i].wallet = LegacyPlayers[j].wallet => i = j
    /\ MAX_PLAYER_MIGRATION_BATCH \in Nat \ {0}
    /\ MAX_AUTHORIZED_UPDATERS \in Nat \ {0}

VARIABLES
    counter,            \* DataKey::Counter
    persistentPlayer,   \* DataKey::Player(id) in persistent storage
    instancePlayer,     \* the same key in instance storage
    persistentWallet,   \* DataKey::Wallet(w): a player id, 0 where absent
    instanceWallet,
    playerList,         \* DataKey::PlayerList, empty once removed
    migrationCursor,    \* DataKey::PlayerMigrationCursor, 1 where absent
    playerDataMigrated, \* DataKey::PlayerDataMigrated
    updaters            \* DataKey::AuthorizedUpdaters

profileVars == <<counter, persistentPlayer, instancePlayer, persistentWallet,
                 instanceWallet, playerList>>
migrationVars == <<migrationCursor, playerDataMigrated>>
registerVars == <<profileVars, migrationVars, updaters>>

(* A persistent record shadows the instance record of the same player.     *)
get_player_data(id) ==
    IF persistentPlayer[id] # NoPlayer THEN persistentPlayer[id]
                                       ELSE instancePlayer[id]

get_player_id(wallet) ==
    IF persistentWallet[wallet] # 0 THEN persistentWallet[wallet]
                                    ELSE instanceWallet[wallet]

wallet_is_registered(wallet) == get_player_id(wallet) # 0

-----------------------------------------------------------------------------
(* initialize leaves an empty, already migrated register; an old           *)
(* deployment holds its players in instance storage, listed.               *)
RegisterInit ==
    /\ persistentPlayer = [id \in PlayerIds |-> NoPlayer]
    /\ persistentWallet = [w \in Wallets |-> 0]
    /\ migrationCursor = 1
    /\ updaters = <<>>
    /\ \/ /\ playerDataMigrated = TRUE
          /\ counter = 0
          /\ instancePlayer = [id \in PlayerIds |-> NoPlayer]
          /\ instanceWallet = [w \in Wallets |-> 0]
          /\ playerList = <<>>
       \/ /\ playerDataMigrated = FALSE
          /\ counter = Len(LegacyPlayers)
          /\ instancePlayer =
               [id \in PlayerIds |-> IF id <= counter THEN LegacyPlayers[id]
                                                      ELSE NoPlayer]
          /\ instanceWallet =
               [w \in Wallets |->
                  IF \E id \in 1..counter : LegacyPlayers[id].wallet = w
                  THEN CHOOSE id \in 1..counter : LegacyPlayers[id].wallet = w
                  ELSE 0]
          /\ playerList = [id \in 1..counter |-> id]

pause_register(admin) == set_paused(REGISTER, admin, TRUE) /\ UNCHANGED registerVars
unpause_register(admin) == set_paused(REGISTER, admin, FALSE) /\ UNCHANGED registerVars

(* Mutant: registration looks for the wallet in persistent storage only.   *)
RegisterIgnoringLegacy(wallet, uri) ==
    /\ ~paused[REGISTER]
    /\ counter < MaxPlayers
    /\ persistentWallet[wallet] = 0
    /\ counter' = counter + 1
    /\ persistentPlayer' = [persistentPlayer EXCEPT ![counter + 1] =
                              [wallet |-> wallet, uri |-> uri, level |-> 0]]
    /\ persistentWallet' = [persistentWallet EXCEPT ![wallet] = counter + 1]
    /\ UNCHANGED <<instancePlayer, instanceWallet, playerList, migrationVars,
                   updaters, paused>>

register_player(wallet, uri) ==
    /\ ~paused[REGISTER]
    /\ counter < MaxPlayers
    /\ ~wallet_is_registered(wallet)
    /\ counter' = counter + 1
    /\ persistentPlayer' = [persistentPlayer EXCEPT ![counter + 1] =
                              [wallet |-> wallet, uri |-> uri, level |-> 0]]
    /\ persistentWallet' = [persistentWallet EXCEPT ![wallet] = counter + 1]
    /\ UNCHANGED <<instancePlayer, instanceWallet, playerList, migrationVars,
                   updaters, paused>>

(* set_player_data followed by the removal of the instance copy.           *)
StorePlayer(id, player) ==
    /\ persistentPlayer' = [persistentPlayer EXCEPT ![id] = player]
    /\ instancePlayer' = [instancePlayer EXCEPT ![id] = NoPlayer]
    /\ UNCHANGED <<counter, persistentWallet, instanceWallet, playerList>>

update_profile(id, uri) ==
    /\ ~paused[REGISTER]
    /\ get_player_data(id) # NoPlayer
    /\ StorePlayer(id, [get_player_data(id) EXCEPT !.uri = uri])
    /\ UNCHANGED <<migrationVars, updaters, paused>>

-----------------------------------------------------------------------------
(* The ids of a batch and, for a wallet, the batch's player it belongs to.  *)
InBatch(upto) == {id \in migrationCursor..upto : get_player_data(id) # NoPlayer}
OwnedIn(batch, w) == {id \in batch : get_player_data(id).wallet = w}

(* Mutant: the wallet keys are copied and not removed.                     *)
MoveKeepingWallets(batch) ==
    /\ persistentPlayer' = [id \in PlayerIds |->
          IF id \in batch THEN get_player_data(id) ELSE persistentPlayer[id]]
    /\ instancePlayer' = [id \in PlayerIds |->
          IF id \in batch THEN NoPlayer ELSE instancePlayer[id]]
    /\ persistentWallet' = [w \in Wallets |->
          IF OwnedIn(batch, w) # {} THEN CHOOSE id \in OwnedIn(batch, w) : TRUE
                                    ELSE persistentWallet[w]]
    /\ UNCHANGED instanceWallet

MovePlayers(batch) ==
    /\ persistentPlayer' = [id \in PlayerIds |->
          IF id \in batch THEN get_player_data(id) ELSE persistentPlayer[id]]
    /\ instancePlayer' = [id \in PlayerIds |->
          IF id \in batch THEN NoPlayer ELSE instancePlayer[id]]
    /\ persistentWallet' = [w \in Wallets |->
          IF OwnedIn(batch, w) # {} THEN CHOOSE id \in OwnedIn(batch, w) : TRUE
                                    ELSE persistentWallet[w]]
    /\ instanceWallet' = [w \in Wallets |->
          IF OwnedIn(batch, w) # {} THEN 0 ELSE instanceWallet[w]]

(* migrate_players_as: one batch of at most limit players from the cursor, *)
(* in one transaction.  No holder of MIGRATOR is told apart.               *)
migrate_players(limit) ==
    LET upto == Smaller(migrationCursor + limit - 1, counter)
    IN  /\ limit \in 1..MAX_PLAYER_MIGRATION_BATCH
        /\ ~playerDataMigrated
        /\ MovePlayers(InBatch(upto))
        /\ playerList' = <<>>
        /\ playerDataMigrated' = (upto = counter)
        /\ migrationCursor' = IF playerDataMigrated' THEN 1 ELSE upto + 1
        /\ UNCHANGED <<counter, updaters, paused>>

-----------------------------------------------------------------------------
(* storage::add_authorized_updater; an address already listed is left.     *)
add_authorized_updater(updater) ==
    /\ \A i \in DOMAIN updaters : updaters[i] # updater
    /\ Len(updaters) < MAX_AUTHORIZED_UPDATERS
    /\ updaters' = Append(updaters, updater)
    /\ UNCHANGED <<profileVars, migrationVars, paused>>

remove_authorized_updater(updater) ==
    /\ \E i \in DOMAIN updaters : updaters[i] = updater
    /\ updaters' = SelectSeq(updaters, LAMBDA u : u # updater)
    /\ UNCHANGED <<profileVars, migrationVars, paused>>

(* The loop over the allowlist asks the authorization of its first entry,  *)
(* which is always listed, and stops there: require_auth ends the          *)
(* invocation unless that entry is the contract that called.               *)
InvokerAuthorized(invoker) == updaters # <<>> /\ Head(updaters) = invoker

(* Mutant: the level is assigned, not raised.                              *)
AssigningProgressLevel(invoker, id, level) ==
    /\ ~paused[REGISTER]
    /\ InvokerAuthorized(invoker)
    /\ get_player_data(id) # NoPlayer
    /\ StorePlayer(id, [get_player_data(id) EXCEPT !.level = level])

(* Called by another contract inside its own invocation.                   *)
update_progress_level(invoker, id, level) ==
    /\ ~paused[REGISTER]
    /\ InvokerAuthorized(invoker)
    /\ get_player_data(id) # NoPlayer
    /\ StorePlayer(id, [get_player_data(id) EXCEPT !.level =
                          IF level > @ THEN level ELSE @])

-----------------------------------------------------------------------------
RegisterTypeOK ==
    /\ paused \in [Contracts -> BOOLEAN]
    /\ counter \in 0..MaxPlayers
    /\ persistentPlayer \in [PlayerIds -> PlayerData \cup {NoPlayer}]
    /\ instancePlayer \in [PlayerIds -> PlayerData \cup {NoPlayer}]
    /\ persistentWallet \in [Wallets -> 0..MaxPlayers]
    /\ instanceWallet \in [Wallets -> 0..MaxPlayers]
    /\ playerList \in Seq(PlayerIds)
    /\ migrationCursor \in 1..MaxPlayers
    /\ playerDataMigrated \in BOOLEAN
    /\ updaters \in Seq(Contracts)
    /\ Len(updaters) <= MAX_AUTHORIZED_UPDATERS

(* One wallet, one player, wherever the two halves of the record live:     *)
(* every id handed out can be read back, its wallet finds that id again,   *)
(* and no wallet finds anything else - also while a migration is half done *)
(* and profiles are registered and updated meanwhile.                      *)
WalletsAndPlayersAgree ==
    /\ \A id \in 1..counter :
          /\ get_player_data(id) # NoPlayer
          /\ get_player_id(get_player_data(id).wallet) = id
    /\ \A w \in Wallets :
          wallet_is_registered(w) => /\ get_player_id(w) <= counter
                                     /\ get_player_data(get_player_id(w)).wallet = w

(* When migrate_players has reported completion nothing is left in         *)
(* instance storage, whatever was registered between its batches.          *)
MigrationLeavesNothingBehind ==
    playerDataMigrated =>
        /\ \A id \in PlayerIds : instancePlayer[id] = NoPlayer
        /\ \A w \in Wallets : instanceWallet[w] = 0

(* No step moves a player down or gives back an older profile URI than the *)
(* last one written: the level a client reads only rises, and a URI        *)
(* changes only when nothing is being migrated in the same step.           *)
ProfilesSurviveEveryStep ==
    [][\A id \in 1..counter :
         /\ get_player_data(id)'.level >= get_player_data(id).level
         /\ (migrationVars' # migrationVars =>
               get_player_data(id)' = get_player_data(id))
      ]_registerVars
=============================================================================
