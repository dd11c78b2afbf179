------------------------------ MODULE Progress ------------------------------
(***************************************************************************)
(* The progress contract (contracts/progress/src/lib.rs): who validates,   *)
(* the milestones submitted and their approval, which raises the player's  *)
(* level in the register contract within the same transaction.             *)
(***************************************************************************)
EXTENDS Register

CONSTANTS
    Validators,       \* accounts that may be registered as validators
    MilestoneTypes,   \* strings given as milestone_type
    MaxMilestones     \* bound on submissions

(* "identity" and "performance" are the types approve_milestone knows.     *)
ASSUME ProgressAssumption == {"identity", "performance"} \subseteq MilestoneTypes

MilestoneIds == 1..MaxMilestones
MilestoneData == [player : PlayerIds, type : MilestoneTypes,
                  validator : Validators, approved : BOOLEAN]

VARIABLES
    validators,         \* DataKey::Validator(address)
    milestones,         \* DataKey::Milestone(id), in the order of the ids
    playerMilestones    \* DataKey::PlayerMilestones(player)

progressVars == <<validators, milestones, playerMilestones>>

milestoneCounter == Len(milestones)

ProgressInit ==
    /\ validators = {}
    /\ milestones = <<>>
    /\ playerMilestones = [p \in PlayerIds |-> <<>>]

pause_progress(admin) == set_paused(PROGRESS, admin, TRUE) /\ UNCHANGED progressVars
unpause_progress(admin) == set_paused(PROGRESS, admin, FALSE) /\ UNCHANGED progressVars

register_validator(v) ==
    /\ validators' = validators \cup {v}
    /\ UNCHANGED <<milestones, playerMilestones, paused>>

revoke_validator(v) ==
    /\ validators' = validators \ {v}
    /\ UNCHANGED <<milestones, playerMilestones, paused>>

(* The player need not exist: any id is taken, also one to be given later. *)
submit_milestone(v, player, type) ==
    /\ ~paused[PROGRESS]
    /\ v \in validators
    /\ milestoneCounter < MaxMilestones
    /\ milestones' = Append(milestones, [player |-> player, type |-> type,
                                         validator |-> v, approved |-> FALSE])
    /\ playerMilestones' = [playerMilestones EXCEPT ![player] =
                              Append(@, milestoneCounter + 1)]
    /\ UNCHANGED <<validators, paused>>

(* The level an approval asks for; 0 for a type that cannot be approved.   *)
new_level(type) == CASE type = "identity" -> 1
                     [] type = "performance" -> 2
                     [] OTHER -> 0

(* Mutant: the failure of the call into the register is swallowed.         *)
ApproveWithoutRegister(v, m) ==
    /\ ~paused[PROGRESS]
    /\ v \in validators
    /\ m \in 1..milestoneCounter
    /\ ~milestones[m].approved
    /\ new_level(milestones[m].type) # 0
    /\ milestones' = [milestones EXCEPT ![m].approved = TRUE]
    /\ IF /\ InvokerAuthorized(PROGRESS)
          /\ ~paused[REGISTER]
          /\ get_player_data(milestones[m].player) # NoPlayer
       THEN update_progress_level(PROGRESS, milestones[m].player,
                                  new_level(milestones[m].type))
       ELSE UNCHANGED profileVars
    /\ UNCHANGED <<validators, playerMilestones, migrationVars, updaters, paused>>

(* The call into the register fails the whole invocation when it fails.    *)
approve_milestone(v, m) ==
    /\ ~paused[PROGRESS]
    /\ v \in validators
    /\ m \in 1..milestoneCounter
    /\ ~milestones[m].approved
    /\ new_level(milestones[m].type) # 0
    /\ milestones' = [milestones EXCEPT ![m].approved = TRUE]
    /\ update_progress_level(PROGRESS, milestones[m].player,
                             new_level(milestones[m].type))
    /\ UNCHANGED <<validators, playerMilestones, migrationVars, updaters, paused>>

ProgressTypeOK ==
    /\ validators \subseteq Validators
    /\ milestones \in Seq(MilestoneData)
    /\ Len(milestones) <= MaxMilestones
    /\ playerMilestones \in [PlayerIds -> Seq(MilestoneIds)]
=============================================================================
