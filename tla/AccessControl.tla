--------------------------- MODULE AccessControl ---------------------------
(***************************************************************************)
(* The role table every contract of the platform embeds                    *)
(* (contracts/shared/src/access.rs), from the two ways it comes into being *)
(* - initialize on a fresh instance, initialize_roles on an instance that  *)
(* was deployed before roles existed - to every later change.              *)
(*                                                                         *)
(* A Soroban invocation is atomic and an Err return undoes it, so a call   *)
(* that fails is a call that changes nothing: only the successful ones are *)
(* actions.  require_auth makes the caller of an action the address that   *)
(* signed it.                                                              *)
(***************************************************************************)
EXTENDS Integers, FiniteSets

CONSTANTS
    Addresses,      \* Stellar accounts and contracts
    NoAddress,      \* DataKey::Admin before initialize stores one
    ROLES,          \* access::ROLES
    DEFAULT_ADMIN,  \* the root role
    MaxAdminCount   \* largest value of the u32 counter

ASSUME RolesAssumption == DEFAULT_ADMIN \in ROLES
ASSUME NoAddressAssumption == NoAddress \notin Addresses
ASSUME MaxAdminCountAssumption == MaxAdminCount \in Nat /\ MaxAdminCount >= 1

VARIABLES
    initialized,       \* DataKey::Initialized of the contract
    storedAdmin,       \* DataKey::Admin of the contract
    rolesInitialized,  \* DataKey::RolesInitialized
    members,           \* DataKey::Role(role, address), as a set per role
    roleAdmin,         \* get_role_admin: the role that administers each role
    roleAdminCount,    \* DataKey::RoleAdminCount
    actor              \* history: the address that signed the last change

instance == <<initialized, storedAdmin>>
roleVars == <<initialized, storedAdmin, rolesInitialized, members, roleAdmin,
              roleAdminCount, actor>>

has_role(role, address) == address \in members[role]

(* require_role: the table exists, the caller signed and holds the role.   *)
require_role(role, address) == rolesInitialized /\ has_role(role, address)

-----------------------------------------------------------------------------
RolesInit ==
    /\ rolesInitialized = FALSE
    /\ members = [r \in ROLES |-> {}]
    /\ roleAdmin = [r \in ROLES |-> DEFAULT_ADMIN]
    /\ roleAdminCount = 0
    /\ actor = NoAddress
    /\ \/ initialized = FALSE /\ storedAdmin = NoAddress      \* fresh instance
       \/ initialized = TRUE /\ storedAdmin \in Addresses     \* before roles

(* access::initialize: the one admin holds every role.                     *)
Bootstrap(admin) ==
    /\ ~rolesInitialized
    /\ rolesInitialized' = TRUE
    /\ roleAdminCount' = 1
    /\ members' = [r \in ROLES |-> members[r] \cup {admin}]
    /\ UNCHANGED roleAdmin

initialize(admin) ==
    /\ ~initialized
    /\ initialized' = TRUE
    /\ storedAdmin' = admin
    /\ Bootstrap(admin)
    /\ actor' = admin

initialize_roles(admin) ==
    /\ initialized
    /\ admin = storedAdmin
    /\ Bootstrap(admin)
    /\ actor' = admin
    /\ UNCHANGED instance

-----------------------------------------------------------------------------
Grant(role, account) ==
    members' = [members EXCEPT ![role] = @ \cup {account}]

grant_role(caller, role, account) ==
    /\ require_role(roleAdmin[role], caller)
    /\ ~has_role(role, account)
    /\ IF role = DEFAULT_ADMIN
       THEN /\ roleAdminCount < MaxAdminCount
            /\ roleAdminCount' = roleAdminCount + 1
       ELSE UNCHANGED roleAdminCount
    /\ Grant(role, account)
    /\ actor' = caller
    /\ UNCHANGED <<instance, rolesInitialized, roleAdmin>>

(* Mutant: the last holder of the root role may be removed.                *)
RemoveKeepingNobody(role, account) ==
    /\ has_role(role, account)
    /\ roleAdminCount' = IF role = DEFAULT_ADMIN THEN roleAdminCount - 1
                                                 ELSE roleAdminCount
    /\ members' = [members EXCEPT ![role] = @ \ {account}]

(* Mutant: the counter is not maintained on removal.                       *)
RemoveWithoutCounting(role, account) ==
    /\ has_role(role, account)
    /\ role = DEFAULT_ADMIN => roleAdminCount > 1
    /\ members' = [members EXCEPT ![role] = @ \ {account}]
    /\ UNCHANGED roleAdminCount

(* remove_role, where it changes something: an account without the role is *)
(* left alone, and the last root admin cannot be removed.                  *)
remove_role(role, account) ==
    /\ has_role(role, account)
    /\ IF role = DEFAULT_ADMIN
       THEN /\ roleAdminCount > 1
            /\ roleAdminCount' = roleAdminCount - 1
       ELSE UNCHANGED roleAdminCount
    /\ members' = [members EXCEPT ![role] = @ \ {account}]

revoke_role(caller, role, account) ==
    /\ require_role(roleAdmin[role], caller)
    /\ remove_role(role, account)
    /\ actor' = caller
    /\ UNCHANGED <<instance, rolesInitialized, roleAdmin>>

renounce_role(account, role) ==
    /\ require_role(role, account)
    /\ remove_role(role, account)
    /\ actor' = account
    /\ UNCHANGED <<instance, rolesInitialized, roleAdmin>>

(* Mutant: the root role may be put under another role.                    *)
SetAdminOfAnyRole(caller, role, admin_role) ==
    /\ require_role(DEFAULT_ADMIN, caller)
    /\ roleAdmin' = [roleAdmin EXCEPT ![role] = admin_role]
    /\ actor' = caller
    /\ UNCHANGED <<instance, rolesInitialized, members, roleAdminCount>>

set_role_admin(caller, role, admin_role) ==
    /\ require_role(DEFAULT_ADMIN, caller)
    /\ role # DEFAULT_ADMIN
    /\ roleAdmin' = [roleAdmin EXCEPT ![role] = admin_role]
    /\ actor' = caller
    /\ UNCHANGED <<instance, rolesInitialized, members, roleAdminCount>>

RolesNext ==
    \/ \E a \in Addresses : initialize(a)
    \/ \E a \in Addresses : initialize_roles(a)
    \/ \E c, a \in Addresses, r \in ROLES : grant_role(c, r, a)
    \/ \E c, a \in Addresses, r \in ROLES : revoke_role(c, r, a)
    \/ \E a \in Addresses, r \in ROLES : renounce_role(a, r)
    \/ \E c \in Addresses, r, s \in ROLES : set_role_admin(c, r, s)

RolesSpec == RolesInit /\ [][RolesNext]_roleVars

-----------------------------------------------------------------------------
(* Every variable holds a value the storage key it stands for can hold; in *)
(* particular the u32 counter neither wraps nor goes below zero.           *)
RolesTypeOK ==
    /\ initialized \in BOOLEAN
    /\ storedAdmin \in Addresses \cup {NoAddress}
    /\ rolesInitialized \in BOOLEAN
    /\ members \in [ROLES -> SUBSET Addresses]
    /\ roleAdmin \in [ROLES -> ROLES]
    /\ roleAdminCount \in 0..MaxAdminCount
    /\ actor \in Addresses \cup {NoAddress}

(* The counter that protects the last root admin is maintained beside the  *)
(* membership keys, not derived from them: after any sequence of grants,   *)
(* revocations and renunciations it is exactly the number of root admins   *)
(* (access.rs, RoleAdminCount).                                            *)
AdminCountExact ==
    rolesInitialized => /\ IsFiniteSet(members[DEFAULT_ADMIN])
                        /\ roleAdminCount = Cardinality(members[DEFAULT_ADMIN])

(* Once the table exists the contract is never left without a root admin,  *)
(* whoever revokes or renounces what, in whatever order.                   *)
RootNeverOrphaned == rolesInitialized => members[DEFAULT_ADMIN] # {}

(* Who holds the root role is decided by root admins alone.  grant_role    *)
(* and revoke_role ask the role's admin role, which set_role_admin can     *)
(* change, so this rests on the root role administering itself for ever.   *)
RootChangedByRootOnly ==
    [][rolesInitialized /\ members'[DEFAULT_ADMIN] # members[DEFAULT_ADMIN]
         => actor' \in members[DEFAULT_ADMIN]]_roleVars
=============================================================================
