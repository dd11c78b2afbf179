------------------------------ MODULE Platform ------------------------------
(***************************************************************************)
(* What the four on-chain contracts share: their addresses, who holds      *)
(* which operational role, the pause flag of contracts/shared/src/         *)
(* storage.rs and the page arithmetic of the list queries.                 *)
(*                                                                         *)
(* No operation below changes a role table (AccessControl does), so the    *)
(* holders of a role are a constant here: every account that may ever be   *)
(* granted it.  A history of grants and revocations only disables calls    *)
(* that are enabled in this model.                                         *)
(***************************************************************************)
EXTENDS Integers, FiniteSets, Sequences, SequencesExt

CONSTANTS
    REGISTER, PROGRESS, SUBSCRIPTION, CONNECTION,   \* contract addresses
    PauserHolders,       \* accounts that may hold PAUSER
    Pausable,            \* contracts whose pause switch is exercised
    MAX_PAGE_SIZE        \* storage.rs, MAX_PAGE_SIZE

Contracts == {REGISTER, PROGRESS, SUBSCRIPTION, CONNECTION}

ASSUME PlatformAssumption ==
    /\ Cardinality(Contracts) = 4
    /\ Pausable \subseteq Contracts
    /\ MAX_PAGE_SIZE \in Nat \ {0}

VARIABLE paused          \* DataKey::Paused of each contract

set_paused(contract, admin, value) ==
    /\ contract \in Pausable
    /\ admin \in PauserHolders
    /\ paused' = [paused EXCEPT ![contract] = value]

-----------------------------------------------------------------------------
(* The page [start, start + limit) of a stored list (start counts from 0). *)
(* next is the start of the following page, NoNext on the last one.        *)
NoNext == -1
Smaller(m, n) == IF m < n THEN m ELSE n

Page(list, start, limit) ==
    LET total == Len(list)
        end   == Smaller(start + Smaller(limit, MAX_PAGE_SIZE), total)
    IN  IF start >= total
        THEN [items |-> <<>>, next |-> NoNext]
        ELSE [items |-> SubSeq(list, start + 1, end),
              next  |-> IF end < total THEN end ELSE NoNext]

(* What a client that follows next from the first page has read.           *)
ReadAllPages(list, limit) ==
    LET walk[start \in -1..Len(list)] ==
          IF start = NoNext THEN <<>>
          ELSE LET page == Page(list, start, limit)
               IN  page.items \o walk[page.next]
    IN  walk[0]
=============================================================================
