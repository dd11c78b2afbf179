----------------------------- MODULE PlayerToken -----------------------------
(***************************************************************************)
(* The player token contract (contracts/player_token/src/lib.rs), for one  *)
(* player: a supply is issued once, holders buy from it and are listed on  *)
(* pages, and the fee of a transfer is shared out page by page.  Holders   *)
(* of the layout before pages are in one list, migrated step by step.      *)
(*                                                                         *)
(* An invocation that fails changes nothing, so a call is its guards and   *)
(* its effect.  Callers hold the role a call asks for (AccessControl.tla). *)
(* Amounts are small: no checked operation overflows.                      *)
(***************************************************************************)
EXTENDS Integers, SequencesExt, FiniteSetsExt

CONSTANTS
    TokenHolders,
    MAX_HOLDERS_PER_PAGE,
    Supply,             \* total_supply given to issue_tokens
    Amounts,            \* given to buy_token
    Transfers,          \* transfer ids
    Fees,               \* transfer_fee_xlm, for any transfer and call
    Pages,              \* page indices given to distribute_fee
    Legacy              \* holders listed before the pages, one token each

ASSUME PlayerTokenAssumption ==
    /\ MAX_HOLDERS_PER_PAGE \in Nat \ {0} /\ Supply \in Nat \ {0}
    /\ IsFiniteSet(TokenHolders) /\ IsFiniteSet(Transfers) /\ IsFiniteSet(Pages)
    /\ Amounts \subseteq Nat /\ Fees \subseteq Nat /\ Pages \subseteq Nat
    /\ Legacy \in Seq(TokenHolders) /\ IsInjective(Legacy) /\ Len(Legacy) <= Supply

VARIABLES
    tokenPaused,
    meta,            \* TokenMeta; a supply of 0 where no token is issued
    balance,         \* HolderBalance
    holderPages,     \* HolderPage: a sequence of pages, the first is page 0
    legacyHolders,   \* LegacyHolderList
    transfers,       \* TransferInfo; a fee of 0 where there is none
    processed,       \* ProcessedTransferPage
    payouts          \* PendingPayouts: on each page, holder and amount

tokenVars ==
    <<tokenPaused, meta, balance, holderPages, legacyHolders, transfers, processed, payouts>>

NoTransfer == [fee |-> 0, accumulated |-> 0]

(* A new contract, or one upgraded with its list of holders not migrated.  *)
TokenInit ==
    /\ tokenPaused = FALSE
    /\ \E list \in {<<>>, Legacy} :
          /\ legacyHolders = list
          /\ meta = [supply |-> IF list = <<>> THEN 0 ELSE Supply,
                     sold |-> Len(list), distributed |-> 0]
          /\ balance = [h \in TokenHolders |-> IF h \in ToSet(list) THEN 1 ELSE 0]
    /\ holderPages = <<>>
    /\ transfers = [t \in Transfers |-> NoTransfer]
    /\ processed = {}
    /\ payouts = [page \in Pages |-> {}]

set_token_paused(p) ==
    /\ tokenPaused' = p
    /\ UNCHANGED <<meta, balance, holderPages, legacyHolders, transfers, processed, payouts>>

issue_tokens ==
    /\ ~tokenPaused
    /\ meta.supply = 0
    /\ meta' = [supply |-> Supply, sold |-> 0, distributed |-> 0]
    /\ UNCHANGED <<tokenPaused, balance, holderPages, legacyHolders, transfers, processed, payouts>>

(* The last page takes one more holder, or a new page does.                *)
AppendHolder(pages, holder) ==
    IF pages = <<>> \/ Len(Last(pages)) >= MAX_HOLDERS_PER_PAGE
    THEN Append(pages, <<holder>>)
    ELSE [pages EXCEPT ![Len(pages)] = Append(@, holder)]

buy_token(holder, amount) ==
    /\ ~tokenPaused
    /\ meta.supply > 0 /\ amount > 0
    /\ amount <= meta.supply - meta.sold
    /\ balance' = [balance EXCEPT ![holder] = @ + amount]
    /\ holderPages' = IF balance[holder] = 0 THEN AppendHolder(holderPages, holder)
                                             ELSE holderPages
    /\ meta' = [meta EXCEPT !.sold = @ + amount]
    /\ UNCHANGED <<tokenPaused, legacyHolders, transfers, processed, payouts>>

-----------------------------------------------------------------------------
HoldersOn(page) == IF page < Len(holderPages) THEN ToSet(holderPages[page + 1]) ELSE {}

share(fee, holder) == (fee * balance[holder]) \div meta.sold

Shares(fee, page) ==
    {[holder |-> h, amount |-> share(fee, h)] : h \in {g \in HoldersOn(page) : share(fee, g) > 0}}

Total(shares) == SumFunction([s \in shares |-> s.amount])

(* Mutant: a page may be distributed again.                                *)
DistributeAgain(t, fee, page) ==
    /\ ~tokenPaused /\ fee > 0 /\ meta.sold > 0
    /\ transfers[t].fee \in {0, fee}
    /\ LET total == Total(Shares(fee, page))
       IN  /\ transfers[t].accumulated + total <= fee
           /\ transfers' = [transfers EXCEPT ![t] =
                  [fee |-> fee, accumulated |-> @.accumulated + total]]
           /\ meta' = [meta EXCEPT !.distributed = @ + total]
    /\ payouts' = IF Shares(fee, page) = {} THEN payouts
                  ELSE [payouts EXCEPT ![page] = Shares(fee, page)]
    /\ processed' = processed \cup {<<t, page>>}
    /\ UNCHANGED <<tokenPaused, balance, holderPages, legacyHolders>>

(* A page processed before is a no-op.  The shares of a page are of what   *)
(* is sold by then; a page that would take the transfer past its fee is    *)
(* refused; a page without holders is processed all the same; and what the *)
(* page had pending for another transfer is overwritten.                   *)
distribute_fee(t, fee, page) ==
    /\ ~tokenPaused /\ fee > 0 /\ meta.sold > 0
    /\ transfers[t].fee \in {0, fee}
    /\ <<t, page>> \notin processed
    /\ LET total == Total(Shares(fee, page))
       IN  /\ transfers[t].accumulated + total <= fee
           /\ transfers' = [transfers EXCEPT ![t] =
                  [fee |-> fee, accumulated |-> @.accumulated + total]]
           /\ meta' = [meta EXCEPT !.distributed = @ + total]
    /\ payouts' = IF Shares(fee, page) = {} THEN payouts
                  ELSE [payouts EXCEPT ![page] = Shares(fee, page)]
    /\ processed' = processed \cup {<<t, page>>}
    /\ UNCHANGED <<tokenPaused, balance, holderPages, legacyHolders>>

-----------------------------------------------------------------------------
(* Mutant: what has been moved stays in the list.                          *)
RestFromStart(start, end) == SubSeq(legacyHolders, start + 1, Len(legacyHolders))

(* What is left of the legacy list once start..end-1 has been moved.       *)
Rest(start, end) ==
    SubSeq(legacyHolders, 1, start) \o SubSeq(legacyHolders, end + 1, Len(legacyHolders))

migrate_player_step(start, count) ==
    /\ ~tokenPaused
    /\ start < Len(legacyHolders)
    /\ meta.supply > 0
    /\ LET end == Min({Len(legacyHolders), start + count})
       IN  /\ holderPages' = FoldLeft(AppendHolder, holderPages,
                                      SubSeq(legacyHolders, start + 1, end))
           /\ legacyHolders' = Rest(start, end)
    /\ UNCHANGED <<tokenPaused, meta, balance, transfers, processed, payouts>>

TokenNext ==
    \/ \E p \in BOOLEAN : set_token_paused(p)
    \/ issue_tokens
    \/ \E h \in TokenHolders, amount \in Amounts : buy_token(h, amount)
    \/ \E t \in Transfers, fee \in Fees, page \in Pages : distribute_fee(t, fee, page)
    \/ \E start \in 0..Len(Legacy), count \in 0..Len(Legacy) :
          migrate_player_step(start, count)

TokenSpec == TokenInit /\ [][TokenNext]_tokenVars

-----------------------------------------------------------------------------
TokenTypes ==
    /\ tokenPaused \in BOOLEAN
    /\ meta \in [supply : {0, Supply}, sold : 0..Supply, distributed : Nat]
    /\ balance \in [TokenHolders -> 0..Supply]
    /\ holderPages \in Seq(Seq(TokenHolders))
    /\ legacyHolders \in Seq(TokenHolders)
    /\ transfers \in [Transfers -> [fee : {0} \cup Fees, accumulated : Nat]]
    /\ processed \subseteq Transfers \X Pages
    /\ payouts \in [Pages -> SUBSET [holder : TokenHolders, amount : Nat]]

Listed == FlattenSeq(holderPages) \o legacyHolders

(* What is sold is what holders have, and every holder is listed once, on  *)
(* the pages or in the list still to be migrated, whatever purchases come  *)
(* between the steps of a migration and however its steps overlap: a       *)
(* holder listed twice is paid twice, one not listed never.                *)
HoldersListedOnce ==
    /\ meta.sold = SumFunction(balance)
    /\ \A h \in TokenHolders : (balance[h] > 0) <=> (h \in ToSet(Listed))
    /\ Cardinality(ToSet(Listed)) = Len(Listed)
    /\ \A i \in DOMAIN holderPages : Len(holderPages[i]) <= MAX_HOLDERS_PER_PAGE

(* No transfer pays out more than its fee, the running total of the player *)
(* is what the transfers have paid, though each page is computed from what *)
(* is sold when its turn comes, and while there has been one transfer only *)
(* that is also what is pending on the pages.                              *)
PayoutsAddUp ==
    /\ meta.distributed = SumFunction([t \in Transfers |-> transfers[t].accumulated])
    /\ \A t \in Transfers :
          /\ transfers[t].accumulated <= transfers[t].fee
          /\ (\A u \in Transfers \ {t} : transfers[u] = NoTransfer) =>
                 SumFunction([page \in Pages |-> Total(payouts[page])])
                     = transfers[t].accumulated
=============================================================================
