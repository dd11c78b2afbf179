--------------------------- MODULE PlatformAccount ---------------------------
(***************************************************************************)
(* The transactions the service signs with its one platform key            *)
(* (utils/signer.ts), as services/stellar*.ts sends and awaits them: every *)
(* one takes the next sequence number of the same account.  What the       *)
(* network and the contracts answer is not decided here: a transaction     *)
(* accepted for inclusion succeeds, fails or runs out of its 30 seconds.   *)
(***************************************************************************)
EXTENDS Integers, FiniteSets

CONSTANTS Requests     \* each signs at most one transaction

VARIABLES
    sequence,    \* the platform account's sequence number on the ledger
    tx           \* the transaction of each request

accountVars == <<sequence, tx>>

NoTx == [seq |-> 0, status |-> "none"]
TxStatus == {"none", "built", "pending", "succeeded", "failed", "expired"}

AccountInit ==
    /\ sequence = 0
    /\ tx = [r \in Requests |-> NoTx]

HasStatus(r, status) == tx[r].status = status
Succeeded(r) == HasStatus(r, "succeeded")
Settle(r, status) == tx' = [tx EXCEPT ![r].status = status]

(* server.getAccount and TransactionBuilder.build.                         *)
Build(r) ==
    /\ tx' = [tx EXCEPT ![r] = [seq |-> sequence + 1, status |-> "built"]]
    /\ UNCHANGED sequence

(* server.sendTransaction takes it in: PENDING, or DUPLICATE when a retry  *)
(* of the call sends the same transaction again.                           *)
Accept(r) ==
    /\ tx[r].seq = sequence + 1
    /\ \A q \in Requests : ~HasStatus(q, "pending")
    /\ Settle(r, "pending")
    /\ UNCHANGED sequence

Include(r) ==
    /\ HasStatus(r, "pending")
    /\ \E verdict \in {"succeeded", "failed"} : Settle(r, verdict)
    /\ sequence' = sequence + 1

(* setTimeout(30): the network forgets it.                                 *)
Expire(r) ==
    /\ HasStatus(r, "pending")
    /\ Settle(r, "expired")
    /\ UNCHANGED sequence

AccountTypeOK ==
    /\ sequence \in 0..Cardinality(Requests)
    /\ tx \in [Requests -> [seq : 0..(Cardinality(Requests) + 1), status : TxStatus]]
=============================================================================
