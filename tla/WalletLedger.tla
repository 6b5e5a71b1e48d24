---------------------------- MODULE WalletLedger ----------------------------
(***************************************************************************)
(* The PostgreSQL tables the services write: wallets with their ledger     *)
(* (wallet_transactions), the outbox and the delivery inbox                *)
(* (sms_deliveries).  A transaction is one step: the wallet row is locked  *)
(* FOR UPDATE from its read to the commit.                                 *)
(***************************************************************************)
EXTENDS GatewayBase

VARIABLES
    balance,    \* wallets.balance, in money units
    debits,     \* debits[m]: debit ledger rows whose reference_id is m
    outbox,     \* outbox[m]: no row, published_at NULL, or published_at set
    status      \* sms_deliveries.status of m, "none" without a row

dbVars == <<balance, debits, outbox, status>>

OutboxStates == {"none", "pending", "published"}
StatusValues == {"none", "processing", "delivered", "refunded"}
Terminal     == {"delivered", "refunded"}

\* Mutant: an off-by-one in the comparison.
CanAffordOffByOne(m) == balance[WalletOf[m]] + 1 >= CostOf(m)

\* Wallet.CanAfford, tested under the row lock.
CanAfford(m) == balance[WalletOf[m]] >= CostOf(m)

\* DeductAndRecord: the balance and its ledger row, in one transaction.
DeductAndRecord(m) ==
    /\ balance' = [balance EXCEPT ![WalletOf[m]] = @ - CostOf(m)]
    /\ debits' = [debits EXCEPT ![m] = @ + 1]

CreditAndRecord(w, amount) ==
    balance' = [balance EXCEPT ![w] = @ + amount]

\* Enqueue: the outbox row of an accepted request.
InsertOutbox(m) == outbox' = [outbox EXCEPT ![m] = "pending"]

SetStatus(m, s) == status' = [status EXCEPT ![m] = s]
=============================================================================
