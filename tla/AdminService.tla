---------------------------- MODULE AdminService ----------------------------
(***************************************************************************)
(* The top-up operation of the admin API (Service.TopUpWallet): the credit *)
(* is committed in PostgreSQL first, then the new balance is written over  *)
(* the wallet's Redis balance, whatever is reserved at that time.          *)
(***************************************************************************)
EXTENDS ReservationStore, WalletLedger

CONSTANTS
    TopUps,         \* the top-up requests of this instance
    TopUpWallet,    \* TopUpWallet[t]: the wallet credited
    TopUpAmount     \* TopUpAmount[t]: the amount in money units

ASSUME TopUpAssumption ==
    /\ TopUpWallet \in [TopUps -> Wallets]
    /\ TopUpAmount \in [TopUps -> Nat \ {0}]

VARIABLES
    topup,          \* topup[t]: "new", "publish" or "done"
    topupBalance    \* topupBalance[t]: the balance its transaction computed

adminVars == <<topup, topupBalance>>

\* mutateAndRecord, up to the commit of its transaction.
TopUpCredit(t) ==
    /\ topup[t] = "new"
    /\ topup' = [topup EXCEPT ![t] = "publish"]
    /\ CreditAndRecord(TopUpWallet[t], TopUpAmount[t])
    /\ topupBalance' = [topupBalance EXCEPT
                            ![t] = balance[TopUpWallet[t]] + TopUpAmount[t]]
    /\ NoFault
    /\ UNCHANGED <<storeVars, debits, outbox, status>>

\* SetAvailable after the commit.
TopUpPublish(t) ==
    /\ topup[t] = "publish"
    /\ topup' = [topup EXCEPT ![t] = "done"]
    /\ SetAvailable(TopUpWallet[t], topupBalance[t])
    /\ NoFault
    /\ UNCHANGED <<topupBalance, dbVars>>

\* The error of SetAvailable is dropped; a crash before it has the same effect.
TopUpPublishFails(t) ==
    /\ Fault("redisError")
    /\ topup[t] = "publish"
    /\ topup' = [topup EXCEPT ![t] = "done"]
    /\ UNCHANGED <<topupBalance, storeVars, dbVars>>

\* The reply of SET is lost and the client sends it again.
TopUpPublishLost(t) ==
    /\ Fault("redisLost")
    /\ topup[t] = "publish"
    /\ SetAvailable(TopUpWallet[t], topupBalance[t])
    /\ UNCHANGED <<adminVars, dbVars>>

TopUpFault(t) == TopUpPublishFails(t) \/ TopUpPublishLost(t)

TopUpStep(t) == TopUpCredit(t) \/ TopUpPublish(t)
=============================================================================
