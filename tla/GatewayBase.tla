---------------------------- MODULE GatewayBase ----------------------------
(***************************************************************************)
(* What the parts of the SMS gateway share: the requests, the wallets they *)
(* are charged to, the two lines with their prices, and the faults the     *)
(* environment may inject.                                                 *)
(*                                                                         *)
(* A message stands for one POST /api/v1/sms request and for everything    *)
(* that later carries its message_id: the reservation key, the outbox row, *)
(* the broker copies, the inbox row and the ledger rows.  Message ids are  *)
(* unique (generateMessageID draws a millisecond and a random number).     *)
(***************************************************************************)
EXTENDS Integers

CONSTANTS
    Messages,   \* the requests of this instance
    Wallets,    \* the wallet rows
    LineOf,     \* LineOf[m]: the line a request asks for
    WalletOf,   \* WalletOf[m]: the wallet of the request's channel
    Cost,       \* Cost[l]: the price of an SMS on line l, in money units
    Faults,     \* the kinds of fault that may happen in this instance
    MaxFaults   \* bound: how many faults happen in one behaviour

Lines == {"express", "normal"}

(***************************************************************************)
(* apiCrash, workerCrash  a process dies between two of its steps          *)
(* dispatcherStop         the dispatcher dies, or returns an error, between*)
(*                        two of its steps; it is restarted                *)
(* connLoss               a worker loses its broker connection; the broker *)
(*                        redelivers while the goroutine is still running  *)
(* publishNack            the broker does not store a row that was sent    *)
(* redisError, dbError    a call fails and has no effect                   *)
(* redisLost, dbLost      a call takes effect and its reply is lost        *)
(* redisFlush             Redis restarts without its data                  *)
(* sessionLoss            the database session of a worker ends while it   *)
(*                        waits for a provider                             *)
(***************************************************************************)
FaultKinds == {"apiCrash", "workerCrash", "dispatcherStop", "connLoss",
               "publishNack", "redisError", "redisLost", "dbError", "dbLost",
               "redisFlush", "sessionLoss"}

ASSUME BaseAssumption ==
    /\ LineOf \in [Messages -> Lines]
    /\ WalletOf \in [Messages -> Wallets]
    /\ Cost \in [Lines -> Nat \ {0}]
    /\ Faults \subseteq FaultKinds
    /\ MaxFaults \in Nat

\* event.CostUnits: fixed when the request is accepted.
CostOf(m) == Cost[LineOf[m]]

VARIABLE faultsLeft

Fault(f) ==
    /\ f \in Faults
    /\ faultsLeft > 0
    /\ faultsLeft' = faultsLeft - 1

NoFault == UNCHANGED faultsLeft
=============================================================================
