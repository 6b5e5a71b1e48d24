--------------------------- MODULE LegacyGateway ---------------------------
(***************************************************************************)
(* The gateway without a reservation store: DeductAndEnqueue charges the   *)
(* message when it is accepted, and processLegacy delivers it inside one   *)
(* transaction that holds the row of the message in sms_deliveries from    *)
(* its insert, over the provider call, to its terminal status.  A failed   *)
(* message is refunded in that same transaction.  The wallet rows, the     *)
(* dispatcher and the broker are those of the other modules.               *)
(***************************************************************************)
EXTENDS WalletTransactions, OutboxDispatcher

CONSTANTS
    Workers,    \* the consumer goroutines of all replicas
    WorkerLine, \* WorkerLine[v]: the line its replica consumes
    NoMessage   \* what an idle goroutine holds

ASSUME WorkerAssumption ==
    /\ WorkerLine \in [Workers -> Lines]
    /\ Workers \cap Requests = {}
    /\ NoTx \notin Workers
    /\ NoMessage \notin Messages

Txs == Requests \cup Workers

VARIABLES
    wmsg,       \* wmsg[v]: the message goroutine v processes
    linked,     \* linked[v]: its broker connection still holds the copy
    keeper,     \* keeper[m]: the transaction that inserted or locked the row of m
    outcome,    \* outcome[v]: the status the transaction of v has written
    severed     \* goroutines whose database session is gone and who do not
                \* know it, because they wait for a provider

workerVars == <<wmsg, linked, keeper, outcome, severed>>
vars == <<dbVars, tableVars, holder, work, units, pc, brokerVars,
          dispatcherVars, workerVars, faultsLeft>>

RequestStates == {"new", "lock", "write", "commit", "dead",
                  "200", "201", "202", "400", "401", "422", "429", "500"}
WorkerStates == {"idle", "find", "insert", "deadline", "send", "lock", "write", "commit"}

PayerOf(v) == WalletOf[wmsg[v]]

-----------------------------------------------------------------------------
(* processLegacy.                                                          *)

Free(v) ==
    /\ Step(v, "idle")
    /\ wmsg' = [wmsg EXCEPT ![v] = NoMessage]
    /\ linked' = [linked EXCEPT ![v] = TRUE]
    /\ outcome' = [outcome EXCEPT ![v] = "none"]
    /\ severed' = severed \ {v}

\* The transaction of v ends and forgets its writes.
Rollback(v) ==
    /\ Release({v})
    /\ keeper' = [m \in Messages |-> IF keeper[m] = v THEN NoTx ELSE keeper[m]]

\* Mutant: a failed delivery is not requeued.
RejectDrops(v) == Rollback(v) /\ UNCHANGED brokerVars /\ Free(v)

\* An error rolls back and requeues the copy; over a lost connection the Nack
\* does nothing, the broker has requeued it already.
Reject(v) ==
    /\ Rollback(v)
    /\ IF linked[v] THEN Requeue(wmsg[v]) ELSE UNCHANGED brokerVars
    /\ Free(v)

Receive(v, m) ==
    /\ pc[v] = "idle"
    /\ LineOf[m] = WorkerLine[v]
    /\ Deliver(m)
    /\ Step(v, "find")
    /\ wmsg' = [wmsg EXCEPT ![v] = m]
    /\ NoFault
    /\ UNCHANGED <<dbVars, tableVars, holder, work, units, linked, keeper, outcome,
                   severed>>

\* SELECT FOR UPDATE finds no committed row.
FindNothing(v) ==
    /\ pc[v] = "find"
    /\ status[wmsg[v]] = "none"
    /\ Step(v, "insert")
    /\ NoFault
    /\ UNCHANGED <<dbVars, tableVars, holder, work, units, brokerVars, workerVars>>

\* Mutant: a terminal row is processed like any other.
FindRowAgain(v) ==
    LET m == wmsg[v] IN
    /\ pc[v] = "find"
    /\ status[m] # "none"
    /\ keeper[m] = NoTx
    /\ keeper' = [keeper EXCEPT ![m] = v]
    /\ outcome' = [outcome EXCEPT ![v] = status[m]]
    /\ Step(v, "deadline")
    /\ NoFault
    /\ UNCHANGED <<dbVars, tableVars, holder, work, units, brokerVars, wmsg, linked, severed>>

\* It finds the row and locks it; there is nothing to do for a terminal one.
FindRow(v) ==
    LET m == wmsg[v] IN
    /\ pc[v] = "find"
    /\ status[m] # "none"
    /\ keeper[m] = NoTx
    /\ keeper' = [keeper EXCEPT ![m] = v]
    /\ outcome' = [outcome EXCEPT ![v] = status[m]]
    /\ Step(v, IF status[m] \in Terminal THEN "commit" ELSE "deadline")
    /\ NoFault
    /\ UNCHANGED <<dbVars, tableVars, holder, work, units, brokerVars, wmsg, linked, severed>>

\* Mutant: message_id is not a primary key.
InsertRowNoKey(v) ==
    /\ pc[v] = "insert"
    /\ keeper' = [keeper EXCEPT ![wmsg[v]] = v]
    /\ outcome' = [outcome EXCEPT ![v] = "processing"]
    /\ Step(v, "deadline")
    /\ NoFault
    /\ UNCHANGED <<dbVars, tableVars, holder, work, units, brokerVars, wmsg, linked, severed>>

\* The insert waits while another transaction has inserted the same key.
InsertRow(v) ==
    /\ pc[v] = "insert"
    /\ status[wmsg[v]] = "none"
    /\ keeper[wmsg[v]] = NoTx
    /\ keeper' = [keeper EXCEPT ![wmsg[v]] = v]
    /\ outcome' = [outcome EXCEPT ![v] = "processing"]
    /\ Step(v, "deadline")
    /\ NoFault
    /\ UNCHANGED <<dbVars, tableVars, holder, work, units, brokerVars, wmsg, linked, severed>>

\* The other transaction has committed its row.
InsertConflict(v) ==
    /\ pc[v] = "insert"
    /\ status[wmsg[v]] # "none"
    /\ Reject(v)
    /\ NoFault
    /\ UNCHANGED <<dbVars, tableVars, work, units>>

\* The deadline of an Express message may have passed.
CheckDeadline(v) ==
    /\ pc[v] = "deadline"
    /\ \E next \in {"send"} \cup (IF LineOf[wmsg[v]] = "express" THEN {"lock"} ELSE {}) :
        Step(v, next)
    /\ NoFault
    /\ UNCHANGED <<dbVars, tableVars, holder, work, units, brokerVars, workerVars>>

\* The provider answers: the SMS is sent, or it is to be refunded.  Nothing
\* bounds the time this takes.
SendReturns(v) ==
    /\ pc[v] = "send" /\ v \notin severed
    /\ \/ /\ Step(v, "commit")
          /\ outcome' = [outcome EXCEPT ![v] = "delivered"]
       \/ Step(v, "lock") /\ UNCHANGED outcome
    /\ NoFault
    /\ UNCHANGED <<dbVars, tableVars, holder, work, units, brokerVars, wmsg, linked, keeper,
                   severed>>

\* The answer comes, and the statement that would record it finds the session
\* gone.
SendWasted(v) ==
    /\ pc[v] = "send" /\ v \in severed
    /\ Reject(v)
    /\ NoFault
    /\ UNCHANGED <<dbVars, tableVars, work, units>>

\* refund: CreditAndRecord, nested in the same transaction ...
LockRefund(v) ==
    /\ LockWallet(v, PayerOf(v))
    /\ NoFault
    /\ UNCHANGED <<dbVars, tableVars, units, brokerVars, workerVars>>

\* ... and the terminal status.
WriteRefund(v) ==
    /\ WriteBalance(v, Add(work[v], CostOf(wmsg[v])))
    /\ outcome' = [outcome EXCEPT ![v] = "refunded"]
    /\ NoFault
    /\ UNCHANGED <<dbVars, tableVars, units, brokerVars, wmsg, linked, keeper,
                   severed>>

\* Mutant: the refund is tried again inside its transaction.
RefundOverflowsAgain(v) ==
    /\ pc[v] = "write"
    /\ ~Fits(Add(work[v], CostOf(wmsg[v])))
    /\ NoFault
    /\ UNCHANGED <<dbVars, tableVars, holder, work, units, pc, brokerVars, workerVars>>

\* The refund does not fit the balance column.
RefundOverflows(v) ==
    /\ pc[v] = "write"
    /\ ~Fits(Add(work[v], CostOf(wmsg[v])))
    /\ Reject(v)
    /\ NoFault
    /\ UNCHANGED <<dbVars, tableVars, work, units>>

\* The commit of the delivery and, when it holds the wallet row, of the refund.
CommitRows(v) ==
    /\ pc[v] = "commit"
    /\ SetStatus(wmsg[v], outcome[v])
    /\ keeper' = [keeper EXCEPT ![wmsg[v]] = NoTx]
    /\ IF holder[PayerOf(v)] = v
       THEN CommitBalance(v, PayerOf(v), CostOf(wmsg[v]))
       ELSE UNCHANGED <<balance, ledger, holder>>
    /\ UNCHANGED <<debits, outbox, wallets, channels, applied, work, units>>

\* process returns nil: Ack.
CommitDelivery(v) ==
    /\ CommitRows(v)
    /\ Free(v)
    /\ NoFault
    /\ UNCHANGED brokerVars

\* The commit took effect and the worker sees an error.
CommitDeliveryLost(v) ==
    /\ Fault("dbLost")
    /\ CommitRows(v)
    /\ IF linked[v] THEN Requeue(wmsg[v]) ELSE UNCHANGED brokerVars
    /\ Free(v)

\* A statement fails, the loss of the session among the reasons: rollback, and
\* the copy comes back.  The deadline is checked without the database.
StatementErrs(v) ==
    /\ Fault("dbError")
    /\ pc[v] \notin {"idle", "deadline", "send"}
    /\ Reject(v)
    /\ UNCHANGED <<dbVars, tableVars, work, units>>

\* The process dies: its transaction ends, its copy comes back.
WorkerDies(v) ==
    /\ Fault("workerCrash")
    /\ pc[v] # "idle"
    /\ Reject(v)
    /\ UNCHANGED <<dbVars, tableVars, work, units>>

\* The database ends the session, and with it the transaction, while the
\* goroutine is in sender.Send: the row of its message is free at once, the
\* call goes on.
SessionLost(v) ==
    /\ Fault("sessionLoss")
    /\ pc[v] = "send" /\ v \notin severed
    /\ Rollback(v)
    /\ severed' = severed \cup {v}
    /\ UNCHANGED <<dbVars, tableVars, work, units, pc, brokerVars, wmsg, linked, outcome>>

\* The broker redelivers at once; goroutine and transaction go on.
ConnectionLost(v) ==
    /\ Fault("connLoss")
    /\ pc[v] # "idle" /\ linked[v]
    /\ Requeue(wmsg[v])
    /\ linked' = [linked EXCEPT ![v] = FALSE]
    /\ UNCHANGED <<dbVars, tableVars, holder, work, units, pc, wmsg, keeper, outcome,
                   severed>>

WorkerStep(v) ==
    \/ \E m \in Messages : Receive(v, m)
    \/ FindNothing(v) \/ FindRow(v) \/ InsertRow(v) \/ InsertConflict(v)
    \/ CheckDeadline(v) \/ LockRefund(v) \/ WriteRefund(v) \/ RefundOverflows(v)
    \/ CommitDelivery(v)

SendAnswered(v) == SendReturns(v) \/ SendWasted(v)

WorkerFault(v) ==
    \/ CommitDeliveryLost(v) \/ StatementErrs(v) \/ WorkerDies(v)
    \/ SessionLost(v) \/ ConnectionLost(v)

\* A copy that Qos let the broker send ahead to a goroutine comes back with the
\* connection or the process.
FetchedReturned(m) ==
    /\ Fault("workerCrash") \/ Fault("connLoss")
    /\ ReturnFetched(m)
    /\ UNCHANGED <<dbVars, tableVars, holder, work, units, pc, workerVars>>

-----------------------------------------------------------------------------
(* The composition.                                                        *)

Init ==
    /\ wallets = {} /\ channels = {} /\ applied = {}
    /\ balance = [w \in Wallets |-> 0]
    /\ ledger = [w \in Wallets |-> 0]
    /\ holder = [w \in Wallets |-> NoTx]
    /\ work = [x \in Txs |-> 0]
    /\ units = [a \in Admins |-> 0]
    /\ pc = [x \in Txs |-> IF x \in Workers THEN "idle" ELSE "new"]
    /\ debits = [m \in Messages |-> 0]
    /\ outbox = [m \in Messages |-> "none"]
    /\ status = [m \in Messages |-> "none"]
    /\ ready = [m \in Messages |-> 0]
    /\ returned = [m \in Messages |-> 0]
    /\ toPublish = {} /\ toConfirm = {} /\ refused = {}
    /\ wmsg = [v \in Workers |-> NoMessage]
    /\ linked = [v \in Workers |-> TRUE]
    /\ keeper = [m \in Messages |-> NoTx]
    /\ outcome = [v \in Workers |-> "none"]
    /\ severed = {}
    /\ faultsLeft = MaxFaults

ApiAction(A) == A /\ UNCHANGED <<brokerVars, dispatcherVars, workerVars>>
DispatcherAction(A) == A /\ UNCHANGED <<tableVars, holder, work, units, pc, workerVars>>
WorkerAction(A) == A /\ UNCHANGED dispatcherVars

\* Nothing is left to do.
Quiescent ==
    /\ \A x \in Requests : pc[x] \notin InTransaction \cup {"new"}
    /\ \A v \in Workers : pc[v] = "idle"
    /\ \A m \in Messages : outbox[m] # "pending" /\ ready[m] = 0
    /\ toPublish = {} /\ toConfirm = {} /\ refused = {}
    /\ UNCHANGED vars

Next ==
    \/ \E m \in Messages : ApiAction(ChargeStep(m))
    \/ \E a \in Admins : ApiAction(AdminStep(a))
    \/ \E x \in Requests : ApiAction(StatementFails(x) \/ CommitReplyLost(x))
    \/ ApiAction(ApiCrash)
    \/ DispatcherAction(DispatcherStep \/ DispatcherFault)
    \/ \E v \in Workers : WorkerAction(WorkerStep(v) \/ SendAnswered(v) \/ WorkerFault(v))
    \/ \E m \in Messages : WorkerAction(FetchedReturned(m))
    \/ Quiescent

Spec == Init /\ [][Next]_vars

\* As in SmsGateway: processes keep moving.  A provider call need not return,
\* for nothing gives it a deadline.
FairSpec ==
    /\ Spec
    /\ \A m \in Messages : WF_vars(ApiAction(ChargeStep(m)))
    /\ \A a \in Admins : WF_vars(ApiAction(AdminStep(a)))
    /\ WF_vars(DispatcherAction(DispatcherStep))
    /\ \A v \in Workers : WF_vars(WorkerAction(WorkerStep(v)))

-----------------------------------------------------------------------------
(* Safety.                                                                 *)

AtWork == {"deadline", "send", "lock", "write", "commit"}

TypeOK ==
    /\ wallets \subseteq Wallets /\ channels \subseteq wallets /\ applied \subseteq Admins
    /\ balance \in [Wallets -> 0..ColumnMax]
    /\ ledger \in [Wallets -> Int]
    /\ holder \in [Wallets -> Txs \cup {NoTx}]
    /\ work \in [Txs -> 0..ColumnMax]
    /\ units \in [Admins -> 0..IntMax]
    /\ pc \in [Txs -> RequestStates \cup WorkerStates]
    /\ \A x \in Requests : pc[x] \in RequestStates
    /\ \A v \in Workers : pc[v] \in WorkerStates
    /\ debits \in [Messages -> Nat]
    /\ outbox \in [Messages -> OutboxStates]
    /\ status \in [Messages -> {"none"} \cup Terminal]
    /\ ready \in [Messages -> Nat]
    /\ returned \in [Messages -> 0..DeliveryLimit + 1]
    /\ toPublish \subseteq Messages /\ toConfirm \subseteq Messages /\ refused \subseteq Messages
    /\ wmsg \in [Workers -> Messages \cup {NoMessage}]
    /\ \A v \in Workers : pc[v] # "idle" => wmsg[v] \in Messages
    /\ linked \in [Workers -> BOOLEAN]
    /\ keeper \in [Messages -> Workers \cup {NoTx}]
    /\ outcome \in [Workers -> StatusValues]
    /\ severed \subseteq Workers
    /\ faultsLeft \in Nat

\* The books balance: whatever transactions run side by side and wherever they
\* fail, a wallet holds what it was created with plus its ledger rows.  A lost
\* update, an amount that wrapped around or a ledger row without its balance
\* would show here.
BooksBalance == \A w \in Wallets : balance[w] = ledger[w]

\* Two goroutines that hold copies of one message and still have their sessions
\* are never both past the row of the message in sms_deliveries: the second
\* waits at the key, also while the first is in its provider call.  A goroutine
\* that lost its session there may still be in its call when the next one
\* begins; it never gets to record an outcome.
OneWorkerPerMessage ==
    \A u, v \in Workers \ severed :
        pc[u] \in AtWork /\ pc[v] \in AtWork /\ wmsg[u] = wmsg[v] => u = v

\* The broker will redeliver m should the goroutine that holds it fail.
Held(m) == \E v \in Workers : pc[v] # "idle" /\ wmsg[v] = m /\ linked[v]

\* Something will still happen to a charged message.
OnItsWay(m) == outbox[m] = "pending" \/ ready[m] > 0 \/ Held(m)

\* A message is charged exactly when its outbox row exists, and a charged
\* message is on its way until it is delivered or refunded or its copies have
\* come back more often than the limit of the queues.
NoLostCharge ==
    \A m \in Messages :
        /\ debits[m] = IF outbox[m] = "none" THEN 0 ELSE 1
        /\ debits[m] = 1 => OnItsWay(m) \/ status[m] \in Terminal \/ Exhausted(m)

\* A client that was told of success has what it asked for, once; one that was
\* told its request was refused can repeat it, for it had no effect.  Only 500
\* and a connection that broke leave it open.
AnswersAreTrue ==
    /\ \A m \in Messages :
        /\ pc[m] = "202" => debits[m] = 1
        /\ pc[m] \in {"400", "422", "429"} => debits[m] = 0
    /\ \A a \in Admins :
        /\ pc[a] \in {"200", "201"} => a \in applied
        /\ pc[a] \in {"400", "401"} => a \notin applied

Charged == {m \in Messages : debits[m] > 0}

Ledger == INSTANCE AtomicLedger
            WITH open <- wallets, charged <- Charged, outcome <- status,
                 Price <- [m \in Messages |-> CostOf(m)], MaxBalance <- ColumnMax

\* The statements of concurrent transactions add up to whole operations: the
\* charge goes with its outbox row, the refund with its terminal status, both
\* happen once, and no wallet is overdrawn, under every fault.
ImplementsAtomicLedger == Ledger!Spec

-----------------------------------------------------------------------------
(* Why they hold: an inductive invariant.                                  *)

\* The wallet row transaction x works on.
RowOf(x) ==
    IF x \in Messages THEN WalletOf[x]
    ELSE IF x \in Admins THEN AdminWallet[x] ELSE PayerOf(x)

\* A locked row exists and its holder is in the statements that need it, with
\* the balance as it is in the table.
LocksCover ==
    /\ \A w \in Wallets : holder[w] # NoTx =>
        w \in wallets /\ pc[holder[w]] \in {"write", "commit"} /\ RowOf(holder[w]) = w
    /\ \A x \in Txs : pc[x] = "write" =>
        holder[RowOf(x)] = x /\ work[x] = balance[RowOf(x)]
    /\ \A x \in Requests : pc[x] = "commit" => holder[RowOf(x)] = x

\* What a transaction is about to commit is the balance in the table moved by
\* its own amount.
WorkIsCurrent ==
    /\ \A m \in Messages : pc[m] = "commit" => work[m] + CostOf(m) = balance[RowOf(m)]
    /\ \A a \in Admins :
        /\ pc[a] \in InTransaction => units[a] > 0
        /\ pc[a] = "commit" => work[a] = balance[RowOf(a)] + units[a]
    /\ \A v \in Workers : pc[v] = "commit" /\ holder[RowOf(v)] = v =>
        work[v] = balance[RowOf(v)] + CostOf(wmsg[v])

\* A goroutine at work keeps the row of its message, unless its session is gone
\* and it waits for a provider; the row is not terminal until it commits; it
\* holds the wallet row at its commit to refund, and only then.
RowsAreKept ==
    /\ \A v \in severed : pc[v] = "send"
    /\ \A v \in Workers \ severed : pc[v] \in AtWork => keeper[wmsg[v]] = v
    /\ \A v \in Workers \ severed :
        pc[v] \in AtWork \ {"commit"} => status[wmsg[v]] = "none"
    /\ \A v \in Workers : pc[v] = "commit" =>
        IF holder[RowOf(v)] = v
        THEN status[wmsg[v]] = "none" /\ outcome[v] = "refunded"
        ELSE \/ status[wmsg[v]] = "none" /\ outcome[v] = "delivered"
             \/ status[wmsg[v]] \in Terminal /\ outcome[v] = status[wmsg[v]]

\* Charge and outbox row come together and before everything else, and a copy
\* exists from the publish until the message is terminal.
ChargedUntilSettled ==
    /\ \A m \in Messages :
        /\ debits[m] = IF outbox[m] = "none" THEN 0 ELSE 1
        /\ pc[m] \in {"new"} \cup InTransaction => outbox[m] = "none"
        /\ outbox[m] = "none" =>
            /\ status[m] = "none" /\ ready[m] = 0
            /\ m \notin toPublish /\ m \notin toConfirm
            /\ \A v \in Workers : pc[v] # "idle" => wmsg[v] # m
        /\ m \in toConfirm \/ outbox[m] = "published" =>
            ready[m] > 0 \/ Held(m) \/ status[m] \in Terminal \/ Exhausted(m)
    /\ \A v \in Workers : pc[v] = "idle" => linked[v]

\* An admin request has no effect before its commit.
AnswersInv ==
    /\ AnswersAreTrue
    /\ \A a \in Admins : pc[a] \in {"new"} \cup InTransaction => a \notin applied

LInv ==
    /\ TypeOK
    /\ BooksBalance
    /\ LocksCover
    /\ WorkIsCurrent
    /\ RowsAreKept
    /\ ChargedUntilSettled
    /\ AnswersInv

-----------------------------------------------------------------------------
(* Liveness.                                                               *)

\* A worker of the line of m waits for a provider.
Waiting(m) == \E v \in Workers : WorkerLine[v] = LineOf[m] /\ pc[v] = "send"

\* Every charged message is delivered or refunded, unless a provider never
\* answers, or its copies come back, as they do when the refund does not fit the
\* balance, more often than the queues let them.
EveryChargeSettles ==
    \A m \in Messages :
        debits[m] > 0 ~> status[m] \in Terminal \/ Exhausted(m) \/ []Waiting(m)
=============================================================================
