--------------------------- MODULE DeliveryWorker ---------------------------
(***************************************************************************)
(* The delivery worker with reservations (Worker in messaging/rabbitmq.go):*)
(* a consumer goroutine takes a copy of a message, runs processReserved and*)
(* acknowledges the copy, or requeues it when a call fails.  wpc[w] is the *)
(* next call the goroutine makes; other goroutines, of this replica or of  *)
(* another, run between two calls.  beginDelivery locks the inbox row only *)
(* for its own transaction, so nothing holds the message while it is       *)
(* processed.                                                              *)
(***************************************************************************)
EXTENDS ReservationStore, WalletLedger, Broker

CONSTANTS
    Workers,    \* the consumer goroutines of all replicas
    WorkerLine, \* WorkerLine[w]: the line its replica consumes
    NoMessage   \* what an idle goroutine holds

ASSUME WorkerAssumption ==
    /\ WorkerLine \in [Workers -> Lines]
    /\ NoMessage \notin Messages

VARIABLES
    wpc,        \* wpc[w]: the next call of goroutine w
    wmsg,       \* wmsg[w]: the message it processes
    linked,     \* linked[w]: its broker connection still holds the copy
    bounded,    \* bounded[w]: no provider call of w runs without a deadline
    expired     \* expired[m]: the time is past event.DeadlineAt

workerVars == <<wpc, wmsg, linked, bounded, expired>>

WorkerStates == {"idle", "find", "create", "deadline", "isReserved", "send",
                 "sending", "debit", "refund", "mark", "commit", "ack"}

\* Goroutine w goes on from one call to the next.
Goto(w, from, next) ==
    /\ wpc[w] = from
    /\ wpc' = [wpc EXCEPT ![w] = next]
    /\ UNCHANGED <<wmsg, linked, expired>>

\* The goroutine takes its next delivery.  When its connection was lost, Run
\* has returned, the process has exited and its successor has connected.
Free(w) ==
    /\ wpc' = [wpc EXCEPT ![w] = "idle"]
    /\ wmsg' = [wmsg EXCEPT ![w] = NoMessage]
    /\ linked' = [linked EXCEPT ![w] = TRUE]
    /\ bounded' = [bounded EXCEPT ![w] = TRUE]
    /\ UNCHANGED expired

\* Mutant: the copy is rejected without requeue.
NackDrops(w) == UNCHANGED brokerVars /\ Free(w)

\* Nack with requeue; over a lost connection it does nothing.
Nack(w) ==
    /\ IF linked[w] THEN Requeue(wmsg[w]) ELSE UNCHANGED brokerVars
    /\ Free(w)

Receive(w, m) ==
    /\ wpc[w] = "idle"
    /\ LineOf[m] = WorkerLine[w]
    /\ Deliver(m)
    /\ wpc' = [wpc EXCEPT ![w] = "find"]
    /\ wmsg' = [wmsg EXCEPT ![w] = m]
    /\ NoFault
    /\ UNCHANGED <<linked, bounded, expired, storeVars, dbVars>>

\* Mutant: only "refunded" is taken for a terminal status.
FindDeliveryRefundedOnly(w) ==
    /\ wpc[w] = "find"
    /\ \/ status[wmsg[w]] = "none" /\ Goto(w, "find", "create")
       \/ status[wmsg[w]] \in {"processing", "delivered"} /\ Goto(w, "find", "deadline")
       \/ status[wmsg[w]] = "refunded" /\ Goto(w, "find", "commit")
    /\ NoFault
    /\ UNCHANGED <<bounded, brokerVars, storeVars, dbVars>>

\* beginDelivery, the row is found: terminal messages are only committed.
FindDelivery(w) ==
    /\ wpc[w] = "find"
    /\ \/ status[wmsg[w]] = "none" /\ Goto(w, "find", "create")
       \/ status[wmsg[w]] = "processing" /\ Goto(w, "find", "deadline")
       \/ status[wmsg[w]] \in Terminal /\ Goto(w, "find", "commit")
    /\ NoFault
    /\ UNCHANGED <<bounded, brokerVars, storeVars, dbVars>>

\* Mutant: the insert overwrites a row that appeared meanwhile.
CreateDeliveryUpserts(w) ==
    /\ Goto(w, "create", "deadline")
    /\ SetStatus(wmsg[w], "processing")
    /\ NoFault
    /\ UNCHANGED <<bounded, brokerVars, storeVars, balance, debits, outbox>>

\* beginDelivery, the row was missing.
CreateDelivery(w) ==
    /\ Goto(w, "create", "deadline")
    /\ status[wmsg[w]] = "none"
    /\ SetStatus(wmsg[w], "processing")
    /\ NoFault
    /\ UNCHANGED <<bounded, brokerVars, storeVars, balance, debits, outbox>>

\* Another goroutine inserted the row first: the insert violates the key.
CreateConflict(w) ==
    /\ wpc[w] = "create"
    /\ status[wmsg[w]] # "none"
    /\ Nack(w)
    /\ NoFault
    /\ UNCHANGED <<storeVars, dbVars>>

\* Mutant: an expired message is marked without its refund.
CheckDeadlineNoRefund(w) ==
    /\ Goto(w, "deadline", IF expired[wmsg[w]] THEN "mark" ELSE "isReserved")
    /\ NoFault
    /\ UNCHANGED <<bounded, brokerVars, storeVars, dbVars>>

CheckDeadline(w) ==
    /\ Goto(w, "deadline", IF expired[wmsg[w]] THEN "refund" ELSE "isReserved")
    /\ NoFault
    /\ UNCHANGED <<bounded, brokerVars, storeVars, dbVars>>

\* Mutant: a reservation that is missing is waited for.
IsReservedWaits(w) ==
    /\ Goto(w, "isReserved", IF wmsg[w] \in reserved THEN "send" ELSE "isReserved")
    /\ NoFault
    /\ UNCHANGED <<bounded, brokerVars, storeVars, dbVars>>

IsReserved(w) ==
    /\ Goto(w, "isReserved", IF wmsg[w] \in reserved THEN "send" ELSE "mark")
    /\ NoFault
    /\ UNCHANGED <<bounded, brokerVars, storeVars, dbVars>>

\* providerContext: when the deadline passed since it was checked, the time
\* that remains is not positive and the context gets no deadline at all.
StartSend(w) ==
    /\ Goto(w, "send", "sending")
    /\ bounded' = [bounded EXCEPT ![w] = ~expired[wmsg[w]]]
    /\ NoFault
    /\ UNCHANGED <<brokerVars, storeVars, dbVars>>

\* The provider pool answers: sent, or failed or timed out.
SendReturns(w) ==
    /\ Goto(w, "sending", "debit") \/ Goto(w, "sending", "refund")
    /\ bounded' = [bounded EXCEPT ![w] = TRUE]
    /\ NoFault
    /\ UNCHANGED <<brokerVars, storeVars, dbVars>>

\* Mutant: the status update is left out of the transaction.
DebitWithoutStatus(m) ==
    /\ CanAfford(m)
    /\ DeductAndRecord(m)
    /\ UNCHANGED <<status, outbox>>

\* The transaction after a successful send: debit, ledger row and status.
Debit(m) ==
    /\ CanAfford(m)
    /\ DeductAndRecord(m)
    /\ SetStatus(m, "delivered")
    /\ UNCHANGED outbox

DebitDelivered(w) ==
    /\ Goto(w, "debit", "commit")
    /\ Debit(wmsg[w])
    /\ NoFault
    /\ UNCHANGED <<bounded, brokerVars, storeVars>>

DebitRefused(w) ==
    /\ Goto(w, "debit", "refund")
    /\ ~CanAfford(wmsg[w])
    /\ NoFault
    /\ UNCHANGED <<bounded, brokerVars, storeVars, dbVars>>

DebitFails(w) ==
    /\ Fault("dbError")
    /\ Goto(w, "debit", "refund")
    /\ UNCHANGED <<bounded, brokerVars, storeVars, dbVars>>

\* The transaction committed and the worker sees an error.
DebitLost(w) ==
    /\ Fault("dbLost")
    /\ Goto(w, "debit", "refund")
    /\ Debit(wmsg[w])
    /\ UNCHANGED <<bounded, brokerVars, storeVars>>

RefundReservation(w) ==
    /\ Goto(w, "refund", "mark")
    /\ RefundScript(wmsg[w])
    /\ NoFault
    /\ UNCHANGED <<bounded, brokerVars, dbVars>>

\* markDelivery updates the row whatever its status is.
MarkRefunded(w) ==
    /\ Goto(w, "mark", "ack")
    /\ SetStatus(wmsg[w], "refunded")
    /\ NoFault
    /\ UNCHANGED <<bounded, brokerVars, storeVars, balance, debits, outbox>>

CommitReservation(w) ==
    /\ Goto(w, "commit", "ack")
    /\ CommitScript(wmsg[w])
    /\ NoFault
    /\ UNCHANGED <<bounded, brokerVars, dbVars>>

Ack(w) ==
    /\ wpc[w] = "ack"
    /\ Free(w)
    /\ NoFault
    /\ UNCHANGED <<brokerVars, storeVars, dbVars>>

\* A call that fails without effect makes process return its error: Nack.
DbCallFails(w) ==
    /\ Fault("dbError")
    /\ wpc[w] \in {"find", "create", "mark"}
    /\ Nack(w)
    /\ UNCHANGED <<storeVars, dbVars>>

\* Mutant: a failed refund is ignored and the message marked refunded.
RedisCallErrsIgnored(w) ==
    /\ Fault("redisError")
    /\ \/ Goto(w, "refund", "mark") /\ UNCHANGED <<bounded, brokerVars>>
       \/ wpc[w] \in {"isReserved", "commit"} /\ Nack(w)
    /\ UNCHANGED <<storeVars, dbVars>>

RedisCallErrs(w) ==
    /\ Fault("redisError")
    /\ wpc[w] \in {"isReserved", "refund", "commit"}
    /\ Nack(w)
    /\ UNCHANGED <<storeVars, dbVars>>

\* A call that takes effect and still returns an error: Nack as well.
CreateLost(w) ==
    /\ Fault("dbLost")
    /\ wpc[w] = "create" /\ status[wmsg[w]] = "none"
    /\ SetStatus(wmsg[w], "processing")
    /\ Nack(w)
    /\ UNCHANGED <<storeVars, balance, debits, outbox>>

MarkLost(w) ==
    /\ Fault("dbLost")
    /\ wpc[w] = "mark"
    /\ SetStatus(wmsg[w], "refunded")
    /\ Nack(w)
    /\ UNCHANGED <<storeVars, balance, debits, outbox>>

RefundLost(w) ==
    /\ Fault("redisLost")
    /\ wpc[w] = "refund"
    /\ RefundScript(wmsg[w])
    /\ Nack(w)
    /\ UNCHANGED dbVars

CommitLost(w) ==
    /\ Fault("redisLost")
    /\ wpc[w] = "commit"
    /\ CommitScript(wmsg[w])
    /\ Nack(w)
    /\ UNCHANGED dbVars

\* The worker process dies; the broker takes its unacknowledged copy back.
WorkerCrash(w) ==
    /\ Fault("workerCrash")
    /\ wpc[w] # "idle"
    /\ Nack(w)
    /\ UNCHANGED <<storeVars, dbVars>>

\* The broker drops the connection and redelivers; the goroutine carries on.
ConnLoss(w) ==
    /\ Fault("connLoss")
    /\ wpc[w] # "idle" /\ linked[w]
    /\ linked' = [linked EXCEPT ![w] = FALSE]
    /\ Requeue(wmsg[w])
    /\ UNCHANGED <<wpc, wmsg, bounded, expired, storeVars, dbVars>>

\* A replica that has fetched a copy in advance (Qos) goes away before any of
\* its goroutines takes it.
FetchedReturned(m) ==
    /\ Fault("workerCrash") \/ Fault("connLoss")
    /\ ReturnFetched(m)
    /\ UNCHANGED <<workerVars, storeVars, dbVars>>

\* time.Now() passes the deadline of an Express message.
DeadlinePasses(m) ==
    /\ LineOf[m] = "express"
    /\ outbox[m] # "none"
    /\ ~expired[m]
    /\ expired' = [expired EXCEPT ![m] = TRUE]
    /\ NoFault
    /\ UNCHANGED <<wpc, wmsg, linked, bounded, brokerVars, storeVars, dbVars>>

\* What the goroutine does by itself, apart from waiting for the provider.
WorkerStep(w) ==
    \/ \E m \in Messages : Receive(w, m)
    \/ FindDelivery(w) \/ CreateDelivery(w) \/ CreateConflict(w)
    \/ CheckDeadline(w) \/ IsReserved(w) \/ StartSend(w)
    \/ DebitDelivered(w) \/ DebitRefused(w)
    \/ RefundReservation(w) \/ MarkRefunded(w)
    \/ CommitReservation(w) \/ Ack(w)

WorkerFault(w) ==
    \/ DebitFails(w) \/ DebitLost(w)
    \/ DbCallFails(w) \/ RedisCallErrs(w)
    \/ CreateLost(w) \/ MarkLost(w) \/ RefundLost(w) \/ CommitLost(w)
    \/ WorkerCrash(w) \/ ConnLoss(w)
=============================================================================
