----------------------------- MODULE SmsGateway -----------------------------
(***************************************************************************)
(* The gateway as it is deployed: the API, the admin API, the dispatcher   *)
(* and the worker replicas around Redis, PostgreSQL and RabbitMQ.  A step  *)
(* is one call of one of them; the components share the Redis store, the   *)
(* tables and the queues and nothing else.                                 *)
(***************************************************************************)
EXTENDS SmsService, AdminService, OutboxDispatcher, DeliveryWorker, FiniteSets

CONSTANT InitialBalance     \* InitialBalance[w]: wallets.balance at the start

ASSUME BalanceAssumption == InitialBalance \in [Wallets -> Nat]

vars == <<storeVars, dbVars, brokerVars, apiVars, adminVars, dispatcherVars,
          workerVars, faultsLeft>>

TypeOK ==
    /\ available \in [Wallets -> Nat \cup {Uninitialised}]
    /\ reserved \in SUBSET Messages
    /\ balance \in [Wallets -> Nat]
    /\ debits \in [Messages -> Nat]
    /\ outbox \in [Messages -> OutboxStates]
    /\ status \in [Messages -> StatusValues]
    /\ ready \in [Messages -> Nat]
    /\ returned \in [Messages -> 0..(DeliveryLimit + 1)]
    /\ api \in [Messages -> ApiStates]
    /\ slots \in [Lines -> Int]
    /\ loaded \in [Messages -> Nat]
    /\ topup \in [TopUps -> {"new", "publish", "done"}]
    /\ topupBalance \in [TopUps -> Nat]
    /\ toPublish \in SUBSET Messages
    /\ toConfirm \in SUBSET Messages
    /\ refused \in SUBSET Messages
    /\ wpc \in [Workers -> WorkerStates]
    /\ wmsg \in [Workers -> Messages \cup {NoMessage}]
    /\ \A w \in Workers : wpc[w] # "idle" => wmsg[w] \in Messages
    /\ linked \in [Workers -> BOOLEAN]
    /\ bounded \in [Workers -> BOOLEAN]
    /\ expired \in [Messages -> BOOLEAN]
    /\ faultsLeft \in Nat

-----------------------------------------------------------------------------
(* The wallets exist.  Create also writes the Redis balance, but drops the *)
(* error of that write, so the key may be missing.                         *)
InitWallets ==
    /\ balance = InitialBalance
    /\ available \in {[w \in Wallets |-> IF w \in S THEN balance[w] ELSE Uninitialised] :
                        S \in SUBSET Wallets}
    /\ reserved = {}

Init ==
    /\ InitWallets
    /\ debits = [m \in Messages |-> 0]
    /\ outbox = [m \in Messages |-> "none"]
    /\ status = [m \in Messages |-> "none"]
    /\ ready = [m \in Messages |-> 0]
    /\ returned = [m \in Messages |-> 0]
    /\ api = [m \in Messages |-> "new"]
    /\ slots = [l \in Lines |-> 0]
    /\ loaded = [m \in Messages |-> 0]
    /\ topup = [t \in TopUps |-> "new"]
    /\ topupBalance = [t \in TopUps |-> 0]
    /\ toPublish = {}
    /\ toConfirm = {}
    /\ refused = {}
    /\ wpc = [w \in Workers |-> "idle"]
    /\ wmsg = [w \in Workers |-> NoMessage]
    /\ linked = [w \in Workers |-> TRUE]
    /\ bounded = [w \in Workers |-> TRUE]
    /\ expired = [m \in Messages |-> FALSE]
    /\ faultsLeft = MaxFaults

ApiAction(A) == A /\ UNCHANGED <<brokerVars, adminVars, dispatcherVars, workerVars>>
AdminAction(A) == A /\ UNCHANGED <<brokerVars, apiVars, dispatcherVars, workerVars>>
DispatcherAction(A) == A /\ UNCHANGED <<storeVars, apiVars, adminVars, workerVars>>
WorkerAction(A) == A /\ UNCHANGED <<apiVars, adminVars, dispatcherVars>>

\* Nothing is left to do: every request is answered, no row is pending, no
\* copy is queued or held.  A state in which nothing moves and that is not
\* this one is a deadlock.
Quiescent ==
    /\ \A m \in Messages : api[m] \in Answered /\ outbox[m] # "pending" /\ ready[m] = 0
    /\ toPublish = {} /\ toConfirm = {} /\ refused = {}
    /\ \A w \in Workers : wpc[w] = "idle"
    /\ \A t \in TopUps : topup[t] = "done"
    /\ UNCHANGED vars

Next ==
    \/ \E m \in Messages : ApiAction(RequestStep(m) \/ RequestFault(m))
    \/ ApiAction(ApiCrash)
    \/ \E t \in TopUps : AdminAction(TopUpStep(t) \/ TopUpFault(t))
    \/ DispatcherAction(DispatcherStep \/ DispatcherFault)
    \/ \E w \in Workers : WorkerAction(WorkerStep(w) \/ SendReturns(w) \/ WorkerFault(w))
    \/ \E m \in Messages : WorkerAction(DeadlinePasses(m) \/ FetchedReturned(m))
    \/ RedisFlush /\ UNCHANGED <<dbVars, brokerVars, apiVars, adminVars,
                                 dispatcherVars, workerVars>>
    \/ Quiescent

Spec == Init /\ [][Next]_vars

\* Calls return and processes are restarted, so each of them keeps moving.
\* A provider call is only certain to return when its context has a deadline.
\* Faults, deadlines, top-ups and answers of the provider are left to chance.
Fairness ==
    /\ \A m \in Messages : WF_vars(ApiAction(RequestStep(m)))
    /\ WF_vars(DispatcherAction(DispatcherStep))
    /\ \A w \in Workers :
        WF_vars(WorkerAction(WorkerStep(w) \/ (bounded[w] /\ SendReturns(w))))

FairSpec == Spec /\ Fairness

-----------------------------------------------------------------------------
(* What the properties speak of.                                           *)

\* The broker will redeliver m should the goroutine that holds it fail.
Held(m) == \E w \in Workers : wpc[w] # "idle" /\ wmsg[w] = m /\ linked[w]

\* The pipeline still remembers m.
InFlight(m) == outbox[m] = "pending" \/ ready[m] > 0 \/ Held(m)

\* m has its terminal status and keeps no credit reserved.
Settled(m) == status[m] \in Terminal /\ m \notin reserved

Undebited(w) == {m \in reserved : WalletOf[m] = w /\ debits[m] = 0}

\* The price of a set of messages: all messages of a line cost the same.
TotalCost(S) ==
    LET OnLine(l) == {m \in S : LineOf[m] = l} IN
    Cost["express"] * Cardinality(OnLine("express"))
        + Cost["normal"] * Cardinality(OnLine("normal"))

\* Credit of wallet w that is reserved for messages not charged so far.
Owed(w) == TotalCost(Undebited(w))

\* The requests that hold a slot of line l.
Serving(l) == {m \in Messages : LineOf[m] = l /\ api[m] \in InService}

-----------------------------------------------------------------------------
(* Safety.                                                                 *)

\* Only the broker's limit loses a queued message: as long as its outbox row
\* exists, the row is still to be published, or a copy is in the broker or with
\* a connected worker, or the message is settled, or its copies came back more
\* often than the broker redelivers one.  This is what publishing before
\* marking, acknowledging last and requeueing on every error are for; no other
\* fault loses a message, a Redis that loses its data included.
NoLostMessage ==
    \A m \in Messages :
        outbox[m] # "none" => InFlight(m) \/ Settled(m) \/ Exhausted(m)

\* Commit deletes a reservation without returning its credit.  A worker about
\* to do so on a reservation that exists has a debit in the ledger for it, also
\* when it got there from a terminal row written by another worker.
CommitReleasesPaidCredit ==
    \A w \in Workers :
        wpc[w] = "commit" /\ wmsg[w] \in reserved => debits[wmsg[w]] >= 1

\* Each slot taken belongs to a request in service: no return path of Execute
\* leaks a slot or releases one twice, whatever call fails, and the requests
\* in service on a line never exceed its limit.
SlotsMatchRequests ==
    \A l \in Lines : slots[l] = Cardinality(Serving(l)) /\ slots[l] <= Limit[l]

\* A client that was refused may send again: its request holds no credit and
\* has no outbox row, also when the reserve script ran twice or calls failed.
\* One that was told 202 has its row.  Only 500 and a dead API leave it open.
AnswersAreTrue ==
    \A m \in Messages :
        /\ api[m] \in Refused => m \notin reserved /\ outbox[m] = "none"
        /\ api[m] = "202" => outbox[m] # "none"

\* A message is charged at most once.
AtMostOneDebit == \A m \in Messages : debits[m] <= 1

\* A message recorded as refunded was not charged.
RefundedIsNotCharged ==
    \A m \in Messages : status[m] = "refunded" => debits[m] = 0

\* "delivered" and "refunded" are final in sms_deliveries.
TerminalIsFinal ==
    [][\A m \in Messages : status[m] \in Terminal => status'[m] = status[m]]_vars

\* Once settled, always settled: whatever duplicates, retries and faults follow,
\* the row stays terminal and the message never holds credit again.
SettledIsStable ==
    [][\A m \in Messages : Settled(m) => Settled(m)']_vars

\* Redis projects PostgreSQL: the credit it offers plus the credit it holds for
\* messages not yet charged is the balance of the wallet.
CreditConserved ==
    \A w \in Wallets :
        available[w] # Uninitialised => available[w] + Owed(w) = balance[w]

\* The balance covers the message a worker is about to charge: a message the
\* provider sent on reserved credit is not given away.
DebitIsCovered ==
    \A w \in Workers :
        wpc[w] = "debit" /\ wmsg[w] \in reserved => CanAfford(wmsg[w])

-----------------------------------------------------------------------------
(* Why the invariants hold: an inductive invariant.                        *)

BeforeEnqueue == {"new", "lookup", "reserve", "load", "setnx", "enqueue"}

\* A request has no outbox row before its Enqueue, and without an outbox row
\* a message is nowhere else: Reserve never meets a message that is in the
\* queue, and a worker never one that may still be reserved.
OutboxComesFirst ==
    \A m \in Messages :
        /\ api[m] \in BeforeEnqueue => outbox[m] = "none"
        /\ outbox[m] = "none" =>
            /\ status[m] = "none" /\ ready[m] = 0
            /\ m \notin toPublish /\ m \notin toConfirm
            /\ \A w \in Workers : wpc[w] # "idle" => wmsg[w] # m

\* What a terminal row says of the money, and that a refund comes before its
\* record.
TerminalRowsAreBacked ==
    /\ \A m \in Messages :
        /\ status[m] = "delivered" => debits[m] >= 1
        /\ status[m] = "refunded" => m \notin reserved
    /\ \A w \in Workers : wpc[w] = "mark" => wmsg[w] \notin reserved

\* A worker commits what is terminal and acknowledges what is settled.
SettledBeforeAck ==
    \A w \in Workers :
        /\ wpc[w] = "commit" => status[wmsg[w]] \in Terminal
        /\ wpc[w] = "ack" => Settled(wmsg[w])

\* Once a row was stored by the broker a copy exists until it is settled or the
\* limit is used up; a goroutine that may be given it is connected.
CopyUntilSettled ==
    /\ \A m \in Messages :
        m \in toConfirm \/ outbox[m] = "published" =>
            ready[m] > 0 \/ Held(m) \/ Settled(m) \/ Exhausted(m)
    /\ \A w \in Workers : wpc[w] = "idle" => linked[w]

IInv ==
    /\ TypeOK
    /\ OutboxComesFirst
    /\ TerminalRowsAreBacked
    /\ SettledBeforeAck
    /\ CopyUntilSettled

\* What AnswersAreTrue needs: a request that has not begun holds no credit.
AnswersInv ==
    AnswersAreTrue /\ \A m \in Messages : api[m] = "new" => m \notin reserved

\* The faults that make a second copy of a message, or let a worker refund
\* what it has charged.
NoDuplicatingFaults ==
    Faults \cap {"dispatcherStop", "publishNack", "connLoss", "dbLost"} = {}

\* Without them a message is in one place: its pending row, the queue, or one
\* goroutine.
OneCopy ==
    /\ \A m \in Messages :
        /\ ready[m] <= 1
        /\ m \in toPublish => m \notin toConfirm
        /\ m \in toPublish \cup toConfirm => outbox[m] = "pending"
        /\ m \notin refused
        /\ outbox[m] = "pending" /\ m \notin toConfirm => ready[m] = 0
    /\ \A w \in Workers : wpc[w] # "idle" =>
        /\ linked[w]
        /\ ready[wmsg[w]] = 0
        /\ outbox[wmsg[w]] = "published" \/ wmsg[w] \in toConfirm
        /\ \A v \in Workers : v # w /\ wpc[v] # "idle" => wmsg[v] # wmsg[w]

\* A goroutine past beginDelivery works on a row that is not terminal, and
\* exactly the delivered messages are charged, once.
ChargedOnce ==
    /\ \A m \in Messages : debits[m] = IF status[m] = "delivered" THEN 1 ELSE 0
    /\ \A w \in Workers :
        wpc[w] \notin {"idle", "find", "commit", "ack"} => status[wmsg[w]] \notin Terminal

SingleCopyInv == IInv /\ OneCopy /\ ChargedOnce

\* What SlotsMatchRequests needs to count: finitely many requests are in service
\* at a time, however many there will be.
SlotsInv == SlotsMatchRequests /\ \A l \in Lines : IsFiniteSet(Serving(l))

\* Nothing makes Redis forget or overwrite the credit, so it has to be conserved.
CreditIsSafe == NoDuplicatingFaults /\ "redisFlush" \notin Faults /\ TopUps = {}

\* A reservation exists from Reserve to the debit, and no longer than its
\* wallet's key; a balance loaded for a missing key is the wallet's balance.
ReservationsAreBacked ==
    /\ IsFiniteSet(reserved)
    /\ \A m \in Messages :
        /\ api[m] = "refund" => outbox[m] = "none"
        /\ m \in reserved => available[WalletOf[m]] # Uninitialised
        /\ api[m] = "setnx" /\ available[WalletOf[m]] = Uninitialised =>
            loaded[m] = balance[WalletOf[m]]
    /\ \A w \in Workers : wpc[w] \in {"send", "sending", "debit"} => wmsg[w] \in reserved

CreditInv == SingleCopyInv /\ ReservationsAreBacked /\ CreditConserved

-----------------------------------------------------------------------------
(* Liveness, under Fairness.                                               *)

\* A worker of the line of m waits for a provider call without a deadline.
Stuck(m) == \E w \in Workers : WorkerLine[w] = LineOf[m] /\ ~bounded[w]

\* Every queued message is eventually settled, unless from some time on its line
\* always has a worker in a provider call without a deadline, or its copies came
\* back more often than the broker redelivers one.
EveryMessageSettles ==
    \A m \in Messages :
        outbox[m] # "none" ~> Settled(m) \/ []Stuck(m) \/ Exhausted(m)

\* Every reservation ends: its credit is spent or returned.
ReservationEnds == \A m \in Messages : m \in reserved ~> m \notin reserved

\* A provider call comes back to its worker.
ProviderCallReturns ==
    \A w \in Workers : wpc[w] = "sending" ~> wpc[w] # "sending"
=============================================================================
