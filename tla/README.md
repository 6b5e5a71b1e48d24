# TLA+ models of the SMS gateway

The gateway accepts SMS requests over HTTP, reserves their price in Redis, queues
them through a transactional outbox and RabbitMQ, sends them through a pool of
providers and charges the wallet in PostgreSQL. These modules model that pipeline
call by call, and the older path without Redis statement by statement, with the
crashes, lost replies and duplicate deliveries it has to survive. TLC checks small
instances; TLAPS proves the safety properties for every instance. `PROJECT.json`
lists components, runs, mutants, the map from definitions to source lines, hazards,
findings and theorems.

## The system

| part | source | state it keeps | operations |
|---|---|---|---|
| send service | `application/sms/service.go` | slot channels per line | `Execute`: validate, acquire, look up, `Reserve`, `Enqueue`, `Refund` on failure |
| reservation store | `infrastructure/reservation/redis.go` | Redis: available credit per wallet, one key per reservation | `Reserve` (loads the balance when missing), `IsReserved`, `Commit`, `Refund`, `SetAvailable` |
| wallets and ledger | `infrastructure/persistence/wallet_repository.go`, `domain/wallet/entity.go` | PostgreSQL: balances, ledger rows, outbox rows | `Enqueue`, `CreditAndRecord`, `DeductAndRecord`, `Create`, `DeductAndEnqueue` (legacy) |
| money | `domain/wallet/entity.go`, `migrations/001` | none | `NewMoney` from a float, `Add`, `Subtract`; a DECIMAL(15,4) column |
| admin service | `application/admin/service.go` | none | `TopUpWallet`, `CreateWallet`, `CreateChannel`, reads |
| HTTP handlers | `interfaces/http` | none | binding, API key, one service call, `writeServiceError` |
| dispatcher | `infrastructure/messaging/rabbitmq.go` | the batch in progress | select fairly, publish, wait for confirms, mark published |
| broker | RabbitMQ, `Declare` | a durable quorum queue per line, redeliveries of each copy | publish or refuse, deliver, ack, nack with requeue up to the delivery limit |
| worker | `infrastructure/messaging/rabbitmq.go` | inbox row `sms_deliveries`, the copy in process | `processReserved`: begin, deadline, `IsReserved`, send, debit, `Commit` / `Refund`, mark; `processLegacy`: all of it in one transaction |
| provider pool | `infrastructure/sms/provider_pool.go`, `redis_provider_state.go` | Redis: cursor, one circuit per provider | `Send`: next, acquire, provider call, complete |
| in-process circuit | `provider_pool.go` | a mutex-protected struct | acquire, complete |

API, dispatcher and workers never call each other. They share three stores: Redis
(API, admin API and workers), PostgreSQL (all) and RabbitMQ (dispatcher, workers).
A request makes a Redis call and then a PostgreSQL call; a worker makes up to six
calls to the three stores and one to a provider. No transaction spans two stores,
so everything interesting happens between two calls.

### What is hard about it

- the inbox row is locked only while `beginDelivery` runs, so two copies of a
  message can be processed at the same time;
- credit lives in Redis and in PostgreSQL, and the two are updated by different
  calls of different processes, any of which can fail alone, or succeed and
  report failure;
- messages are duplicated by design (publish, then mark) and redelivered whenever
  a worker fails, but not without end: the queues have the broker's own limit on
  redeliveries (20 in the RabbitMQ 4.1 that `compose.yaml` pins), no dead-letter
  exchange, and every failure is requeued at once;
- an outbox row gets its id when it is inserted and is visible when it commits, so
  the dispatcher may read a younger row first; and the broker may refuse one row of
  a batch and store those behind it;
- an Express deadline is checked in one place and turned into a timeout in another;
- the older path computes balances in memory and holds a transaction open over
  the provider call, so row locks and keys have to order what runs side by side,
  and the session may end while the goroutine waits for a provider;
- amounts come from clients as floats and are added without an overflow check;
- circuit results arrive after the circuit they belong to has moved on, twice, or
  never, or after Redis has lost the circuit;
- batches are chosen from a bounded window, under traffic that never ends.

### What makes each part correct

- send service: every slot taken is released exactly once (`SlotsMatchRequests`),
  and a client that was refused has lost nothing (`AnswersAreTrue`);
- wallets: no update is lost and no amount wraps around (`BooksBalance`), the
  statements of concurrent transactions add up to whole operations
  (`ImplementsAtomicLedger`);
- legacy worker: one goroutine with a session per message (`OneWorkerPerMessage`), a
  charge goes with its outbox row and is not forgotten (`NoLostCharge`), and it ends
  in a delivery or a refund (`EveryChargeSettles`), both up to the delivery limit;
- reservation store with ledger: Redis credit plus reservations is the balance
  (`CreditConserved`), a reservation is dropped only for a message that was paid
  (`CommitReleasesPaidCredit`), reserved credit covers its debit (`DebitIsCovered`),
  every reservation ends (`ReservationEnds`, refuted);
- dispatcher and worker: only the delivery limit loses a message (`NoLostMessage`),
  every other message is settled eventually (`EveryMessageSettles`), settled stays settled
  (`SettledIsStable`), one charge at most (`AtMostOneDebit`), no charge for a
  refunded message (`RefundedIsNotCharged`), terminal rows are final
  (`TerminalIsFinal`);
- selection: fair within its window, in order per channel but for late rows,
  starvation-free (`BatchIsFair`, `EveryChannelServed`, `FifoUnlessLate`,
  `EveryRowPublished`; order without exception is refuted, `FifoPerChannel`);
- circuits: only the current probe moves a half-open circuit, late results are
  ignored, a dead probe does not block it (`CircuitSpec`, `HalfOpenEnds`).

## Modules

| module | models | extends |
|---|---|---|
| `GatewayBase` | messages, lines, prices, the kinds of fault and their budget | |
| `ReservationStore` | the Lua scripts and plain commands on Redis credit | `GatewayBase` |
| `WalletLedger` | the tables and the transactions on them | `GatewayBase` |
| `Broker` | queues with their delivery limit (external) | `GatewayBase` |
| `SmsService` | `Execute` with reservations | `ReservationStore`, `WalletLedger` |
| `AdminService` | `TopUpWallet` | `ReservationStore`, `WalletLedger` |
| `OutboxDispatcher` | `Dispatcher`, any choice of rows | `WalletLedger`, `Broker` |
| `DeliveryWorker` | `Worker` with reservations | `ReservationStore`, `WalletLedger`, `Broker` |
| `SmsGateway` | the composition, its properties, the inductive invariant | the four services |
| `SmsGatewayProofs` | theorems about `SmsGateway` | `SmsGateway`, `TLAPS` |
| `GatewayCreditProofs` | theorems about the slots and the credit of `SmsGateway` | `SmsGatewayProofs` |
| `LegacyGatewayProofs` | theorems about `LegacyGateway` | `LegacyGateway`, `TLAPS` |
| `Money` | `NewMoney`, `Add`, `Subtract` at their width, the width of the column | |
| `AtomicLedger` | what the wallet transactions promise (abstract): open, top up, charge, deliver, refund | |
| `WalletTransactions` | `DeductAndEnqueue`, `mutateAndRecord` and `Create` under the row lock; the requests of the API and the admin API that run them, with their answers | `WalletLedger`, `Money` |
| `LegacyGateway` | `processLegacy` and the composition without reservations (`NewService`; the programs under `cmd/` configure reservations, the tests both); implements `AtomicLedger` | `WalletTransactions`, `OutboxDispatcher` |
| `FairOutbox` | the rows the dispatcher really chooses; implements `OutboxDispatcher` | `Broker` |
| `SelectionProofs` | what the query and `selectFairRows` compute, by induction | `FairOutbox`, `TLAPS` |
| `FairOutboxProofs` | theorems about `FairOutbox` | `SelectionProofs` |
| `CircuitSpec` | what a circuit promises (abstract) | |
| `RedisCircuit`, `ProviderPool` | the two circuit scripts; `RoundRobinSender.Send` on top of them | |
| `ProviderPoolProofs` | theorems about `ProviderPool` | `ProviderPool`, `TLAPS` |
| `MemoryCircuit` | `circuitBreaker` | |
| `MemoryCircuitProofs` | theorems about `MemoryCircuit` | `MemoryCircuit`, `TLAPS` |
| `MC...` | instances for TLC | |

`api[m]`, `wpc[w]` and `spc[c]` name the next call a goroutine makes; a call to a
store and the code up to the next call are one step. A Lua script is one step
because Redis runs it atomically. In `WalletLedger` a PostgreSQL transaction is one
step because it holds the lock of the wallet row from the read to the commit; that
this lock is enough is what `LegacyGateway` shows, where the same transactions are
statements: lock and read, compute and write, commit. `beginDelivery` is
two steps (`FindDelivery`, `CreateDelivery`), because a missing row cannot be
locked. A message id stands for the reservation key, the outbox row, the broker
copies, the inbox row and the ledger rows that carry it; ids are taken as distinct.

When a request is over, `api[m]` (`pc[x]` in `LegacyGateway`) is the status of its
HTTP answer, or `dead` when the API died first. Binding refuses everything that
`Execute` would find invalid, so the tests of `Execute` add no answer of their own.

`LegacyGateway` starts with empty tables: a wallet is created, gets a channel, is
topped up and charged by requests that run side by side. `keeper[m]` is the
transaction that has inserted or locked the inbox row of `m`, and `outcome[v]` what
it will commit: the row in `processing` is never visible, for the transaction that
inserts it also ends it. A session that ends during `sender.Send` (`SessionLost`)
frees the row at once and leaves the goroutine in its call, among the `severed`; its
answer is wasted (`SendWasted`), because the next statement fails. `ledger[w]` is the sum of the rows of `wallet_transactions`
and the opening balance. The models give amounts in money units; `NewMoney` maps an
amount to the set of results the conversion may have, which are two at the edge,
where converting a float to an integer depends on the machine.

`returned[m]` counts how often copies of `m` came back to the queue, up to one more
than `DeliveryLimit`. The broker counts per copy and the model per message: when the
copies of a message together have used up the limit, a copy that comes back may be
kept or dropped. Copies that `Qos` let the broker send ahead come back with their
connection too (`FetchedReturned`) and are counted.

In `FairOutbox` `table` has the rows in the order of their ids and `open` those whose
transaction is not committed; the dispatcher reads the others. `late` records, for
the order per channel only, the rows that committed after a younger row of their
channel was read and those the broker refused.

A flush of Redis under the provider pool leaves calls in progress with tickets of
circuits that no longer exist. `survivors` records them, for the properties only.

Faults are actions that use up a budget (`MaxFaults`): a process dies or stops
between two calls; a worker loses its connection, the broker redelivers at once
and the goroutine carries on; the database ends a session; a call fails without
effect; a call takes effect and its reply is lost; the broker refuses a row; Redis
loses its data. Where the client library sends a command
again after a lost reply, the model runs the script twice.

Definitions whose comment starts with "Mutant" are faulty variants of the
definition that follows. No specification uses them: replacing a definition by its
mutant has to break the property named in `PROJECT.json`.

## Runs

`tlc -config <run>.cfg <module>`; none takes more than about three minutes.

| run | instance | shows |
|---|---|---|
| `gateway_faults` | 1 Express message, 2 workers, 1 top-up, any 1 fault, 1 redelivery, fairness | all components and all kinds of fault together: `IInv` holds, only the delivery limit loses the message, a reservation is dropped only when paid, settled is stable, answers are true; the message settles, uses up its redeliveries, or waits for ever behind a provider call without a deadline |
| `legacy_gateway` | 1 message, 2 workers, a wallet to be created, its channel and a top-up, amounts 1, 3 and `IntMax + 1` against a column of 4, any 2 faults, 1 redelivery, fairness | the statements of concurrent transactions implement `AtomicLedger`; the books balance; one goroutine with a session per message, also when a copy and a lost session meet; charges are not forgotten and settle, up to the limit; true answers; the invariant `LInv` of the proofs |
| `single_copy` | 3 Normal messages, balance for 2, 2 workers, 2 faults that do not duplicate | one charge at most, no charge for refunded messages, terminal rows final, credit conserved, debits covered, with the invariant `CreditInv` of the proofs; slots are kept |
| `fair_outbox` | 2 rows of one channel, 1 of another, 1 on the other line, batches of 2 from a window of 3, commits in any order, 1 stop or refusal, endless traffic, fairness | fair batches, no channel passed over (`EveryChannelServed`), order per channel (`FifoUnlessLate`) and what it rests on of the selection (`SelectionKeepsOrder`), the invariant `FInv` of the proofs (which includes `TypeOK`), refinement of `OutboxDispatcher`, no starvation |
| `provider_pool` | 2 providers, 2 callers, threshold 2, 2 losses: lost replies, dead workers, a flush of Redis | Redis circuits implement `CircuitSpec` in every step but the flush and the reports of calls that outlived it; half-open ends |
| `memory_circuit` | 3 callers, threshold 2 | the in-process circuit implements `CircuitSpec`; its flag means a live probe; the invariant `MInv` of the proofs; open ends |

Six runs have the opposite result: they check a sentence of the documentation and
TLC shows a behaviour of the code that contradicts it.

| run | the documentation | what happens |
|---|---|---|
| `duplicate_debit` | README 120-122, duplicates are safe across replicas | the dispatcher stops between publish and mark, two workers get a copy, both are let through by `beginDelivery`, both debit. (For the same reason the second worker can overwrite `delivered` with `refunded`.) |
| `topup_overdraw` | README 133-134, insufficient credit is rejected before the outbox write | a top-up overwrites the Redis balance while credit is reserved; more is accepted than the wallet has, and the debit of a message that was sent is refused |
| `unbounded_call` | README 148-150, provider calls are bounded | the deadline passes between its check and `providerContext`, which then sets no timeout |
| `leaked_reservation` | README 131, `Reserve -> Send -> Commit/Refund` | the API dies between `Reserve` and `Enqueue`; nothing ever releases the reservation |
| `many_channels` | README 53-55, round-robin by channel prevents starvation | with more active channels than rows in a batch, the channel that sorts last is never chosen |
| `fifo_order` | `docs/architecture.md` 36-37, FIFO order per channel | two requests of a channel draw their ids in one order and commit in the other; the dispatcher reads in between |

The models reach three more, which follow from what their steps say and have no run of
their own:

- `docs/architecture.md` 60 says that a worker failure requeues the message, and 63-64
  that a failed one is refunded with its terminal record. `Declare` leaves the
  delivery limit to the broker: after 20 redeliveries, which a short outage of Redis or
  PostgreSQL uses up at once, the message is dropped, its row marked published and its
  credit reserved or charged. On the legacy path no fault is needed: a refund that
  does not fit the balance column (`RefundOverflows`) fails in the same way every time.
  This is the exception `Exhausted` of `NoLostMessage`, `NoLostCharge`,
  `EveryMessageSettles` and `EveryChargeSettles`.
- README 134-136 says that a successful result commits the debit and a failed one
  returns the reservation. When the debit commits and its reply is lost (`DebitLost`),
  the worker returns the credit and records a sent, charged message as refunded. This
  is why `RefundedIsNotCharged` is checked and proved without lost replies.
- README 155-157 says that the threshold of consecutive failures opens a circuit. When
  the reply of the completion script is lost and it runs again (`CompleteLost`), one
  failure counts as two. `CircuitSpec` leaves the count out.

Two more sentences, README 118 (debit and outbox event in one transaction) and
README 128-129 (refund atomic with the terminal record), describe the legacy path,
where `ImplementsAtomicLedger` shows them; with reservations the debit comes after
the send and the refund is a Redis script before the record. And the comment at
`rabbitmq.go` 130-131 ("a hot channel cannot occupy the whole publish batch") is
limited to the rows the query reads: a backlog of more than `limit * 10` rows does.

### Bounds

- two workers are needed for, and enough for, two copies in process at once; a
  third copy behaves as one of them again. In `gateway_faults` and `legacy_gateway`
  they share one message. `legacy_gateway` allows two faults: a duplicate, and a
  failure of either holder. `gateway_faults` allows one, of ten kinds, because every
  fault more multiplies its states by nine; one is enough to reach the limit: a
  lost connection returns a copy while its worker carries on, and the one of the two
  that then fails to insert the row returns it again. What more faults do is left to
  the proofs of its safety properties. How messages compete for slots and
  credit is the subject of `single_copy`, where three make a refused reservation
  possible while one is in process and one is settled.
- the price of Express is 2 and of Normal 1 (the seeded prices are 2.50 and 1.00);
  balances of 2 or 3 make the last reservation fail, and a top-up of 1 makes the
  overdraw possible.
- `DeliveryLimit` is 1 for 20, so that the few faults of a run reach it. The proofs
  hold for every value. `FairOutbox` never returns a copy.
- `MaxFaults` is the number of faults in one behaviour. The proofs do without it:
  they hold for every `MaxFaults`.
- in `legacy_gateway` a column of 4 units and integers up to 15 keep the order of
  the real bounds (10^15 - 1 and 2^63 - 1 units): a wallet opened with 3 and topped
  up by 3 overflows the column, one opened with 1 cannot pay, and `IntMax + 1` is the
  amount whose conversion is undefined: as `IntMax` it overflows the integer when it
  is added. A message charged while the wallet is nearly full can find no room for its
  refund.
- `Limit` and `Window` are 2 and 3 (or 4) for 100 and 1000: three rows of a line fill
  the window and are more than a batch, so that the channels have to share it. A
  backlog beyond the window is left to the theorems, which hold for every window.
- `MaxGeneration` stops new calls, not calls in progress; three generations are an
  opening, a probe that is replaced, and its end. `Cooldown` and `Lease` count
  ticks of a clock that may pass at any time.
- symmetry, of messages and of workers, is used only in `single_copy`, which has no
  liveness property.

### Fairness

`SmsGateway` assumes weak fairness of each request goroutine, the dispatcher
and each worker goroutine: calls to the stores return and processes are
restarted by the deployment. A provider call is only assumed to return when its
context has a deadline (`bounded`). Nothing is assumed of faults, deadlines and
what a provider answers. `LegacyGateway` assumes the same; no provider call of its
workers has a deadline, so none is assumed to return. `FairOutbox` assumes a
dispatcher that keeps running, and nothing of the traffic, not even that a
transaction commits. The circuits assume that callers keep sending, that calls
return and that time passes.

## Proofs

`tlapm SmsGatewayProofs.tla` proves, for all sets of messages, workers, wallets and
top-ups, all prices, balances and delivery limits and any number of faults:

| theorem | statement |
|---|---|
| `Invariance` | `Spec => []IInv` |
| `TypeCorrect` | `Spec => []TypeOK`; balances and credit never go below zero |
| `MessagesAreNotLost` | `Spec => []NoLostMessage`: only the delivery limit loses a message |
| `CommitIsPaid` | `Spec => []CommitReleasesPaidCredit` |
| `ClientsAreToldTheTruth` | `Spec => []AnswersAreTrue` |
| `SettledForever` | `Spec => SettledIsStable` |
| `ChargedAtMostOnce` | without duplicating faults, `Spec => []AtMostOneDebit` |
| `RefundedNotCharged` | without duplicating faults, `Spec => []RefundedIsNotCharged` |
| `TerminalForever` | without duplicating faults, `Spec => TerminalIsFinal` |

They assume what the modules state about their constants (`BaseAssumption`,
`BrokerAssumption`, `LimitAssumption`, `TopUpAssumption`, `WorkerAssumption`,
`BalanceAssumption`):
positive prices and amounts, lines that exist, a placeholder that is no message.
The last three also assume `NoDuplicatingFaults`: no stop of the dispatcher within a
batch, no lost connection and no lost reply of PostgreSQL. `duplicate_debit` shows
that the assumption is needed; `DebitLost` is why lost replies belong to it.

`NoLostMessage` is not inductive: an acknowledgement drops the copy, so one has to
know that a worker acknowledges only what is settled. `IInv` says so
(`SettledBeforeAck`), which needs what the terminal rows mean: a delivered row has
a debit, a refunded row no reservation, and a worker about to mark has none either
(`TerminalRowsAreBacked`). That a reservation cannot come back after its refund
follows from `OutboxComesFirst`: a request reserves only before its outbox row
exists, and without the row no worker knows the message. `CopyUntilSettled` carries
the argument through the dispatcher: from publish on there is a copy until the
message is settled or has come back more often than the limit, and refused rows,
which have none, are never marked. The proof takes the actions one by one and, for each, the
conjuncts of `IInv` it can disturb.

`AnswersAreTrue` needs `AnswersInv`, which adds that a request that has not begun
holds no credit, and the order of the two tests of the reserve script: a request
whose script ran twice is told that its key exists, not that its credit is missing.

For `ChargedAtMostOnce` the invariant is strengthened by `OneCopy` (a message is
in one place) and `ChargedOnce` (exactly the delivered messages have one debit, and
a goroutine past `beginDelivery` works on a row that is not terminal).

`tlapm GatewayCreditProofs.tla` adds what has to be counted, from the same
assumptions:

| theorem | statement |
|---|---|
| `SlotsAreExact` | `Spec => []SlotsMatchRequests`, under every fault |
| `CreditInvariance` | where the credit is safe, `Spec => []CreditInv` |
| `CreditIsConserved` | where the credit is safe, `Spec => []CreditConserved` |
| `DebitsAreCovered` | where the credit is safe, `Spec => []DebitIsCovered` |

`SlotsInv` adds to `SlotsMatchRequests` that finitely many requests are in service,
which counting needs and which holds however many requests there will be. Each
step of a request enters service and takes a slot, leaves it and returns one, or
does neither (`ApiSlots`).

`CreditIsSafe` collects the conditions under which the money is right at all:
`NoDuplicatingFaults` (or a message is charged twice, `duplicate_debit`), no top-up
(it overwrites the credit, `topup_overdraw`) and no flush of Redis (it forgets
the reservations, and the next load offers their credit again). Crashes of the API
and of workers, failing calls and lost replies of Redis remain.
`CreditConserved` alone is not inductive: a debit lowers the balance whatever Redis
holds. `ReservationsAreBacked` says that a worker between its check and its debit
still has its reservation, that a request whose reservation is being returned is
not in the outbox, and that a balance loaded for a missing key is not stale;
`SingleCopyInv` gives that what is refunded was not charged and what is committed
was. The money moves in five ways (a key is filled, credit is reserved, returned,
debited, a reservation dropped); one lemma for each keeps the sum over the
reservations, and one for each component shows that it moves money in no other way.

`tlapm LegacyGatewayProofs.tla` proves of the gateway without reservations, for all
sets of messages, wallets, workers and admin requests, all integer amounts, any
widths of the integer and the column with `MoneyAssumption`, and any number of
faults:

| theorem | statement |
|---|---|
| `LegacyInvariance` | `Spec => []LInv` |
| `LegacyTypeCorrect` | `Spec => []TypeOK`; balances stay within `0..ColumnMax` |
| `LegacyBooksBalance` | `Spec => []BooksBalance` |
| `LegacyOneWorkerPerMessage` | `Spec => []OneWorkerPerMessage`, of the goroutines that have their session |
| `LegacyChargesAreNotLost` | `Spec => []NoLostCharge`, up to the delivery limit |
| `LegacyClientsAreToldTheTruth` | `Spec => []AnswersAreTrue` |
| `LegacyRefinement` | `Spec => ImplementsAtomicLedger` |

They assume `BaseAssumption`, `BrokerAssumption`, `AdminAssumption`,
`WorkerAssumption` and `MoneyAssumption`: positive prices that fit the column, and a column at most half
as wide as the integer, so that one addition to a stored balance is either exact
or refused by the column.

`BooksBalance` is not inductive: a commit writes what the transaction computed
earlier. `LocksCover` ties the holder of a row to the statements between its
`SELECT FOR UPDATE` and its end and says that what it read is still the balance;
`WorkIsCurrent` follows the computed value to the commit. `RowsAreKept` does the
same for the row of `sms_deliveries`: its keeper is the goroutine at work, and it
holds the wallet row at the commit exactly when it refunds. A severed goroutine keeps
no row, but it is in its provider call and goes from there only back to idle, so it
never commits. `ChargedUntilSettled`
says that charge and outbox row come together and before every copy, so a worker
only ever settles a charged message. With these, each commit is one step of
`AtomicLedger` (`ChargeIsAtomic`, `CreateIsAtomic`, `TopUpIsAtomic`,
`DeliveryIsAtomic`) and every other step is none.

`tlapm ProviderPoolProofs.tla` proves of the pool on Redis, for all sets of
providers and callers, all thresholds and leases, and any number of lost replies,
dying workers and flushes:

| theorem | statement |
|---|---|
| `PoolTypeCorrect` | `Spec => []TypeOK` |
| `PoolLiveCallsFitPhase` | `Spec => []LiveCallsFitPhase` |
| `PoolRefinement` | `Spec => ImplementsCircuitSpec` |

and `tlapm MemoryCircuitProofs.tla` of the in-process circuit, for all callers and
thresholds:

| theorem | statement |
|---|---|
| `MemoryInvariance` | `Spec => []MInv` |
| `MemoryTypeCorrect` | `Spec => []TypeOK` |
| `MemoryFlag` | `Spec => []FlagMeansLiveProbe` |
| `MemoryRefinement` | `Spec => ImplementsCircuitSpec` |

A result counts when its ticket is the circuit's generation, so both rest on where
tickets can be: `LiveCallsFitPhase` (in `MInv` spelled out) says that no ticket is
ahead of its circuit, that an open circuit has no current ticket and a half-open
one at most its probe. Every change of state then takes a new generation, and the
calls of the old one cannot move the circuit. In the pool a call that was admitted
before a flush may hold a ticket that becomes current again; `PInv`, the inductive
invariant in `ProviderPoolProofs` (`PoolInvariance`), adds that such
calls (`survivors`) are in progress, so that a later call of the same goroutine is
not mistaken for one. The bound `MaxGeneration` is a constant like the others: the
theorems hold for every value.

`tlapm FairOutboxProofs.tla` proves of the dispatcher's batches, for any number of
messages, channels, stops and refusals, any order of commits and any sizes of batch
and window:

| theorem | statement |
|---|---|
| `FairInvariance` | `Spec => []FInv` |
| `FairTypeCorrect` | `Spec => []TypeOK` |
| `SelectionIsOrdered` | `Spec => []SelectionKeepsOrder` |
| `BatchesAreFair` | `Spec => BatchIsFair` |
| `ChannelsAreServed` | `Spec => EveryChannelServed` |
| `FairFifo` | `Spec => []FifoUnlessLate` |
| `FairRefinement` | `Spec => ImplementsDispatcher` |

They assume `BaseAssumption` and `FairAssumption`: channel names are distinct,
every event has one (`__unknown__` where the payload has none), a batch has room,
and the query reads at least a batch.

`FifoUnlessLate` is not inductive: sending a row is right only because its older rows
went before. `FInv` says that an older row of a row that waits was sent, is late or
waits before it, which holds when the batch is chosen, survives rows that draw an id
(they are the youngest), rows that commit (they are late when they should have gone
before), rows that leave the table and a batch that is dropped half-way. A refused row
is late from then on. The refinement also needs that the rows of a batch are distinct and that
none is both to be sent and to be confirmed. Lemmas on sequences without duplicates
(`TailDistinct`, `AppendDistinct`, `RemoveDistinct`) carry the steps.

That it holds when the batch is chosen is what the query and `selectFairRows`
compute, and the subject of `SelectionProofs`. Both are loops, written as recursive
functions. The library's induction theorems take an operator as a parameter, which
the provers cannot instantiate, so the induction is over sets: every nonempty set
of natural numbers has a least element (`LeastNatural`), hence a set with 0 and all
successors up to N has everything up to N (`NatSetInduction`), hence a loop of N
steps exists (`Iterate`) and the recursive functions satisfy their own equations
(`RoundLoop`, `SelectLoop`, `ReadLoop`). Each loop then has its invariant:

- the query (`HasRead`): distinct rows of the line, in order and without a gap, and
  all of them while the window has room;
- a channel's turn (`Sound`): the rows selected are distinct and each comes after
  the older rows of its channel;
- a pass (`Even`): after `t` passes and `k` turns of the next, nobody has more
  than `t + 1` rows (`t` behind the place reached), and while there is room whoever
  has less has no more rows;
- progress (`RowLeft`): while fewer rows are selected than were read, some channel
  has one left, by the pigeonhole principle; so every pass adds a row, and the
  `Limit` passes of `selectFairRows` are enough.

`ChannelsServed` is the pigeonhole principle once more: a full batch without a row
of some channel has two of another, which `SharesEvenly` forbids. `many_channels`
shows that its condition, no more channels than room, is needed.

Only model-checked: liveness, because the prover has no fairness
(`EveryMessageSettles`, `EveryChargeSettles`, `EveryRowPublished`, `HalfOpenEnds`,
`OpenIsLeft`). Every invariant and action property of a passing run is also a
theorem.

## Not modelled

- delivery reports, lists and other reads, and the layout of requests and responses;
- configuration, migrations and connection set-up, which run once: what they
  validate or declare appears as assumptions on constants and as the column bound;
- the generated API documentation;
- the mock providers: a provider answers as it likes;
- message bodies, logging and `last_error`; a broker body that cannot be decoded,
  which the dispatcher never publishes;
- the balance cache together with `DeductAndEnqueue`: no program and no test
  combines them;
- requests between the two writes of `Create`: a wallet of `SmsGateway` exists from
  the start, with its Redis key or, where `SetAvailable` failed or did not run yet,
  without it;
- a redelivery count per copy: see `returned` above;
- rounding inside the column's range: every balance is below 2^53 units, where the
  conversions to float64 and back are exact;
- collisions of message ids.

## Plan

1. Done: the pipeline (`GatewayBase` to `SmsGateway`), its runs and the theorems
   above; circuits; the choice of rows.
2. Done: the legacy path, wallet transactions with their locks and `Money`, shown
   to implement `AtomicLedger`; the answers of the API; loss of Redis data under
   the provider pool.
3. Done: the safety properties of `LegacyGateway` and its refinement of
   `AtomicLedger`, proved.
4. Done: the safety properties of the slots, the credit, the provider pool, the
   in-process circuit and the batches, proved, with the refinements of
   `CircuitSpec` and `OutboxDispatcher`.
5. Done: what the query and the fair selection compute, proved by induction, so that
   the theorems about the batches rest on nothing that is only model-checked.
6. Done: the delivery limit of the queues, rows the broker refuses, ids drawn before
   their commit and sessions lost during a provider call, and the theorems restated.
7. Left: liveness, which this prover cannot prove; a top-up repeated after a lost
   answer and colliding message ids, which need an identity of requests that the
   code does not keep.
