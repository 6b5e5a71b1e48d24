----------------------------- MODULE FairOutbox -----------------------------
(***************************************************************************)
(* Which rows the dispatcher publishes (publishFairBatch, publishLineBatch *)
(* and selectFairRows in messaging/rabbitmq.go).  A pass takes one batch   *)
(* from each line: the oldest Window unpublished rows of the line are read *)
(* and at most Limit of them chosen, round-robin by channel.               *)
(*                                                                         *)
(* A row gets its id when it is inserted and can be read when the          *)
(* transaction of Enqueue commits; nothing keeps the two in the same       *)
(* order.                                                                  *)
(*                                                                         *)
(* A message that is published and taken by a worker may be used again for *)
(* a new request, so traffic never has to end.                             *)
(***************************************************************************)
EXTENDS Broker, SequencesExt

CONSTANTS
    Channels,   \* the channel names, in the order of sort.Strings
    ChannelOf,  \* ChannelOf[m]: the channel of the event in the row's payload
    Limit,      \* rows of one batch
    Window      \* rows the query reads: ten times Limit in the code

ASSUME FairAssumption ==
    /\ Channels \in Seq(ToSet(Channels)) /\ IsInjective(Channels)
    /\ ChannelOf \in [Messages -> ToSet(Channels)]
    /\ Limit \in Nat \ {0}
    /\ Window \in Nat /\ Window >= Limit

VARIABLES
    table,      \* the unpublished rows, by id
    open,       \* the rows whose transaction has not committed
    turn,       \* the line publishFairBatch is at
    toPublish,  \* the rows of the batch that are still to be sent, in order
    toConfirm,  \* the rows sent and not yet marked, in order
    refused,    \* those of them that the broker did not store
    sent,       \* history: the unpublished rows that the broker has stored before
    late        \* history: the rows that committed when a younger row of their
                \* channel and line was read already, or that the broker refused

tableVars == <<table, open>>
batchVars == <<toPublish, toConfirm, refused>>
vars == <<tableVars, turn, batchVars, sent, late, brokerVars, faultsLeft>>

\* What the dispatcher can read.
Committed == ToSet(table) \ open

TypeOK ==
    /\ table \in Seq(Messages) /\ IsInjective(table)
    /\ open \in SUBSET ToSet(table)
    /\ turn \in Lines
    /\ toPublish \in Seq(Committed)
    /\ toConfirm \in Seq(Committed)
    /\ refused \in SUBSET ToSet(toConfirm)
    /\ sent \in SUBSET Committed
    /\ late \in SUBSET Committed
    /\ ready \in [Messages -> Nat]
    /\ returned \in [Messages -> Nat]
    /\ faultsLeft \in Nat

-----------------------------------------------------------------------------
\* Mutant: a channel's rows are taken from the newest.
FirstWaitingNewest(rows, selected, c) ==
    Max({i \in DOMAIN rows : ChannelOf[rows[i]] = c /\ rows[i] \notin ToSet(selected)})

\* groups[c]: the rows of a channel that are not selected yet.
Waiting(rows, selected, c) ==
    {i \in DOMAIN rows : ChannelOf[rows[i]] = c /\ rows[i] \notin ToSet(selected)}

\* groups[c][0]: a group keeps the order of the query.
FirstWaiting(rows, selected, c) == Min(Waiting(rows, selected, c))

\* One channel's turn.
Serve(rows, c) ==
    [selected \in Seq(Messages) |->
        IF Len(selected) = Limit \/ Waiting(rows, selected, c) = {}
        THEN selected
        ELSE Append(selected, rows[FirstWaiting(rows, selected, c)])]

\* One pass over the channels.
Round(rows) ==
    [selected \in Seq(Messages) |->
        LET served[k \in 0..Len(Channels)] ==
                IF k = 0 THEN selected ELSE Serve(rows, Channels[k])[served[k - 1]]
        IN  served[Len(Channels)]]

\* Mutant: the query's order decides, whatever the channels.
selectOldestRows(rows) == SubSeq(rows, 1, Min({Len(rows), Limit}))

\* Every pass selects a row, so the loop is over after Limit of them.
selectFairRows(rows) ==
    LET rounds[t \in 0..Limit] == IF t = 0 THEN <<>> ELSE Round(rows)[rounds[t - 1]]
    IN  IF Len(rows) <= Limit THEN rows ELSE rounds[Limit]

\* Mutant: the query forgets the routing key.
ReadAnyLine(m, l) ==
    [rows \in Seq(Messages) |->
        IF m \notin open /\ Len(rows) < Window THEN Append(rows, m) ELSE rows]

\* WHERE published_at IS NULL AND routing_key = l, of the rows that are committed
Readable(m, l) == LineOf[m] = l /\ m \notin open

\* ... LIMIT Window
Read(m, l) ==
    [rows \in Seq(Messages) |->
        IF Readable(m, l) /\ Len(rows) < Window THEN Append(rows, m) ELSE rows]

\* ... ORDER BY id
OldestRows(l) ==
    LET read[n \in 0..Len(table)] ==
            IF n = 0 THEN <<>> ELSE Read(table[n], l)[read[n - 1]]
    IN  read[Len(table)]

OtherLine(l) == IF l = "express" THEN "normal" ELSE "express"

-----------------------------------------------------------------------------
Init ==
    /\ table = <<>>
    /\ open = {}
    /\ turn = "express"
    /\ toPublish = <<>>
    /\ toConfirm = <<>>
    /\ refused = {}
    /\ sent = {}
    /\ late = {}
    /\ ready = [m \in Messages |-> 0]
    /\ returned = [m \in Messages |-> 0]
    /\ faultsLeft = MaxFaults

\* Row m is older than row n of its channel and line.
Older(m, n) ==
    /\ \E i, j \in DOMAIN table : i < j /\ table[i] = m /\ table[j] = n
    /\ ChannelOf[m] = ChannelOf[n] /\ LineOf[m] = LineOf[n]

\* Enqueue of an accepted request: the row draws the next id.
Insert(m) ==
    /\ m \notin ToSet(table) /\ ready[m] = 0
    /\ table' = Append(table, m)
    /\ open' = open \cup {m}
    /\ NoFault
    /\ UNCHANGED <<turn, batchVars, sent, late, brokerVars>>

\* It commits.
CommitInsert(m) ==
    /\ m \in open
    /\ open' = open \ {m}
    /\ late' = IF \E n \in sent \cup ToSet(toPublish) : Older(m, n)
               THEN late \cup {m} ELSE late
    /\ NoFault
    /\ UNCHANGED <<table, turn, batchVars, sent, brokerVars>>

\* It fails, and its id is not used again.
AbortInsert(m) ==
    /\ m \in open
    /\ table' = RemoveFirst(table, m)
    /\ open' = open \ {m}
    /\ NoFault
    /\ UNCHANGED <<turn, batchVars, sent, late, brokerVars>>

\* A worker takes a copy off the queue.
Take(m) ==
    /\ Deliver(m)
    /\ NoFault
    /\ UNCHANGED <<tableVars, turn, batchVars, sent, late>>

BetweenBatches == toPublish = <<>> /\ toConfirm = <<>>

SelectBatch ==
    /\ BetweenBatches
    /\ OldestRows(turn) # <<>>
    /\ toPublish' = selectFairRows(OldestRows(turn))
    /\ NoFault
    /\ UNCHANGED <<tableVars, turn, toConfirm, refused, sent, late, brokerVars>>

\* The line has nothing to publish.
SkipLine ==
    /\ BetweenBatches
    /\ OldestRows(turn) = <<>>
    /\ turn' = OtherLine(turn)
    /\ NoFault
    /\ UNCHANGED <<tableVars, batchVars, sent, late, brokerVars>>

\* The next row of the batch goes out.
SendRow ==
    /\ toPublish # <<>>
    /\ toPublish' = Tail(toPublish)
    /\ toConfirm' = Append(toConfirm, Head(toPublish))
    /\ UNCHANGED <<tableVars, turn>>

PublishRow ==
    /\ SendRow
    /\ Publish(Head(toPublish))
    /\ sent' = sent \cup {Head(toPublish)}
    /\ NoFault
    /\ UNCHANGED <<refused, late>>

\* The broker does not store it; the rows behind it are sent all the same.
RefuseRow ==
    /\ Fault("publishNack")
    /\ SendRow
    /\ refused' = refused \cup {Head(toPublish)}
    /\ late' = late \cup {Head(toPublish)}
    /\ UNCHANGED <<sent, brokerVars>>

\* Mutant: the first confirm marks every row of the batch.
ConfirmRowMarksBatch ==
    /\ toPublish = <<>> /\ toConfirm # <<>>
    /\ Head(toConfirm) \notin refused
    /\ table' = SelectSeq(table, LAMBDA m : m \notin ToSet(toConfirm))
    /\ sent' = sent \ ToSet(toConfirm)
    /\ late' = late \ ToSet(toConfirm)
    /\ toConfirm' = Tail(toConfirm)
    /\ turn' = IF toConfirm' = <<>> THEN OtherLine(turn) ELSE turn
    /\ NoFault
    /\ UNCHANGED <<open, toPublish, refused, brokerVars>>

\* Mutant: a line is served until it is empty.
ConfirmRowKeepsTurn ==
    /\ toPublish = <<>> /\ toConfirm # <<>>
    /\ Head(toConfirm) \notin refused
    /\ table' = RemoveFirst(table, Head(toConfirm))
    /\ sent' = sent \ {Head(toConfirm)}
    /\ late' = late \ {Head(toConfirm)}
    /\ toConfirm' = Tail(toConfirm)
    /\ NoFault
    /\ UNCHANGED <<open, turn, toPublish, refused, brokerVars>>

\* The confirms are awaited in the order of the batch; the last one ends it.
ConfirmRow ==
    /\ toPublish = <<>> /\ toConfirm # <<>>
    /\ Head(toConfirm) \notin refused
    /\ table' = RemoveFirst(table, Head(toConfirm))
    /\ sent' = sent \ {Head(toConfirm)}
    /\ late' = late \ {Head(toConfirm)}
    /\ toConfirm' = Tail(toConfirm)
    /\ turn' = IF toConfirm' = <<>> THEN OtherLine(turn) ELSE turn
    /\ NoFault
    /\ UNCHANGED <<open, toPublish, refused, brokerVars>>

\* The batch is forgotten and Run starts again, with the first line.
Restart ==
    /\ toPublish' = <<>>
    /\ toConfirm' = <<>>
    /\ refused' = {}
    /\ turn' = "express"
    /\ UNCHANGED <<tableVars, sent, late, brokerVars>>

\* Wait answers false: publishLineBatch returns an error, the rows behind stay
\* unmarked.
ConfirmRefused ==
    /\ toPublish = <<>> /\ toConfirm # <<>>
    /\ Head(toConfirm) \in refused
    /\ Restart
    /\ NoFault

\* An error or a crash.
Stop ==
    /\ Fault("dispatcherStop")
    /\ ~BetweenBatches
    /\ Restart

Dispatch == SelectBatch \/ SkipLine \/ PublishRow \/ ConfirmRow \/ ConfirmRefused

Next ==
    \/ \E m \in Messages : Insert(m) \/ CommitInsert(m) \/ AbortInsert(m) \/ Take(m)
    \/ Dispatch
    \/ RefuseRow
    \/ Stop

Spec == Init /\ [][Next]_vars

\* The dispatcher keeps running; requests come or do not.
FairSpec == Spec /\ WF_vars(Dispatch)

-----------------------------------------------------------------------------
\* How many of the rows, which are distinct, are of channel c.
Share(rows, c) == Cardinality({m \in ToSet(rows) : ChannelOf[m] = c})

\* The batch takes its rows from rows, each once, and each channel's in order
\* from the oldest.
TakesInOrder(batch, rows) ==
    /\ batch \in Seq(ToSet(rows)) /\ IsInjective(batch)
    /\ \A i, j \in DOMAIN rows : \A q \in DOMAIN batch :
        i < j /\ ChannelOf[rows[i]] = ChannelOf[rows[j]] /\ batch[q] = rows[j] =>
            \E p \in 1..(q - 1) : batch[p] = rows[i]

\* No channel is left with a row behind while another gets two rows more.
SharesEvenly(batch, rows) ==
    \A c, d \in ToSet(Channels) :
        Share(batch, c) < Share(rows, c) => Share(batch, d) <= Share(batch, c) + 1

Selects == toPublish = <<>> /\ toPublish' # <<>>

\* What selectFairRows promises of the rows it is given: the batch is full when
\* it can be; each channel's part is the oldest of its rows, in order; and no
\* channel is left with a row behind while another gets two rows more.
BatchIsFair ==
    [][Selects =>
        /\ Len(toPublish') = Min({Len(OldestRows(turn)), Limit})
        /\ TakesInOrder(toPublish', OldestRows(turn))
        /\ SharesEvenly(toPublish', OldestRows(turn))]_vars

\* The channels that have a row.
ChannelsOf(rows) == {ChannelOf[m] : m \in ToSet(rows)}

\* A hot channel cannot occupy the whole batch: with no more channels in the rows
\* read than a batch has room for, each of them gets a row.
EveryChannelServed ==
    [][Selects /\ Cardinality(ChannelsOf(OldestRows(turn))) <= Limit =>
        ChannelsOf(toPublish') = ChannelsOf(OldestRows(turn))]_vars

\* The claim of the architecture document: the rows of a channel and line reach
\* the broker for the first time in the order of their ids.  Enqueue draws an id
\* and commits later, so a younger row can be sent before an older one is seen.
FifoPerChannel ==
    \A m \in Committed : \A n \in sent : Older(m, n) => m \in sent

\* The order that does hold, also when a batch is cut short and selected again:
\* a row that was sent has no older row of its channel and line that was not,
\* but one that is not committed, one that committed after the younger was read,
\* or one that the broker refused.
FifoUnlessLate ==
    \A m \in Committed : \A n \in sent : Older(m, n) => m \in sent \cup late

\* What the order relies on, whatever is fair: a batch consists of distinct
\* committed rows of its line, and the older of these of a row's channel come
\* before it in the batch.
SelectionKeepsOrder ==
    \A l \in Lines :
        LET batch == selectFairRows(OldestRows(l)) IN
        OldestRows(l) # <<>> =>
            /\ batch # <<>> /\ batch \in Seq(Committed) /\ IsInjective(batch)
            /\ \A i \in DOMAIN batch :
                /\ LineOf[batch[i]] = l
                /\ \A m \in Committed : Older(m, batch[i]) =>
                    \E j \in 1..(i - 1) : batch[j] = m

\* Why the order holds, an inductive invariant: the rows of a batch are distinct,
\* those sent are recorded, and an older row of a row that waits was sent, is
\* late or waits before it.
FInv ==
    /\ TypeOK
    /\ FifoUnlessLate
    /\ IsInjective(toPublish) /\ IsInjective(toConfirm)
    /\ ToSet(toPublish) \cap ToSet(toConfirm) = {}
    /\ ToSet(toConfirm) \ refused \subseteq sent
    /\ \A i \in DOMAIN toPublish : \A m \in Committed :
        Older(m, toPublish[i]) =>
            m \in sent \cup late \/ \E j \in 1..(i - 1) : toPublish[j] = m

\* The rows as WalletLedger has them.
Rows == [m \in Messages |-> IF m \in Committed THEN "pending" ELSE "published"]

Dispatcher ==
    INSTANCE OutboxDispatcher WITH
        outbox    <- Rows,
        toPublish <- ToSet(toPublish),
        toConfirm <- ToSet(toConfirm) \ refused,
        balance <- 0, debits <- 0, status <- 0

\* The choice of rows implements the free choice of OutboxDispatcher: every step
\* is a step or a fault of the dispatcher of the composed gateway, an insert or a
\* delivery, or changes nothing of it.
ImplementsDispatcher ==
    [][\/ Dispatcher!DispatcherStep \/ Dispatcher!DispatcherFault
       \/ /\ UNCHANGED Dispatcher!dispatcherVars
          /\ \E m \in Messages :
                \/ Dispatcher!InsertOutbox(m) /\ UNCHANGED brokerVars
                \/ Dispatcher!Deliver(m) /\ UNCHANGED Rows
      ]_<<Dispatcher!dispatcherVars, Rows, brokerVars>>

\* Every row that is committed is eventually published, whatever the traffic of
\* other channels.
EveryRowPublished ==
    \A m \in Messages : m \in Committed ~> m \notin Committed
=============================================================================
