------------------------ MODULE LegacyGatewayProofs ------------------------
(***************************************************************************)
(* Proofs about the gateway without reservations, for any number of        *)
(* messages, wallets, workers and admin requests, any amounts and any      *)
(* widths of the integer and of the column that keep their order.          *)
(***************************************************************************)
EXTENDS LegacyGateway, TLAPS

USE DEF Lines, FaultKinds, OutboxStates, StatusValues, Terminal, AdminKinds,
        brokerVars, CountReturn, Exhausted

\* The price of every message is positive and fits the column.
LEMMA CostFits == \A m \in Messages : CostOf(m) \in 1..ColumnMax
  BY BaseAssumption, AdminAssumption, MoneyAssumption DEF CostOf

-----------------------------------------------------------------------------
(* TypeOK.                                                                 *)

\* A copy that comes back is stored or dropped, and is counted.
LEMMA RequeueType ==
  ASSUME TypeOK, NEW m \in Messages, Requeue(m)
  PROVE  /\ ready' \in [Messages -> Nat]
         /\ returned' \in [Messages -> 0..DeliveryLimit + 1]
  BY BrokerAssumption DEF TypeOK, Requeue

\* A rejected delivery keeps TypeOK.
LEMMA RejectType ==
  ASSUME LInv, NEW v \in Workers, pc[v] # "idle", WorkerAction(Reject(v)),
         UNCHANGED <<dbVars, tableVars, work, units>>, faultsLeft' \in Nat
  PROVE  TypeOK'
  <1> USE BaseAssumption, BrokerAssumption, WorkerAssumption
      DEF LInv, TypeOK, Txs, Requests, RequestStates, WorkerStates, InTransaction,
          dbVars, tableVars, dispatcherVars, WorkerAction, Reject, Rollback,
          Release, Free, Step
  <1>1. /\ ready' \in [Messages -> Nat]
        /\ returned' \in [Messages -> 0..DeliveryLimit + 1]
    BY RequeueType
  <1>2. /\ holder' \in [Wallets -> Txs \cup {NoTx}]
        /\ keeper' \in [Messages -> Workers \cup {NoTx}]
    OBVIOUS
  <1>3. /\ pc' \in [Txs -> RequestStates \cup WorkerStates]
        /\ \A x \in Requests : pc'[x] \in RequestStates
        /\ \A u \in Workers : pc'[u] \in WorkerStates
        /\ \A u \in Workers : pc'[u] # "idle" => wmsg'[u] \in Messages
    OBVIOUS
  <1>4. /\ wmsg' \in [Workers -> Messages \cup {NoMessage}]
        /\ linked' \in [Workers -> BOOLEAN]
        /\ outcome' \in [Workers -> StatusValues]
        /\ severed' \subseteq Workers
    OBVIOUS
  <1> QED
    BY <1>1, <1>2, <1>3, <1>4

\* A step of a request to send keeps TypeOK.
LEMMA ChargeType ==
  ASSUME LInv,
         NEW m \in Messages,
         ApiAction(ChargeStep(m))
  PROVE  TypeOK'
  <1> USE BaseAssumption, BrokerAssumption, AdminAssumption, WorkerAssumption,
          MoneyAssumption, CostFits
      DEF LInv, TypeOK, Txs, Requests, RequestStates, WorkerStates,
          InTransaction, RowOf, PayerOf, LocksCover, RowsAreKept, AtWork,
          WorkIsCurrent, ApiAction, dbVars, tableVars, dispatcherVars,
          workerVars, NoFault, Fault
  <1>1. CASE RefuseRequest(m)
    BY <1>1 DEF RefuseRequest, Step
  <1>2. CASE BeginCharge(m)
    BY <1>2 DEF BeginCharge, Step
  <1>3. CASE LockCharge(m)
    BY <1>3 DEF LockCharge, LockWallet, Step
  <1>4. CASE WriteCharge(m)
    BY <1>4 DEF WriteCharge, Subtract, Fits, WriteBalance, Step
  <1>5. CASE ChargeInsufficient(m)
    BY <1>5 DEF ChargeInsufficient, Release, Step
  <1>6. CASE CommitCharge(m, "202") /\ NoFault
    BY <1>6 DEF CommitCharge, InsertOutbox, CommitBalance, Step
  <1> HIDE DEF LInv, TypeOK, Txs, Requests, RequestStates, WorkerStates,
               InTransaction, RowOf, PayerOf, LocksCover, RowsAreKept, AtWork,
               WorkIsCurrent, ApiAction, dbVars, tableVars, dispatcherVars,
               workerVars, NoFault, Fault
  <1> QED
    BY <1>1, <1>2, <1>3, <1>4, <1>5, <1>6
    DEF ChargeStep, ApiAction

\* A step of an admin request keeps TypeOK.
LEMMA AdminType ==
  ASSUME LInv,
         NEW a \in Admins,
         ApiAction(AdminStep(a))
  PROVE  TypeOK'
  <1> USE BaseAssumption, BrokerAssumption, AdminAssumption, WorkerAssumption,
          MoneyAssumption, CostFits
      DEF LInv, TypeOK, Txs, Requests, RequestStates, WorkerStates,
          InTransaction, RowOf, PayerOf, LocksCover, RowsAreKept, AtWork,
          WorkIsCurrent, ApiAction, dbVars, tableVars, dispatcherVars,
          workerVars, NoFault, Fault
  <1>1. CASE RefuseAdmin(a)
    BY <1>1 DEF RefuseAdmin, Step
  <1>2. CASE CreateWalletOverflows(a)
    BY <1>2 DEF CreateWalletOverflows, Asks, Step
  <1>3. CASE ChannelConflict(a)
    BY <1>3 DEF ChannelConflict, Asks, Step
  <1>4. CASE BeginTopUp(a)
    BY <1>4 DEF BeginTopUp, Asks, NewMoney, IsPositive, Step
  <1>5. CASE LockTopUp(a)
    BY <1>5 DEF LockTopUp, LockWallet, Step
  <1>6. CASE TopUpUnknownWallet(a)
    BY <1>6 DEF TopUpUnknownWallet, Step
  <1>7. CASE WriteTopUp(a)
    BY <1>7 DEF WriteTopUp, Add, Fits, WriteBalance, Step
  <1>8. CASE TopUpOverflows(a)
    BY <1>8 DEF TopUpOverflows, Release, Step
  <1>9. CASE Created(a, "201") /\ NoFault
    BY <1>9 DEF Created, Asks, NewMoney, Fits, Step
  <1>10. CASE AddChannel(a, "201") /\ NoFault
    BY <1>10 DEF AddChannel, Asks, Step
  <1>11. CASE CommitTopUp(a, "200") /\ NoFault
    BY <1>11 DEF CommitTopUp, CommitBalance, Step
  <1> HIDE DEF LInv, TypeOK, Txs, Requests, RequestStates, WorkerStates,
               InTransaction, RowOf, PayerOf, LocksCover, RowsAreKept, AtWork,
               WorkIsCurrent, ApiAction, dbVars, tableVars, dispatcherVars,
               workerVars, NoFault, Fault
  <1> QED
    BY <1>1, <1>2, <1>3, <1>4, <1>5, <1>6, <1>7, <1>8, <1>9, <1>10, <1>11
    DEF AdminStep, ApiAction

\* A failed or lost commit of the API keeps TypeOK.
LEMMA LostType ==
  ASSUME LInv,
         NEW x \in Requests,
         ApiAction(StatementFails(x) \/ CommitReplyLost(x))
  PROVE  TypeOK'
  <1> USE BaseAssumption, BrokerAssumption, AdminAssumption, WorkerAssumption,
          MoneyAssumption, CostFits
      DEF LInv, TypeOK, Txs, Requests, RequestStates, WorkerStates,
          InTransaction, RowOf, PayerOf, LocksCover, RowsAreKept, AtWork,
          WorkIsCurrent, ApiAction, dbVars, tableVars, dispatcherVars,
          workerVars, NoFault, Fault
  <1>1. CASE StatementFails(x)
    BY <1>1 DEF StatementFails, Release, Step
  <1>2. CASE x \in Messages /\ CommitCharge(x, "500") /\ Fault("dbLost")
    BY <1>2 DEF CommitCharge, InsertOutbox, CommitBalance, Step
  <1>3. CASE x \in Admins /\ Created(x, "500") /\ Fault("dbLost")
    BY <1>3 DEF Created, Asks, NewMoney, Fits, Step
  <1>4. CASE x \in Admins /\ AddChannel(x, "500") /\ Fault("dbLost")
    BY <1>4 DEF AddChannel, Asks, Step
  <1>5. CASE x \in Admins /\ CommitTopUp(x, "500") /\ Fault("dbLost")
    BY <1>5 DEF CommitTopUp, CommitBalance, Step
  <1> HIDE DEF LInv, TypeOK, Txs, Requests, RequestStates, WorkerStates,
               InTransaction, RowOf, PayerOf, LocksCover, RowsAreKept, AtWork,
               WorkIsCurrent, ApiAction, dbVars, tableVars, dispatcherVars,
               workerVars, NoFault, Fault
  <1> QED
    BY <1>1, <1>2, <1>3, <1>4, <1>5
    DEF CommitReplyLost, ApiAction

\* A crash of the API keeps TypeOK.
LEMMA CrashType ==
  ASSUME LInv,
         ApiAction(ApiCrash)
  PROVE  TypeOK'
  BY BaseAssumption, BrokerAssumption, AdminAssumption, WorkerAssumption,
     MoneyAssumption, CostFits
  DEF LInv, TypeOK, Txs, Requests, RequestStates, WorkerStates, InTransaction,
      RowOf, PayerOf, LocksCover, RowsAreKept, AtWork, WorkIsCurrent,
      ApiAction, dbVars, tableVars, dispatcherVars, workerVars, NoFault,
      Fault, ApiCrash, Release

\* A step of the dispatcher keeps TypeOK.
LEMMA DispatcherType ==
  ASSUME LInv,
         DispatcherAction(DispatcherStep \/ DispatcherFault)
  PROVE  TypeOK'
  <1> USE BaseAssumption, BrokerAssumption, AdminAssumption, WorkerAssumption,
          MoneyAssumption, CostFits
      DEF LInv, TypeOK, Txs, Requests, RequestStates, WorkerStates,
          InTransaction, RowOf, PayerOf, LocksCover, RowsAreKept, AtWork,
          WorkIsCurrent, DispatcherAction, dbVars, tableVars, dispatcherVars,
          workerVars, NoFault, Fault
  <1>1. CASE \E l \in Lines : SelectBatch(l)
    BY <1>1 DEF SelectBatch, Pending
  <1>2. CASE \E m \in Messages : PublishRow(m)
    BY <1>2 DEF PublishRow, Publish
  <1>3. CASE \E m \in Messages : ConfirmRow(m)
    BY <1>3 DEF ConfirmRow
  <1>4. CASE DispatcherStop
    BY <1>4 DEF DispatcherStop
  <1>5. CASE ConfirmRefused
    BY <1>5 DEF ConfirmRefused
  <1>6. CASE \E m \in Messages : PublishRefused(m)
    BY <1>6 DEF PublishRefused
  <1> HIDE DEF LInv, TypeOK, Txs, Requests, RequestStates, WorkerStates,
               InTransaction, RowOf, PayerOf, LocksCover, RowsAreKept, AtWork,
               WorkIsCurrent, DispatcherAction, dbVars, tableVars,
               dispatcherVars, workerVars, NoFault, Fault
  <1> QED
    BY <1>1, <1>2, <1>3, <1>4, <1>5, <1>6
    DEF DispatcherStep, DispatcherFault, DispatcherAction

\* A step of a worker keeps TypeOK.
LEMMA WorkerType ==
  ASSUME LInv,
         NEW v \in Workers,
         WorkerAction(WorkerStep(v) \/ SendAnswered(v) \/ WorkerFault(v))
  PROVE  TypeOK'
  <1> USE BaseAssumption, BrokerAssumption, AdminAssumption, WorkerAssumption,
          MoneyAssumption, CostFits
      DEF LInv, TypeOK, Txs, Requests, RequestStates, WorkerStates,
          InTransaction, RowOf, PayerOf, LocksCover, RowsAreKept, AtWork,
          WorkIsCurrent, WorkerAction, dbVars, tableVars, dispatcherVars,
          workerVars, NoFault, Fault
  <1>1. CASE \E m \in Messages : Receive(v, m)
    BY <1>1 DEF Receive, Deliver, Step
  <1>2. CASE FindNothing(v)
    BY <1>2 DEF FindNothing, Step
  <1>3. CASE FindRow(v)
    BY <1>3 DEF FindRow, Step
  <1>4. CASE InsertRow(v)
    BY <1>4 DEF InsertRow, Step
  <1>5. CASE InsertConflict(v)
    BY <1>5, RejectType DEF InsertConflict
  <1>6. CASE CheckDeadline(v)
    BY <1>6 DEF CheckDeadline, Step
  <1>7. CASE SendReturns(v)
    <2>1. CASE Step(v, "commit") /\ outcome' = [outcome EXCEPT ![v] = "delivered"]
      BY <1>7, <2>1 DEF SendReturns, Step
    <2>2. CASE Step(v, "lock") /\ UNCHANGED outcome
      BY <1>7, <2>2 DEF SendReturns, Step
    <2> QED
      BY <1>7, <2>1, <2>2 DEF SendReturns
  <1>8. CASE LockRefund(v)
    BY <1>8 DEF LockRefund, LockWallet, Step
  <1>9. CASE WriteRefund(v)
    BY <1>9 DEF WriteRefund, Add, Fits, WriteBalance, Step
  <1>10. CASE RefundOverflows(v)
    BY <1>10, RejectType DEF RefundOverflows
  <1>11. CASE CommitDelivery(v)
    <2>1. wmsg[v] \in Messages /\ PayerOf(v) \in Wallets /\ outcome[v] \in Terminal
      BY <1>11 DEF CommitDelivery, CommitRows
    <2>2. /\ balance' \in [Wallets -> 0..ColumnMax]
          /\ ledger' \in [Wallets -> Int]
          /\ holder' \in [Wallets -> Txs \cup {NoTx}]
      <3>1. CASE holder[PayerOf(v)] = v
        <4>1. /\ balance' = [balance EXCEPT ![PayerOf(v)] = work[v]]
              /\ ledger' = [ledger EXCEPT ![PayerOf(v)] = @ + CostOf(wmsg[v])]
              /\ holder' = [holder EXCEPT ![PayerOf(v)] = NoTx]
          BY <1>11, <3>1 DEF CommitDelivery, CommitRows, CommitBalance
        <4>2. ledger' \in [Wallets -> Int]
          BY <2>1, <4>1
        <4> QED
          BY <2>1, <4>1, <4>2
      <3>2. CASE holder[PayerOf(v)] # v
        BY <1>11, <3>2 DEF CommitDelivery, CommitRows
      <3> QED
        BY <3>1, <3>2
    <2>3. /\ status' \in [Messages -> {"none"} \cup Terminal]
          /\ keeper' \in [Messages -> Workers \cup {NoTx}]
      BY <1>11, <2>1 DEF CommitDelivery, CommitRows, SetStatus
    <2>4. /\ ready' \in [Messages -> Nat]
          /\ returned' \in [Messages -> 0..DeliveryLimit + 1]
      BY <1>11 DEF CommitDelivery
    <2>7. faultsLeft' \in Nat
      BY <1>11 DEF CommitDelivery
    <2>5. /\ pc' \in [Txs -> RequestStates \cup WorkerStates]
          /\ \A x \in Requests : pc'[x] \in RequestStates
          /\ \A u \in Workers : pc'[u] \in WorkerStates
          /\ \A u \in Workers : pc'[u] # "idle" => wmsg'[u] \in Messages
      BY <1>11 DEF CommitDelivery, Free, Step
    <2>6. /\ wmsg' \in [Workers -> Messages \cup {NoMessage}]
          /\ linked' \in [Workers -> BOOLEAN]
          /\ outcome' \in [Workers -> StatusValues]
          /\ severed' \subseteq Workers
      BY <1>11 DEF CommitDelivery, Free
    <2> QED
      BY <1>11, <2>2, <2>3, <2>4, <2>5, <2>6, <2>7 DEF CommitDelivery, CommitRows
  <1>12. CASE CommitDeliveryLost(v)
    <2>1. wmsg[v] \in Messages /\ PayerOf(v) \in Wallets /\ outcome[v] \in Terminal
      BY <1>12 DEF CommitDeliveryLost, CommitRows
    <2>2. /\ balance' \in [Wallets -> 0..ColumnMax]
          /\ ledger' \in [Wallets -> Int]
          /\ holder' \in [Wallets -> Txs \cup {NoTx}]
      <3>1. CASE holder[PayerOf(v)] = v
        <4>1. /\ balance' = [balance EXCEPT ![PayerOf(v)] = work[v]]
              /\ ledger' = [ledger EXCEPT ![PayerOf(v)] = @ + CostOf(wmsg[v])]
              /\ holder' = [holder EXCEPT ![PayerOf(v)] = NoTx]
          BY <1>12, <3>1 DEF CommitDeliveryLost, CommitRows, CommitBalance
        <4>2. ledger' \in [Wallets -> Int]
          BY <2>1, <4>1
        <4> QED
          BY <2>1, <4>1, <4>2
      <3>2. CASE holder[PayerOf(v)] # v
        BY <1>12, <3>2 DEF CommitDeliveryLost, CommitRows
      <3> QED
        BY <3>1, <3>2
    <2>3. /\ status' \in [Messages -> {"none"} \cup Terminal]
          /\ keeper' \in [Messages -> Workers \cup {NoTx}]
      BY <1>12, <2>1 DEF CommitDeliveryLost, CommitRows, SetStatus
    <2>4. /\ ready' \in [Messages -> Nat]
          /\ returned' \in [Messages -> 0..DeliveryLimit + 1]
      <3>1. CASE linked[v]
        <4>1. Requeue(wmsg[v])
          BY <1>12, <3>1 DEF CommitDeliveryLost
        <4> QED
          BY <2>1, <4>1, RequeueType
      <3>2. CASE ~linked[v]
        BY <1>12, <3>2 DEF CommitDeliveryLost
      <3> QED
        BY <3>1, <3>2
    <2>7. faultsLeft' \in Nat
      BY <1>12 DEF CommitDeliveryLost
    <2>5. /\ pc' \in [Txs -> RequestStates \cup WorkerStates]
          /\ \A x \in Requests : pc'[x] \in RequestStates
          /\ \A u \in Workers : pc'[u] \in WorkerStates
          /\ \A u \in Workers : pc'[u] # "idle" => wmsg'[u] \in Messages
      BY <1>12 DEF CommitDeliveryLost, Free, Step
    <2>6. /\ wmsg' \in [Workers -> Messages \cup {NoMessage}]
          /\ linked' \in [Workers -> BOOLEAN]
          /\ outcome' \in [Workers -> StatusValues]
          /\ severed' \subseteq Workers
      BY <1>12 DEF CommitDeliveryLost, Free
    <2> QED
      BY <1>12, <2>2, <2>3, <2>4, <2>5, <2>6, <2>7 DEF CommitDeliveryLost, CommitRows
  <1>13. CASE StatementErrs(v)
    <2>1. faultsLeft' \in Nat
      BY <1>13 DEF StatementErrs
    <2> HIDE DEF LInv, WorkerAction
    <2> QED
      BY <1>13, <2>1, RejectType DEF StatementErrs, WorkerAction
  <1>15. CASE WorkerDies(v)
    <2>1. faultsLeft' \in Nat
      BY <1>15 DEF WorkerDies
    <2> HIDE DEF LInv, WorkerAction
    <2> QED
      BY <1>15, <2>1, RejectType DEF WorkerDies, WorkerAction
  <1>16. CASE SendWasted(v)
    <2>1. faultsLeft' \in Nat
      BY <1>16 DEF SendWasted
    <2> HIDE DEF LInv, WorkerAction
    <2> QED
      BY <1>16, <2>1, RejectType DEF SendWasted, WorkerAction
  <1>17. CASE SessionLost(v)
    BY <1>17 DEF SessionLost, Rollback, Release
  <1>14. CASE ConnectionLost(v)
    BY <1>14 DEF ConnectionLost, Requeue
  <1> HIDE DEF LInv, TypeOK, Txs, Requests, RequestStates, WorkerStates,
               InTransaction, RowOf, PayerOf, LocksCover, RowsAreKept, AtWork,
               WorkIsCurrent, WorkerAction, dbVars, tableVars, dispatcherVars,
               workerVars, NoFault, Fault
  <1> QED
    BY <1>1, <1>2, <1>3, <1>4, <1>5, <1>6, <1>7, <1>8, <1>9, <1>10, <1>11,
       <1>12, <1>13, <1>14, <1>15, <1>16, <1>17
    DEF WorkerStep, SendAnswered, WorkerFault, WorkerAction

-----------------------------------------------------------------------------
(* Books, locks and what is computed under them.                           *)

\* A step of a request to send keeps the books, the locks and what is computed
\* under them.
LEMMA ChargeLocks ==
  ASSUME LInv,
         NEW m \in Messages,
         ApiAction(ChargeStep(m))
  PROVE  BooksBalance' /\ LocksCover' /\ WorkIsCurrent'
  <1> USE BaseAssumption, BrokerAssumption, AdminAssumption, WorkerAssumption,
          MoneyAssumption, CostFits
      DEF LInv, TypeOK, Txs, Requests, RequestStates, WorkerStates,
          InTransaction, RowOf, PayerOf, LocksCover, BooksBalance,
          WorkIsCurrent, RowsAreKept, AtWork, ApiAction, dbVars, tableVars,
          dispatcherVars, workerVars, NoFault, Fault
  <1>1. CASE RefuseRequest(m)
    BY <1>1 DEF RefuseRequest, Step
  <1>2. CASE BeginCharge(m)
    BY <1>2 DEF BeginCharge, Step
  <1>3. CASE LockCharge(m)
    BY <1>3 DEF LockCharge, LockWallet, Step
  <1>4. CASE WriteCharge(m)
    BY <1>4 DEF WriteCharge, Subtract, Fits, WriteBalance, Step
  <1>5. CASE ChargeInsufficient(m)
    BY <1>5 DEF ChargeInsufficient, Release, Step
  <1>6. CASE CommitCharge(m, "202") /\ NoFault
    BY <1>6 DEF CommitCharge, InsertOutbox, CommitBalance, Step
  <1> HIDE DEF LInv, TypeOK, Txs, Requests, RequestStates, WorkerStates,
               InTransaction, RowOf, PayerOf, LocksCover, BooksBalance,
               WorkIsCurrent, RowsAreKept, AtWork, ApiAction, dbVars,
               tableVars, dispatcherVars, workerVars, NoFault, Fault
  <1> QED
    BY <1>1, <1>2, <1>3, <1>4, <1>5, <1>6
    DEF ChargeStep, ApiAction

\* A step of an admin request keeps the books, the locks and what is computed
\* under them.
LEMMA AdminLocks ==
  ASSUME LInv,
         NEW a \in Admins,
         ApiAction(AdminStep(a))
  PROVE  BooksBalance' /\ LocksCover' /\ WorkIsCurrent'
  <1> USE BaseAssumption, BrokerAssumption, AdminAssumption, WorkerAssumption,
          MoneyAssumption, CostFits
      DEF LInv, TypeOK, Txs, Requests, RequestStates, WorkerStates,
          InTransaction, RowOf, PayerOf, LocksCover, BooksBalance,
          WorkIsCurrent, RowsAreKept, AtWork, ApiAction, dbVars, tableVars,
          dispatcherVars, workerVars, NoFault, Fault
  <1>1. CASE RefuseAdmin(a)
    BY <1>1 DEF RefuseAdmin, Step
  <1>2. CASE CreateWalletOverflows(a)
    BY <1>2 DEF CreateWalletOverflows, Asks, Step
  <1>3. CASE ChannelConflict(a)
    BY <1>3 DEF ChannelConflict, Asks, Step
  <1>4. CASE BeginTopUp(a)
    BY <1>4 DEF BeginTopUp, Asks, NewMoney, IsPositive, Step
  <1>5. CASE LockTopUp(a)
    BY <1>5 DEF LockTopUp, LockWallet, Step
  <1>6. CASE TopUpUnknownWallet(a)
    BY <1>6 DEF TopUpUnknownWallet, Step
  <1>7. CASE WriteTopUp(a)
    BY <1>7 DEF WriteTopUp, Add, Fits, WriteBalance, Step
  <1>8. CASE TopUpOverflows(a)
    BY <1>8 DEF TopUpOverflows, Release, Step
  <1>9. CASE Created(a, "201") /\ NoFault
    BY <1>9 DEF Created, Asks, NewMoney, Fits, Step
  <1>10. CASE AddChannel(a, "201") /\ NoFault
    BY <1>10 DEF AddChannel, Asks, Step
  <1>11. CASE CommitTopUp(a, "200") /\ NoFault
    BY <1>11 DEF CommitTopUp, CommitBalance, Step
  <1> HIDE DEF LInv, TypeOK, Txs, Requests, RequestStates, WorkerStates,
               InTransaction, RowOf, PayerOf, LocksCover, BooksBalance,
               WorkIsCurrent, RowsAreKept, AtWork, ApiAction, dbVars,
               tableVars, dispatcherVars, workerVars, NoFault, Fault
  <1> QED
    BY <1>1, <1>2, <1>3, <1>4, <1>5, <1>6, <1>7, <1>8, <1>9, <1>10, <1>11
    DEF AdminStep, ApiAction

\* A failed or lost commit of the API keeps the books, the locks and what is
\* computed under them.
LEMMA LostLocks ==
  ASSUME LInv,
         NEW x \in Requests,
         ApiAction(StatementFails(x) \/ CommitReplyLost(x))
  PROVE  BooksBalance' /\ LocksCover' /\ WorkIsCurrent'
  <1> USE BaseAssumption, BrokerAssumption, AdminAssumption, WorkerAssumption,
          MoneyAssumption, CostFits
      DEF LInv, TypeOK, Txs, Requests, RequestStates, WorkerStates,
          InTransaction, RowOf, PayerOf, LocksCover, BooksBalance,
          WorkIsCurrent, RowsAreKept, AtWork, ApiAction, dbVars, tableVars,
          dispatcherVars, workerVars, NoFault, Fault
  <1>1. CASE StatementFails(x)
    BY <1>1 DEF StatementFails, Release, Step
  <1>2. CASE x \in Messages /\ CommitCharge(x, "500") /\ Fault("dbLost")
    BY <1>2 DEF CommitCharge, InsertOutbox, CommitBalance, Step
  <1>3. CASE x \in Admins /\ Created(x, "500") /\ Fault("dbLost")
    BY <1>3 DEF Created, Asks, NewMoney, Fits, Step
  <1>4. CASE x \in Admins /\ AddChannel(x, "500") /\ Fault("dbLost")
    BY <1>4 DEF AddChannel, Asks, Step
  <1>5. CASE x \in Admins /\ CommitTopUp(x, "500") /\ Fault("dbLost")
    BY <1>5 DEF CommitTopUp, CommitBalance, Step
  <1> HIDE DEF LInv, TypeOK, Txs, Requests, RequestStates, WorkerStates,
               InTransaction, RowOf, PayerOf, LocksCover, BooksBalance,
               WorkIsCurrent, RowsAreKept, AtWork, ApiAction, dbVars,
               tableVars, dispatcherVars, workerVars, NoFault, Fault
  <1> QED
    BY <1>1, <1>2, <1>3, <1>4, <1>5
    DEF CommitReplyLost, ApiAction

\* A crash of the API keeps the books, the locks and what is computed under
\* them.
LEMMA CrashLocks ==
  ASSUME LInv,
         ApiAction(ApiCrash)
  PROVE  BooksBalance' /\ LocksCover' /\ WorkIsCurrent'
  BY BaseAssumption, BrokerAssumption, AdminAssumption, WorkerAssumption,
     MoneyAssumption, CostFits
  DEF LInv, TypeOK, Txs, Requests, RequestStates, WorkerStates, InTransaction,
      RowOf, PayerOf, LocksCover, BooksBalance, WorkIsCurrent, RowsAreKept,
      AtWork, ApiAction, dbVars, tableVars, dispatcherVars, workerVars,
      NoFault, Fault, ApiCrash, Release

\* A step of the dispatcher keeps the books, the locks and what is computed
\* under them.
LEMMA DispatcherLocks ==
  ASSUME LInv,
         DispatcherAction(DispatcherStep \/ DispatcherFault)
  PROVE  BooksBalance' /\ LocksCover' /\ WorkIsCurrent'
  <1> USE BaseAssumption, BrokerAssumption, AdminAssumption, WorkerAssumption,
          MoneyAssumption, CostFits
      DEF LInv, TypeOK, Txs, Requests, RequestStates, WorkerStates,
          InTransaction, RowOf, PayerOf, LocksCover, BooksBalance,
          WorkIsCurrent, RowsAreKept, AtWork, DispatcherAction, dbVars,
          tableVars, dispatcherVars, workerVars, NoFault, Fault
  <1>1. CASE \E l \in Lines : SelectBatch(l)
    BY <1>1 DEF SelectBatch, Pending
  <1>2. CASE \E m \in Messages : PublishRow(m)
    BY <1>2 DEF PublishRow, Publish
  <1>3. CASE \E m \in Messages : ConfirmRow(m)
    BY <1>3 DEF ConfirmRow
  <1>4. CASE DispatcherStop
    BY <1>4 DEF DispatcherStop
  <1>5. CASE ConfirmRefused
    BY <1>5 DEF ConfirmRefused
  <1>6. CASE \E m \in Messages : PublishRefused(m)
    BY <1>6 DEF PublishRefused
  <1> HIDE DEF LInv, TypeOK, Txs, Requests, RequestStates, WorkerStates,
               InTransaction, RowOf, PayerOf, LocksCover, BooksBalance,
               WorkIsCurrent, RowsAreKept, AtWork, DispatcherAction, dbVars,
               tableVars, dispatcherVars, workerVars, NoFault, Fault
  <1> QED
    BY <1>1, <1>2, <1>3, <1>4, <1>5, <1>6
    DEF DispatcherStep, DispatcherFault, DispatcherAction

\* A step of a worker keeps the books, the locks and what is computed under
\* them.
LEMMA WorkerLocks ==
  ASSUME LInv,
         NEW v \in Workers,
         WorkerAction(WorkerStep(v) \/ SendAnswered(v) \/ WorkerFault(v))
  PROVE  BooksBalance' /\ LocksCover' /\ WorkIsCurrent'
  <1> USE BaseAssumption, BrokerAssumption, AdminAssumption, WorkerAssumption,
          MoneyAssumption, CostFits
      DEF LInv, TypeOK, Txs, Requests, RequestStates, WorkerStates,
          InTransaction, RowOf, PayerOf, LocksCover, BooksBalance,
          WorkIsCurrent, RowsAreKept, AtWork, WorkerAction, dbVars, tableVars,
          dispatcherVars, workerVars, NoFault, Fault
  <1>1. CASE \E m \in Messages : Receive(v, m)
    BY <1>1 DEF Receive, Deliver, Step
  <1>2. CASE FindNothing(v)
    BY <1>2 DEF FindNothing, Step
  <1>3. CASE FindRow(v)
    BY <1>3 DEF FindRow, Step
  <1>4. CASE InsertRow(v)
    BY <1>4 DEF InsertRow, Step
  <1>5. CASE InsertConflict(v)
    BY <1>5 DEF InsertConflict, Reject, Rollback, Release, Requeue, Free, Step
  <1>6. CASE CheckDeadline(v)
    BY <1>6 DEF CheckDeadline, Step
  <1>7. CASE SendReturns(v)
    <2>1. CASE Step(v, "commit") /\ outcome' = [outcome EXCEPT ![v] = "delivered"]
      BY <1>7, <2>1 DEF SendReturns, Step
    <2>2. CASE Step(v, "lock") /\ UNCHANGED outcome
      BY <1>7, <2>2 DEF SendReturns, Step
    <2> QED
      BY <1>7, <2>1, <2>2 DEF SendReturns
  <1>8. CASE LockRefund(v)
    BY <1>8 DEF LockRefund, LockWallet, Step
  <1>9. CASE WriteRefund(v)
    BY <1>9 DEF WriteRefund, Add, Fits, WriteBalance, Step
  <1>10. CASE RefundOverflows(v)
    BY <1>10 DEF RefundOverflows, Reject, Rollback, Release, Requeue, Free,
                 Step
  <1>11. CASE CommitDelivery(v)
    <2>1. /\ pc[v] = "commit" /\ pc' = [pc EXCEPT ![v] = "idle"]
          /\ wmsg' = [wmsg EXCEPT ![v] = NoMessage]
          /\ UNCHANGED <<wallets, work, units>>
          /\ wmsg[v] \in Messages /\ PayerOf(v) \in Wallets
      BY <1>11 DEF CommitDelivery, CommitRows, Free, Step
    <2>2. CASE holder[PayerOf(v)] = v
      <3>1. /\ balance' = [balance EXCEPT ![PayerOf(v)] = work[v]]
            /\ ledger' = [ledger EXCEPT ![PayerOf(v)] = @ + CostOf(wmsg[v])]
            /\ holder' = [holder EXCEPT ![PayerOf(v)] = NoTx]
        BY <1>11, <2>2 DEF CommitDelivery, CommitRows, CommitBalance
      <3>2. BooksBalance'
        BY <2>1, <2>2, <3>1
      <3>3. LocksCover'
        BY <2>1, <2>2, <3>1
      <3>4. WorkIsCurrent'
        BY <2>1, <2>2, <3>1
      <3> QED
        BY <3>2, <3>3, <3>4
    <2>3. CASE holder[PayerOf(v)] # v
      <3>1. UNCHANGED <<balance, ledger, holder>>
        BY <1>11, <2>3 DEF CommitDelivery, CommitRows
      <3> QED
        BY <2>1, <2>3, <3>1
    <2> QED
      BY <2>2, <2>3
  <1>12. CASE CommitDeliveryLost(v)
    <2>1. /\ pc[v] = "commit" /\ pc' = [pc EXCEPT ![v] = "idle"]
          /\ wmsg' = [wmsg EXCEPT ![v] = NoMessage]
          /\ UNCHANGED <<wallets, work, units>>
          /\ wmsg[v] \in Messages /\ PayerOf(v) \in Wallets
      BY <1>12 DEF CommitDeliveryLost, CommitRows, Free, Step
    <2>2. CASE holder[PayerOf(v)] = v
      <3>1. /\ balance' = [balance EXCEPT ![PayerOf(v)] = work[v]]
            /\ ledger' = [ledger EXCEPT ![PayerOf(v)] = @ + CostOf(wmsg[v])]
            /\ holder' = [holder EXCEPT ![PayerOf(v)] = NoTx]
        BY <1>12, <2>2 DEF CommitDeliveryLost, CommitRows, CommitBalance
      <3>2. BooksBalance'
        BY <2>1, <2>2, <3>1
      <3>3. LocksCover'
        BY <2>1, <2>2, <3>1
      <3>4. WorkIsCurrent'
        BY <2>1, <2>2, <3>1
      <3> QED
        BY <3>2, <3>3, <3>4
    <2>3. CASE holder[PayerOf(v)] # v
      <3>1. UNCHANGED <<balance, ledger, holder>>
        BY <1>12, <2>3 DEF CommitDeliveryLost, CommitRows
      <3> QED
        BY <2>1, <2>3, <3>1
    <2> QED
      BY <2>2, <2>3
  <1>13. CASE StatementErrs(v)
    BY <1>13 DEF StatementErrs, Reject, Rollback, Release, Requeue, Free, Step
  <1>15. CASE WorkerDies(v)
    BY <1>15 DEF WorkerDies, Reject, Rollback, Release, Requeue, Free, Step
  <1>16. CASE SendWasted(v)
    BY <1>16 DEF SendWasted, Reject, Rollback, Release, Requeue, Free, Step
  <1>17. CASE SessionLost(v)
    BY <1>17 DEF SessionLost, Rollback, Release
  <1>14. CASE ConnectionLost(v)
    BY <1>14 DEF ConnectionLost, Requeue
  <1> HIDE DEF LInv, TypeOK, Txs, Requests, RequestStates, WorkerStates,
               InTransaction, RowOf, PayerOf, LocksCover, BooksBalance,
               WorkIsCurrent, RowsAreKept, AtWork, WorkerAction, dbVars,
               tableVars, dispatcherVars, workerVars, NoFault, Fault
  <1> QED
    BY <1>1, <1>2, <1>3, <1>4, <1>5, <1>6, <1>7, <1>8, <1>9, <1>10, <1>11,
       <1>12, <1>13, <1>14, <1>15, <1>16, <1>17
    DEF WorkerStep, SendAnswered, WorkerFault, WorkerAction

-----------------------------------------------------------------------------
(* The rows of sms_deliveries.                                             *)

\* A step of a request to send keeps RowsAreKept.
LEMMA ChargeRows ==
  ASSUME LInv,
         NEW m \in Messages,
         ApiAction(ChargeStep(m))
  PROVE  RowsAreKept'
  <1> USE BaseAssumption, BrokerAssumption, AdminAssumption, WorkerAssumption,
          MoneyAssumption, CostFits
      DEF LInv, TypeOK, Txs, Requests, RequestStates, WorkerStates,
          InTransaction, RowOf, PayerOf, LocksCover, RowsAreKept, AtWork,
          ApiAction, dbVars, tableVars, dispatcherVars, workerVars, NoFault,
          Fault
  <1>1. CASE RefuseRequest(m)
    BY <1>1 DEF RefuseRequest, Step
  <1>2. CASE BeginCharge(m)
    BY <1>2 DEF BeginCharge, Step
  <1>3. CASE LockCharge(m)
    BY <1>3 DEF LockCharge, LockWallet, Step
  <1>4. CASE WriteCharge(m)
    BY <1>4 DEF WriteCharge, Subtract, Fits, WriteBalance, Step
  <1>5. CASE ChargeInsufficient(m)
    BY <1>5 DEF ChargeInsufficient, Release, Step
  <1>6. CASE CommitCharge(m, "202") /\ NoFault
    BY <1>6 DEF CommitCharge, InsertOutbox, CommitBalance, Step
  <1> HIDE DEF LInv, TypeOK, Txs, Requests, RequestStates, WorkerStates,
               InTransaction, RowOf, PayerOf, LocksCover, RowsAreKept, AtWork,
               ApiAction, dbVars, tableVars, dispatcherVars, workerVars,
               NoFault, Fault
  <1> QED
    BY <1>1, <1>2, <1>3, <1>4, <1>5, <1>6
    DEF ChargeStep, ApiAction

\* A step of an admin request keeps RowsAreKept.
LEMMA AdminRows ==
  ASSUME LInv,
         NEW a \in Admins,
         ApiAction(AdminStep(a))
  PROVE  RowsAreKept'
  <1> USE BaseAssumption, BrokerAssumption, AdminAssumption, WorkerAssumption,
          MoneyAssumption, CostFits
      DEF LInv, TypeOK, Txs, Requests, RequestStates, WorkerStates,
          InTransaction, RowOf, PayerOf, LocksCover, RowsAreKept, AtWork,
          ApiAction, dbVars, tableVars, dispatcherVars, workerVars, NoFault,
          Fault
  <1>1. CASE RefuseAdmin(a)
    BY <1>1 DEF RefuseAdmin, Step
  <1>2. CASE CreateWalletOverflows(a)
    BY <1>2 DEF CreateWalletOverflows, Asks, Step
  <1>3. CASE ChannelConflict(a)
    BY <1>3 DEF ChannelConflict, Asks, Step
  <1>4. CASE BeginTopUp(a)
    BY <1>4 DEF BeginTopUp, Asks, NewMoney, IsPositive, Step
  <1>5. CASE LockTopUp(a)
    BY <1>5 DEF LockTopUp, LockWallet, Step
  <1>6. CASE TopUpUnknownWallet(a)
    BY <1>6 DEF TopUpUnknownWallet, Step
  <1>7. CASE WriteTopUp(a)
    BY <1>7 DEF WriteTopUp, Add, Fits, WriteBalance, Step
  <1>8. CASE TopUpOverflows(a)
    BY <1>8 DEF TopUpOverflows, Release, Step
  <1>9. CASE Created(a, "201") /\ NoFault
    BY <1>9 DEF Created, Asks, NewMoney, Fits, Step
  <1>10. CASE AddChannel(a, "201") /\ NoFault
    BY <1>10 DEF AddChannel, Asks, Step
  <1>11. CASE CommitTopUp(a, "200") /\ NoFault
    BY <1>11 DEF CommitTopUp, CommitBalance, Step
  <1> HIDE DEF LInv, TypeOK, Txs, Requests, RequestStates, WorkerStates,
               InTransaction, RowOf, PayerOf, LocksCover, RowsAreKept, AtWork,
               ApiAction, dbVars, tableVars, dispatcherVars, workerVars,
               NoFault, Fault
  <1> QED
    BY <1>1, <1>2, <1>3, <1>4, <1>5, <1>6, <1>7, <1>8, <1>9, <1>10, <1>11
    DEF AdminStep, ApiAction

\* A failed or lost commit of the API keeps RowsAreKept.
LEMMA LostRows ==
  ASSUME LInv,
         NEW x \in Requests,
         ApiAction(StatementFails(x) \/ CommitReplyLost(x))
  PROVE  RowsAreKept'
  <1> USE BaseAssumption, BrokerAssumption, AdminAssumption, WorkerAssumption,
          MoneyAssumption, CostFits
      DEF LInv, TypeOK, Txs, Requests, RequestStates, WorkerStates,
          InTransaction, RowOf, PayerOf, LocksCover, RowsAreKept, AtWork,
          ApiAction, dbVars, tableVars, dispatcherVars, workerVars, NoFault,
          Fault
  <1>1. CASE StatementFails(x)
    BY <1>1 DEF StatementFails, Release, Step
  <1>2. CASE x \in Messages /\ CommitCharge(x, "500") /\ Fault("dbLost")
    BY <1>2 DEF CommitCharge, InsertOutbox, CommitBalance, Step
  <1>3. CASE x \in Admins /\ Created(x, "500") /\ Fault("dbLost")
    BY <1>3 DEF Created, Asks, NewMoney, Fits, Step
  <1>4. CASE x \in Admins /\ AddChannel(x, "500") /\ Fault("dbLost")
    BY <1>4 DEF AddChannel, Asks, Step
  <1>5. CASE x \in Admins /\ CommitTopUp(x, "500") /\ Fault("dbLost")
    BY <1>5 DEF CommitTopUp, CommitBalance, Step
  <1> HIDE DEF LInv, TypeOK, Txs, Requests, RequestStates, WorkerStates,
               InTransaction, RowOf, PayerOf, LocksCover, RowsAreKept, AtWork,
               ApiAction, dbVars, tableVars, dispatcherVars, workerVars,
               NoFault, Fault
  <1> QED
    BY <1>1, <1>2, <1>3, <1>4, <1>5
    DEF CommitReplyLost, ApiAction

\* A crash of the API keeps RowsAreKept.
LEMMA CrashRows ==
  ASSUME LInv,
         ApiAction(ApiCrash)
  PROVE  RowsAreKept'
  BY BaseAssumption, BrokerAssumption, AdminAssumption, WorkerAssumption,
     MoneyAssumption, CostFits
  DEF LInv, TypeOK, Txs, Requests, RequestStates, WorkerStates, InTransaction,
      RowOf, PayerOf, LocksCover, RowsAreKept, AtWork, ApiAction, dbVars,
      tableVars, dispatcherVars, workerVars, NoFault, Fault, ApiCrash, Release

\* A step of the dispatcher keeps RowsAreKept.
LEMMA DispatcherRows ==
  ASSUME LInv,
         DispatcherAction(DispatcherStep \/ DispatcherFault)
  PROVE  RowsAreKept'
  <1> USE BaseAssumption, BrokerAssumption, AdminAssumption, WorkerAssumption,
          MoneyAssumption, CostFits
      DEF LInv, TypeOK, Txs, Requests, RequestStates, WorkerStates,
          InTransaction, RowOf, PayerOf, LocksCover, RowsAreKept, AtWork,
          DispatcherAction, dbVars, tableVars, dispatcherVars, workerVars,
          NoFault, Fault
  <1>1. CASE \E l \in Lines : SelectBatch(l)
    BY <1>1 DEF SelectBatch, Pending
  <1>2. CASE \E m \in Messages : PublishRow(m)
    BY <1>2 DEF PublishRow, Publish
  <1>3. CASE \E m \in Messages : ConfirmRow(m)
    BY <1>3 DEF ConfirmRow
  <1>4. CASE DispatcherStop
    BY <1>4 DEF DispatcherStop
  <1>5. CASE ConfirmRefused
    BY <1>5 DEF ConfirmRefused
  <1>6. CASE \E m \in Messages : PublishRefused(m)
    BY <1>6 DEF PublishRefused
  <1> HIDE DEF LInv, TypeOK, Txs, Requests, RequestStates, WorkerStates,
               InTransaction, RowOf, PayerOf, LocksCover, RowsAreKept, AtWork,
               DispatcherAction, dbVars, tableVars, dispatcherVars,
               workerVars, NoFault, Fault
  <1> QED
    BY <1>1, <1>2, <1>3, <1>4, <1>5, <1>6
    DEF DispatcherStep, DispatcherFault, DispatcherAction

\* A step of a worker keeps RowsAreKept.
LEMMA WorkerRows ==
  ASSUME LInv,
         NEW v \in Workers,
         WorkerAction(WorkerStep(v) \/ SendAnswered(v) \/ WorkerFault(v))
  PROVE  RowsAreKept'
  <1> USE BaseAssumption, BrokerAssumption, AdminAssumption, WorkerAssumption,
          MoneyAssumption, CostFits
      DEF LInv, TypeOK, Txs, Requests, RequestStates, WorkerStates,
          InTransaction, RowOf, PayerOf, LocksCover, RowsAreKept, AtWork,
          WorkerAction, dbVars, tableVars, dispatcherVars, workerVars,
          NoFault, Fault
  <1>1. CASE \E m \in Messages : Receive(v, m)
    BY <1>1 DEF Receive, Deliver, Step
  <1>2. CASE FindNothing(v)
    BY <1>2 DEF FindNothing, Step
  <1>3. CASE FindRow(v)
    BY <1>3 DEF FindRow, Step
  <1>4. CASE InsertRow(v)
    BY <1>4 DEF InsertRow, Step
  <1>5. CASE InsertConflict(v)
    BY <1>5 DEF InsertConflict, Reject, Rollback, Release, Requeue, Free, Step
  <1>6. CASE CheckDeadline(v)
    BY <1>6 DEF CheckDeadline, Step
  <1>7. CASE SendReturns(v)
    <2>1. CASE Step(v, "commit") /\ outcome' = [outcome EXCEPT ![v] = "delivered"]
      BY <1>7, <2>1 DEF SendReturns, Step
    <2>2. CASE Step(v, "lock") /\ UNCHANGED outcome
      BY <1>7, <2>2 DEF SendReturns, Step
    <2> QED
      BY <1>7, <2>1, <2>2 DEF SendReturns
  <1>8. CASE LockRefund(v)
    BY <1>8 DEF LockRefund, LockWallet, Step
  <1>9. CASE WriteRefund(v)
    BY <1>9 DEF WriteRefund, Add, Fits, WriteBalance, Step
  <1>10. CASE RefundOverflows(v)
    BY <1>10 DEF RefundOverflows, Reject, Rollback, Release, Requeue, Free,
                 Step
  <1>11. CASE CommitDelivery(v)
    BY <1>11 DEF CommitDelivery, CommitRows, SetStatus, CommitBalance, Free,
                 Step
  <1>12. CASE CommitDeliveryLost(v)
    BY <1>12 DEF CommitDeliveryLost, CommitRows, SetStatus, CommitBalance,
                 Requeue, Free, Step
  <1>13. CASE StatementErrs(v)
    BY <1>13 DEF StatementErrs, Reject, Rollback, Release, Requeue, Free, Step
  <1>15. CASE WorkerDies(v)
    BY <1>15 DEF WorkerDies, Reject, Rollback, Release, Requeue, Free, Step
  <1>16. CASE SendWasted(v)
    BY <1>16 DEF SendWasted, Reject, Rollback, Release, Requeue, Free, Step
  <1>17. CASE SessionLost(v)
    BY <1>17 DEF SessionLost, Rollback, Release
  <1>14. CASE ConnectionLost(v)
    BY <1>14 DEF ConnectionLost, Requeue
  <1> HIDE DEF LInv, TypeOK, Txs, Requests, RequestStates, WorkerStates,
               InTransaction, RowOf, PayerOf, LocksCover, RowsAreKept, AtWork,
               WorkerAction, dbVars, tableVars, dispatcherVars, workerVars,
               NoFault, Fault
  <1> QED
    BY <1>1, <1>2, <1>3, <1>4, <1>5, <1>6, <1>7, <1>8, <1>9, <1>10, <1>11,
       <1>12, <1>13, <1>14, <1>15, <1>16, <1>17
    DEF WorkerStep, SendAnswered, WorkerFault, WorkerAction

-----------------------------------------------------------------------------
(* Charges, outbox rows and copies.                                        *)

\* Goroutine u is idle again if it is v, and otherwise as it was.
FreeOrSame(u, v) ==
    IF u = v THEN pc'[u] = "idle" /\ linked'[u] = TRUE
    ELSE pc'[u] = pc[u] /\ wmsg'[u] = wmsg[u] /\ linked'[u] = linked[u]

\* Free concerns one goroutine.
LEMMA FreeOne ==
  ASSUME TypeOK, NEW v \in Workers, Free(v)
  PROVE  \A u \in Workers : FreeOrSame(u, v)
  <1> TAKE u \in Workers
  <1>1. /\ pc'[u] = IF u = v THEN "idle" ELSE pc[u]
        /\ u # v => wmsg'[u] = wmsg[u]
    BY DEF TypeOK, Txs, Free, Step
  <1>2. linked'[u] = IF u = v THEN TRUE ELSE linked[u]
    BY DEF TypeOK, Free
  <1> QED
    BY <1>1, <1>2 DEF FreeOrSame

\* A rejected delivery keeps ChargedUntilSettled: its copy is back in the
\* queue, unless the broker had taken it back before.
LEMMA RejectCopies ==
  ASSUME LInv, NEW v \in Workers, pc[v] # "idle", WorkerAction(Reject(v)),
         UNCHANGED <<dbVars, tableVars, work, units>>, faultsLeft' \in Nat
  PROVE  ChargedUntilSettled'
  <1> USE BaseAssumption, BrokerAssumption, WorkerAssumption
      DEF LInv, TypeOK, Txs, Requests, RequestStates, WorkerStates, InTransaction,
          dbVars, tableVars, dispatcherVars, WorkerAction, Reject, Rollback, Free,
          Step, ChargedUntilSettled
  <1>1. \A u \in Workers : FreeOrSame(u, v)
    BY FreeOne
  <1>2. \A m \in Messages :
          /\ ready[m] \in Nat /\ ready'[m] \in Nat /\ ready'[m] >= ready[m]
          /\ linked[v] /\ m = wmsg[v] => ready'[m] > 0 \/ Exhausted(m)'
          /\ outbox[m] = "none" => ready'[m] = ready[m]
          /\ Exhausted(m) => Exhausted(m)'
    BY DEF Requeue
  <1>3. \A m \in Messages : Held(m) => Held(m)' \/ ready'[m] > 0 \/ Exhausted(m)'
    BY <1>1, <1>2 DEF Held, FreeOrSame
  <1>4. \A m \in Messages : pc'[m] = pc[m]
    OBVIOUS
  <1> QED
    BY <1>1, <1>2, <1>3, <1>4 DEF FreeOrSame

\* A step of a request to send keeps ChargedUntilSettled.
LEMMA ChargeCopies ==
  ASSUME LInv,
         NEW m \in Messages,
         ApiAction(ChargeStep(m))
  PROVE  ChargedUntilSettled'
  <1> USE BaseAssumption, BrokerAssumption, AdminAssumption, WorkerAssumption,
          MoneyAssumption, CostFits
      DEF LInv, TypeOK, Txs, Requests, RequestStates, WorkerStates,
          InTransaction, ChargedUntilSettled, RowsAreKept, AtWork, Held,
          ApiAction, dbVars, tableVars, dispatcherVars, workerVars, NoFault,
          Fault
  <1>1. CASE RefuseRequest(m)
    BY <1>1 DEF RefuseRequest, Step
  <1>2. CASE BeginCharge(m)
    BY <1>2 DEF BeginCharge, Step
  <1>3. CASE LockCharge(m)
    BY <1>3 DEF LockCharge, LockWallet, Step
  <1>4. CASE WriteCharge(m)
    BY <1>4 DEF WriteCharge, Subtract, Fits, WriteBalance, Step
  <1>5. CASE ChargeInsufficient(m)
    BY <1>5 DEF ChargeInsufficient, Release, Step
  <1>6. CASE CommitCharge(m, "202") /\ NoFault
    BY <1>6 DEF CommitCharge, InsertOutbox, CommitBalance, Step
  <1> HIDE DEF LInv, TypeOK, Txs, Requests, RequestStates, WorkerStates,
               InTransaction, ChargedUntilSettled, RowsAreKept, AtWork, Held,
               ApiAction, dbVars, tableVars, dispatcherVars, workerVars,
               NoFault, Fault
  <1> QED
    BY <1>1, <1>2, <1>3, <1>4, <1>5, <1>6
    DEF ChargeStep, ApiAction

\* A step of an admin request keeps ChargedUntilSettled.
LEMMA AdminCopies ==
  ASSUME LInv,
         NEW a \in Admins,
         ApiAction(AdminStep(a))
  PROVE  ChargedUntilSettled'
  <1> USE BaseAssumption, BrokerAssumption, AdminAssumption, WorkerAssumption,
          MoneyAssumption, CostFits
      DEF LInv, TypeOK, Txs, Requests, RequestStates, WorkerStates,
          InTransaction, ChargedUntilSettled, RowsAreKept, AtWork, Held,
          ApiAction, dbVars, tableVars, dispatcherVars, workerVars, NoFault,
          Fault
  <1>1. CASE RefuseAdmin(a)
    BY <1>1 DEF RefuseAdmin, Step
  <1>2. CASE CreateWalletOverflows(a)
    BY <1>2 DEF CreateWalletOverflows, Asks, Step
  <1>3. CASE ChannelConflict(a)
    BY <1>3 DEF ChannelConflict, Asks, Step
  <1>4. CASE BeginTopUp(a)
    BY <1>4 DEF BeginTopUp, Asks, NewMoney, IsPositive, Step
  <1>5. CASE LockTopUp(a)
    BY <1>5 DEF LockTopUp, LockWallet, Step
  <1>6. CASE TopUpUnknownWallet(a)
    BY <1>6 DEF TopUpUnknownWallet, Step
  <1>7. CASE WriteTopUp(a)
    BY <1>7 DEF WriteTopUp, Add, Fits, WriteBalance, Step
  <1>8. CASE TopUpOverflows(a)
    BY <1>8 DEF TopUpOverflows, Release, Step
  <1>9. CASE Created(a, "201") /\ NoFault
    BY <1>9 DEF Created, Asks, NewMoney, Fits, Step
  <1>10. CASE AddChannel(a, "201") /\ NoFault
    BY <1>10 DEF AddChannel, Asks, Step
  <1>11. CASE CommitTopUp(a, "200") /\ NoFault
    BY <1>11 DEF CommitTopUp, CommitBalance, Step
  <1> HIDE DEF LInv, TypeOK, Txs, Requests, RequestStates, WorkerStates,
               InTransaction, ChargedUntilSettled, RowsAreKept, AtWork, Held,
               ApiAction, dbVars, tableVars, dispatcherVars, workerVars,
               NoFault, Fault
  <1> QED
    BY <1>1, <1>2, <1>3, <1>4, <1>5, <1>6, <1>7, <1>8, <1>9, <1>10, <1>11
    DEF AdminStep, ApiAction

\* A failed or lost commit of the API keeps ChargedUntilSettled.
LEMMA LostCopies ==
  ASSUME LInv,
         NEW x \in Requests,
         ApiAction(StatementFails(x) \/ CommitReplyLost(x))
  PROVE  ChargedUntilSettled'
  <1> USE BaseAssumption, BrokerAssumption, AdminAssumption, WorkerAssumption,
          MoneyAssumption, CostFits
      DEF LInv, TypeOK, Txs, Requests, RequestStates, WorkerStates,
          InTransaction, ChargedUntilSettled, RowsAreKept, AtWork, Held,
          ApiAction, dbVars, tableVars, dispatcherVars, workerVars, NoFault,
          Fault
  <1>1. CASE StatementFails(x)
    BY <1>1 DEF StatementFails, Release, Step
  <1>2. CASE x \in Messages /\ CommitCharge(x, "500") /\ Fault("dbLost")
    BY <1>2 DEF CommitCharge, InsertOutbox, CommitBalance, Step
  <1>3. CASE x \in Admins /\ Created(x, "500") /\ Fault("dbLost")
    BY <1>3 DEF Created, Asks, NewMoney, Fits, Step
  <1>4. CASE x \in Admins /\ AddChannel(x, "500") /\ Fault("dbLost")
    BY <1>4 DEF AddChannel, Asks, Step
  <1>5. CASE x \in Admins /\ CommitTopUp(x, "500") /\ Fault("dbLost")
    BY <1>5 DEF CommitTopUp, CommitBalance, Step
  <1> HIDE DEF LInv, TypeOK, Txs, Requests, RequestStates, WorkerStates,
               InTransaction, ChargedUntilSettled, RowsAreKept, AtWork, Held,
               ApiAction, dbVars, tableVars, dispatcherVars, workerVars,
               NoFault, Fault
  <1> QED
    BY <1>1, <1>2, <1>3, <1>4, <1>5
    DEF CommitReplyLost, ApiAction

\* A crash of the API keeps ChargedUntilSettled.
LEMMA CrashCopies ==
  ASSUME LInv,
         ApiAction(ApiCrash)
  PROVE  ChargedUntilSettled'
  BY BaseAssumption, BrokerAssumption, AdminAssumption, WorkerAssumption,
     MoneyAssumption, CostFits
  DEF LInv, TypeOK, Txs, Requests, RequestStates, WorkerStates, InTransaction,
      ChargedUntilSettled, RowsAreKept, AtWork, Held, ApiAction, dbVars,
      tableVars, dispatcherVars, workerVars, NoFault, Fault, ApiCrash, Release

\* A step of the dispatcher keeps ChargedUntilSettled.
LEMMA DispatcherCopies ==
  ASSUME LInv,
         DispatcherAction(DispatcherStep \/ DispatcherFault)
  PROVE  ChargedUntilSettled'
  <1> USE BaseAssumption, BrokerAssumption, AdminAssumption, WorkerAssumption,
          MoneyAssumption, CostFits
      DEF LInv, TypeOK, Txs, Requests, RequestStates, WorkerStates,
          InTransaction, ChargedUntilSettled, RowsAreKept, AtWork, Held,
          DispatcherAction, dbVars, tableVars, dispatcherVars, workerVars,
          NoFault, Fault
  <1>1. CASE \E l \in Lines : SelectBatch(l)
    BY <1>1 DEF SelectBatch, Pending
  <1>2. CASE \E m \in Messages : PublishRow(m)
    BY <1>2 DEF PublishRow, Publish
  <1>3. CASE \E m \in Messages : ConfirmRow(m)
    BY <1>3 DEF ConfirmRow
  <1>4. CASE DispatcherStop
    BY <1>4 DEF DispatcherStop
  <1>5. CASE ConfirmRefused
    BY <1>5 DEF ConfirmRefused
  <1>6. CASE \E m \in Messages : PublishRefused(m)
    BY <1>6 DEF PublishRefused
  <1> HIDE DEF LInv, TypeOK, Txs, Requests, RequestStates, WorkerStates,
               InTransaction, ChargedUntilSettled, RowsAreKept, AtWork, Held,
               DispatcherAction, dbVars, tableVars, dispatcherVars,
               workerVars, NoFault, Fault
  <1> QED
    BY <1>1, <1>2, <1>3, <1>4, <1>5, <1>6
    DEF DispatcherStep, DispatcherFault, DispatcherAction

\* A step of a worker keeps ChargedUntilSettled.
LEMMA WorkerCopies ==
  ASSUME LInv,
         NEW v \in Workers,
         WorkerAction(WorkerStep(v) \/ SendAnswered(v) \/ WorkerFault(v))
  PROVE  ChargedUntilSettled'
  <1> USE BaseAssumption, BrokerAssumption, AdminAssumption, WorkerAssumption,
          MoneyAssumption, CostFits
      DEF LInv, TypeOK, Txs, Requests, RequestStates, WorkerStates,
          InTransaction, ChargedUntilSettled, RowsAreKept, AtWork, Held,
          WorkerAction, dbVars, tableVars, dispatcherVars, workerVars,
          NoFault, Fault
  <1>1. CASE \E m \in Messages : Receive(v, m)
    BY <1>1 DEF Receive, Deliver, Step
  <1>2. CASE FindNothing(v)
    BY <1>2 DEF FindNothing, Step
  <1>3. CASE FindRow(v)
    BY <1>3 DEF FindRow, Step
  <1>4. CASE InsertRow(v)
    BY <1>4 DEF InsertRow, Step
  <1>5. CASE InsertConflict(v)
    BY <1>5, RejectCopies DEF InsertConflict
  <1>6. CASE CheckDeadline(v)
    BY <1>6 DEF CheckDeadline, Step
  <1>7. CASE SendReturns(v)
    BY <1>7 DEF SendReturns, Step
  <1>8. CASE LockRefund(v)
    BY <1>8 DEF LockRefund, LockWallet, Step
  <1>9. CASE WriteRefund(v)
    BY <1>9 DEF WriteRefund, Add, Fits, WriteBalance, Step
  <1>10. CASE RefundOverflows(v)
    BY <1>10, RejectCopies DEF RefundOverflows
  <1>11. CASE CommitDelivery(v)
    <2>1. \A u \in Workers : FreeOrSame(u, v)
      BY <1>11, FreeOne DEF CommitDelivery
    <2>2. \A m \in Messages :
            /\ ready[m] \in Nat /\ ready'[m] \in Nat /\ ready'[m] >= ready[m]
            /\ outbox[m] = "none" => ready'[m] = ready[m]
            /\ Exhausted(m) => Exhausted(m)'
      BY <1>11 DEF CommitDelivery, CommitRows
    <2>3. /\ UNCHANGED <<outbox, debits, toPublish, toConfirm>>
          /\ \A m \in Messages :
              /\ pc'[m] = pc[m]
              /\ m # wmsg[v] => status'[m] = status[m]
          /\ status'[wmsg[v]] \in Terminal
          /\ pc[v] # "idle"
      BY <1>11 DEF CommitDelivery, CommitRows, SetStatus, Free, Step
    <2>4. \A m \in Messages : Held(m) => Held(m)' \/ m = wmsg[v]
      BY <2>1 DEF FreeOrSame
    <2>5. \A u \in Workers : pc'[u] # "idle" => pc[u] # "idle" /\ wmsg'[u] = wmsg[u]
      BY <2>1 DEF FreeOrSame
    <2>6. \A u \in Workers : pc'[u] = "idle" => linked'[u]
      BY <2>1 DEF FreeOrSame
    <2>7. ChargedUntilSettled
      OBVIOUS
    <2> HIDE BaseAssumption, BrokerAssumption, AdminAssumption, WorkerAssumption,
             MoneyAssumption, CostFits
        DEF LInv, TypeOK, WorkerAction, dbVars, tableVars, dispatcherVars,
            workerVars, Held, Exhausted, NoFault, Fault, RowsAreKept, AtWork,
            Txs, Requests, RequestStates, WorkerStates, InTransaction
    <2> QED
      <3>1. ASSUME NEW m \in Messages
            PROVE  /\ debits'[m] = IF outbox'[m] = "none" THEN 0 ELSE 1
                   /\ pc'[m] \in {"new"} \cup InTransaction => outbox'[m] = "none"
        BY <2>3, <2>7
      <3>2. ASSUME NEW m \in Messages, outbox'[m] = "none"
            PROVE  /\ status'[m] = "none" /\ ready'[m] = 0
                   /\ m \notin toPublish' /\ m \notin toConfirm'
                   /\ \A u \in Workers : pc'[u] # "idle" => wmsg'[u] # m
        <4>1. /\ status[m] = "none" /\ ready[m] = 0 /\ m \notin toPublish /\ m \notin toConfirm
              /\ \A u \in Workers : pc[u] # "idle" => wmsg[u] # m
          BY <2>3, <2>7, <3>2
        <4>2. m # wmsg[v]
          BY <2>3, <4>1
        <4> QED
          BY <2>2, <2>3, <2>5, <3>2, <4>1, <4>2
      <3>3. ASSUME NEW m \in Messages, m \in toConfirm' \/ outbox'[m] = "published"
            PROVE  ready'[m] > 0 \/ Held(m)' \/ status'[m] \in Terminal \/ Exhausted(m)'
        BY <2>2, <2>3, <2>4, <2>7, <3>3
      <3> QED
        BY <2>6, <3>1, <3>2, <3>3
  <1>12. CASE CommitDeliveryLost(v)
    <2>1. \A u \in Workers : FreeOrSame(u, v)
      BY <1>12, FreeOne DEF CommitDeliveryLost
    <2>2. \A m \in Messages :
            /\ ready[m] \in Nat /\ ready'[m] \in Nat /\ ready'[m] >= ready[m]
            /\ outbox[m] = "none" => ready'[m] = ready[m]
            /\ Exhausted(m) => Exhausted(m)'
      BY <1>12 DEF CommitDeliveryLost, CommitRows, Requeue
    <2>3. /\ UNCHANGED <<outbox, debits, toPublish, toConfirm>>
          /\ \A m \in Messages :
              /\ pc'[m] = pc[m]
              /\ m # wmsg[v] => status'[m] = status[m]
          /\ status'[wmsg[v]] \in Terminal
          /\ pc[v] # "idle"
      BY <1>12 DEF CommitDeliveryLost, CommitRows, SetStatus, Free, Step
    <2>4. \A m \in Messages : Held(m) => Held(m)' \/ m = wmsg[v]
      BY <2>1 DEF FreeOrSame
    <2>5. \A u \in Workers : pc'[u] # "idle" => pc[u] # "idle" /\ wmsg'[u] = wmsg[u]
      BY <2>1 DEF FreeOrSame
    <2>6. \A u \in Workers : pc'[u] = "idle" => linked'[u]
      BY <2>1 DEF FreeOrSame
    <2>7. ChargedUntilSettled
      OBVIOUS
    <2> HIDE BaseAssumption, BrokerAssumption, AdminAssumption, WorkerAssumption,
             MoneyAssumption, CostFits
        DEF LInv, TypeOK, WorkerAction, dbVars, tableVars, dispatcherVars,
            workerVars, Held, Exhausted, NoFault, Fault, RowsAreKept, AtWork,
            Txs, Requests, RequestStates, WorkerStates, InTransaction
    <2> QED
      <3>1. ASSUME NEW m \in Messages
            PROVE  /\ debits'[m] = IF outbox'[m] = "none" THEN 0 ELSE 1
                   /\ pc'[m] \in {"new"} \cup InTransaction => outbox'[m] = "none"
        BY <2>3, <2>7
      <3>2. ASSUME NEW m \in Messages, outbox'[m] = "none"
            PROVE  /\ status'[m] = "none" /\ ready'[m] = 0
                   /\ m \notin toPublish' /\ m \notin toConfirm'
                   /\ \A u \in Workers : pc'[u] # "idle" => wmsg'[u] # m
        <4>1. /\ status[m] = "none" /\ ready[m] = 0 /\ m \notin toPublish /\ m \notin toConfirm
              /\ \A u \in Workers : pc[u] # "idle" => wmsg[u] # m
          BY <2>3, <2>7, <3>2
        <4>2. m # wmsg[v]
          BY <2>3, <4>1
        <4> QED
          BY <2>2, <2>3, <2>5, <3>2, <4>1, <4>2
      <3>3. ASSUME NEW m \in Messages, m \in toConfirm' \/ outbox'[m] = "published"
            PROVE  ready'[m] > 0 \/ Held(m)' \/ status'[m] \in Terminal \/ Exhausted(m)'
        BY <2>2, <2>3, <2>4, <2>7, <3>3
      <3> QED
        BY <2>6, <3>1, <3>2, <3>3
  <1>13. CASE StatementErrs(v)
    <2>1. faultsLeft' \in Nat
      BY <1>13 DEF StatementErrs
    <2> HIDE DEF LInv, WorkerAction
    <2> QED
      BY <1>13, <2>1, RejectCopies DEF StatementErrs, WorkerAction
  <1>15. CASE WorkerDies(v)
    <2>1. faultsLeft' \in Nat
      BY <1>15 DEF WorkerDies
    <2> HIDE DEF LInv, WorkerAction
    <2> QED
      BY <1>15, <2>1, RejectCopies DEF WorkerDies, WorkerAction
  <1>16. CASE SendWasted(v)
    <2>1. faultsLeft' \in Nat
      BY <1>16 DEF SendWasted
    <2> HIDE DEF LInv, WorkerAction
    <2> QED
      BY <1>16, <2>1, RejectCopies DEF SendWasted, WorkerAction
  <1>17. CASE SessionLost(v)
    BY <1>17 DEF SessionLost
  <1>14. CASE ConnectionLost(v)
    BY <1>14 DEF ConnectionLost, Requeue
  <1> HIDE DEF LInv, TypeOK, Txs, Requests, RequestStates, WorkerStates,
               InTransaction, ChargedUntilSettled, RowsAreKept, AtWork, Held,
               WorkerAction, dbVars, tableVars, dispatcherVars, workerVars,
               NoFault, Fault
  <1> QED
    BY <1>1, <1>2, <1>3, <1>4, <1>5, <1>6, <1>7, <1>8, <1>9, <1>10, <1>11,
       <1>12, <1>13, <1>14, <1>15, <1>16, <1>17
    DEF WorkerStep, SendAnswered, WorkerFault, WorkerAction

-----------------------------------------------------------------------------
(* Answers.                                                                *)

\* A step of a request to send keeps AnswersInv.
LEMMA ChargeAnswers ==
  ASSUME LInv,
         NEW m \in Messages,
         ApiAction(ChargeStep(m))
  PROVE  AnswersInv'
  <1> USE BaseAssumption, BrokerAssumption, AdminAssumption, WorkerAssumption,
          MoneyAssumption, CostFits
      DEF LInv, TypeOK, Txs, Requests, RequestStates, WorkerStates,
          InTransaction, AnswersInv, AnswersAreTrue, ChargedUntilSettled,
          ApiAction, dbVars, tableVars, dispatcherVars, workerVars, NoFault,
          Fault
  <1>1. CASE RefuseRequest(m)
    BY <1>1 DEF RefuseRequest, Step
  <1>2. CASE BeginCharge(m)
    BY <1>2 DEF BeginCharge, Step
  <1>3. CASE LockCharge(m)
    BY <1>3 DEF LockCharge, LockWallet, Step
  <1>4. CASE WriteCharge(m)
    BY <1>4 DEF WriteCharge, Subtract, Fits, WriteBalance, Step
  <1>5. CASE ChargeInsufficient(m)
    BY <1>5 DEF ChargeInsufficient, Release, Step
  <1>6. CASE CommitCharge(m, "202") /\ NoFault
    BY <1>6 DEF CommitCharge, InsertOutbox, CommitBalance, Step
  <1> HIDE DEF LInv, TypeOK, Txs, Requests, RequestStates, WorkerStates,
               InTransaction, AnswersInv, AnswersAreTrue, ChargedUntilSettled,
               ApiAction, dbVars, tableVars, dispatcherVars, workerVars,
               NoFault, Fault
  <1> QED
    BY <1>1, <1>2, <1>3, <1>4, <1>5, <1>6
    DEF ChargeStep, ApiAction

\* A step of an admin request keeps AnswersInv.
LEMMA AdminAnswers ==
  ASSUME LInv,
         NEW a \in Admins,
         ApiAction(AdminStep(a))
  PROVE  AnswersInv'
  <1> USE BaseAssumption, BrokerAssumption, AdminAssumption, WorkerAssumption,
          MoneyAssumption, CostFits
      DEF LInv, TypeOK, Txs, Requests, RequestStates, WorkerStates,
          InTransaction, AnswersInv, AnswersAreTrue, ChargedUntilSettled,
          ApiAction, dbVars, tableVars, dispatcherVars, workerVars, NoFault,
          Fault
  <1>1. CASE RefuseAdmin(a)
    BY <1>1 DEF RefuseAdmin, Step
  <1>2. CASE CreateWalletOverflows(a)
    BY <1>2 DEF CreateWalletOverflows, Asks, Step
  <1>3. CASE ChannelConflict(a)
    BY <1>3 DEF ChannelConflict, Asks, Step
  <1>4. CASE BeginTopUp(a)
    BY <1>4 DEF BeginTopUp, Asks, NewMoney, IsPositive, Step
  <1>5. CASE LockTopUp(a)
    BY <1>5 DEF LockTopUp, LockWallet, Step
  <1>6. CASE TopUpUnknownWallet(a)
    BY <1>6 DEF TopUpUnknownWallet, Step
  <1>7. CASE WriteTopUp(a)
    BY <1>7 DEF WriteTopUp, Add, Fits, WriteBalance, Step
  <1>8. CASE TopUpOverflows(a)
    BY <1>8 DEF TopUpOverflows, Release, Step
  <1>9. CASE Created(a, "201") /\ NoFault
    BY <1>9 DEF Created, Asks, NewMoney, Fits, Step
  <1>10. CASE AddChannel(a, "201") /\ NoFault
    BY <1>10 DEF AddChannel, Asks, Step
  <1>11. CASE CommitTopUp(a, "200") /\ NoFault
    BY <1>11 DEF CommitTopUp, CommitBalance, Step
  <1> HIDE DEF LInv, TypeOK, Txs, Requests, RequestStates, WorkerStates,
               InTransaction, AnswersInv, AnswersAreTrue, ChargedUntilSettled,
               ApiAction, dbVars, tableVars, dispatcherVars, workerVars,
               NoFault, Fault
  <1> QED
    BY <1>1, <1>2, <1>3, <1>4, <1>5, <1>6, <1>7, <1>8, <1>9, <1>10, <1>11
    DEF AdminStep, ApiAction

\* A failed or lost commit of the API keeps AnswersInv.
LEMMA LostAnswers ==
  ASSUME LInv,
         NEW x \in Requests,
         ApiAction(StatementFails(x) \/ CommitReplyLost(x))
  PROVE  AnswersInv'
  <1> USE BaseAssumption, BrokerAssumption, AdminAssumption, WorkerAssumption,
          MoneyAssumption, CostFits
      DEF LInv, TypeOK, Txs, Requests, RequestStates, WorkerStates,
          InTransaction, AnswersInv, AnswersAreTrue, ChargedUntilSettled,
          ApiAction, dbVars, tableVars, dispatcherVars, workerVars, NoFault,
          Fault
  <1>1. CASE StatementFails(x)
    BY <1>1 DEF StatementFails, Release, Step
  <1>2. CASE x \in Messages /\ CommitCharge(x, "500") /\ Fault("dbLost")
    BY <1>2 DEF CommitCharge, InsertOutbox, CommitBalance, Step
  <1>3. CASE x \in Admins /\ Created(x, "500") /\ Fault("dbLost")
    BY <1>3 DEF Created, Asks, NewMoney, Fits, Step
  <1>4. CASE x \in Admins /\ AddChannel(x, "500") /\ Fault("dbLost")
    BY <1>4 DEF AddChannel, Asks, Step
  <1>5. CASE x \in Admins /\ CommitTopUp(x, "500") /\ Fault("dbLost")
    BY <1>5 DEF CommitTopUp, CommitBalance, Step
  <1> HIDE DEF LInv, TypeOK, Txs, Requests, RequestStates, WorkerStates,
               InTransaction, AnswersInv, AnswersAreTrue, ChargedUntilSettled,
               ApiAction, dbVars, tableVars, dispatcherVars, workerVars,
               NoFault, Fault
  <1> QED
    BY <1>1, <1>2, <1>3, <1>4, <1>5
    DEF CommitReplyLost, ApiAction

\* A crash of the API keeps AnswersInv.
LEMMA CrashAnswers ==
  ASSUME LInv,
         ApiAction(ApiCrash)
  PROVE  AnswersInv'
  BY BaseAssumption, BrokerAssumption, AdminAssumption, WorkerAssumption,
     MoneyAssumption, CostFits
  DEF LInv, TypeOK, Txs, Requests, RequestStates, WorkerStates, InTransaction,
      AnswersInv, AnswersAreTrue, ChargedUntilSettled, ApiAction, dbVars,
      tableVars, dispatcherVars, workerVars, NoFault, Fault, ApiCrash, Release

\* A step of the dispatcher keeps AnswersInv.
LEMMA DispatcherAnswers ==
  ASSUME LInv,
         DispatcherAction(DispatcherStep \/ DispatcherFault)
  PROVE  AnswersInv'
  <1> USE BaseAssumption, BrokerAssumption, AdminAssumption, WorkerAssumption,
          MoneyAssumption, CostFits
      DEF LInv, TypeOK, Txs, Requests, RequestStates, WorkerStates,
          InTransaction, AnswersInv, AnswersAreTrue, ChargedUntilSettled,
          DispatcherAction, dbVars, tableVars, dispatcherVars, workerVars,
          NoFault, Fault
  <1>1. CASE \E l \in Lines : SelectBatch(l)
    BY <1>1 DEF SelectBatch, Pending
  <1>2. CASE \E m \in Messages : PublishRow(m)
    BY <1>2 DEF PublishRow, Publish
  <1>3. CASE \E m \in Messages : ConfirmRow(m)
    BY <1>3 DEF ConfirmRow
  <1>4. CASE DispatcherStop
    BY <1>4 DEF DispatcherStop
  <1>5. CASE ConfirmRefused
    BY <1>5 DEF ConfirmRefused
  <1>6. CASE \E m \in Messages : PublishRefused(m)
    BY <1>6 DEF PublishRefused
  <1> HIDE DEF LInv, TypeOK, Txs, Requests, RequestStates, WorkerStates,
               InTransaction, AnswersInv, AnswersAreTrue, ChargedUntilSettled,
               DispatcherAction, dbVars, tableVars, dispatcherVars,
               workerVars, NoFault, Fault
  <1> QED
    BY <1>1, <1>2, <1>3, <1>4, <1>5, <1>6
    DEF DispatcherStep, DispatcherFault, DispatcherAction

\* A step of a worker keeps AnswersInv.
LEMMA WorkerAnswers ==
  ASSUME LInv,
         NEW v \in Workers,
         WorkerAction(WorkerStep(v) \/ SendAnswered(v) \/ WorkerFault(v))
  PROVE  AnswersInv'
  <1> USE BaseAssumption, BrokerAssumption, AdminAssumption, WorkerAssumption,
          MoneyAssumption, CostFits
      DEF LInv, TypeOK, Txs, Requests, RequestStates, WorkerStates,
          InTransaction, AnswersInv, AnswersAreTrue, ChargedUntilSettled,
          WorkerAction, dbVars, tableVars, dispatcherVars, workerVars,
          NoFault, Fault
  <1>1. CASE \E m \in Messages : Receive(v, m)
    BY <1>1 DEF Receive, Deliver, Step
  <1>2. CASE FindNothing(v)
    BY <1>2 DEF FindNothing, Step
  <1>3. CASE FindRow(v)
    BY <1>3 DEF FindRow, Step
  <1>4. CASE InsertRow(v)
    BY <1>4 DEF InsertRow, Step
  <1>5. CASE InsertConflict(v)
    BY <1>5 DEF InsertConflict, Reject, Rollback, Release, Requeue, Free, Step
  <1>6. CASE CheckDeadline(v)
    BY <1>6 DEF CheckDeadline, Step
  <1>7. CASE SendReturns(v)
    BY <1>7 DEF SendReturns, Step
  <1>8. CASE LockRefund(v)
    BY <1>8 DEF LockRefund, LockWallet, Step
  <1>9. CASE WriteRefund(v)
    BY <1>9 DEF WriteRefund, Add, Fits, WriteBalance, Step
  <1>10. CASE RefundOverflows(v)
    BY <1>10 DEF RefundOverflows, Reject, Rollback, Release, Requeue, Free,
                 Step
  <1>11. CASE CommitDelivery(v)
    BY <1>11 DEF CommitDelivery, CommitRows, SetStatus, CommitBalance, Free,
                 Step
  <1>12. CASE CommitDeliveryLost(v)
    BY <1>12 DEF CommitDeliveryLost, CommitRows, SetStatus, CommitBalance,
                 Requeue, Free, Step
  <1>13. CASE StatementErrs(v)
    BY <1>13 DEF StatementErrs, Reject, Rollback, Release, Requeue, Free, Step
  <1>15. CASE WorkerDies(v)
    BY <1>15 DEF WorkerDies, Reject, Rollback, Release, Requeue, Free, Step
  <1>16. CASE SendWasted(v)
    BY <1>16 DEF SendWasted, Reject, Rollback, Release, Requeue, Free, Step
  <1>17. CASE SessionLost(v)
    BY <1>17 DEF SessionLost, Rollback, Release
  <1>14. CASE ConnectionLost(v)
    BY <1>14 DEF ConnectionLost, Requeue
  <1> HIDE DEF LInv, TypeOK, Txs, Requests, RequestStates, WorkerStates,
               InTransaction, AnswersInv, AnswersAreTrue, ChargedUntilSettled,
               WorkerAction, dbVars, tableVars, dispatcherVars, workerVars,
               NoFault, Fault
  <1> QED
    BY <1>1, <1>2, <1>3, <1>4, <1>5, <1>6, <1>7, <1>8, <1>9, <1>10, <1>11,
       <1>12, <1>13, <1>14, <1>15, <1>16, <1>17
    DEF WorkerStep, SendAnswered, WorkerFault, WorkerAction

-----------------------------------------------------------------------------
(* Steps of AtomicLedger.                                                  *)

\* A step that leaves the tables of AtomicLedger alone is none of its steps.
LEMMA Stutters ==
  ASSUME UNCHANGED <<wallets, balance, debits, status>>
  PROVE  UNCHANGED Ledger!vars
  BY DEF Ledger!vars, Charged

\* The commit of a charge is the step Charge.
LEMMA ChargeIsAtomic ==
  ASSUME LInv, NEW m \in Messages, NEW code, CommitCharge(m, code)
  PROVE  Ledger!Next
  <1> USE BaseAssumption, AdminAssumption, WorkerAssumption, CostFits
      DEF LInv, TypeOK, Txs, Requests
  <1>1. WalletOf[m] \in Wallets /\ CostOf(m) \in 1..ColumnMax
    OBVIOUS
  <1>2. /\ WalletOf[m] \in wallets
        /\ work[m] = balance[WalletOf[m]] - CostOf(m)
        /\ balance[WalletOf[m]] >= CostOf(m)
    BY <1>1 DEF CommitCharge, LocksCover, WorkIsCurrent, RowOf
  <1>3. debits[m] = 0
    BY DEF CommitCharge, ChargedUntilSettled, InTransaction
  <1>4. m \notin Charged /\ Charged' = Charged \cup {m}
    BY <1>3 DEF CommitCharge, Charged
  <1>5. /\ balance' = [balance EXCEPT ![WalletOf[m]] = @ - CostOf(m)]
        /\ UNCHANGED <<wallets, status>>
    BY <1>1, <1>2 DEF CommitCharge, CommitBalance
  <1>6. Ledger!Charge(m)
    BY <1>1, <1>2, <1>4, <1>5 DEF Ledger!Charge
  <1> QED
    BY <1>6 DEF Ledger!Next

\* The commit of a new wallet is the step Open.
LEMMA CreateIsAtomic ==
  ASSUME LInv, NEW a \in Admins, NEW code, Created(a, code)
  PROVE  Ledger!Next
  <1> DEFINE w == AdminWallet[a]
  <1>1. w \in Wallets
    BY AdminAssumption
  <1>2. /\ w \notin wallets /\ wallets' = wallets \cup {w}
        /\ UNCHANGED <<Charged, status>>
    BY DEF Created, Charged
  <1>3. PICK amount \in Amounts : \E u \in NewMoney(amount) :
          Fits(u) /\ balance' = [balance EXCEPT ![w] = u]
    BY DEF Created
  <1>4. \E u \in 0..ColumnMax : balance' = [balance EXCEPT ![w] = u]
    <2>1. PICK u \in NewMoney(amount) :
            Fits(u) /\ balance' = [balance EXCEPT ![w] = u]
      BY <1>3
    <2>2. amount \in Int
      BY <1>3, AdminAssumption
    <2>3. u \in 0..ColumnMax
      BY <2>1, <2>2, MoneyAssumption DEF NewMoney, Fits
    <2> QED
      BY <2>1, <2>3
  <1>5. Ledger!Open(w)
    BY <1>2, <1>4 DEF Ledger!Open
  <1> QED
    BY <1>1, <1>5 DEF Ledger!Next

\* The commit of a top-up is the step TopUp.
LEMMA TopUpIsAtomic ==
  ASSUME LInv, NEW a \in Admins, NEW code, CommitTopUp(a, code)
  PROVE  Ledger!Next
  <1> DEFINE w == AdminWallet[a]
  <1> USE AdminAssumption, WorkerAssumption, MoneyAssumption
      DEF LInv, TypeOK, Txs, Requests
  <1>1. w \in Wallets
    OBVIOUS
  <1>2. /\ w \in wallets
        /\ work[a] = balance[w] + units[a]
        /\ units[a] > 0 /\ work[a] <= ColumnMax
    BY <1>1 DEF CommitTopUp, LocksCover, WorkIsCurrent, RowOf, InTransaction
  <1>3. units[a] \in 1..(ColumnMax - balance[w])
    BY <1>1, <1>2
  <1>4. /\ balance' = [balance EXCEPT ![w] = @ + units[a]]
        /\ UNCHANGED <<wallets, Charged, status>>
    BY <1>1, <1>2 DEF CommitTopUp, CommitBalance, Charged
  <1>5. Ledger!TopUp(w)
    BY <1>2, <1>3, <1>4 DEF Ledger!TopUp
  <1> QED
    BY <1>1, <1>5 DEF Ledger!Next

\* The commit of a delivery is the step Refund, Deliver, or none for a message
\* that was terminal before.
LEMMA DeliveryIsAtomic ==
  ASSUME LInv, NEW v \in Workers, CommitRows(v)
  PROVE  Ledger!Next \/ UNCHANGED Ledger!vars
  <1> DEFINE m == wmsg[v]
  <1> USE BaseAssumption, WorkerAssumption, AdminAssumption, CostFits
      DEF LInv, TypeOK, Txs, Requests, CommitRows
  <1>1. /\ m \in Messages /\ CostOf(m) \in 1..ColumnMax /\ PayerOf(v) = WalletOf[m]
        /\ RowOf(v) = WalletOf[m] /\ WalletOf[m] \in Wallets
    BY DEF PayerOf, RowOf
  <1>2. m \in Charged
    BY <1>1 DEF Charged, ChargedUntilSettled
  <1>3. UNCHANGED <<wallets, Charged>>
    BY DEF Charged
  <1>a. /\ status' = [status EXCEPT ![m] = outcome[v]]
        /\ IF holder[WalletOf[m]] = v
           THEN status[m] = "none" /\ outcome[v] = "refunded"
           ELSE \/ status[m] = "none" /\ outcome[v] = "delivered"
                \/ status[m] \in Terminal /\ outcome[v] = status[m]
    BY <1>1 DEF RowsAreKept, SetStatus
  <1>4. CASE holder[WalletOf[m]] = v
    <2>1. status[m] = "none" /\ status' = [status EXCEPT ![m] = "refunded"]
      <3> HIDE BaseAssumption, WorkerAssumption, AdminAssumption, CostFits
          DEF LInv, TypeOK, Txs, Requests, CommitRows
      <3> QED
        BY <1>a, <1>4
    <2>2. /\ work[v] = balance[WalletOf[m]] + CostOf(m)
          /\ balance[WalletOf[m]] + CostOf(m) <= ColumnMax
      BY <1>1, <1>4 DEF WorkIsCurrent
    <2>3. balance' = [balance EXCEPT ![WalletOf[m]] = @ + CostOf(m)]
      BY <1>1, <1>4, <2>2 DEF CommitBalance
    <2>4. Ledger!Refund(m)
      BY <1>1, <1>2, <1>3, <2>1, <2>2, <2>3 DEF Ledger!Refund, Ledger!Pending
    <2> QED
      BY <1>1, <2>4 DEF Ledger!Next
  <1>5. CASE holder[WalletOf[m]] # v /\ status[m] = "none"
    <2>1. status' = [status EXCEPT ![m] = "delivered"]
      <3> HIDE BaseAssumption, WorkerAssumption, AdminAssumption, CostFits
          DEF LInv, TypeOK, Txs, Requests, CommitRows
      <3> QED
        BY <1>a, <1>5 DEF Terminal
    <2>3. UNCHANGED balance
      BY <1>1, <1>5
    <2>2. Ledger!Deliver(m)
      BY <1>2, <1>3, <1>5, <2>1, <2>3 DEF Ledger!Deliver, Ledger!Pending
    <2> QED
      BY <1>1, <2>2 DEF Ledger!Next
  <1>6. CASE holder[WalletOf[m]] # v /\ status[m] # "none"
    <2>1. UNCHANGED <<balance, status>>
      BY <1>1, <1>6 DEF RowsAreKept, SetStatus
    <2> QED
      BY <1>3, <2>1 DEF Ledger!vars
  <1> QED
    BY <1>4, <1>5, <1>6

\* A step of a request to send is a step of AtomicLedger, or none.
LEMMA ChargeRefines ==
  ASSUME LInv,
         NEW m \in Messages,
         ApiAction(ChargeStep(m))
  PROVE  Ledger!Next \/ UNCHANGED Ledger!vars
  <1>1. CASE RefuseRequest(m)
    BY <1>1, Stutters DEF RefuseRequest, dbVars, tableVars, ApiAction
  <1>2. CASE BeginCharge(m)
    BY <1>2, Stutters DEF BeginCharge, dbVars, tableVars, ApiAction
  <1>3. CASE LockCharge(m)
    BY <1>3, Stutters DEF LockCharge, dbVars, tableVars, ApiAction
  <1>4. CASE WriteCharge(m)
    BY <1>4, Stutters DEF WriteCharge, dbVars, tableVars, ApiAction
  <1>5. CASE ChargeInsufficient(m)
    BY <1>5, Stutters DEF ChargeInsufficient, dbVars, tableVars, ApiAction
  <1>6. CASE CommitCharge(m, "202") /\ NoFault
    BY <1>6, ChargeIsAtomic
  <1> QED
    BY <1>1, <1>2, <1>3, <1>4, <1>5, <1>6
    DEF ChargeStep, ApiAction

\* A step of an admin request is a step of AtomicLedger, or none.
LEMMA AdminRefines ==
  ASSUME LInv,
         NEW a \in Admins,
         ApiAction(AdminStep(a))
  PROVE  Ledger!Next \/ UNCHANGED Ledger!vars
  <1>1. CASE RefuseAdmin(a)
    BY <1>1, Stutters DEF RefuseAdmin, dbVars, tableVars, ApiAction
  <1>2. CASE CreateWalletOverflows(a)
    BY <1>2, Stutters DEF CreateWalletOverflows, dbVars, tableVars, ApiAction
  <1>3. CASE ChannelConflict(a)
    BY <1>3, Stutters DEF ChannelConflict, dbVars, tableVars, ApiAction
  <1>4. CASE BeginTopUp(a)
    BY <1>4, Stutters DEF BeginTopUp, dbVars, tableVars, ApiAction
  <1>5. CASE LockTopUp(a)
    BY <1>5, Stutters DEF LockTopUp, dbVars, tableVars, ApiAction
  <1>6. CASE TopUpUnknownWallet(a)
    BY <1>6, Stutters DEF TopUpUnknownWallet, dbVars, tableVars, ApiAction
  <1>7. CASE WriteTopUp(a)
    BY <1>7, Stutters DEF WriteTopUp, dbVars, tableVars, ApiAction
  <1>8. CASE TopUpOverflows(a)
    BY <1>8, Stutters DEF TopUpOverflows, dbVars, tableVars, ApiAction
  <1>9. CASE Created(a, "201") /\ NoFault
    BY <1>9, CreateIsAtomic
  <1>10. CASE AddChannel(a, "201") /\ NoFault
    BY <1>10, Stutters DEF AddChannel, dbVars, tableVars, ApiAction
  <1>11. CASE CommitTopUp(a, "200") /\ NoFault
    BY <1>11, TopUpIsAtomic
  <1> QED
    BY <1>1, <1>2, <1>3, <1>4, <1>5, <1>6, <1>7, <1>8, <1>9, <1>10, <1>11
    DEF AdminStep, ApiAction

\* A failed or lost commit of the API is a step of AtomicLedger, or none.
LEMMA LostRefines ==
  ASSUME LInv,
         NEW x \in Requests,
         ApiAction(StatementFails(x) \/ CommitReplyLost(x))
  PROVE  Ledger!Next \/ UNCHANGED Ledger!vars
  <1>1. CASE StatementFails(x)
    BY <1>1, Stutters DEF StatementFails, dbVars, tableVars, ApiAction
  <1>2. CASE x \in Messages /\ CommitCharge(x, "500") /\ Fault("dbLost")
    BY <1>2, ChargeIsAtomic
  <1>3. CASE x \in Admins /\ Created(x, "500") /\ Fault("dbLost")
    BY <1>3, CreateIsAtomic
  <1>4. CASE x \in Admins /\ AddChannel(x, "500") /\ Fault("dbLost")
    BY <1>4, Stutters DEF AddChannel, dbVars, tableVars, ApiAction
  <1>5. CASE x \in Admins /\ CommitTopUp(x, "500") /\ Fault("dbLost")
    BY <1>5, TopUpIsAtomic
  <1> QED
    BY <1>1, <1>2, <1>3, <1>4, <1>5
    DEF CommitReplyLost, ApiAction

\* A crash of the API is a step of AtomicLedger, or none.
LEMMA CrashRefines ==
  ASSUME LInv,
         ApiAction(ApiCrash)
  PROVE  Ledger!Next \/ UNCHANGED Ledger!vars
  BY Stutters DEF ApiAction, ApiCrash, dbVars, tableVars

\* A step of the dispatcher is a step of AtomicLedger, or none.
LEMMA DispatcherRefines ==
  ASSUME LInv,
         DispatcherAction(DispatcherStep \/ DispatcherFault)
  PROVE  Ledger!Next \/ UNCHANGED Ledger!vars
  <1>1. CASE \E l \in Lines : SelectBatch(l)
    BY <1>1, Stutters DEF SelectBatch, dbVars, tableVars, DispatcherAction
  <1>2. CASE \E m \in Messages : PublishRow(m)
    BY <1>2, Stutters DEF PublishRow, dbVars, tableVars, DispatcherAction
  <1>3. CASE \E m \in Messages : ConfirmRow(m)
    BY <1>3, Stutters DEF ConfirmRow, dbVars, tableVars, DispatcherAction
  <1>4. CASE DispatcherStop
    BY <1>4, Stutters DEF DispatcherStop, dbVars, tableVars, DispatcherAction
  <1>5. CASE ConfirmRefused
    BY <1>5, Stutters DEF ConfirmRefused, dbVars, tableVars, DispatcherAction
  <1>6. CASE \E m \in Messages : PublishRefused(m)
    BY <1>6, Stutters DEF PublishRefused, dbVars, tableVars, DispatcherAction
  <1> QED
    BY <1>1, <1>2, <1>3, <1>4, <1>5, <1>6
    DEF DispatcherStep, DispatcherFault, DispatcherAction

\* A step of a worker is a step of AtomicLedger, or none.
LEMMA WorkerRefines ==
  ASSUME LInv,
         NEW v \in Workers,
         WorkerAction(WorkerStep(v) \/ SendAnswered(v) \/ WorkerFault(v))
  PROVE  Ledger!Next \/ UNCHANGED Ledger!vars
  <1>1. CASE \E m \in Messages : Receive(v, m)
    BY <1>1, Stutters DEF Receive, dbVars, tableVars, WorkerAction
  <1>2. CASE FindNothing(v)
    BY <1>2, Stutters DEF FindNothing, dbVars, tableVars, WorkerAction
  <1>3. CASE FindRow(v)
    BY <1>3, Stutters DEF FindRow, dbVars, tableVars, WorkerAction
  <1>4. CASE InsertRow(v)
    BY <1>4, Stutters DEF InsertRow, dbVars, tableVars, WorkerAction
  <1>5. CASE InsertConflict(v)
    BY <1>5, Stutters DEF InsertConflict, dbVars, tableVars, WorkerAction
  <1>6. CASE CheckDeadline(v)
    BY <1>6, Stutters DEF CheckDeadline, dbVars, tableVars, WorkerAction
  <1>7. CASE SendReturns(v)
    BY <1>7, Stutters DEF SendReturns, dbVars, tableVars, WorkerAction
  <1>8. CASE LockRefund(v)
    BY <1>8, Stutters DEF LockRefund, dbVars, tableVars, WorkerAction
  <1>9. CASE WriteRefund(v)
    BY <1>9, Stutters DEF WriteRefund, dbVars, tableVars, WorkerAction
  <1>10. CASE RefundOverflows(v)
    BY <1>10, Stutters DEF RefundOverflows, dbVars, tableVars, WorkerAction
  <1>11. CASE CommitDelivery(v)
    BY <1>11, DeliveryIsAtomic DEF CommitDelivery
  <1>12. CASE CommitDeliveryLost(v)
    BY <1>12, DeliveryIsAtomic DEF CommitDeliveryLost
  <1>13. CASE StatementErrs(v)
    BY <1>13, Stutters DEF StatementErrs, dbVars, tableVars, WorkerAction
  <1>15. CASE WorkerDies(v)
    BY <1>15, Stutters DEF WorkerDies, dbVars, tableVars, WorkerAction
  <1>16. CASE SendWasted(v)
    BY <1>16, Stutters DEF SendWasted, dbVars, tableVars, WorkerAction
  <1>17. CASE SessionLost(v)
    BY <1>17, Stutters DEF SessionLost, dbVars, tableVars, WorkerAction
  <1>14. CASE ConnectionLost(v)
    BY <1>14, Stutters DEF ConnectionLost, dbVars, tableVars, WorkerAction
  <1> QED
    BY <1>1, <1>2, <1>3, <1>4, <1>5, <1>6, <1>7, <1>8, <1>9, <1>10, <1>11,
       <1>12, <1>13, <1>14, <1>15, <1>16, <1>17
    DEF WorkerStep, SendAnswered, WorkerFault, WorkerAction

-----------------------------------------------------------------------------
(* The inductive invariant, and what follows from it.                      *)

\* The initial states.
LEMMA InitLInv == Init => LInv
  <1> SUFFICES ASSUME Init PROVE LInv
    OBVIOUS
  <1> USE BaseAssumption, BrokerAssumption, AdminAssumption, WorkerAssumption,
          MoneyAssumption
      DEF Init, Txs, Requests, RequestStates, WorkerStates, InTransaction, AtWork
  <1>1. TypeOK
    <2>1. /\ pc \in [Txs -> RequestStates \cup WorkerStates]
          /\ \A x \in Requests : pc[x] \in RequestStates
          /\ \A v \in Workers : pc[v] \in WorkerStates
          /\ \A v \in Workers : pc[v] # "idle" => wmsg[v] \in Messages
      OBVIOUS
    <2>2. /\ balance \in [Wallets -> 0..ColumnMax] /\ ledger \in [Wallets -> Int]
          /\ work \in [Txs -> 0..ColumnMax] /\ units \in [Admins -> 0..IntMax]
          /\ debits \in [Messages -> Nat] /\ ready \in [Messages -> Nat]
          /\ returned \in [Messages -> 0..DeliveryLimit + 1]
          /\ faultsLeft \in Nat
      OBVIOUS
    <2>3. /\ wallets \subseteq Wallets /\ channels \subseteq wallets
          /\ applied \subseteq Admins
          /\ toPublish \subseteq Messages /\ toConfirm \subseteq Messages
          /\ refused \subseteq Messages
      OBVIOUS
    <2>4. /\ holder \in [Wallets -> Txs \cup {NoTx}]
          /\ outbox \in [Messages -> OutboxStates]
          /\ status \in [Messages -> {"none"} \cup Terminal]
          /\ wmsg \in [Workers -> Messages \cup {NoMessage}]
          /\ linked \in [Workers -> BOOLEAN]
          /\ keeper \in [Messages -> Workers \cup {NoTx}]
          /\ outcome \in [Workers -> StatusValues]
          /\ severed \subseteq Workers
      OBVIOUS
    <2> QED
      BY <2>1, <2>2, <2>3, <2>4 DEF TypeOK
  <1>2. BooksBalance /\ LocksCover /\ WorkIsCurrent
    BY DEF BooksBalance, LocksCover, WorkIsCurrent
  <1>3. RowsAreKept
    BY DEF RowsAreKept
  <1>4. ChargedUntilSettled
    BY DEF ChargedUntilSettled
  <1>5. AnswersInv
    BY DEF AnswersInv, AnswersAreTrue
  <1> QED
    BY <1>1, <1>2, <1>3, <1>4, <1>5 DEF LInv

\* A step that changes nothing.
LEMMA StutterLInv ==
  ASSUME LInv, UNCHANGED vars
  PROVE  LInv'
  <1> USE DEF vars, dbVars, tableVars, dispatcherVars, workerVars
  <1>1. TypeOK' /\ BooksBalance' /\ AnswersInv'
    BY DEF LInv, TypeOK, BooksBalance, AnswersInv, AnswersAreTrue
  <1>2. LocksCover' /\ WorkIsCurrent' /\ RowsAreKept'
    BY DEF LInv, LocksCover, WorkIsCurrent, RowsAreKept, RowOf, PayerOf
  <1>3. ChargedUntilSettled'
    BY DEF LInv, ChargedUntilSettled, Held
  <1> QED
    BY <1>1, <1>2, <1>3 DEF LInv

\* A fetched copy that comes back.
LEMMA FetchedLInv ==
  ASSUME LInv, NEW m \in Messages, WorkerAction(FetchedReturned(m))
  PROVE  LInv'
  <1> USE BrokerAssumption
      DEF LInv, TypeOK, dbVars, tableVars, dispatcherVars, workerVars, Fault,
          WorkerAction, FetchedReturned, ReturnFetched
  <1>1. TypeOK'
    <2>1. /\ ready' \in [Messages -> Nat]
          /\ returned' \in [Messages -> 0..DeliveryLimit + 1]
      OBVIOUS
    <2>2. faultsLeft' \in Nat
      OBVIOUS
    <2> QED
      BY <2>1, <2>2
  <1>2. BooksBalance' /\ AnswersInv'
    BY DEF BooksBalance, AnswersInv, AnswersAreTrue
  <1>3. LocksCover' /\ WorkIsCurrent' /\ RowsAreKept'
    BY DEF LocksCover, WorkIsCurrent, RowsAreKept, RowOf, PayerOf
  <1>4. ChargedUntilSettled'
    <2>1. \A n \in Messages :
            /\ ready[n] > 0 => ready'[n] > 0 \/ Exhausted(n)'
            /\ ready[n] = 0 => ready'[n] = 0
            /\ Exhausted(n) => Exhausted(n)'
            /\ Held(n)' <=> Held(n)
      BY DEF Held
    <2> QED
      BY <2>1 DEF ChargedUntilSettled
  <1> QED
    BY <1>1, <1>2, <1>3, <1>4

\* Every step keeps the invariant.
LEMMA NextLInv == LInv /\ [Next]_vars => LInv'
  <1> SUFFICES ASSUME LInv, [Next]_vars PROVE LInv'
    OBVIOUS
  <1>1. ASSUME NEW m \in Messages, ApiAction(ChargeStep(m)) PROVE LInv'
    BY <1>1, ChargeType, ChargeLocks, ChargeRows, ChargeCopies, ChargeAnswers DEF LInv
  <1>2. ASSUME NEW a \in Admins, ApiAction(AdminStep(a)) PROVE LInv'
    BY <1>2, AdminType, AdminLocks, AdminRows, AdminCopies, AdminAnswers DEF LInv
  <1>3. ASSUME NEW x \in Requests, ApiAction(StatementFails(x) \/ CommitReplyLost(x))
        PROVE  LInv'
    BY <1>3, LostType, LostLocks, LostRows, LostCopies, LostAnswers DEF LInv
  <1>4. CASE ApiAction(ApiCrash)
    BY <1>4, CrashType, CrashLocks, CrashRows, CrashCopies, CrashAnswers DEF LInv
  <1>5. CASE DispatcherAction(DispatcherStep \/ DispatcherFault)
    BY <1>5, DispatcherType, DispatcherLocks, DispatcherRows, DispatcherCopies,
       DispatcherAnswers
    DEF LInv
  <1>6. ASSUME NEW v \in Workers,
               WorkerAction(WorkerStep(v) \/ SendAnswered(v) \/ WorkerFault(v))
        PROVE  LInv'
    BY <1>6, WorkerType, WorkerLocks, WorkerRows, WorkerCopies, WorkerAnswers DEF LInv
  <1>7. ASSUME NEW m \in Messages, WorkerAction(FetchedReturned(m)) PROVE LInv'
    BY <1>7, FetchedLInv
  <1>8. CASE UNCHANGED vars
    BY <1>8, StutterLInv
  <1> QED
    BY <1>1, <1>2, <1>3, <1>4, <1>5, <1>6, <1>7, <1>8 DEF Next, Quiescent

\* Every step is one of AtomicLedger, or changes nothing there.
LEMMA NextRefines == LInv /\ [Next]_vars => [Ledger!Next]_Ledger!vars
  <1> SUFFICES ASSUME LInv, [Next]_vars PROVE Ledger!Next \/ UNCHANGED Ledger!vars
    OBVIOUS
  <1>1. CASE UNCHANGED vars
    BY <1>1, Stutters DEF vars, dbVars, tableVars
  <1>2. CASE \E m \in Messages : WorkerAction(FetchedReturned(m))
    BY <1>2, Stutters DEF WorkerAction, FetchedReturned, dbVars, tableVars
  <1> QED
    BY <1>1, <1>2, ChargeRefines, AdminRefines, LostRefines, CrashRefines,
       DispatcherRefines, WorkerRefines
    DEF Next, Quiescent

\* LInv holds in every reachable state.
THEOREM LegacyInvariance == Spec => []LInv
  BY InitLInv, NextLInv, PTL DEF Spec

\* Every variable keeps its type; in particular no balance is negative or too
\* large for its column, whatever amounts the admin API is given.
THEOREM LegacyTypeCorrect == Spec => []TypeOK
  <1>1. LInv => TypeOK
    BY DEF LInv
  <1> QED
    BY <1>1, LegacyInvariance, PTL

\* Any number of transactions on a wallet, with any fault, leave its balance
\* equal to its ledger.
THEOREM LegacyBooksBalance == Spec => []BooksBalance
  <1>1. LInv => BooksBalance
    BY DEF LInv
  <1> QED
    BY <1>1, LegacyInvariance, PTL

\* The key of sms_deliveries keeps all but one of the goroutines that hold
\* copies of a message, and their sessions, away from the provider.
THEOREM LegacyOneWorkerPerMessage == Spec => []OneWorkerPerMessage
  <1>1. LInv => OneWorkerPerMessage
    BY DEF LInv, RowsAreKept, OneWorkerPerMessage
  <1> QED
    BY <1>1, LegacyInvariance, PTL

\* A charged message is to be published, queued, held by a connected worker or
\* settled, until its copies have come back more often than the limit of the
\* queues.
THEOREM LegacyChargesAreNotLost == Spec => []NoLostCharge
  <1>1. LInv => NoLostCharge
    <2> SUFFICES ASSUME LInv, NEW m \in Messages
                 PROVE  /\ debits[m] = IF outbox[m] = "none" THEN 0 ELSE 1
                        /\ debits[m] = 1 => \/ outbox[m] = "pending"
                                            \/ ready[m] > 0
                                            \/ Held(m)
                                            \/ status[m] \in Terminal
                                            \/ Exhausted(m)
      BY DEF NoLostCharge, OnItsWay
    <2>1. outbox[m] \in OutboxStates
      BY DEF LInv, TypeOK
    <2> QED
      BY <2>1 DEF LInv, ChargedUntilSettled
  <1> QED
    BY <1>1, LegacyInvariance, PTL

\* What the clients of the send and of the admin operations are told is true.
THEOREM LegacyClientsAreToldTheTruth == Spec => []AnswersAreTrue
  <1>1. LInv => AnswersAreTrue
    BY DEF LInv, AnswersInv
  <1> QED
    BY <1>1, LegacyInvariance, PTL

\* The transactions, statement by statement and with every fault, implement
\* accounts that change by one whole operation at a time.
THEOREM LegacyRefinement == Spec => ImplementsAtomicLedger
  <1>1. Init => Ledger!Init
    BY DEF Init, Ledger!Init, Charged
  <1> QED
    BY <1>1, LegacyInvariance, NextRefines, PTL
    DEF Spec, Ledger!Spec, ImplementsAtomicLedger
=============================================================================
