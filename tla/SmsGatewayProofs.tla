-------------------------- MODULE SmsGatewayProofs --------------------------
(***************************************************************************)
(* Proofs about the gateway, for any number of messages, wallets, workers  *)
(* and top-ups, any prices and any bound on the faults.                    *)
(*                                                                         *)
(* IInv is the inductive invariant.  NoLostMessage alone is not inductive: *)
(* an acknowledgement drops a copy, so the proof must know that a worker   *)
(* acknowledges only what is settled (SettledBeforeAck), that a refund is  *)
(* recorded only after the reservation is gone (TerminalRowsAreBacked),    *)
(* and that no request can reserve again for a message that is already     *)
(* queued (OutboxComesFirst).  Each part is kept by each component; the    *)
(* lemmas below are ordered by part and have one step per action.          *)
(*                                                                         *)
(* SingleCopyInv adds what holds when no fault duplicates a message.       *)
(***************************************************************************)
EXTENDS SmsGateway, TLAPS

USE DEF Lines, FaultKinds, Uninitialised, OutboxStates, StatusValues, Terminal,
        brokerVars, CountReturn, Exhausted

\* The price of every message is positive.
LEMMA CostPositive == \A m \in Messages : CostOf(m) \in Nat \ {0}
  BY BaseAssumption DEF CostOf

\* IInv and SingleCopyInv hold initially.
LEMMA InitHolds == Init => SingleCopyInv
  <1> SUFFICES ASSUME Init PROVE SingleCopyInv
    OBVIOUS
  <1>1. TypeOK
    BY BaseAssumption, BrokerAssumption, BalanceAssumption, WorkerAssumption
    DEF Init, InitWallets, TypeOK, ApiStates, WorkerStates
  <1>2. OutboxComesFirst
    BY DEF Init, OutboxComesFirst
  <1>3. TerminalRowsAreBacked
    BY DEF Init, TerminalRowsAreBacked
  <1>4. SettledBeforeAck
    BY DEF Init, SettledBeforeAck
  <1>5. CopyUntilSettled
    BY DEF Init, CopyUntilSettled
  <1>6. OneCopy /\ ChargedOnce
    BY DEF Init, OneCopy, ChargedOnce
  <1> QED
    BY <1>1, <1>2, <1>3, <1>4, <1>5, <1>6 DEF IInv, SingleCopyInv

-----------------------------------------------------------------------------
(* TypeOK.                                                                 *)

\* A step of a request in the API keeps TypeOK.
LEMMA ApiType ==
  ASSUME TypeOK,
         NEW m \in Messages,
         ApiAction(RequestStep(m) \/ RequestFault(m))
  PROVE  TypeOK'
  <1> USE BaseAssumption, BrokerAssumption, WorkerAssumption, CostPositive
      DEF TypeOK, ApiStates, InService, Answered, Refused, WorkerStates,
          ApiAction, storeVars, dbVars, apiVars, adminVars, dispatcherVars,
          workerVars, NoFault, Fault
  <1>1. CASE RejectInvalid(m)
    BY <1>1 DEF RejectInvalid, Continue, To, Quiet
  <1>2. CASE Admit(m)
    BY <1>2 DEF Admit, To, Quiet
  <1>3. CASE RejectOverload(m)
    BY <1>3 DEF RejectOverload, Continue, To, Quiet
  <1>4. CASE Lookup(m)
    BY <1>4 DEF Lookup, Continue, To, Quiet
  <1>5. CASE LookupFails(m)
    BY <1>5 DEF LookupFails, Return, To, Quiet
  <1>6. CASE Reserve(m)
    BY <1>6 DEF Reserve, Continue, To, ReserveScript, ReserveReply
  <1>7. CASE ReserveExists(m)
    BY <1>7 DEF ReserveExists, Return, To, Quiet
  <1>8. CASE ReserveInsufficient(m)
    BY <1>8 DEF ReserveInsufficient, Return, To, Quiet, ReserveReply
  <1>9. CASE ReserveUninitialised(m)
    BY <1>9 DEF ReserveUninitialised, Continue, To, Quiet
  <1>10. CASE LoadBalance(m)
    BY <1>10 DEF LoadBalance, Continue, To
  <1>11. CASE InitBalanceKey(m)
    BY <1>11 DEF InitBalanceKey, Continue, To, SetNX
  <1>12. CASE Enqueue(m)
    BY <1>12 DEF Enqueue, Return, To, InsertOutbox
  <1>13. CASE RefundRejected(m)
    BY <1>13 DEF RefundRejected, Return, To, RefundScript, IncrBy
  <1>14. CASE ReserveLost(m)
    BY <1>14 DEF ReserveLost, Continue, To, ReserveScript, ReserveReply
  <1>15. CASE RedisCallFails(m)
    BY <1>15 DEF RedisCallFails, Return, To, Quiet
  <1>16. CASE LoadFails(m)
    BY <1>16 DEF LoadFails, Return, To, Quiet
  <1>17. CASE EnqueueLost(m)
    BY <1>17 DEF EnqueueLost, Continue, To, InsertOutbox
  <1>18. CASE EnqueueFails(m)
    BY <1>18 DEF EnqueueFails, Continue, To, Quiet
  <1> HIDE DEF TypeOK, ApiStates, InService, Answered, Refused, WorkerStates,
               ApiAction, storeVars, dbVars, apiVars, adminVars,
               dispatcherVars, workerVars, NoFault, Fault
  <1> QED
    BY <1>1, <1>2, <1>3, <1>4, <1>5, <1>6, <1>7, <1>8, <1>9, <1>10, <1>11,
       <1>12, <1>13, <1>14, <1>15, <1>16, <1>17, <1>18
    DEF RequestStep, RequestFault, ApiAction

\* A crash of the API keeps TypeOK.
LEMMA ApiCrashType ==
  ASSUME TypeOK,
         ApiAction(ApiCrash)
  PROVE  TypeOK'
  BY BaseAssumption, BrokerAssumption, WorkerAssumption, CostPositive
  DEF TypeOK, ApiStates, InService, Answered, Refused, WorkerStates,
      ApiAction, storeVars, dbVars, apiVars, adminVars, dispatcherVars,
      workerVars, NoFault, Fault, ApiCrash, Quiet

\* A step of a top-up keeps TypeOK.
LEMMA AdminType ==
  ASSUME TypeOK,
         NEW t \in TopUps,
         AdminAction(TopUpStep(t) \/ TopUpFault(t))
  PROVE  TypeOK'
  <1> USE BaseAssumption, BrokerAssumption, WorkerAssumption, CostPositive, TopUpAssumption
      DEF TypeOK, ApiStates, InService, Answered, Refused, WorkerStates,
          AdminAction, storeVars, dbVars, apiVars, adminVars, dispatcherVars,
          workerVars, NoFault, Fault
  <1>1. CASE TopUpCredit(t)
    BY <1>1 DEF TopUpCredit, CreditAndRecord
  <1>2. CASE TopUpPublish(t)
    BY <1>2 DEF TopUpPublish, SetAvailable
  <1>3. CASE TopUpPublishFails(t)
    BY <1>3 DEF TopUpPublishFails
  <1>4. CASE TopUpPublishLost(t)
    BY <1>4 DEF TopUpPublishLost, SetAvailable
  <1> HIDE DEF TypeOK, ApiStates, InService, Answered, Refused, WorkerStates,
               AdminAction, storeVars, dbVars, apiVars, adminVars,
               dispatcherVars, workerVars, NoFault, Fault
  <1> QED
    BY <1>1, <1>2, <1>3, <1>4
    DEF TopUpStep, TopUpFault, AdminAction

\* A step of the dispatcher keeps TypeOK.
LEMMA DispatcherType ==
  ASSUME TypeOK,
         DispatcherAction(DispatcherStep \/ DispatcherFault)
  PROVE  TypeOK'
  <1> USE BaseAssumption, BrokerAssumption, WorkerAssumption, CostPositive
      DEF TypeOK, ApiStates, InService, Answered, Refused, WorkerStates,
          DispatcherAction, storeVars, dbVars, apiVars, adminVars,
          dispatcherVars, workerVars, NoFault, Fault
  <1>1. CASE \E l \in Lines : SelectBatch(l)
    BY <1>1 DEF SelectBatch, Pending
  <1>2. CASE \E m \in Messages : PublishRow(m)
    BY <1>2 DEF PublishRow, Publish
  <1>3. CASE \E m \in Messages : ConfirmRow(m)
    BY <1>3 DEF ConfirmRow
  <1>4. CASE DispatcherStop
    BY <1>4 DEF DispatcherStop
  <1>5. CASE ConfirmRefused
    BY <1>5 DEF ConfirmRefused
  <1>6. CASE \E m \in Messages : PublishRefused(m)
    BY <1>6 DEF PublishRefused
  <1> HIDE DEF TypeOK, ApiStates, InService, Answered, Refused, WorkerStates,
               DispatcherAction, storeVars, dbVars, apiVars, adminVars,
               dispatcherVars, workerVars, NoFault, Fault
  <1> QED
    BY <1>1, <1>2, <1>3, <1>4, <1>5, <1>6
    DEF DispatcherStep, DispatcherFault, DispatcherAction

\* A copy that comes back is stored or dropped, and is counted.
LEMMA RequeueType ==
  ASSUME TypeOK, NEW m \in Messages, Requeue(m)
  PROVE  /\ ready' \in [Messages -> Nat]
         /\ returned' \in [Messages -> 0..DeliveryLimit + 1]
  BY BrokerAssumption DEF TypeOK, Requeue

\* A step of a worker keeps TypeOK.
LEMMA WorkerType ==
  ASSUME TypeOK,
         NEW w \in Workers,
         WorkerAction(WorkerStep(w) \/ SendReturns(w) \/ WorkerFault(w))
  PROVE  TypeOK'
  <1> USE BaseAssumption, BrokerAssumption, WorkerAssumption, CostPositive
      DEF TypeOK, ApiStates, InService, Answered, Refused, WorkerStates,
          WorkerAction, storeVars, dbVars, apiVars, adminVars, dispatcherVars,
          workerVars, NoFault, Fault
  <1>1. CASE \E m \in Messages : Receive(w, m)
    BY <1>1 DEF Receive, Deliver
  <1>2. CASE FindDelivery(w)
    BY <1>2 DEF FindDelivery, Goto
  <1>3. CASE CreateDelivery(w)
    BY <1>3 DEF CreateDelivery, Goto, SetStatus
  <1>4. CASE CreateConflict(w)
    BY <1>4, RequeueType DEF CreateConflict, Nack, Free
  <1>5. CASE CheckDeadline(w)
    BY <1>5 DEF CheckDeadline, Goto
  <1>6. CASE IsReserved(w)
    BY <1>6 DEF IsReserved, Goto
  <1>7. CASE StartSend(w)
    BY <1>7 DEF StartSend, Goto
  <1>8. CASE SendReturns(w)
    BY <1>8 DEF SendReturns, Goto
  <1>9. CASE DebitDelivered(w)
    BY <1>9 DEF DebitDelivered, Goto, Debit, CanAfford, DeductAndRecord,
                SetStatus
  <1>10. CASE DebitRefused(w)
    BY <1>10 DEF DebitRefused, Goto
  <1>11. CASE RefundReservation(w)
    BY <1>11 DEF RefundReservation, Goto, RefundScript, IncrBy
  <1>12. CASE MarkRefunded(w)
    BY <1>12 DEF MarkRefunded, Goto, SetStatus
  <1>13. CASE CommitReservation(w)
    BY <1>13 DEF CommitReservation, Goto, CommitScript
  <1>14. CASE Ack(w)
    BY <1>14 DEF Ack, Free
  <1>15. CASE DebitFails(w)
    BY <1>15 DEF DebitFails, Goto
  <1>16. CASE DebitLost(w)
    BY <1>16 DEF DebitLost, Goto, Debit, CanAfford, DeductAndRecord, SetStatus
  <1>17. CASE DbCallFails(w)
    BY <1>17, RequeueType DEF DbCallFails, Nack, Free
  <1>18. CASE RedisCallErrs(w)
    BY <1>18, RequeueType DEF RedisCallErrs, Nack, Free
  <1>19. CASE CreateLost(w)
    BY <1>19, RequeueType DEF CreateLost, SetStatus, Nack, Free
  <1>20. CASE MarkLost(w)
    BY <1>20, RequeueType DEF MarkLost, SetStatus, Nack, Free
  <1>21. CASE RefundLost(w)
    BY <1>21, RequeueType DEF RefundLost, RefundScript, IncrBy, Nack, Free
  <1>22. CASE CommitLost(w)
    BY <1>22, RequeueType DEF CommitLost, CommitScript, Nack, Free
  <1>23. CASE WorkerCrash(w)
    BY <1>23, RequeueType DEF WorkerCrash, Nack, Free
  <1>24. CASE ConnLoss(w)
    BY <1>24, RequeueType DEF ConnLoss
  <1> HIDE DEF TypeOK, ApiStates, InService, Answered, Refused, WorkerStates,
               WorkerAction, storeVars, dbVars, apiVars, adminVars,
               dispatcherVars, workerVars, NoFault, Fault
  <1> QED
    BY <1>1, <1>2, <1>3, <1>4, <1>5, <1>6, <1>7, <1>8, <1>9, <1>10, <1>11,
       <1>12, <1>13, <1>14, <1>15, <1>16, <1>17, <1>18, <1>19, <1>20, <1>21,
       <1>22, <1>23, <1>24
    DEF WorkerStep, WorkerFault, WorkerAction

\* The passing of a deadline, or the return of a fetched copy, keeps TypeOK.
LEMMA DeadlineType ==
  ASSUME TypeOK,
         NEW m \in Messages,
         WorkerAction(DeadlinePasses(m) \/ FetchedReturned(m))
  PROVE  TypeOK'
  <1> USE BaseAssumption, BrokerAssumption, WorkerAssumption, CostPositive
      DEF TypeOK, ApiStates, InService, Answered, Refused, WorkerStates,
          WorkerAction, storeVars, dbVars, apiVars, adminVars, dispatcherVars,
          workerVars, NoFault, Fault
  <1>1. CASE DeadlinePasses(m)
    BY <1>1 DEF DeadlinePasses
  <1>2. CASE FetchedReturned(m)
    BY <1>2 DEF FetchedReturned, ReturnFetched
  <1> HIDE DEF TypeOK, ApiStates, InService, Answered, Refused, WorkerStates,
               storeVars, dbVars, apiVars, adminVars, dispatcherVars,
               workerVars, NoFault, Fault
  <1> QED
    BY <1>1, <1>2

\* A Redis that loses its data keeps TypeOK.
LEMMA FlushType ==
  ASSUME TypeOK,
         RedisFlush,
         UNCHANGED <<dbVars, brokerVars, apiVars, adminVars, dispatcherVars,
                     workerVars>>
  PROVE  TypeOK'
  BY BaseAssumption, BrokerAssumption, WorkerAssumption, CostPositive
  DEF TypeOK, ApiStates, InService, Answered, Refused, WorkerStates,
      storeVars, dbVars, apiVars, adminVars, dispatcherVars, workerVars,
      NoFault, Fault, RedisFlush

-----------------------------------------------------------------------------
(* The other parts of IInv.                                                *)

\* A step of a request in the API keeps the rest of IInv.
LEMMA ApiIInv ==
  ASSUME IInv,
         NEW m \in Messages,
         ApiAction(RequestStep(m) \/ RequestFault(m))
  PROVE  OutboxComesFirst' /\ TerminalRowsAreBacked'
           /\ SettledBeforeAck' /\ CopyUntilSettled'
  <1> USE BaseAssumption, BrokerAssumption, WorkerAssumption, CostPositive
      DEF IInv, TypeOK, ApiStates, InService, Answered, Refused, WorkerStates,
          OutboxComesFirst, BeforeEnqueue, TerminalRowsAreBacked,
          SettledBeforeAck, CopyUntilSettled, Settled, Held, ApiAction,
          storeVars, dbVars, apiVars, adminVars, dispatcherVars, workerVars,
          NoFault, Fault
  <1>1. CASE RejectInvalid(m)
    BY <1>1 DEF RejectInvalid, Continue, To, Quiet
  <1>2. CASE Admit(m)
    BY <1>2 DEF Admit, To, Quiet
  <1>3. CASE RejectOverload(m)
    BY <1>3 DEF RejectOverload, Continue, To, Quiet
  <1>4. CASE Lookup(m)
    BY <1>4 DEF Lookup, Continue, To, Quiet
  <1>5. CASE LookupFails(m)
    BY <1>5 DEF LookupFails, Return, To, Quiet
  <1>6. CASE Reserve(m)
    BY <1>6 DEF Reserve, Continue, To, ReserveScript, ReserveReply
  <1>7. CASE ReserveExists(m)
    BY <1>7 DEF ReserveExists, Return, To, Quiet
  <1>8. CASE ReserveInsufficient(m)
    BY <1>8 DEF ReserveInsufficient, Return, To, Quiet, ReserveReply
  <1>9. CASE ReserveUninitialised(m)
    BY <1>9 DEF ReserveUninitialised, Continue, To, Quiet
  <1>10. CASE LoadBalance(m)
    BY <1>10 DEF LoadBalance, Continue, To
  <1>11. CASE InitBalanceKey(m)
    BY <1>11 DEF InitBalanceKey, Continue, To, SetNX
  <1>12. CASE Enqueue(m)
    BY <1>12 DEF Enqueue, Return, To, InsertOutbox
  <1>13. CASE RefundRejected(m)
    BY <1>13 DEF RefundRejected, Return, To, RefundScript, IncrBy
  <1>14. CASE ReserveLost(m)
    BY <1>14 DEF ReserveLost, Continue, To, ReserveScript, ReserveReply
  <1>15. CASE RedisCallFails(m)
    BY <1>15 DEF RedisCallFails, Return, To, Quiet
  <1>16. CASE LoadFails(m)
    BY <1>16 DEF LoadFails, Return, To, Quiet
  <1>17. CASE EnqueueLost(m)
    BY <1>17 DEF EnqueueLost, Continue, To, InsertOutbox
  <1>18. CASE EnqueueFails(m)
    BY <1>18 DEF EnqueueFails, Continue, To, Quiet
  <1> HIDE DEF IInv, TypeOK, ApiStates, InService, Answered, Refused,
               WorkerStates, OutboxComesFirst, BeforeEnqueue,
               TerminalRowsAreBacked, SettledBeforeAck, CopyUntilSettled,
               Settled, Held, ApiAction, storeVars, dbVars, apiVars,
               adminVars, dispatcherVars, workerVars, NoFault, Fault
  <1> QED
    BY <1>1, <1>2, <1>3, <1>4, <1>5, <1>6, <1>7, <1>8, <1>9, <1>10, <1>11,
       <1>12, <1>13, <1>14, <1>15, <1>16, <1>17, <1>18
    DEF RequestStep, RequestFault, ApiAction

\* A crash of the API keeps the rest of IInv.
LEMMA ApiCrashIInv ==
  ASSUME IInv,
         ApiAction(ApiCrash)
  PROVE  OutboxComesFirst' /\ TerminalRowsAreBacked'
           /\ SettledBeforeAck' /\ CopyUntilSettled'
  BY BaseAssumption, BrokerAssumption, WorkerAssumption, CostPositive
  DEF IInv, TypeOK, ApiStates, InService, Answered, Refused, WorkerStates,
      OutboxComesFirst, BeforeEnqueue, TerminalRowsAreBacked,
      SettledBeforeAck, CopyUntilSettled, Settled, Held, ApiAction, storeVars,
      dbVars, apiVars, adminVars, dispatcherVars, workerVars, NoFault, Fault,
      ApiCrash, Quiet

\* A step of a top-up keeps the rest of IInv.
LEMMA AdminIInv ==
  ASSUME IInv,
         NEW t \in TopUps,
         AdminAction(TopUpStep(t) \/ TopUpFault(t))
  PROVE  OutboxComesFirst' /\ TerminalRowsAreBacked'
           /\ SettledBeforeAck' /\ CopyUntilSettled'
  <1> USE BaseAssumption, BrokerAssumption, WorkerAssumption, CostPositive, TopUpAssumption
      DEF IInv, TypeOK, ApiStates, InService, Answered, Refused, WorkerStates,
          OutboxComesFirst, BeforeEnqueue, TerminalRowsAreBacked,
          SettledBeforeAck, CopyUntilSettled, Settled, Held, AdminAction,
          storeVars, dbVars, apiVars, adminVars, dispatcherVars, workerVars,
          NoFault, Fault
  <1>1. CASE TopUpCredit(t)
    BY <1>1 DEF TopUpCredit, CreditAndRecord
  <1>2. CASE TopUpPublish(t)
    BY <1>2 DEF TopUpPublish, SetAvailable
  <1>3. CASE TopUpPublishFails(t)
    BY <1>3 DEF TopUpPublishFails
  <1>4. CASE TopUpPublishLost(t)
    BY <1>4 DEF TopUpPublishLost, SetAvailable
  <1> HIDE DEF IInv, TypeOK, ApiStates, InService, Answered, Refused,
               WorkerStates, OutboxComesFirst, BeforeEnqueue,
               TerminalRowsAreBacked, SettledBeforeAck, CopyUntilSettled,
               Settled, Held, AdminAction, storeVars, dbVars, apiVars,
               adminVars, dispatcherVars, workerVars, NoFault, Fault
  <1> QED
    BY <1>1, <1>2, <1>3, <1>4
    DEF TopUpStep, TopUpFault, AdminAction

\* A step of the dispatcher keeps the rest of IInv.
LEMMA DispatcherIInv ==
  ASSUME IInv,
         DispatcherAction(DispatcherStep \/ DispatcherFault)
  PROVE  OutboxComesFirst' /\ TerminalRowsAreBacked'
           /\ SettledBeforeAck' /\ CopyUntilSettled'
  <1> USE BaseAssumption, BrokerAssumption, WorkerAssumption, CostPositive
      DEF IInv, TypeOK, ApiStates, InService, Answered, Refused, WorkerStates,
          OutboxComesFirst, BeforeEnqueue, TerminalRowsAreBacked,
          SettledBeforeAck, CopyUntilSettled, Settled, Held, DispatcherAction,
          storeVars, dbVars, apiVars, adminVars, dispatcherVars, workerVars,
          NoFault, Fault
  <1>1. CASE \E l \in Lines : SelectBatch(l)
    BY <1>1 DEF SelectBatch, Pending
  <1>2. CASE \E m \in Messages : PublishRow(m)
    BY <1>2 DEF PublishRow, Publish
  <1>3. CASE \E m \in Messages : ConfirmRow(m)
    BY <1>3 DEF ConfirmRow
  <1>4. CASE DispatcherStop
    BY <1>4 DEF DispatcherStop
  <1>5. CASE ConfirmRefused
    BY <1>5 DEF ConfirmRefused
  <1>6. CASE \E m \in Messages : PublishRefused(m)
    BY <1>6 DEF PublishRefused
  <1> HIDE DEF IInv, TypeOK, ApiStates, InService, Answered, Refused,
               WorkerStates, OutboxComesFirst, BeforeEnqueue,
               TerminalRowsAreBacked, SettledBeforeAck, CopyUntilSettled,
               Settled, Held, DispatcherAction, storeVars, dbVars, apiVars,
               adminVars, dispatcherVars, workerVars, NoFault, Fault
  <1> QED
    BY <1>1, <1>2, <1>3, <1>4, <1>5, <1>6
    DEF DispatcherStep, DispatcherFault, DispatcherAction

\* A step of a worker keeps the rest of IInv.
LEMMA WorkerIInv ==
  ASSUME IInv,
         NEW w \in Workers,
         WorkerAction(WorkerStep(w) \/ SendReturns(w) \/ WorkerFault(w))
  PROVE  OutboxComesFirst' /\ TerminalRowsAreBacked'
           /\ SettledBeforeAck' /\ CopyUntilSettled'
  <1> USE BaseAssumption, BrokerAssumption, WorkerAssumption, CostPositive
      DEF IInv, TypeOK, ApiStates, InService, Answered, Refused, WorkerStates,
          OutboxComesFirst, BeforeEnqueue, TerminalRowsAreBacked,
          SettledBeforeAck, CopyUntilSettled, Settled, Held, WorkerAction,
          storeVars, dbVars, apiVars, adminVars, dispatcherVars, workerVars,
          NoFault, Fault
  <1>1. CASE \E m \in Messages : Receive(w, m)
    <2>1. PICK m \in Messages : Receive(w, m)
      BY <1>1
    <2>2. OutboxComesFirst' /\ TerminalRowsAreBacked' /\ SettledBeforeAck'
      BY <2>1 DEF Receive, Deliver
    <2>3. Held(m)' /\ \A n \in Messages : Held(n) => Held(n)'
      BY <2>1 DEF Receive
    <2>4. CopyUntilSettled'
      BY <2>1, <2>3 DEF Receive, Deliver
    <2> QED
      BY <2>2, <2>4
  <1>2. CASE FindDelivery(w)
    BY <1>2 DEF FindDelivery, Goto
  <1>3. CASE CreateDelivery(w)
    BY <1>3 DEF CreateDelivery, Goto, SetStatus
  <1>4. CASE CreateConflict(w)
    BY <1>4 DEF CreateConflict, Nack, Free, Requeue
  <1>5. CASE CheckDeadline(w)
    BY <1>5 DEF CheckDeadline, Goto
  <1>6. CASE IsReserved(w)
    BY <1>6 DEF IsReserved, Goto
  <1>7. CASE StartSend(w)
    BY <1>7 DEF StartSend, Goto
  <1>8. CASE SendReturns(w)
    BY <1>8 DEF SendReturns, Goto
  <1>9. CASE DebitDelivered(w)
    BY <1>9 DEF DebitDelivered, Goto, Debit, CanAfford, DeductAndRecord,
                SetStatus
  <1>10. CASE DebitRefused(w)
    BY <1>10 DEF DebitRefused, Goto
  <1>11. CASE RefundReservation(w)
    BY <1>11 DEF RefundReservation, Goto, RefundScript, IncrBy
  <1>12. CASE MarkRefunded(w)
    BY <1>12 DEF MarkRefunded, Goto, SetStatus
  <1>13. CASE CommitReservation(w)
    BY <1>13 DEF CommitReservation, Goto, CommitScript
  <1>14. CASE Ack(w)
    BY <1>14 DEF Ack, Free
  <1>15. CASE DebitFails(w)
    BY <1>15 DEF DebitFails, Goto
  <1>16. CASE DebitLost(w)
    BY <1>16 DEF DebitLost, Goto, Debit, CanAfford, DeductAndRecord, SetStatus
  <1>17. CASE DbCallFails(w)
    BY <1>17 DEF DbCallFails, Nack, Free, Requeue
  <1>18. CASE RedisCallErrs(w)
    BY <1>18 DEF RedisCallErrs, Nack, Free, Requeue
  <1>19. CASE CreateLost(w)
    BY <1>19 DEF CreateLost, SetStatus, Nack, Free, Requeue
  <1>20. CASE MarkLost(w)
    BY <1>20 DEF MarkLost, SetStatus, Nack, Free, Requeue
  <1>21. CASE RefundLost(w)
    BY <1>21 DEF RefundLost, RefundScript, IncrBy, Nack, Free, Requeue
  <1>22. CASE CommitLost(w)
    BY <1>22 DEF CommitLost, CommitScript, Nack, Free, Requeue
  <1>23. CASE WorkerCrash(w)
    BY <1>23 DEF WorkerCrash, Nack, Free, Requeue
  <1>24. CASE ConnLoss(w)
    BY <1>24 DEF ConnLoss, Requeue
  <1> HIDE DEF IInv, TypeOK, ApiStates, InService, Answered, Refused,
               WorkerStates, OutboxComesFirst, BeforeEnqueue,
               TerminalRowsAreBacked, SettledBeforeAck, CopyUntilSettled,
               Settled, Held, WorkerAction, storeVars, dbVars, apiVars,
               adminVars, dispatcherVars, workerVars, NoFault, Fault
  <1> QED
    BY <1>1, <1>2, <1>3, <1>4, <1>5, <1>6, <1>7, <1>8, <1>9, <1>10, <1>11,
       <1>12, <1>13, <1>14, <1>15, <1>16, <1>17, <1>18, <1>19, <1>20, <1>21,
       <1>22, <1>23, <1>24
    DEF WorkerStep, WorkerFault, WorkerAction

\* The passing of a deadline, or the return of a fetched copy, keeps the rest of IInv.
LEMMA DeadlineIInv ==
  ASSUME IInv,
         NEW m \in Messages,
         WorkerAction(DeadlinePasses(m) \/ FetchedReturned(m))
  PROVE  OutboxComesFirst' /\ TerminalRowsAreBacked'
           /\ SettledBeforeAck' /\ CopyUntilSettled'
  BY BaseAssumption, BrokerAssumption, WorkerAssumption, CostPositive
  DEF IInv, TypeOK, ApiStates, InService, Answered, Refused, WorkerStates,
      OutboxComesFirst, BeforeEnqueue, TerminalRowsAreBacked,
      SettledBeforeAck, CopyUntilSettled, Settled, Held, WorkerAction,
      storeVars, dbVars, apiVars, adminVars, dispatcherVars, workerVars,
      NoFault, Fault, DeadlinePasses, FetchedReturned, ReturnFetched

\* A Redis that loses its data keeps the rest of IInv.
LEMMA FlushIInv ==
  ASSUME IInv,
         RedisFlush,
         UNCHANGED <<dbVars, brokerVars, apiVars, adminVars, dispatcherVars,
                     workerVars>>
  PROVE  OutboxComesFirst' /\ TerminalRowsAreBacked'
           /\ SettledBeforeAck' /\ CopyUntilSettled'
  BY BaseAssumption, BrokerAssumption, WorkerAssumption, CostPositive
  DEF IInv, TypeOK, ApiStates, InService, Answered, Refused, WorkerStates,
      OutboxComesFirst, BeforeEnqueue, TerminalRowsAreBacked,
      SettledBeforeAck, CopyUntilSettled, Settled, Held, storeVars, dbVars,
      apiVars, adminVars, dispatcherVars, workerVars, NoFault, Fault,
      RedisFlush

-----------------------------------------------------------------------------
(* One copy, charged once.                                                 *)

\* A step of a request in the API keeps OneCopy and ChargedOnce.
LEMMA ApiSingle ==
  ASSUME NoDuplicatingFaults,
         SingleCopyInv,
         NEW m \in Messages,
         ApiAction(RequestStep(m) \/ RequestFault(m))
  PROVE  OneCopy' /\ ChargedOnce'
  <1> USE BaseAssumption, BrokerAssumption, WorkerAssumption, CostPositive
      DEF SingleCopyInv, NoDuplicatingFaults, OneCopy, ChargedOnce, IInv,
          OutboxComesFirst, BeforeEnqueue, SettledBeforeAck, Settled, TypeOK,
          ApiStates, InService, Answered, Refused, WorkerStates, ApiAction,
          storeVars, dbVars, apiVars, adminVars, dispatcherVars, workerVars,
          NoFault, Fault
  <1>1. CASE RejectInvalid(m)
    BY <1>1 DEF RejectInvalid, Continue, To, Quiet
  <1>2. CASE Admit(m)
    BY <1>2 DEF Admit, To, Quiet
  <1>3. CASE RejectOverload(m)
    BY <1>3 DEF RejectOverload, Continue, To, Quiet
  <1>4. CASE Lookup(m)
    BY <1>4 DEF Lookup, Continue, To, Quiet
  <1>5. CASE LookupFails(m)
    BY <1>5 DEF LookupFails, Return, To, Quiet
  <1>6. CASE Reserve(m)
    BY <1>6 DEF Reserve, Continue, To, ReserveScript, ReserveReply
  <1>7. CASE ReserveExists(m)
    BY <1>7 DEF ReserveExists, Return, To, Quiet
  <1>8. CASE ReserveInsufficient(m)
    BY <1>8 DEF ReserveInsufficient, Return, To, Quiet, ReserveReply
  <1>9. CASE ReserveUninitialised(m)
    BY <1>9 DEF ReserveUninitialised, Continue, To, Quiet
  <1>10. CASE LoadBalance(m)
    BY <1>10 DEF LoadBalance, Continue, To
  <1>11. CASE InitBalanceKey(m)
    BY <1>11 DEF InitBalanceKey, Continue, To, SetNX
  <1>12. CASE Enqueue(m)
    BY <1>12 DEF Enqueue, Return, To, InsertOutbox
  <1>13. CASE RefundRejected(m)
    BY <1>13 DEF RefundRejected, Return, To, RefundScript, IncrBy
  <1>14. CASE ReserveLost(m)
    BY <1>14 DEF ReserveLost, Continue, To, ReserveScript, ReserveReply
  <1>15. CASE RedisCallFails(m)
    BY <1>15 DEF RedisCallFails, Return, To, Quiet
  <1>16. CASE LoadFails(m)
    BY <1>16 DEF LoadFails, Return, To, Quiet
  <1>17. CASE EnqueueLost(m)
    BY <1>17 DEF EnqueueLost, Continue, To, InsertOutbox
  <1>18. CASE EnqueueFails(m)
    BY <1>18 DEF EnqueueFails, Continue, To, Quiet
  <1> HIDE DEF SingleCopyInv, NoDuplicatingFaults, OneCopy, ChargedOnce, IInv,
               OutboxComesFirst, BeforeEnqueue, SettledBeforeAck, Settled,
               TypeOK, ApiStates, InService, Answered, Refused, WorkerStates,
               ApiAction, storeVars, dbVars, apiVars, adminVars,
               dispatcherVars, workerVars, NoFault, Fault
  <1> QED
    BY <1>1, <1>2, <1>3, <1>4, <1>5, <1>6, <1>7, <1>8, <1>9, <1>10, <1>11,
       <1>12, <1>13, <1>14, <1>15, <1>16, <1>17, <1>18
    DEF RequestStep, RequestFault, ApiAction

\* A crash of the API keeps OneCopy and ChargedOnce.
LEMMA ApiCrashSingle ==
  ASSUME NoDuplicatingFaults,
         SingleCopyInv,
         ApiAction(ApiCrash)
  PROVE  OneCopy' /\ ChargedOnce'
  BY BaseAssumption, BrokerAssumption, WorkerAssumption, CostPositive
  DEF SingleCopyInv, NoDuplicatingFaults, OneCopy, ChargedOnce, IInv,
      OutboxComesFirst, BeforeEnqueue, SettledBeforeAck, Settled, TypeOK,
      ApiStates, InService, Answered, Refused, WorkerStates, ApiAction,
      storeVars, dbVars, apiVars, adminVars, dispatcherVars, workerVars,
      NoFault, Fault, ApiCrash, Quiet

\* A step of a top-up keeps OneCopy and ChargedOnce.
LEMMA AdminSingle ==
  ASSUME NoDuplicatingFaults,
         SingleCopyInv,
         NEW t \in TopUps,
         AdminAction(TopUpStep(t) \/ TopUpFault(t))
  PROVE  OneCopy' /\ ChargedOnce'
  <1> USE BaseAssumption, BrokerAssumption, WorkerAssumption, CostPositive, TopUpAssumption
      DEF SingleCopyInv, NoDuplicatingFaults, OneCopy, ChargedOnce, IInv,
          OutboxComesFirst, BeforeEnqueue, SettledBeforeAck, Settled, TypeOK,
          ApiStates, InService, Answered, Refused, WorkerStates, AdminAction,
          storeVars, dbVars, apiVars, adminVars, dispatcherVars, workerVars,
          NoFault, Fault
  <1>1. CASE TopUpCredit(t)
    BY <1>1 DEF TopUpCredit, CreditAndRecord
  <1>2. CASE TopUpPublish(t)
    BY <1>2 DEF TopUpPublish, SetAvailable
  <1>3. CASE TopUpPublishFails(t)
    BY <1>3 DEF TopUpPublishFails
  <1>4. CASE TopUpPublishLost(t)
    BY <1>4 DEF TopUpPublishLost, SetAvailable
  <1> HIDE DEF SingleCopyInv, NoDuplicatingFaults, OneCopy, ChargedOnce, IInv,
               OutboxComesFirst, BeforeEnqueue, SettledBeforeAck, Settled,
               TypeOK, ApiStates, InService, Answered, Refused, WorkerStates,
               AdminAction, storeVars, dbVars, apiVars, adminVars,
               dispatcherVars, workerVars, NoFault, Fault
  <1> QED
    BY <1>1, <1>2, <1>3, <1>4
    DEF TopUpStep, TopUpFault, AdminAction

\* A step of the dispatcher keeps OneCopy and ChargedOnce.
LEMMA DispatcherSingle ==
  ASSUME NoDuplicatingFaults,
         SingleCopyInv,
         DispatcherAction(DispatcherStep \/ DispatcherFault)
  PROVE  OneCopy' /\ ChargedOnce'
  <1> USE BaseAssumption, BrokerAssumption, WorkerAssumption, CostPositive
      DEF SingleCopyInv, NoDuplicatingFaults, OneCopy, ChargedOnce, IInv,
          OutboxComesFirst, BeforeEnqueue, SettledBeforeAck, Settled, TypeOK,
          ApiStates, InService, Answered, Refused, WorkerStates,
          DispatcherAction, storeVars, dbVars, apiVars, adminVars,
          dispatcherVars, workerVars, NoFault, Fault
  <1>1. CASE \E l \in Lines : SelectBatch(l)
    BY <1>1 DEF SelectBatch, Pending
  <1>2. CASE \E m \in Messages : PublishRow(m)
    BY <1>2 DEF PublishRow, Publish
  <1>3. CASE \E m \in Messages : ConfirmRow(m)
    BY <1>3 DEF ConfirmRow
  <1>4. CASE DispatcherStop
    BY <1>4 DEF DispatcherStop
  <1>5. CASE ConfirmRefused
    BY <1>5 DEF ConfirmRefused
  <1>6. CASE \E m \in Messages : PublishRefused(m)
    BY <1>6 DEF PublishRefused
  <1> HIDE DEF SingleCopyInv, NoDuplicatingFaults, OneCopy, ChargedOnce, IInv,
               OutboxComesFirst, BeforeEnqueue, SettledBeforeAck, Settled,
               TypeOK, ApiStates, InService, Answered, Refused, WorkerStates,
               DispatcherAction, storeVars, dbVars, apiVars, adminVars,
               dispatcherVars, workerVars, NoFault, Fault
  <1> QED
    BY <1>1, <1>2, <1>3, <1>4, <1>5, <1>6
    DEF DispatcherStep, DispatcherFault, DispatcherAction

\* A step of a worker keeps OneCopy and ChargedOnce.
LEMMA WorkerSingle ==
  ASSUME NoDuplicatingFaults,
         SingleCopyInv,
         NEW w \in Workers,
         WorkerAction(WorkerStep(w) \/ SendReturns(w) \/ WorkerFault(w))
  PROVE  OneCopy' /\ ChargedOnce'
  <1> USE BaseAssumption, BrokerAssumption, WorkerAssumption, CostPositive
      DEF SingleCopyInv, NoDuplicatingFaults, OneCopy, ChargedOnce, IInv,
          OutboxComesFirst, BeforeEnqueue, SettledBeforeAck, Settled, TypeOK,
          ApiStates, InService, Answered, Refused, WorkerStates, WorkerAction,
          storeVars, dbVars, apiVars, adminVars, dispatcherVars, workerVars,
          NoFault, Fault
  <1>1. CASE \E m \in Messages : Receive(w, m)
    <2>1. PICK m \in Messages : Receive(w, m)
      BY <1>1
    <2>2. OneCopy'
      <3>1. ready[m] = 1 /\ ready'[m] = 0
        BY <2>1 DEF Receive, Deliver
      <3>2. outbox[m] = "published" \/ m \in toConfirm
        BY <3>1
      <3>3. \A v \in Workers : wpc[v] # "idle" => wmsg[v] # m
        BY <3>1
      <3>4. \A n \in Messages : ready'[n] <= ready[n]
        BY <2>1 DEF Receive, Deliver
      <3>5. \A v \in Workers : v # w => wpc'[v] = wpc[v] /\ wmsg'[v] = wmsg[v]
        BY <2>1 DEF Receive
      <3>6. wpc'[w] = "find" /\ wmsg'[w] = m /\ linked[w]
        BY <2>1 DEF Receive, CopyUntilSettled
      <3>7. UNCHANGED <<outbox, toPublish, toConfirm, refused, linked>>
        BY <2>1 DEF Receive
      <3>8. \A n \in Messages : ready'[n] \in Nat
        BY <2>1 DEF Receive, Deliver
      <3> HIDE DEF WorkerAction, workerVars, dispatcherVars, dbVars
      <3>9. \A n \in Messages :
              /\ ready'[n] <= 1
              /\ n \in toPublish' => n \notin toConfirm'
              /\ n \in toPublish' \cup toConfirm' => outbox'[n] = "pending"
              /\ n \notin refused'
              /\ outbox'[n] = "pending" /\ n \notin toConfirm' => ready'[n] = 0
        BY <3>4, <3>7, <3>8
      <3>10. \A v \in Workers : wpc'[v] # "idle" =>
               /\ linked'[v]
               /\ ready'[wmsg'[v]] = 0
               /\ outbox'[wmsg'[v]] = "published" \/ wmsg'[v] \in toConfirm'
               /\ \A u \in Workers : u # v /\ wpc'[u] # "idle" => wmsg'[u] # wmsg'[v]
        BY <3>1, <3>2, <3>3, <3>4, <3>5, <3>6, <3>7, <3>8
      <3> QED
        BY <3>9, <3>10
    <2>3. ChargedOnce'
      BY <2>1 DEF Receive, Deliver
    <2> QED
      BY <2>2, <2>3
  <1>2. CASE FindDelivery(w)
    BY <1>2 DEF FindDelivery, Goto
  <1>3. CASE CreateDelivery(w)
    BY <1>3 DEF CreateDelivery, Goto, SetStatus
  <1>4. CASE CreateConflict(w)
    BY <1>4 DEF CreateConflict, Nack, Free, Requeue
  <1>5. CASE CheckDeadline(w)
    BY <1>5 DEF CheckDeadline, Goto
  <1>6. CASE IsReserved(w)
    BY <1>6 DEF IsReserved, Goto
  <1>7. CASE StartSend(w)
    <2>1. UNCHANGED <<wmsg, linked, ready, debits, status, outbox,
                      toPublish, toConfirm, refused>>
      BY <1>7 DEF StartSend, Goto
    <2>2. wpc[w] = "send" /\ wpc' = [wpc EXCEPT ![w] = "sending"]
      BY <1>7 DEF StartSend, Goto
    <2>3. OneCopy'
      BY <2>1, <2>2
    <2>4. ChargedOnce'
      BY <2>1, <2>2
    <2> QED
      BY <2>3, <2>4
  <1>8. CASE SendReturns(w)
    <2>1. UNCHANGED <<wmsg, linked, ready, debits, status, outbox,
                      toPublish, toConfirm, refused>>
      BY <1>8 DEF SendReturns, Goto
    <2>2. /\ wpc[w] = "sending"
          /\ \E to \in {"debit", "refund"} : wpc' = [wpc EXCEPT ![w] = to]
      BY <1>8 DEF SendReturns, Goto
    <2>3. OneCopy'
      BY <2>1, <2>2
    <2>4. ChargedOnce'
      BY <2>1, <2>2
    <2> QED
      BY <2>3, <2>4
  <1>9. CASE DebitDelivered(w)
    BY <1>9 DEF DebitDelivered, Goto, Debit, CanAfford, DeductAndRecord,
                SetStatus
  <1>10. CASE DebitRefused(w)
    BY <1>10 DEF DebitRefused, Goto
  <1>11. CASE RefundReservation(w)
    BY <1>11 DEF RefundReservation, Goto, RefundScript, IncrBy
  <1>12. CASE MarkRefunded(w)
    BY <1>12 DEF MarkRefunded, Goto, SetStatus
  <1>13. CASE CommitReservation(w)
    BY <1>13 DEF CommitReservation, Goto, CommitScript
  <1>14. CASE Ack(w)
    BY <1>14 DEF Ack, Free
  <1>15. CASE DebitFails(w)
    BY <1>15 DEF DebitFails, Goto
  <1>16. CASE DebitLost(w)
    BY <1>16 DEF DebitLost, Goto, Debit, CanAfford, DeductAndRecord, SetStatus
  <1>17. CASE DbCallFails(w)
    <2>1. OneCopy'
      BY <1>17 DEF DbCallFails, Nack, Free, Requeue
    <2>2. ChargedOnce'
      BY <1>17 DEF DbCallFails, Nack, Free
    <2> QED
      BY <2>1, <2>2
  <1>18. CASE RedisCallErrs(w)
    <2>1. OneCopy'
      BY <1>18 DEF RedisCallErrs, Nack, Free, Requeue
    <2>2. ChargedOnce'
      BY <1>18 DEF RedisCallErrs, Nack, Free
    <2> QED
      BY <2>1, <2>2
  <1>19. CASE CreateLost(w)
    BY <1>19 DEF CreateLost, SetStatus, Nack, Free, Requeue
  <1>20. CASE MarkLost(w)
    BY <1>20 DEF MarkLost, SetStatus, Nack, Free, Requeue
  <1>21. CASE RefundLost(w)
    <2>1. OneCopy'
      BY <1>21 DEF RefundLost, Nack, Free, Requeue
    <2>2. ChargedOnce'
      BY <1>21 DEF RefundLost, Nack, Free
    <2> QED
      BY <2>1, <2>2
  <1>22. CASE CommitLost(w)
    BY <1>22 DEF CommitLost, CommitScript, Nack, Free, Requeue
  <1>23. CASE WorkerCrash(w)
    <2>1. OneCopy'
      BY <1>23 DEF WorkerCrash, Nack, Free, Requeue
    <2>2. ChargedOnce'
      BY <1>23 DEF WorkerCrash, Nack, Free
    <2> QED
      BY <2>1, <2>2
  <1>24. CASE ConnLoss(w)
    BY <1>24 DEF ConnLoss, Requeue
  <1> HIDE DEF SingleCopyInv, NoDuplicatingFaults, OneCopy, ChargedOnce, IInv,
               OutboxComesFirst, BeforeEnqueue, SettledBeforeAck, Settled,
               TypeOK, ApiStates, InService, Answered, Refused, WorkerStates,
               WorkerAction, storeVars, dbVars, apiVars, adminVars,
               dispatcherVars, workerVars, NoFault, Fault
  <1> QED
    BY <1>1, <1>2, <1>3, <1>4, <1>5, <1>6, <1>7, <1>8, <1>9, <1>10, <1>11,
       <1>12, <1>13, <1>14, <1>15, <1>16, <1>17, <1>18, <1>19, <1>20, <1>21,
       <1>22, <1>23, <1>24
    DEF WorkerStep, WorkerFault, WorkerAction

\* The passing of a deadline, or the return of a fetched copy, keeps OneCopy and ChargedOnce.
LEMMA DeadlineSingle ==
  ASSUME NoDuplicatingFaults,
         SingleCopyInv,
         NEW m \in Messages,
         WorkerAction(DeadlinePasses(m) \/ FetchedReturned(m))
  PROVE  OneCopy' /\ ChargedOnce'
  BY BaseAssumption, BrokerAssumption, WorkerAssumption, CostPositive
  DEF SingleCopyInv, NoDuplicatingFaults, OneCopy, ChargedOnce, IInv,
      OutboxComesFirst, BeforeEnqueue, SettledBeforeAck, Settled, TypeOK,
      ApiStates, InService, Answered, Refused, WorkerStates, WorkerAction,
      storeVars, dbVars, apiVars, adminVars, dispatcherVars, workerVars,
      NoFault, Fault, DeadlinePasses, FetchedReturned, ReturnFetched

\* A Redis that loses its data keeps OneCopy and ChargedOnce.
LEMMA FlushSingle ==
  ASSUME NoDuplicatingFaults,
         SingleCopyInv,
         RedisFlush,
         UNCHANGED <<dbVars, brokerVars, apiVars, adminVars, dispatcherVars,
                     workerVars>>
  PROVE  OneCopy' /\ ChargedOnce'
  BY BaseAssumption, BrokerAssumption, WorkerAssumption, CostPositive
  DEF SingleCopyInv, NoDuplicatingFaults, OneCopy, ChargedOnce, IInv,
      OutboxComesFirst, BeforeEnqueue, SettledBeforeAck, Settled, TypeOK,
      ApiStates, InService, Answered, Refused, WorkerStates, storeVars,
      dbVars, apiVars, adminVars, dispatcherVars, workerVars, NoFault, Fault,
      RedisFlush

-----------------------------------------------------------------------------
(* Rows and reservations.                                                  *)

\* A step of a request in the API leaves the rows alone, and only Reserve adds a reservation.
LEMMA ApiRows ==
  ASSUME NEW m \in Messages,
         ApiAction(RequestStep(m) \/ RequestFault(m))
  PROVE  UNCHANGED status /\ \A n \in reserved' : n \in reserved \/ api[n] = "reserve"
  <1> USE DEF ApiAction, storeVars, dbVars, apiVars, adminVars,
              dispatcherVars, workerVars, NoFault, Fault
  <1>1. CASE RejectInvalid(m)
    BY <1>1 DEF RejectInvalid, Continue, To, Quiet
  <1>2. CASE Admit(m)
    BY <1>2 DEF Admit, To, Quiet
  <1>3. CASE RejectOverload(m)
    BY <1>3 DEF RejectOverload, Continue, To, Quiet
  <1>4. CASE Lookup(m)
    BY <1>4 DEF Lookup, Continue, To, Quiet
  <1>5. CASE LookupFails(m)
    BY <1>5 DEF LookupFails, Return, To, Quiet
  <1>6. CASE Reserve(m)
    BY <1>6 DEF Reserve, Continue, To, ReserveScript, ReserveReply
  <1>7. CASE ReserveExists(m)
    BY <1>7 DEF ReserveExists, Return, To, Quiet
  <1>8. CASE ReserveInsufficient(m)
    BY <1>8 DEF ReserveInsufficient, Return, To, Quiet, ReserveReply
  <1>9. CASE ReserveUninitialised(m)
    BY <1>9 DEF ReserveUninitialised, Continue, To, Quiet
  <1>10. CASE LoadBalance(m)
    BY <1>10 DEF LoadBalance, Continue, To
  <1>11. CASE InitBalanceKey(m)
    BY <1>11 DEF InitBalanceKey, Continue, To, SetNX
  <1>12. CASE Enqueue(m)
    BY <1>12 DEF Enqueue, Return, To, InsertOutbox
  <1>13. CASE RefundRejected(m)
    BY <1>13 DEF RefundRejected, Return, To, RefundScript, IncrBy
  <1>14. CASE ReserveLost(m)
    BY <1>14 DEF ReserveLost, Continue, To, ReserveScript, ReserveReply
  <1>15. CASE RedisCallFails(m)
    BY <1>15 DEF RedisCallFails, Return, To, Quiet
  <1>16. CASE LoadFails(m)
    BY <1>16 DEF LoadFails, Return, To, Quiet
  <1>17. CASE EnqueueLost(m)
    BY <1>17 DEF EnqueueLost, Continue, To, InsertOutbox
  <1>18. CASE EnqueueFails(m)
    BY <1>18 DEF EnqueueFails, Continue, To, Quiet
  <1> HIDE DEF ApiAction, storeVars, dbVars, apiVars, adminVars,
               dispatcherVars, workerVars, NoFault, Fault
  <1> QED
    BY <1>1, <1>2, <1>3, <1>4, <1>5, <1>6, <1>7, <1>8, <1>9, <1>10, <1>11,
       <1>12, <1>13, <1>14, <1>15, <1>16, <1>17, <1>18
    DEF RequestStep, RequestFault, ApiAction

\* A step of a worker adds no reservation, leaves the outbox alone, and changes only the row of its message.
LEMMA WorkerRows ==
  ASSUME IInv,
         NEW w \in Workers,
         WorkerAction(WorkerStep(w) \/ SendReturns(w) \/ WorkerFault(w))
  PROVE  /\ reserved' \subseteq reserved /\ UNCHANGED outbox
         /\ \A n \in Messages : status'[n] = status[n] \/
               /\ n = wmsg[w] /\ wpc[w] \in {"create", "debit", "mark"}
               /\ status[n] \in Terminal => status'[n] \in Terminal
  <1> USE DEF IInv, TypeOK, WorkerAction, storeVars, dbVars, apiVars,
              adminVars, dispatcherVars, workerVars, NoFault, Fault
  <1>1. CASE \E m \in Messages : Receive(w, m)
    BY <1>1 DEF Receive, Deliver
  <1>2. CASE FindDelivery(w)
    BY <1>2 DEF FindDelivery, Goto
  <1>3. CASE CreateDelivery(w)
    BY <1>3 DEF CreateDelivery, Goto, SetStatus
  <1>4. CASE CreateConflict(w)
    BY <1>4 DEF CreateConflict, Nack, Free, Requeue
  <1>5. CASE CheckDeadline(w)
    BY <1>5 DEF CheckDeadline, Goto
  <1>6. CASE IsReserved(w)
    BY <1>6 DEF IsReserved, Goto
  <1>7. CASE StartSend(w)
    BY <1>7 DEF StartSend, Goto
  <1>8. CASE SendReturns(w)
    BY <1>8 DEF SendReturns, Goto
  <1>9. CASE DebitDelivered(w)
    BY <1>9 DEF DebitDelivered, Goto, Debit, CanAfford, DeductAndRecord,
                SetStatus
  <1>10. CASE DebitRefused(w)
    BY <1>10 DEF DebitRefused, Goto
  <1>11. CASE RefundReservation(w)
    BY <1>11 DEF RefundReservation, Goto, RefundScript, IncrBy
  <1>12. CASE MarkRefunded(w)
    BY <1>12 DEF MarkRefunded, Goto, SetStatus
  <1>13. CASE CommitReservation(w)
    BY <1>13 DEF CommitReservation, Goto, CommitScript
  <1>14. CASE Ack(w)
    BY <1>14 DEF Ack, Free
  <1>15. CASE DebitFails(w)
    BY <1>15 DEF DebitFails, Goto
  <1>16. CASE DebitLost(w)
    BY <1>16 DEF DebitLost, Goto, Debit, CanAfford, DeductAndRecord, SetStatus
  <1>17. CASE DbCallFails(w)
    BY <1>17 DEF DbCallFails, Nack, Free, Requeue
  <1>18. CASE RedisCallErrs(w)
    BY <1>18 DEF RedisCallErrs, Nack, Free, Requeue
  <1>19. CASE CreateLost(w)
    BY <1>19 DEF CreateLost, SetStatus, Nack, Free, Requeue
  <1>20. CASE MarkLost(w)
    BY <1>20 DEF MarkLost, SetStatus, Nack, Free, Requeue
  <1>21. CASE RefundLost(w)
    BY <1>21 DEF RefundLost, RefundScript, IncrBy, Nack, Free, Requeue
  <1>22. CASE CommitLost(w)
    BY <1>22 DEF CommitLost, CommitScript, Nack, Free, Requeue
  <1>23. CASE WorkerCrash(w)
    BY <1>23 DEF WorkerCrash, Nack, Free, Requeue
  <1>24. CASE ConnLoss(w)
    BY <1>24 DEF ConnLoss, Requeue
  <1> HIDE DEF IInv, TypeOK, WorkerAction, storeVars, dbVars, apiVars,
               adminVars, dispatcherVars, workerVars, NoFault, Fault
  <1> QED
    BY <1>1, <1>2, <1>3, <1>4, <1>5, <1>6, <1>7, <1>8, <1>9, <1>10, <1>11,
       <1>12, <1>13, <1>14, <1>15, <1>16, <1>17, <1>18, <1>19, <1>20, <1>21,
       <1>22, <1>23, <1>24
    DEF WorkerStep, WorkerFault, WorkerAction

-----------------------------------------------------------------------------
(* Answers.                                                                *)

\* A step of a request in the API keeps AnswersInv.
LEMMA ApiAnswers ==
  ASSUME IInv,
         AnswersInv,
         NEW m \in Messages,
         ApiAction(RequestStep(m) \/ RequestFault(m))
  PROVE  AnswersInv'
  <1> USE DEF IInv, TypeOK, ApiStates, InService, Answered, Refused,
              WorkerStates, OutboxComesFirst, BeforeEnqueue, AnswersInv,
              AnswersAreTrue, ApiAction, storeVars, dbVars, apiVars,
              adminVars, dispatcherVars, workerVars, NoFault, Fault
  <1>1. CASE RejectInvalid(m)
    BY <1>1 DEF RejectInvalid, Continue, To, Quiet
  <1>2. CASE Admit(m)
    BY <1>2 DEF Admit, To, Quiet
  <1>3. CASE RejectOverload(m)
    BY <1>3 DEF RejectOverload, Continue, To, Quiet
  <1>4. CASE Lookup(m)
    BY <1>4 DEF Lookup, Continue, To, Quiet
  <1>5. CASE LookupFails(m)
    BY <1>5 DEF LookupFails, Return, To, Quiet
  <1>6. CASE Reserve(m)
    BY <1>6 DEF Reserve, Continue, To, ReserveScript, ReserveReply
  <1>7. CASE ReserveExists(m)
    BY <1>7 DEF ReserveExists, Return, To, Quiet
  <1>8. CASE ReserveInsufficient(m)
    BY <1>8 DEF ReserveInsufficient, Return, To, Quiet, ReserveReply
  <1>9. CASE ReserveUninitialised(m)
    BY <1>9 DEF ReserveUninitialised, Continue, To, Quiet
  <1>10. CASE LoadBalance(m)
    BY <1>10 DEF LoadBalance, Continue, To
  <1>11. CASE InitBalanceKey(m)
    BY <1>11 DEF InitBalanceKey, Continue, To, SetNX
  <1>12. CASE Enqueue(m)
    BY <1>12 DEF Enqueue, Return, To, InsertOutbox
  <1>13. CASE RefundRejected(m)
    BY <1>13 DEF RefundRejected, Return, To, RefundScript, IncrBy
  <1>14. CASE ReserveLost(m)
    BY <1>14 DEF ReserveLost, Continue, To, ReserveScript, ReserveReply
  <1>15. CASE RedisCallFails(m)
    BY <1>15 DEF RedisCallFails, Return, To, Quiet
  <1>16. CASE LoadFails(m)
    BY <1>16 DEF LoadFails, Return, To, Quiet
  <1>17. CASE EnqueueLost(m)
    BY <1>17 DEF EnqueueLost, Continue, To, InsertOutbox
  <1>18. CASE EnqueueFails(m)
    BY <1>18 DEF EnqueueFails, Continue, To, Quiet
  <1> HIDE DEF IInv, TypeOK, ApiStates, InService, Answered, Refused,
               WorkerStates, OutboxComesFirst, BeforeEnqueue, AnswersInv,
               AnswersAreTrue, ApiAction, storeVars, dbVars, apiVars,
               adminVars, dispatcherVars, workerVars, NoFault, Fault
  <1> QED
    BY <1>1, <1>2, <1>3, <1>4, <1>5, <1>6, <1>7, <1>8, <1>9, <1>10, <1>11,
       <1>12, <1>13, <1>14, <1>15, <1>16, <1>17, <1>18
    DEF RequestStep, RequestFault, ApiAction

-----------------------------------------------------------------------------
(* The steps of the system.                                                *)

\* Every step of the gateway keeps IInv.
LEMMA NextIInv == IInv /\ [Next]_vars => IInv'
  <1> SUFFICES ASSUME IInv, [Next]_vars PROVE IInv'
    OBVIOUS
  <1>0. TypeOK
    BY DEF IInv
  <1>1. CASE \E m \in Messages : ApiAction(RequestStep(m) \/ RequestFault(m))
    BY <1>0, <1>1, ApiType, ApiIInv DEF IInv
  <1>2. CASE ApiAction(ApiCrash)
    BY <1>0, <1>2, ApiCrashType, ApiCrashIInv DEF IInv
  <1>3. CASE \E t \in TopUps : AdminAction(TopUpStep(t) \/ TopUpFault(t))
    BY <1>0, <1>3, AdminType, AdminIInv DEF IInv
  <1>4. CASE DispatcherAction(DispatcherStep \/ DispatcherFault)
    BY <1>0, <1>4, DispatcherType, DispatcherIInv DEF IInv
  <1>5. CASE \E w \in Workers :
               WorkerAction(WorkerStep(w) \/ SendReturns(w) \/ WorkerFault(w))
    BY <1>0, <1>5, WorkerType, WorkerIInv DEF IInv
  <1>6. CASE \E m \in Messages : WorkerAction(DeadlinePasses(m) \/ FetchedReturned(m))
    BY <1>0, <1>6, DeadlineType, DeadlineIInv DEF IInv
  <1>7. CASE RedisFlush /\ UNCHANGED <<dbVars, brokerVars, apiVars, adminVars,
                                       dispatcherVars, workerVars>>
    BY <1>0, <1>7, FlushType, FlushIInv DEF IInv
  <1>8. CASE UNCHANGED vars
    BY <1>8 DEF vars, storeVars, dbVars, apiVars, adminVars, dispatcherVars,
                workerVars, IInv, TypeOK, OutboxComesFirst, SettledBeforeAck,
                TerminalRowsAreBacked, CopyUntilSettled, Settled, Held
  <1> QED
    BY <1>1, <1>2, <1>3, <1>4, <1>5, <1>6, <1>7, <1>8 DEF Next, Quiescent

\* Without duplicating faults every step also keeps OneCopy and ChargedOnce.
LEMMA NextSingle ==
  ASSUME NoDuplicatingFaults, SingleCopyInv, [Next]_vars
  PROVE  SingleCopyInv'
  <1>0. IInv'
    BY NextIInv DEF SingleCopyInv
  <1>1. CASE \E m \in Messages : ApiAction(RequestStep(m) \/ RequestFault(m))
    BY <1>0, <1>1, ApiSingle DEF SingleCopyInv
  <1>2. CASE ApiAction(ApiCrash)
    BY <1>0, <1>2, ApiCrashSingle DEF SingleCopyInv
  <1>3. CASE \E t \in TopUps : AdminAction(TopUpStep(t) \/ TopUpFault(t))
    BY <1>0, <1>3, AdminSingle DEF SingleCopyInv
  <1>4. CASE DispatcherAction(DispatcherStep \/ DispatcherFault)
    BY <1>0, <1>4, DispatcherSingle DEF SingleCopyInv
  <1>5. CASE \E w \in Workers :
               WorkerAction(WorkerStep(w) \/ SendReturns(w) \/ WorkerFault(w))
    BY <1>0, <1>5, WorkerSingle DEF SingleCopyInv
  <1>6. CASE \E m \in Messages : WorkerAction(DeadlinePasses(m) \/ FetchedReturned(m))
    BY <1>0, <1>6, DeadlineSingle DEF SingleCopyInv
  <1>7. CASE RedisFlush /\ UNCHANGED <<dbVars, brokerVars, apiVars, adminVars,
                                       dispatcherVars, workerVars>>
    BY <1>0, <1>7, FlushSingle DEF SingleCopyInv
  <1>8. CASE UNCHANGED vars
    BY <1>0, <1>8 DEF vars, dbVars, dispatcherVars, workerVars, SingleCopyInv,
                      OneCopy, ChargedOnce
  <1> QED
    BY <1>1, <1>2, <1>3, <1>4, <1>5, <1>6, <1>7, <1>8 DEF Next, Quiescent

\* What a step may do to the rows and the reservations: only a request that is
\* about to reserve gains a reservation, and only a worker changes a row.
LEMMA NextRows ==
  ASSUME IInv, [Next]_vars, NEW n \in Messages
  PROVE  /\ n \in reserved' => n \in reserved \/ api[n] = "reserve"
         /\ status'[n] = status[n] \/
               \E w \in Workers :
                 /\ n = wmsg[w] /\ wpc[w] \in {"create", "debit", "mark"}
                 /\ status[n] \in Terminal => status'[n] \in Terminal
  <1> USE DEF storeVars, dbVars
  <1>1. CASE \E m \in Messages : ApiAction(RequestStep(m) \/ RequestFault(m))
    BY <1>1, ApiRows
  <1>2. CASE ApiAction(ApiCrash)
    BY <1>2 DEF ApiAction, ApiCrash, Quiet
  <1>3. CASE \E t \in TopUps : AdminAction(TopUpStep(t) \/ TopUpFault(t))
    BY <1>3 DEF AdminAction, TopUpStep, TopUpCredit, TopUpPublish, TopUpFault,
                TopUpPublishFails, TopUpPublishLost, SetAvailable
  <1>4. CASE DispatcherAction(DispatcherStep \/ DispatcherFault)
    BY <1>4 DEF DispatcherAction, DispatcherStep, SelectBatch, PublishRow,
                ConfirmRow, ConfirmRefused, DispatcherFault, PublishRefused,
                DispatcherStop
  <1>5. CASE \E w \in Workers :
               WorkerAction(WorkerStep(w) \/ SendReturns(w) \/ WorkerFault(w))
    BY <1>5, WorkerRows
  <1>6. CASE \E m \in Messages : WorkerAction(DeadlinePasses(m) \/ FetchedReturned(m))
    BY <1>6 DEF WorkerAction, DeadlinePasses, FetchedReturned, workerVars
  <1>7. CASE RedisFlush /\ UNCHANGED <<dbVars, brokerVars, apiVars, adminVars,
                                       dispatcherVars, workerVars>>
    BY <1>7 DEF RedisFlush
  <1>8. CASE UNCHANGED vars
    BY <1>8 DEF vars
  <1> QED
    BY <1>1, <1>2, <1>3, <1>4, <1>5, <1>6, <1>7, <1>8 DEF Next, Quiescent

\* Every step keeps AnswersInv: beside the API itself, no step changes what a
\* client was told, adds a reservation or a row.
LEMMA NextAnswers ==
  ASSUME IInv, AnswersInv, [Next]_vars
  PROVE  AnswersInv'
  <1> USE DEF AnswersInv, AnswersAreTrue, storeVars, dbVars, apiVars, OutboxStates
  <1>1. CASE \E m \in Messages : ApiAction(RequestStep(m) \/ RequestFault(m))
    BY <1>1, ApiAnswers
  <1>2. CASE ApiAction(ApiCrash)
    BY <1>2 DEF ApiAction, ApiCrash, Quiet, InService, Refused, IInv, TypeOK
  <1>3. CASE \E t \in TopUps : AdminAction(TopUpStep(t) \/ TopUpFault(t))
    BY <1>3 DEF AdminAction, TopUpStep, TopUpCredit, TopUpPublish, TopUpFault,
                TopUpPublishFails, TopUpPublishLost, SetAvailable
  <1>4. CASE DispatcherAction(DispatcherStep \/ DispatcherFault)
    BY <1>4 DEF DispatcherAction, DispatcherStep, SelectBatch, PublishRow,
                ConfirmRow, ConfirmRefused, DispatcherFault, PublishRefused,
                DispatcherStop, IInv, TypeOK, OutboxComesFirst
  <1>5. CASE \E w \in Workers :
               WorkerAction(WorkerStep(w) \/ SendReturns(w) \/ WorkerFault(w))
    <2>1. UNCHANGED <<api, outbox>> /\ reserved' \subseteq reserved
      BY <1>5, WorkerRows DEF WorkerAction
    <2> QED
      BY <2>1
  <1>6. CASE \E m \in Messages : WorkerAction(DeadlinePasses(m) \/ FetchedReturned(m))
    BY <1>6 DEF WorkerAction, DeadlinePasses, FetchedReturned, workerVars
  <1>7. CASE RedisFlush /\ UNCHANGED <<dbVars, brokerVars, apiVars, adminVars,
                                       dispatcherVars, workerVars>>
    BY <1>7 DEF RedisFlush
  <1>8. CASE UNCHANGED vars
    BY <1>8 DEF vars
  <1> QED
    BY <1>1, <1>2, <1>3, <1>4, <1>5, <1>6, <1>7, <1>8 DEF Next, Quiescent

-----------------------------------------------------------------------------
(* The theorems.                                                           *)

\* IInv is an invariant of the gateway, for every delivery limit of the queues.
THEOREM Invariance == Spec => []IInv
  <1>1. Init => IInv
    BY InitHolds DEF SingleCopyInv
  <1> QED
    BY <1>1, NextIInv, PTL DEF Spec

\* Every variable keeps its type; in particular the wallet balance is never
\* negative and the Redis credit is never below zero.
THEOREM TypeCorrect == Spec => []TypeOK
  <1>1. IInv => TypeOK
    BY DEF IInv
  <1> QED
    BY <1>1, Invariance, PTL

\* Under every fault of the model, a message whose outbox row exists is to be
\* published, queued, held by a connected worker, or settled, until its copies
\* have come back more often than the delivery limit of the queues.
THEOREM MessagesAreNotLost == Spec => []NoLostMessage
  <1>1. IInv => NoLostMessage
    BY DEF IInv, TypeOK, CopyUntilSettled, NoLostMessage, InFlight
  <1> QED
    BY <1>1, Invariance, PTL

\* Under every fault, Commit only drops a reservation whose message is charged.
THEOREM CommitIsPaid == Spec => []CommitReleasesPaidCredit
  <1>1. IInv => CommitReleasesPaidCredit
    BY DEF IInv, TypeOK, TerminalRowsAreBacked, SettledBeforeAck,
           CommitReleasesPaidCredit
  <1> QED
    BY <1>1, Invariance, PTL

\* Under every fault and with any number of copies, a settled message stays
\* settled.
THEOREM SettledForever == Spec => SettledIsStable
  <1>1. IInv /\ [Next]_vars =>
          [\A m \in Messages : Settled(m) => Settled(m)']_vars
    <2> SUFFICES ASSUME IInv, [Next]_vars, NEW m \in Messages, Settled(m)
                 PROVE  Settled(m)'
      OBVIOUS
    <2>1. api[m] # "reserve"
      BY DEF IInv, OutboxComesFirst, BeforeEnqueue, Settled
    <2> QED
      BY <2>1, NextRows DEF Settled
  <1> QED
    BY <1>1, Invariance, PTL DEF Spec, SettledIsStable

\* Under every fault, a client that was refused holds no credit and has no
\* outbox row, and one that was told 202 has its row.
THEOREM ClientsAreToldTheTruth == Spec => []AnswersAreTrue
  <1>1. Init => IInv /\ AnswersInv
    <2>1. Init => AnswersInv
      BY DEF Init, InitWallets, AnswersInv, AnswersAreTrue, Refused
    <2> QED
      BY <2>1, InitHolds DEF SingleCopyInv
  <1>2. IInv /\ AnswersInv /\ [Next]_vars => IInv' /\ AnswersInv'
    BY NextIInv, NextAnswers
  <1>3. AnswersInv => AnswersAreTrue
    BY DEF AnswersInv
  <1> QED
    BY <1>1, <1>2, <1>3, PTL DEF Spec

\* When no fault duplicates a message or hides the outcome of a debit,
\* DebitReserved charges a message at most once.
THEOREM ChargedAtMostOnce ==
  ASSUME NoDuplicatingFaults
  PROVE  Spec => []AtMostOneDebit
  <1>1. SingleCopyInv => AtMostOneDebit
    <2> SUFFICES ASSUME ChargedOnce, NEW m \in Messages PROVE debits[m] <= 1
      BY DEF SingleCopyInv, AtMostOneDebit
    <2>1. debits[m] = 0 \/ debits[m] = 1
      BY DEF ChargedOnce
    <2> QED
      BY <2>1
  <1>2. SingleCopyInv /\ [Next]_vars => SingleCopyInv'
    BY NextSingle
  <1> QED
    BY <1>1, <1>2, InitHolds, PTL DEF Spec

\* Under the same faults a message that the delivery inbox records as refunded
\* was not charged.
THEOREM RefundedNotCharged ==
  ASSUME NoDuplicatingFaults
  PROVE  Spec => []RefundedIsNotCharged
  <1>1. SingleCopyInv => RefundedIsNotCharged
    BY DEF SingleCopyInv, ChargedOnce, RefundedIsNotCharged
  <1>2. SingleCopyInv /\ [Next]_vars => SingleCopyInv'
    BY NextSingle
  <1> QED
    BY <1>1, <1>2, InitHolds, PTL DEF Spec

\* Under the same faults the status of a terminal row never changes.
THEOREM TerminalForever ==
  ASSUME NoDuplicatingFaults
  PROVE  Spec => TerminalIsFinal
  <1>1. SingleCopyInv /\ [Next]_vars => SingleCopyInv'
    BY NextSingle
  <1>2. SingleCopyInv /\ [Next]_vars =>
          [\A m \in Messages : status[m] \in Terminal => status'[m] = status[m]]_vars
    BY NextRows DEF SingleCopyInv, ChargedOnce
  <1> QED
    BY <1>1, <1>2, InitHolds, PTL DEF Spec, TerminalIsFinal
=============================================================================
