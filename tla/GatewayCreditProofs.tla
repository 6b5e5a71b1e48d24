------------------------ MODULE GatewayCreditProofs ------------------------
(***************************************************************************)
(* Proofs that count: the slots of the API and the credit of a wallet, for *)
(* any number of requests, wallets and workers.                            *)
(*                                                                         *)
(* SlotsInv adds to SlotsMatchRequests that the sets it counts are finite. *)
(* CreditInv holds where CreditIsSafe: CreditConserved alone is not        *)
(* inductive, because a debit lowers the balance whatever Redis holds, so  *)
(* the proof must know that the message of a worker that debits is still   *)
(* reserved (ReservationsAreBacked), that what is refunded was not charged *)
(* (ChargedOnce), that what is committed was (TerminalRowsAreBacked), and  *)
(* that a balance loaded for a missing key is not stale.  The money moves  *)
(* in five ways; a lemma for each shows that the sum is kept, and a lemma  *)
(* for each component that its steps move money in no other way.           *)
(***************************************************************************)
EXTENDS SmsGatewayProofs, FiniteSetTheorems

-----------------------------------------------------------------------------
(* Slots.                                                                  *)

\* A step of a request touches no other request, and takes a slot when it
\* enters service, returns one when it leaves and leaves the slots alone
\* otherwise.
LEMMA ApiSlots ==
  ASSUME TypeOK,
         NEW m \in Messages,
         ApiAction(RequestStep(m) \/ RequestFault(m))
  PROVE  /\ \A n \in Messages \ {m} : api'[n] = api[n]
         /\ \/ /\ UNCHANGED slots
               /\ api'[m] \in InService <=> api[m] \in InService
            \/ /\ slots[LineOf[m]] < Limit[LineOf[m]]
               /\ slots' = [slots EXCEPT ![LineOf[m]] = @ + 1]
               /\ api[m] \notin InService /\ api'[m] \in InService
            \/ /\ slots' = [slots EXCEPT ![LineOf[m]] = @ - 1]
               /\ api[m] \in InService /\ api'[m] \notin InService
  <1> USE DEF TypeOK, ApiStates, InService, Answered, Refused, ApiAction,
              Continue, Return, To
  <1>1. CASE RejectInvalid(m)
    BY <1>1 DEF RejectInvalid
  <1>2. CASE Admit(m)
    BY <1>2 DEF Admit
  <1>3. CASE RejectOverload(m)
    BY <1>3 DEF RejectOverload
  <1>4. CASE Lookup(m)
    BY <1>4 DEF Lookup
  <1>5. CASE LookupFails(m)
    BY <1>5 DEF LookupFails
  <1>6. CASE Reserve(m)
    BY <1>6 DEF Reserve
  <1>7. CASE ReserveExists(m)
    BY <1>7 DEF ReserveExists
  <1>8. CASE ReserveInsufficient(m)
    BY <1>8 DEF ReserveInsufficient
  <1>9. CASE ReserveUninitialised(m)
    BY <1>9 DEF ReserveUninitialised
  <1>10. CASE LoadBalance(m)
    BY <1>10 DEF LoadBalance
  <1>11. CASE InitBalanceKey(m)
    BY <1>11 DEF InitBalanceKey
  <1>12. CASE Enqueue(m)
    BY <1>12 DEF Enqueue
  <1>13. CASE RefundRejected(m)
    BY <1>13 DEF RefundRejected
  <1>14. CASE ReserveLost(m)
    BY <1>14 DEF ReserveLost
  <1>15. CASE RedisCallFails(m)
    BY <1>15 DEF RedisCallFails
  <1>16. CASE LoadFails(m)
    BY <1>16 DEF LoadFails
  <1>17. CASE EnqueueLost(m)
    BY <1>17 DEF EnqueueLost
  <1>18. CASE EnqueueFails(m)
    BY <1>18 DEF EnqueueFails
  <1> HIDE DEF TypeOK, ApiStates, InService, Answered, Refused, ApiAction,
               Continue, Return, To
  <1> QED
    BY <1>1, <1>2, <1>3, <1>4, <1>5, <1>6, <1>7, <1>8, <1>9, <1>10, <1>11,
       <1>12, <1>13, <1>14, <1>15, <1>16, <1>17, <1>18
    DEF RequestStep, RequestFault, ApiAction

\* A step of a request keeps SlotsInv.
LEMMA ApiSlotsInv ==
  ASSUME TypeOK, SlotsInv,
         NEW m \in Messages,
         ApiAction(RequestStep(m) \/ RequestFault(m))
  PROVE  SlotsInv'
  <1> SUFFICES ASSUME NEW l \in Lines
               PROVE  /\ slots'[l] = Cardinality(Serving(l)') /\ slots'[l] <= Limit[l]
                      /\ IsFiniteSet(Serving(l)')
    BY DEF SlotsInv, SlotsMatchRequests
  <1>1. /\ slots[l] = Cardinality(Serving(l)) /\ slots[l] <= Limit[l]
        /\ IsFiniteSet(Serving(l)) /\ Limit[l] \in Nat
        /\ slots \in [Lines -> Int] /\ LineOf[m] \in Lines
    BY LimitAssumption, BaseAssumption DEF SlotsInv, SlotsMatchRequests, TypeOK
  <1>2. \A n \in Messages \ {m} : n \in Serving(l)' <=> n \in Serving(l)
    BY ApiSlots DEF Serving
  <1>3. CASE LineOf[m] # l
    <2>1. Serving(l)' = Serving(l)
      BY <1>2, <1>3 DEF Serving
    <2>2. slots'[l] = slots[l]
      BY <1>1, <1>3, ApiSlots
    <2> QED
      BY <1>1, <2>1, <2>2
  <1>4. CASE LineOf[m] = l /\ UNCHANGED slots /\ (api'[m] \in InService <=> api[m] \in InService)
    <2>1. Serving(l)' = Serving(l)
      BY <1>2, <1>4 DEF Serving
    <2> QED
      BY <1>1, <1>4, <2>1
  <1>5. CASE /\ LineOf[m] = l
             /\ slots[l] < Limit[l] /\ slots' = [slots EXCEPT ![l] = @ + 1]
             /\ api[m] \notin InService /\ api'[m] \in InService
    <2>1. Serving(l)' = Serving(l) \cup {m} /\ m \notin Serving(l)
      BY <1>2, <1>5 DEF Serving
    <2>2. IsFiniteSet(Serving(l)') /\ Cardinality(Serving(l)') = slots[l] + 1
      BY <1>1, <2>1, FS_AddElement
    <2> QED
      BY <1>1, <1>5, <2>2
  <1>6. CASE /\ LineOf[m] = l
             /\ slots' = [slots EXCEPT ![l] = @ - 1]
             /\ api[m] \in InService /\ api'[m] \notin InService
    <2>1. Serving(l)' = Serving(l) \ {m} /\ m \in Serving(l)
      BY <1>2, <1>6 DEF Serving
    <2>2. IsFiniteSet(Serving(l)') /\ Cardinality(Serving(l)') = slots[l] - 1
      BY <1>1, <2>1, FS_RemoveElement
    <2> QED
      BY <1>1, <1>6, <2>2
  <1> QED
    BY <1>3, <1>4, <1>5, <1>6, ApiSlots

\* Every step of the gateway keeps SlotsInv.
LEMMA NextSlots == TypeOK /\ SlotsInv /\ [Next]_vars => SlotsInv'
  <1> SUFFICES ASSUME TypeOK, SlotsInv, [Next]_vars PROVE SlotsInv'
    OBVIOUS
  <1>1. CASE \E m \in Messages : ApiAction(RequestStep(m) \/ RequestFault(m))
    BY <1>1, ApiSlotsInv
  <1>2. CASE ApiAction(ApiCrash)
    <2>1. \A l \in Lines : Serving(l)' = {} /\ slots'[l] = 0
      BY <1>2 DEF ApiAction, ApiCrash, Serving, InService
    <2> QED
      BY <2>1, FS_EmptySet, LimitAssumption DEF SlotsInv, SlotsMatchRequests
  <1>3. CASE UNCHANGED apiVars
    BY <1>3 DEF apiVars, SlotsInv, SlotsMatchRequests, Serving
  <1> QED
    BY <1>1, <1>2, <1>3
    DEF Next, AdminAction, DispatcherAction, WorkerAction, Quiescent, vars

\* Under every fault a slot is taken by exactly the requests in service, and
\* no line serves more requests than its limit.
THEOREM SlotsAreExact == Spec => []SlotsMatchRequests
  <1>1. Init => SlotsInv
    <2> SUFFICES ASSUME Init PROVE SlotsInv
      OBVIOUS
    <2>1. \A l \in Lines : Serving(l) = {} /\ slots[l] = 0
      BY DEF Init, Serving, InService
    <2> QED
      BY <2>1, FS_EmptySet, LimitAssumption DEF SlotsInv, SlotsMatchRequests
  <1>2. SlotsInv => SlotsMatchRequests
    BY DEF SlotsInv
  <1> QED
    BY <1>1, <1>2, NextSlots, TypeCorrect, PTL DEF Spec

-----------------------------------------------------------------------------
(* The price of a set of messages.                                         *)

\* The messages of a set on one line.
OnLine(S, l) == {m \in S : LineOf[m] = l}

\* Multiplying out.
LEMMA OneMore == \A c \in Nat, n \in Nat : c * (n + 1) = c * n + c /\ c * n \in Nat
  OBVIOUS

\* A finite set of messages has a price.
LEMMA TotalCostType ==
  ASSUME NEW S \in SUBSET Messages, IsFiniteSet(S)
  PROVE  TotalCost(S) \in Nat
  <1>1. ASSUME NEW l \in Lines
        PROVE  Cardinality(OnLine(S, l)) \in Nat /\ Cost[l] \in Nat
    <2>1. IsFiniteSet(OnLine(S, l))
      BY FS_Subset DEF OnLine
    <2> QED
      BY <2>1, FS_CardinalityType, BaseAssumption
  <1>2. \A l \in Lines : Cost[l] * Cardinality(OnLine(S, l)) \in Nat
    BY <1>1, OneMore
  <1> QED
    BY <1>2 DEF TotalCost, OnLine, Lines

\* One message more adds its own price.
LEMMA TotalCostAdd ==
  ASSUME NEW S \in SUBSET Messages, IsFiniteSet(S), NEW m \in Messages \ S
  PROVE  TotalCost(S \cup {m}) = TotalCost(S) + CostOf(m)
  <1>1. ASSUME NEW l \in Lines
        PROVE  /\ Cardinality(OnLine(S, l)) \in Nat /\ Cost[l] \in Nat
               /\ Cardinality(OnLine(S \cup {m}, l)) =
                    IF LineOf[m] = l THEN Cardinality(OnLine(S, l)) + 1
                    ELSE Cardinality(OnLine(S, l))
    <2>1. IsFiniteSet(OnLine(S, l))
      BY FS_Subset DEF OnLine
    <2>2. CASE LineOf[m] = l
      <3>1. OnLine(S \cup {m}, l) = OnLine(S, l) \cup {m} /\ m \notin OnLine(S, l)
        BY <2>2 DEF OnLine
      <3> QED
        BY <2>1, <2>2, <3>1, FS_AddElement, FS_CardinalityType, BaseAssumption
    <2>3. CASE LineOf[m] # l
      <3>1. OnLine(S \cup {m}, l) = OnLine(S, l)
        BY <2>3 DEF OnLine
      <3> QED
        BY <2>1, <2>3, <3>1, FS_CardinalityType, BaseAssumption
    <2> QED
      BY <2>2, <2>3
  <1>2. ASSUME NEW l \in Lines
        PROVE  /\ Cost[l] * Cardinality(OnLine(S, l)) \in Nat
               /\ Cost[l] * Cardinality(OnLine(S \cup {m}, l)) =
                    IF LineOf[m] = l THEN Cost[l] * Cardinality(OnLine(S, l)) + Cost[l]
                    ELSE Cost[l] * Cardinality(OnLine(S, l))
    BY <1>1, OneMore
  <1>3. LineOf[m] = "express" \/ LineOf[m] = "normal"
    BY BaseAssumption DEF Lines
  <1>4. /\ "express" \in Lines /\ "normal" \in Lines
        /\ Cost["express"] \in Nat /\ Cost["normal"] \in Nat
    BY BaseAssumption DEF Lines
  <1>5. \A T : TotalCost(T) = Cost["express"] * Cardinality(OnLine(T, "express"))
                                + Cost["normal"] * Cardinality(OnLine(T, "normal"))
    BY DEF TotalCost, OnLine
  <1> DEFINE E == Cost["express"] * Cardinality(OnLine(S, "express"))
             F == Cost["normal"] * Cardinality(OnLine(S, "normal"))
  <1>6. E \in Nat /\ F \in Nat /\ TotalCost(S) = E + F
    BY <1>2, <1>4, <1>5
  <1>7. CASE LineOf[m] = "express"
    <2>1. TotalCost(S \cup {m}) = (E + Cost["express"]) + F
      BY <1>2, <1>4, <1>5, <1>7
    <2> HIDE DEF E, F
    <2> QED
      BY <1>4, <1>6, <1>7, <2>1 DEF CostOf
  <1>8. CASE LineOf[m] = "normal"
    <2>1. TotalCost(S \cup {m}) = E + (F + Cost["normal"])
      BY <1>2, <1>4, <1>5, <1>8
    <2> HIDE DEF E, F
    <2> QED
      BY <1>4, <1>6, <1>8, <2>1 DEF CostOf
  <1> QED
    BY <1>3, <1>7, <1>8

\* A message of the set is part of its price.
LEMMA TotalCostRemove ==
  ASSUME NEW S \in SUBSET Messages, IsFiniteSet(S), NEW m \in S
  PROVE  /\ TotalCost(S) = TotalCost(S \ {m}) + CostOf(m)
         /\ TotalCost(S \ {m}) \in Nat
  <1>1. IsFiniteSet(S \ {m}) /\ (S \ {m}) \cup {m} = S
    BY FS_RemoveElement
  <1>2. TotalCost((S \ {m}) \cup {m}) = TotalCost(S \ {m}) + CostOf(m)
    BY <1>1, TotalCostAdd
  <1> QED
    BY <1>1, <1>2, TotalCostType

\* Nothing costs nothing.
LEMMA TotalCostEmpty == TotalCost({}) = 0
  <1>1. \A l \in Lines : Cost[l] \in Nat
    BY BaseAssumption
  <1>2. \A l : Cardinality(OnLine({}, l)) = 0
    <2>1. \A l : OnLine({}, l) = {}
      BY DEF OnLine
    <2> QED
      BY <2>1, FS_EmptySet
  <1>3. TotalCost({}) = Cost["express"] * Cardinality(OnLine({}, "express"))
                          + Cost["normal"] * Cardinality(OnLine({}, "normal"))
    BY DEF TotalCost, OnLine
  <1>4. Cost["express"] \in Nat /\ Cost["normal"] \in Nat
    BY BaseAssumption DEF Lines
  <1> QED
    BY <1>2, <1>3, <1>4

-----------------------------------------------------------------------------
(* How the money moves.                                                    *)

\* The part of CreditInv about money.
MoneyInv ==
    /\ CreditConserved
    /\ IsFiniteSet(reserved)
    /\ \A m \in Messages : m \in reserved => available[WalletOf[m]] # Uninitialised

\* No balance key goes away, and a balance only changes under its key.
KeysStay ==
    \A w \in Wallets : available'[w] = Uninitialised =>
        available[w] = Uninitialised /\ balance'[w] = balance[w]

\* What all moves rely on.
LEMMA MoneyTypes ==
  ASSUME TypeOK, MoneyInv
  PROVE  /\ available \in [Wallets -> Nat \cup {Uninitialised}]
         /\ balance \in [Wallets -> Nat] /\ debits \in [Messages -> Nat]
         /\ reserved \in SUBSET Messages /\ IsFiniteSet(reserved)
         /\ \A w \in Wallets : /\ Undebited(w) \in SUBSET Messages
                               /\ IsFiniteSet(Undebited(w))
                               /\ Owed(w) \in Nat
         /\ \A m \in Messages : WalletOf[m] \in Wallets /\ CostOf(m) \in Nat \ {0}
         /\ Uninitialised \notin Nat
  <1>1. \A w \in Wallets : Undebited(w) \in SUBSET Messages /\ IsFiniteSet(Undebited(w))
    BY FS_Subset DEF TypeOK, MoneyInv, Undebited
  <1>2. \A w \in Wallets : Owed(w) \in Nat
    BY <1>1, TotalCostType DEF Owed
  <1>3. \A m \in Messages : WalletOf[m] \in Wallets /\ CostOf(m) \in Nat \ {0}
    BY BaseAssumption, CostPositive
  <1> QED
    BY <1>1, <1>2, <1>3 DEF TypeOK, MoneyInv, Uninitialised

\* Money does not move.
LEMMA NoMove ==
  ASSUME MoneyInv, UNCHANGED <<available, reserved, balance, debits>>
  PROVE  MoneyInv' /\ KeysStay
  BY DEF MoneyInv, CreditConserved, Owed, Undebited, KeysStay

\* Reserve moves credit from what is available to what is owed.
LEMMA MoveReserve ==
  ASSUME TypeOK, MoneyInv, NEW m \in Messages, ReserveScript(m), UNCHANGED <<balance, debits>>,
         m \notin reserved, debits[m] = 0, available[WalletOf[m]] # Uninitialised,
         available[WalletOf[m]] >= CostOf(m)
  PROVE  MoneyInv' /\ KeysStay
  <1> USE MoneyTypes
  <1>1. IsFiniteSet(reserved')
    BY FS_AddElement DEF ReserveScript
  <1>2. \A w \in Wallets : w # WalletOf[m] => available'[w] = available[w]
    BY DEF ReserveScript
  <1>3. available'[WalletOf[m]] = available[WalletOf[m]] - CostOf(m)
    BY DEF ReserveScript
  <1>4. \A w \in Wallets : available'[w] = Uninitialised <=> available[w] = Uninitialised
    BY <1>2, <1>3 DEF Uninitialised
  <1>5. ASSUME NEW w \in Wallets, available[w] # Uninitialised
        PROVE  available'[w] + Owed(w)' = balance[w]
    <2>1. available[w] + Owed(w) = balance[w]
      BY <1>5 DEF MoneyInv, CreditConserved
    <2>2. CASE w = WalletOf[m]
      <3>1. Undebited(w)' = Undebited(w) \cup {m} /\ m \notin Undebited(w)
        BY <2>2 DEF Undebited, ReserveScript
      <3>2. Owed(w)' = Owed(w) + CostOf(m)
        BY <3>1, TotalCostAdd DEF Owed
      <3> QED
        BY <1>3, <1>5, <2>1, <2>2, <3>2
    <2>3. CASE w # WalletOf[m]
      <3>1. Undebited(w)' = Undebited(w)
        BY <2>3 DEF Undebited, ReserveScript
      <3> QED
        BY <1>2, <2>1, <2>3, <3>1 DEF Owed
    <2> QED
      BY <2>2, <2>3
  <1>6. CreditConserved'
    BY <1>4, <1>5 DEF CreditConserved
  <1>7. \A n \in Messages : n \in reserved' => available'[WalletOf[n]] # Uninitialised
    BY <1>4 DEF MoneyInv, ReserveScript
  <1> QED
    BY <1>1, <1>4, <1>6, <1>7 DEF MoneyInv, KeysStay

\* Refund moves it back, unless it was refunded before.
LEMMA MoveRefund ==
  ASSUME TypeOK, MoneyInv, NEW m \in Messages, RefundScript(m), UNCHANGED <<balance, debits>>,
         debits[m] = 0
  PROVE  MoneyInv' /\ KeysStay
  <1> USE MoneyTypes
  <1>1. CASE m \notin reserved
    <2>1. reserved' = reserved /\ available' = available
      BY <1>1 DEF RefundScript
    <2> QED
      BY <2>1, NoMove
  <1>2. CASE m \in reserved
    <2>1. IsFiniteSet(reserved') /\ reserved' \subseteq reserved
      BY FS_RemoveElement DEF RefundScript
    <2>2. available[WalletOf[m]] # Uninitialised
      BY <1>2 DEF MoneyInv
    <2>3. \A w \in Wallets : w # WalletOf[m] => available'[w] = available[w]
      BY <1>2 DEF RefundScript
    <2>4. available'[WalletOf[m]] = available[WalletOf[m]] + CostOf(m)
      BY <1>2, <2>2 DEF RefundScript, IncrBy
    <2>5. \A w \in Wallets : available'[w] = Uninitialised <=> available[w] = Uninitialised
      BY <2>2, <2>3, <2>4 DEF Uninitialised
    <2>6. ASSUME NEW w \in Wallets, available[w] # Uninitialised
          PROVE  available'[w] + Owed(w)' = balance[w]
      <3>1. available[w] + Owed(w) = balance[w]
        BY <2>6 DEF MoneyInv, CreditConserved
      <3>2. CASE w = WalletOf[m]
        <4>1. Undebited(w)' = Undebited(w) \ {m} /\ m \in Undebited(w)
          BY <1>2, <3>2 DEF Undebited, RefundScript
        <4>2. Owed(w) = Owed(w)' + CostOf(m) /\ Owed(w)' \in Nat
          BY <4>1, TotalCostRemove DEF Owed
        <4> QED
          BY <2>4, <2>6, <3>1, <3>2, <4>2
      <3>3. CASE w # WalletOf[m]
        <4>1. Undebited(w)' = Undebited(w)
          BY <3>3 DEF Undebited, RefundScript
        <4> QED
          BY <2>3, <3>1, <3>3, <4>1 DEF Owed
      <3> QED
        BY <3>2, <3>3
    <2>7. CreditConserved'
      BY <2>5, <2>6 DEF CreditConserved
    <2>8. \A n \in Messages : n \in reserved' => available'[WalletOf[n]] # Uninitialised
      BY <2>1, <2>5 DEF MoneyInv
    <2> QED
      BY <2>1, <2>5, <2>7, <2>8 DEF MoneyInv, KeysStay
  <1> QED
    BY <1>1, <1>2

\* Commit drops a reservation that is owed no more.
LEMMA MoveCommit ==
  ASSUME TypeOK, MoneyInv, NEW m \in Messages, CommitScript(m), UNCHANGED <<balance, debits>>,
         m \in reserved => debits[m] # 0
  PROVE  MoneyInv' /\ KeysStay
  <1> USE MoneyTypes
  <1>1. IsFiniteSet(reserved') /\ reserved' \subseteq reserved
    BY FS_RemoveElement DEF CommitScript
  <1>2. \A w \in Wallets : Undebited(w)' = Undebited(w)
    BY DEF Undebited, CommitScript
  <1> QED
    BY <1>1, <1>2 DEF MoneyInv, CreditConserved, Owed, KeysStay, CommitScript

\* The debit of a reserved message pays what is owed for it.
LEMMA MoveDebit ==
  ASSUME TypeOK, MoneyInv, NEW m \in Messages, DeductAndRecord(m), UNCHANGED storeVars,
         m \in reserved, debits[m] = 0
  PROVE  MoneyInv' /\ KeysStay
  <1> USE MoneyTypes DEF storeVars
  <1>1. \A w \in Wallets : w # WalletOf[m] => balance'[w] = balance[w]
    BY DEF DeductAndRecord
  <1>2. balance'[WalletOf[m]] = balance[WalletOf[m]] - CostOf(m)
    BY DEF DeductAndRecord
  <1>3. debits'[m] = 1 /\ \A n \in Messages \ {m} : debits'[n] = debits[n]
    BY DEF DeductAndRecord
  <1>4. ASSUME NEW w \in Wallets, available[w] # Uninitialised
        PROVE  available[w] + Owed(w)' = balance'[w]
    <2>1. available[w] + Owed(w) = balance[w]
      BY <1>4 DEF MoneyInv, CreditConserved
    <2>2. CASE w = WalletOf[m]
      <3>1. Undebited(w)' = Undebited(w) \ {m} /\ m \in Undebited(w)
        BY <1>3, <2>2 DEF Undebited
      <3>2. Owed(w) = Owed(w)' + CostOf(m) /\ Owed(w)' \in Nat
        BY <3>1, TotalCostRemove DEF Owed
      <3> QED
        BY <1>2, <1>4, <2>1, <2>2, <3>2
    <2>3. CASE w # WalletOf[m]
      <3>1. Undebited(w)' = Undebited(w)
        BY <1>3, <2>3 DEF Undebited
      <3> QED
        BY <1>1, <2>1, <2>3, <3>1 DEF Owed
    <2> QED
      BY <2>2, <2>3
  <1>5. CreditConserved'
    BY <1>4 DEF CreditConserved
  <1>6. available[WalletOf[m]] # Uninitialised
    BY DEF MoneyInv
  <1> QED
    BY <1>1, <1>5, <1>6 DEF MoneyInv, KeysStay

\* A missing key is filled with the balance of a wallet that owes nothing.
LEMMA MoveSetNX ==
  ASSUME TypeOK, MoneyInv, NEW v \in Wallets, NEW units \in Nat, SetNX(v, units),
         UNCHANGED <<balance, debits>>,
         available[v] = Uninitialised => units = balance[v]
  PROVE  MoneyInv' /\ KeysStay
  <1> USE MoneyTypes
  <1>1. \A w \in Wallets : /\ w # v => available'[w] = available[w]
                           /\ Undebited(w)' = Undebited(w)
    BY DEF SetNX, Undebited
  <1>2. available'[v] = IF available[v] = Uninitialised THEN units ELSE available[v]
    BY DEF SetNX
  <1>3. available[v] = Uninitialised => Undebited(v) = {}
    BY DEF MoneyInv, Undebited
  <1>4. available[v] = Uninitialised => Owed(v) = 0
    BY <1>3, TotalCostEmpty DEF Owed
  <1>5. CreditConserved'
    BY <1>1, <1>2, <1>4 DEF MoneyInv, CreditConserved, Owed
  <1> QED
    BY <1>1, <1>2, <1>5 DEF MoneyInv, KeysStay, SetNX

\* A request moves money by Reserve, Refund and SETNX.
LEMMA ApiMoves ==
  ASSUME CreditInv,
         NEW m \in Messages,
         ApiAction(RequestStep(m) \/ RequestFault(m))
  PROVE  MoneyInv' /\ KeysStay /\ UNCHANGED balance
  <1>0. TypeOK /\ MoneyInv
    BY DEF CreditInv, SingleCopyInv, IInv, ReservationsAreBacked, MoneyInv
  <1>1. CASE UNCHANGED <<available, reserved, balance, debits>>
    BY <1>0, <1>1, NoMove
  <1>2. CASE /\ api[m] = "reserve" /\ ReserveReply(m) = "reserved" /\ ReserveScript(m)
             /\ UNCHANGED dbVars
    <2>1. /\ m \notin reserved /\ available[WalletOf[m]] # Uninitialised
          /\ available[WalletOf[m]] >= CostOf(m)
      BY <1>0, <1>2, MoneyTypes DEF ReserveReply
    <2>2. debits[m] = 0
      BY <1>2 DEF CreditInv, SingleCopyInv, IInv, OutboxComesFirst, BeforeEnqueue, ChargedOnce
    <2> QED
      BY <1>0, <1>2, <2>1, <2>2, MoveReserve DEF dbVars
  <1>3. CASE api[m] = "refund" /\ RefundScript(m) /\ UNCHANGED dbVars
    <2>1. debits[m] = 0
      BY <1>3 DEF CreditInv, SingleCopyInv, IInv, OutboxComesFirst, ChargedOnce,
                  ReservationsAreBacked
    <2> QED
      BY <1>0, <1>3, <2>1, MoveRefund DEF dbVars
  <1>4. CASE api[m] = "setnx" /\ SetNX(WalletOf[m], loaded[m]) /\ UNCHANGED dbVars
    <2>1. /\ available[WalletOf[m]] = Uninitialised => loaded[m] = balance[WalletOf[m]]
          /\ WalletOf[m] \in Wallets /\ loaded[m] \in Nat
      BY <1>0, <1>4, BaseAssumption DEF TypeOK, CreditInv, ReservationsAreBacked
    <2> QED
      BY <1>0, <1>4, <2>1, MoveSetNX DEF dbVars
  <1> QED
    BY <1>1, <1>2, <1>3, <1>4
    DEF ApiAction, RequestStep, RequestFault, RejectInvalid, Admit, RejectOverload,
        Lookup, LookupFails, Reserve, ReserveExists, ReserveInsufficient,
        ReserveUninitialised, LoadBalance, InitBalanceKey, Enqueue, RefundRejected,
        ReserveLost, RedisCallFails, LoadFails, EnqueueLost, EnqueueFails,
        Continue, Return, Quiet, storeVars, dbVars

\* A request refunds only before its row exists, and loads the balance before
\* it fills a missing key.
LEMMA ApiControl ==
  ASSUME CreditIsSafe, CreditInv,
         NEW m \in Messages,
         ApiAction(RequestStep(m) \/ RequestFault(m))
  PROVE  /\ \A n \in Messages \ {m} : /\ api'[n] = api[n] /\ outbox'[n] = outbox[n]
                                      /\ loaded'[n] = loaded[n]
         /\ api'[m] = "refund" => outbox'[m] = "none"
         /\ api'[m] = "setnx" => loaded'[m] = balance[WalletOf[m]]
         /\ \A n \in reserved \ {m} : n \in reserved'
         /\ m \in reserved /\ m \notin reserved' => outbox[m] = "none"
  <1>0. /\ TypeOK /\ "dbLost" \notin Faults
        /\ api[m] = "enqueue" => outbox[m] = "none"
        /\ api[m] = "refund" => outbox[m] = "none"
    BY DEF CreditIsSafe, NoDuplicatingFaults, CreditInv, SingleCopyInv, IInv,
           OutboxComesFirst, BeforeEnqueue, ReservationsAreBacked
  <1> USE <1>0 DEF TypeOK, ApiAction, Continue, Return, To, Quiet, storeVars, dbVars
  <1>1. CASE RejectInvalid(m)
    BY <1>1 DEF RejectInvalid
  <1>2. CASE Admit(m)
    BY <1>2 DEF Admit
  <1>3. CASE RejectOverload(m)
    BY <1>3 DEF RejectOverload
  <1>4. CASE Lookup(m)
    BY <1>4 DEF Lookup
  <1>5. CASE LookupFails(m)
    BY <1>5 DEF LookupFails
  <1>6. CASE Reserve(m)
    BY <1>6 DEF Reserve, ReserveScript
  <1>7. CASE ReserveExists(m)
    BY <1>7 DEF ReserveExists
  <1>8. CASE ReserveInsufficient(m)
    BY <1>8 DEF ReserveInsufficient
  <1>9. CASE ReserveUninitialised(m)
    BY <1>9 DEF ReserveUninitialised
  <1>10. CASE LoadBalance(m)
    BY <1>10 DEF LoadBalance
  <1>11. CASE InitBalanceKey(m)
    BY <1>11 DEF InitBalanceKey, SetNX
  <1>12. CASE Enqueue(m)
    BY <1>12 DEF Enqueue, InsertOutbox
  <1>13. CASE RefundRejected(m)
    BY <1>13 DEF RefundRejected, RefundScript
  <1>14. CASE ReserveLost(m)
    BY <1>14 DEF ReserveLost, ReserveScript
  <1>15. CASE RedisCallFails(m)
    BY <1>15 DEF RedisCallFails
  <1>16. CASE LoadFails(m)
    BY <1>16 DEF LoadFails
  <1>17. CASE EnqueueLost(m)
    BY <1>17 DEF EnqueueLost, Fault
  <1>18. CASE EnqueueFails(m)
    BY <1>18 DEF EnqueueFails
  <1> HIDE <1>0 DEF TypeOK, ApiAction, Continue, Return, To, Quiet, storeVars, dbVars
  <1> QED
    BY <1>1, <1>2, <1>3, <1>4, <1>5, <1>6, <1>7, <1>8, <1>9, <1>10, <1>11,
       <1>12, <1>13, <1>14, <1>15, <1>16, <1>17, <1>18
    DEF RequestStep, RequestFault, ApiAction

\* A step of a request keeps ReservationsAreBacked and CreditConserved.
LEMMA ApiCredit ==
  ASSUME CreditIsSafe, CreditInv,
         NEW m \in Messages,
         ApiAction(RequestStep(m) \/ RequestFault(m))
  PROVE  ReservationsAreBacked' /\ CreditConserved'
  <1>1. MoneyInv' /\ KeysStay /\ UNCHANGED balance
    BY ApiMoves
  <1>2. \A n \in Messages : api'[n] = "refund" => outbox'[n] = "none"
    BY ApiControl DEF CreditInv, ReservationsAreBacked
  <1>3. ASSUME NEW n \in Messages, api'[n] = "setnx", available'[WalletOf[n]] = Uninitialised
        PROVE  loaded'[n] = balance'[WalletOf[n]]
    <2>1. CASE n = m
      BY <1>1, <1>3, <2>1, ApiControl
    <2>2. CASE n # m
      <3>1. api[n] = "setnx" /\ loaded'[n] = loaded[n]
        BY <1>3, <2>2, ApiControl
      <3>2. available[WalletOf[n]] = Uninitialised
        BY <1>1, <1>3, BaseAssumption DEF KeysStay
      <3> QED
        BY <1>1, <3>1, <3>2 DEF CreditInv, ReservationsAreBacked
    <2> QED
      BY <2>1, <2>2
  <1>4. ASSUME NEW w \in Workers, wpc'[w] \in {"send", "sending", "debit"}
        PROVE  wmsg'[w] \in reserved'
    <2>1. UNCHANGED <<wpc, wmsg>>
      BY DEF ApiAction, workerVars
    <2>2. wmsg[w] \in reserved
      BY <1>4, <2>1 DEF CreditInv, ReservationsAreBacked
    <2>3. CASE wmsg[w] = m
      <3>1. outbox[m] # "none"
        BY <1>4, <2>1, <2>3 DEF CreditInv, SingleCopyInv, IInv, OutboxComesFirst
      <3> QED
        BY <2>1, <2>2, <2>3, <3>1, ApiControl
    <2>4. CASE wmsg[w] # m
      BY <2>1, <2>2, <2>4, ApiControl
    <2> QED
      BY <2>3, <2>4
  <1> QED
    BY <1>1, <1>2, <1>3, <1>4 DEF MoneyInv, ReservationsAreBacked

\* A worker moves money by Refund, Commit and the debit.
LEMMA WorkerMoves ==
  ASSUME CreditInv,
         NEW w \in Workers,
         WorkerAction(WorkerStep(w) \/ SendReturns(w) \/ WorkerFault(w))
  PROVE  MoneyInv' /\ KeysStay
  <1>0. /\ TypeOK /\ MoneyInv
        /\ wpc[w] # "idle" => wmsg[w] \in Messages
        /\ wpc[w] \in {"debit", "refund"} => status[wmsg[w]] \notin Terminal
    BY DEF CreditInv, SingleCopyInv, IInv, TypeOK, ReservationsAreBacked, ChargedOnce, MoneyInv
  <1>1. CASE UNCHANGED <<available, reserved, balance, debits>>
    BY <1>0, <1>1, NoMove
  <1>2. CASE wpc[w] = "debit" /\ Debit(wmsg[w]) /\ UNCHANGED storeVars
    <2>1. wmsg[w] \in reserved /\ wmsg[w] \in Messages /\ debits[wmsg[w]] = 0
      BY <1>0, <1>2 DEF CreditInv, SingleCopyInv, ReservationsAreBacked, ChargedOnce, Terminal
    <2> QED
      BY <1>0, <1>2, <2>1, MoveDebit DEF Debit
  <1>3. CASE wpc[w] = "refund" /\ RefundScript(wmsg[w]) /\ UNCHANGED dbVars
    <2>1. wmsg[w] \in Messages /\ debits[wmsg[w]] = 0
      BY <1>0, <1>3 DEF CreditInv, SingleCopyInv, ChargedOnce, Terminal
    <2> QED
      BY <1>0, <1>3, <2>1, MoveRefund DEF dbVars
  <1>4. CASE wpc[w] = "commit" /\ CommitScript(wmsg[w]) /\ UNCHANGED dbVars
    <2>1. wmsg[w] \in Messages /\ (wmsg[w] \in reserved => debits[wmsg[w]] # 0)
      BY <1>0, <1>4 DEF CreditInv, SingleCopyInv, IInv, ChargedOnce, SettledBeforeAck,
                        TerminalRowsAreBacked, Terminal
    <2> QED
      BY <1>0, <1>4, <2>1, MoveCommit DEF dbVars
  <1> QED
    BY <1>1, <1>2, <1>3, <1>4
    DEF WorkerAction, WorkerStep, WorkerFault, Receive, FindDelivery, CreateDelivery,
        CreateConflict, CheckDeadline, IsReserved, StartSend, SendReturns,
        DebitDelivered, DebitRefused, RefundReservation, MarkRefunded,
        CommitReservation, Ack, DebitFails, DebitLost, DbCallFails, RedisCallErrs,
        CreateLost, MarkLost, RefundLost, CommitLost, WorkerCrash, ConnLoss, Goto,
        storeVars, dbVars

\* A worker drops no reservation but that of its own message, and sends and
\* debits only while it exists.
LEMMA WorkerControl ==
  ASSUME CreditInv,
         NEW w \in Workers,
         WorkerAction(WorkerStep(w) \/ SendReturns(w) \/ WorkerFault(w))
  PROVE  /\ UNCHANGED <<api, loaded, outbox>>
         /\ \A v \in Workers \ {w} : wpc'[v] = wpc[v] /\ wmsg'[v] = wmsg[v]
         /\ \A n \in reserved : n \in reserved' \/ (wpc[w] # "idle" /\ n = wmsg[w])
         /\ wpc'[w] \in {"send", "sending", "debit"} => wmsg'[w] \in reserved'
  <1>0. TypeOK /\ (wpc[w] \in {"send", "sending", "debit"} => wmsg[w] \in reserved)
    BY DEF CreditInv, SingleCopyInv, IInv, ReservationsAreBacked
  <1> USE <1>0 DEF TypeOK, WorkerAction, Goto, Nack, Free, apiVars, storeVars, dbVars
  <1>1. CASE \E m \in Messages : Receive(w, m)
    BY <1>1 DEF Receive
  <1>2. CASE FindDelivery(w)
    BY <1>2 DEF FindDelivery
  <1>3. CASE CreateDelivery(w)
    BY <1>3 DEF CreateDelivery
  <1>4. CASE CreateConflict(w)
    BY <1>4 DEF CreateConflict
  <1>5. CASE CheckDeadline(w)
    BY <1>5 DEF CheckDeadline
  <1>6. CASE IsReserved(w)
    BY <1>6 DEF IsReserved
  <1>7. CASE StartSend(w)
    BY <1>7 DEF StartSend
  <1>8. CASE SendReturns(w)
    BY <1>8 DEF SendReturns
  <1>9. CASE DebitDelivered(w)
    BY <1>9 DEF DebitDelivered, Debit
  <1>10. CASE DebitRefused(w)
    BY <1>10 DEF DebitRefused
  <1>11. CASE RefundReservation(w)
    BY <1>11 DEF RefundReservation, RefundScript
  <1>12. CASE MarkRefunded(w)
    BY <1>12 DEF MarkRefunded
  <1>13. CASE CommitReservation(w)
    BY <1>13 DEF CommitReservation, CommitScript
  <1>14. CASE Ack(w)
    BY <1>14 DEF Ack
  <1>15. CASE DebitFails(w)
    BY <1>15 DEF DebitFails
  <1>16. CASE DebitLost(w)
    BY <1>16 DEF DebitLost, Debit
  <1>17. CASE DbCallFails(w)
    BY <1>17 DEF DbCallFails
  <1>18. CASE RedisCallErrs(w)
    BY <1>18 DEF RedisCallErrs
  <1>19. CASE CreateLost(w)
    BY <1>19 DEF CreateLost
  <1>20. CASE MarkLost(w)
    BY <1>20 DEF MarkLost
  <1>21. CASE RefundLost(w)
    BY <1>21 DEF RefundLost, RefundScript
  <1>22. CASE CommitLost(w)
    BY <1>22 DEF CommitLost, CommitScript
  <1>23. CASE WorkerCrash(w)
    BY <1>23 DEF WorkerCrash
  <1>24. CASE ConnLoss(w)
    BY <1>24 DEF ConnLoss
  <1> HIDE <1>0 DEF TypeOK, WorkerAction, Goto, Nack, Free, apiVars, storeVars, dbVars
  <1> QED
    BY <1>1, <1>2, <1>3, <1>4, <1>5, <1>6, <1>7, <1>8, <1>9, <1>10, <1>11,
       <1>12, <1>13, <1>14, <1>15, <1>16, <1>17, <1>18, <1>19, <1>20, <1>21,
       <1>22, <1>23, <1>24
    DEF WorkerStep, WorkerFault, WorkerAction

\* A step of a worker keeps ReservationsAreBacked and CreditConserved.
LEMMA WorkerCredit ==
  ASSUME CreditInv,
         NEW w \in Workers,
         WorkerAction(WorkerStep(w) \/ SendReturns(w) \/ WorkerFault(w))
  PROVE  ReservationsAreBacked' /\ CreditConserved'
  <1>1. MoneyInv' /\ KeysStay
    BY WorkerMoves
  <1>2. UNCHANGED <<api, loaded, outbox>>
    BY WorkerControl
  <1>3. ASSUME NEW n \in Messages, api[n] = "setnx", available'[WalletOf[n]] = Uninitialised
        PROVE  loaded[n] = balance'[WalletOf[n]]
    <2>1. /\ available[WalletOf[n]] = Uninitialised
          /\ balance'[WalletOf[n]] = balance[WalletOf[n]]
      BY <1>1, <1>3, BaseAssumption DEF KeysStay
    <2> QED
      BY <1>3, <2>1 DEF CreditInv, ReservationsAreBacked
  <1>4. ASSUME NEW v \in Workers, wpc'[v] \in {"send", "sending", "debit"}
        PROVE  wmsg'[v] \in reserved'
    <2>1. CASE v = w
      BY <1>4, <2>1, WorkerControl
    <2>2. CASE v # w
      <3>1. wpc'[v] = wpc[v] /\ wmsg'[v] = wmsg[v]
        BY <2>2, WorkerControl
      <3>2. wmsg[v] \in reserved
        BY <1>4, <3>1 DEF CreditInv, ReservationsAreBacked
      <3>3. wpc[w] # "idle" => wmsg[v] # wmsg[w]
        BY <1>4, <2>2, <3>1 DEF CreditInv, SingleCopyInv, OneCopy
      <3> QED
        BY <3>1, <3>2, <3>3, WorkerControl
    <2> QED
      BY <2>1, <2>2
  <1>5. \A n \in Messages : api'[n] = "refund" => outbox'[n] = "none"
    BY <1>2 DEF CreditInv, ReservationsAreBacked
  <1> QED
    BY <1>1, <1>2, <1>3, <1>4, <1>5 DEF MoneyInv, ReservationsAreBacked

-----------------------------------------------------------------------------
(* The steps of the system, and the theorems.                              *)

\* Where CreditIsSafe, every step keeps CreditInv.
LEMMA NextCredit ==
  ASSUME CreditIsSafe, CreditInv, [Next]_vars
  PROVE  CreditInv'
  <1>0. SingleCopyInv'
    BY NextSingle DEF CreditInv, CreditIsSafe
  <1> SUFFICES ReservationsAreBacked' /\ CreditConserved'
    BY <1>0 DEF CreditInv
  <1>1. CASE \E m \in Messages : ApiAction(RequestStep(m) \/ RequestFault(m))
    BY <1>1, ApiCredit
  <1>2. CASE \E w \in Workers :
               WorkerAction(WorkerStep(w) \/ SendReturns(w) \/ WorkerFault(w))
    BY <1>2, WorkerCredit
  <1>3. CASE /\ UNCHANGED <<available, reserved, balance, debits, loaded, wpc, wmsg>>
             /\ \A m \in Messages :
                  /\ api'[m] = "setnx" => api[m] = "setnx"
                  /\ api'[m] = "refund" => api[m] = "refund"
                  /\ outbox[m] = "none" => outbox'[m] = "none"
    BY <1>3 DEF CreditInv, ReservationsAreBacked, CreditConserved, Owed, Undebited
  <1>4. CASE ApiAction(ApiCrash)
    BY <1>3, <1>4 DEF ApiAction, ApiCrash, Quiet, InService, storeVars, dbVars, workerVars
  <1>5. CASE DispatcherAction(DispatcherStep \/ DispatcherFault)
    <2>1. UNCHANGED <<available, reserved, balance, debits, loaded, wpc, wmsg, api>>
      BY <1>5 DEF DispatcherAction, DispatcherStep, SelectBatch, PublishRow, ConfirmRow,
                  ConfirmRefused, DispatcherFault, PublishRefused, DispatcherStop, storeVars, dbVars, apiVars, workerVars
    <2>2. \A m \in Messages : outbox[m] = "none" => outbox'[m] = "none"
      BY <1>5 DEF CreditInv, SingleCopyInv, IInv, TypeOK, OutboxComesFirst,
                  DispatcherAction, DispatcherStep, SelectBatch, PublishRow, ConfirmRow,
                  ConfirmRefused, DispatcherFault, PublishRefused, DispatcherStop, dbVars
    <2> QED
      BY <1>3, <2>1, <2>2
  <1>6. CASE \E m \in Messages : WorkerAction(DeadlinePasses(m) \/ FetchedReturned(m))
    BY <1>3, <1>6 DEF WorkerAction, DeadlinePasses, FetchedReturned, storeVars, dbVars,
                     apiVars, workerVars
  <1>7. CASE UNCHANGED vars
    BY <1>3, <1>7 DEF vars, storeVars, dbVars, apiVars, workerVars
  <1>8. ~RedisFlush /\ TopUps = {}
    BY DEF CreditIsSafe, RedisFlush, Fault
  <1> QED
    BY <1>1, <1>2, <1>4, <1>5, <1>6, <1>7, <1>8 DEF Next, Quiescent

\* CreditInv is an invariant where no fault duplicates a message, hides a
\* debit or empties Redis, and no top-up overwrites the credit.
THEOREM CreditInvariance ==
  ASSUME CreditIsSafe
  PROVE  Spec => []CreditInv
  <1>1. Init => CreditInv
    <2> SUFFICES ASSUME Init PROVE CreditInv
      OBVIOUS
    <2>1. reserved = {} /\ \A w \in Wallets : Undebited(w) = {}
      BY DEF Init, InitWallets, Undebited
    <2>2. ReservationsAreBacked
      BY <2>1, FS_EmptySet DEF Init, ReservationsAreBacked
    <2>3. \A w \in Wallets : available[w] # Uninitialised => available[w] = balance[w]
      BY DEF Init, InitWallets
    <2>4. \A w \in Wallets : Owed(w) = 0 /\ balance[w] \in Nat
      BY <2>1, TotalCostEmpty, BalanceAssumption DEF Owed, Init, InitWallets
    <2>5. CreditConserved
      BY <2>3, <2>4 DEF CreditConserved
    <2> QED
      BY <2>2, <2>5, InitHolds DEF CreditInv
  <1>2. CreditInv /\ [Next]_vars => CreditInv'
    BY NextCredit
  <1> QED
    BY <1>1, <1>2, PTL DEF Spec

\* Under the same conditions Redis projects PostgreSQL: what it offers and what
\* it holds for messages not yet charged add up to the balance.
THEOREM CreditIsConserved ==
  ASSUME CreditIsSafe
  PROVE  Spec => []CreditConserved
  <1>1. CreditInv => CreditConserved
    BY DEF CreditInv
  <1> QED
    BY <1>1, CreditInvariance, PTL

\* Under the same conditions the balance covers every message a worker is about
\* to charge: nothing that was sent on reserved credit is given away.
THEOREM DebitsAreCovered ==
  ASSUME CreditIsSafe
  PROVE  Spec => []DebitIsCovered
  <1>1. CreditInv => DebitIsCovered
    <2> SUFFICES ASSUME CreditInv, NEW w \in Workers, wpc[w] = "debit", wmsg[w] \in reserved
                 PROVE  CanAfford(wmsg[w])
      BY DEF DebitIsCovered
    <2>1. TypeOK /\ MoneyInv
      BY DEF CreditInv, SingleCopyInv, IInv, ReservationsAreBacked, MoneyInv
    <2>2. PICK m \in Messages : m = wmsg[w]
      BY <2>1 DEF TypeOK
    <2>3. PICK a \in Wallets : a = WalletOf[m]
      BY BaseAssumption
    <2>4. debits[m] = 0
      BY <2>2 DEF CreditInv, SingleCopyInv, ChargedOnce, Terminal
    <2>5. m \in Undebited(a)
      BY <2>2, <2>3, <2>4 DEF Undebited
    <2>6. TotalCost(Undebited(a) \ {m}) \in Nat /\
          Owed(a) = TotalCost(Undebited(a) \ {m}) + CostOf(m)
      BY <2>1, <2>5, MoneyTypes, TotalCostRemove DEF Owed
    <2>7. available[a] \in Nat /\ available[a] + Owed(a) = balance[a]
      BY <2>1, <2>2, <2>3, MoneyTypes DEF MoneyInv, CreditConserved
    <2>8. balance[a] \in Nat /\ CostOf(m) \in Nat
      BY <2>1, MoneyTypes
    <2>9. balance[a] >= CostOf(m)
      BY <2>6, <2>7, <2>8
    <2> QED
      BY <2>2, <2>3, <2>9 DEF CanAfford
  <1> QED
    BY <1>1, CreditInvariance, PTL
=============================================================================
