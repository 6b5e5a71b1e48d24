----------------------------- MODULE SmsService -----------------------------
(***************************************************************************)
(* The send operation of the API (Service.Execute in application/sms) with *)
(* the reservation store: admission by line, reserve in Redis, enqueue in  *)
(* PostgreSQL, refund when the enqueue fails.  api[m] is the next call the *)
(* goroutine serving request m makes, or the HTTP status SendSMS answered  *)
(* with; every other goroutine may run between two calls.                  *)
(***************************************************************************)
EXTENDS ReservationStore, WalletLedger

CONSTANT Limit      \* Limit[l]: capacity of the line's slot channel

ASSUME LimitAssumption == Limit \in [Lines -> Nat \ {0}]

VARIABLES
    api,        \* api[m]: where request m is
    slots,      \* slots[l]: slots taken in expressSlots / normalSlots
    loaded      \* loaded[m]: balance read by Reserve before its SETNX

apiVars == <<api, slots, loaded>>

InService == {"lookup", "reserve", "load", "setnx", "enqueue", "refund"}
Refused   == {"400", "422", "429"}
Answered  == {"202", "500", "dead"} \cup Refused
ApiStates == {"new"} \cup InService \cup Answered

To(m, s) == api' = [api EXCEPT ![m] = s]

\* The goroutine goes on to its next call.
Continue(m, from, next) ==
    /\ api[m] = from
    /\ To(m, next)
    /\ UNCHANGED slots

\* The deferred release runs on every return.
Return(m, from, answer) ==
    /\ api[m] = from
    /\ To(m, answer)
    /\ slots' = [slots EXCEPT ![LineOf[m]] = @ - 1]

Quiet == UNCHANGED <<loaded, storeVars, dbVars>>

\* The body does not bind.  The binding refuses all that Execute would find
\* invalid, so its own tests never fail a request.
RejectInvalid(m) ==
    /\ Continue(m, "new", "400")
    /\ NoFault /\ Quiet

\* acquire: a send into the line's channel that never blocks.
Admit(m) ==
    /\ api[m] = "new"
    /\ slots[LineOf[m]] < Limit[LineOf[m]]
    /\ slots' = [slots EXCEPT ![LineOf[m]] = @ + 1]
    /\ To(m, "lookup")
    /\ NoFault /\ Quiet

\* Mutant: the release is deferred before the slot is known to be taken.
RejectOverloadReleases(m) ==
    /\ slots[LineOf[m]] >= Limit[LineOf[m]]
    /\ Return(m, "new", "429")
    /\ NoFault /\ Quiet

RejectOverload(m) ==
    /\ slots[LineOf[m]] >= Limit[LineOf[m]]
    /\ Continue(m, "new", "429")
    /\ NoFault /\ Quiet

\* GetByName and GetByLineType: channel, wallet and price of the request.
Lookup(m) ==
    /\ Continue(m, "lookup", "reserve")
    /\ NoFault /\ Quiet

\* No such channel, an inactive one, no price, or a failed query.
LookupFails(m) ==
    /\ Return(m, "lookup", "500")
    /\ NoFault /\ Quiet

Reserve(m) ==
    /\ ReserveReply(m) = "reserved"
    /\ Continue(m, "reserve", "enqueue")
    /\ ReserveScript(m)
    /\ NoFault /\ UNCHANGED <<loaded, dbVars>>

\* The reservation key exists already.
ReserveExists(m) ==
    /\ ReserveReply(m) = "exists"
    /\ Return(m, "reserve", "500")
    /\ NoFault /\ Quiet

ReserveInsufficient(m) ==
    /\ ReserveReply(m) = "insufficient"
    /\ Return(m, "reserve", "422")
    /\ NoFault /\ Quiet

ReserveUninitialised(m) ==
    /\ ReserveReply(m) = "uninitialised"
    /\ Continue(m, "reserve", "load")
    /\ NoFault /\ Quiet

\* The script ran and its reply is lost; the Redis client sends it again.
ReserveLost(m) ==
    /\ Fault("redisLost")
    /\ ReserveReply(m) = "reserved"
    /\ Continue(m, "reserve", "reserve")
    /\ ReserveScript(m)
    /\ UNCHANGED <<loaded, dbVars>>

LoadBalance(m) ==
    /\ Continue(m, "load", "setnx")
    /\ loaded' = [loaded EXCEPT ![m] = balance[WalletOf[m]]]
    /\ NoFault /\ UNCHANGED <<storeVars, dbVars>>

InitBalanceKey(m) ==
    /\ Continue(m, "setnx", "reserve")
    /\ SetNX(WalletOf[m], loaded[m])
    /\ NoFault /\ UNCHANGED <<loaded, dbVars>>

Enqueue(m) ==
    /\ Return(m, "enqueue", "202")
    /\ InsertOutbox(m)
    /\ NoFault /\ UNCHANGED <<loaded, storeVars, balance, debits, status>>

\* The insert committed, and the API only sees an error.
EnqueueLost(m) ==
    /\ Fault("dbLost")
    /\ Continue(m, "enqueue", "refund")
    /\ InsertOutbox(m)
    /\ UNCHANGED <<loaded, storeVars, balance, debits, status>>

EnqueueFails(m) ==
    /\ Fault("dbError")
    /\ Continue(m, "enqueue", "refund")
    /\ Quiet

RefundRejected(m) ==
    /\ Return(m, "refund", "500")
    /\ RefundScript(m)
    /\ NoFault /\ UNCHANGED <<loaded, dbVars>>

\* A call of Reserve fails, or the Refund whose error Execute drops.
RedisCallFails(m) ==
    /\ Fault("redisError")
    /\ \E call \in {"reserve", "setnx", "refund"} : Return(m, call, "500")
    /\ Quiet

LoadFails(m) ==
    /\ Fault("dbError")
    /\ Return(m, "load", "500")
    /\ Quiet

\* The API process dies: its requests stop where they are, its slots are gone.
ApiCrash ==
    /\ Fault("apiCrash")
    /\ \E m \in Messages : api[m] \in InService
    /\ api' = [m \in Messages |-> IF api[m] \in InService THEN "dead" ELSE api[m]]
    /\ slots' = [l \in Lines |-> 0]
    /\ Quiet

\* The steps of a request, without the faults of its environment.
RequestStep(m) ==
    \/ RejectInvalid(m) \/ Admit(m) \/ RejectOverload(m)
    \/ Lookup(m) \/ LookupFails(m)
    \/ Reserve(m) \/ ReserveExists(m) \/ ReserveInsufficient(m) \/ ReserveUninitialised(m)
    \/ LoadBalance(m) \/ InitBalanceKey(m)
    \/ Enqueue(m) \/ RefundRejected(m)

RequestFault(m) ==
    \/ ReserveLost(m) \/ RedisCallFails(m) \/ LoadFails(m)
    \/ EnqueueLost(m) \/ EnqueueFails(m)
=============================================================================
