-------------------------- MODULE ReservationStore --------------------------
(***************************************************************************)
(* The Redis credit store (internal/infrastructure/reservation/redis.go).  *)
(* Each Lua script is one atomic step of Redis, so each is one action-level*)
(* operator here; what a caller does with the reply is the caller's.       *)
(***************************************************************************)
EXTENDS GatewayBase

VARIABLES
    available,  \* sms:wallet:<id>:available, or Uninitialised
    reserved    \* the messages that have a sms:reservation:<id> key

storeVars == <<available, reserved>>

\* The balance key does not exist.
Uninitialised == -1

\* Mutant: credit that is one unit short is accepted.
ReserveReplyTooGenerous(m) ==
    LET credit == available[WalletOf[m]] IN
    IF credit = Uninitialised THEN "uninitialised"
    ELSE IF m \in reserved THEN "exists"
    ELSE IF credit + 1 < CostOf(m) THEN "insufficient"
    ELSE "reserved"

\* Mutant: the credit is tested before the key, so a script that is sent again
\* is answered that the credit it took itself is missing.
ReserveReplyCreditFirst(m) ==
    LET credit == available[WalletOf[m]] IN
    IF credit = Uninitialised THEN "uninitialised"
    ELSE IF credit < CostOf(m) THEN "insufficient"
    ELSE IF m \in reserved THEN "exists"
    ELSE "reserved"

\* What reserveScript answers: -2, -3, -1 or the remaining credit.
ReserveReply(m) ==
    LET credit == available[WalletOf[m]] IN
    IF credit = Uninitialised THEN "uninitialised"
    ELSE IF m \in reserved THEN "exists"
    ELSE IF credit < CostOf(m) THEN "insufficient"
    ELSE "reserved"

ReserveScript(m) ==
    /\ available' = [available EXCEPT ![WalletOf[m]] = @ - CostOf(m)]
    /\ reserved' = reserved \cup {m}

CommitScript(m) ==
    /\ reserved' = reserved \ {m}
    /\ UNCHANGED available

\* INCRBY creates the key when it does not exist.
IncrBy(credit, amount) ==
    IF credit = Uninitialised THEN amount ELSE credit + amount

\* Mutant: the refund does not delete the reservation key.
RefundScriptKeepsKey(m) ==
    /\ available' = IF m \in reserved
                    THEN [available EXCEPT ![WalletOf[m]] = IncrBy(@, CostOf(m))]
                    ELSE available
    /\ UNCHANGED reserved

RefundScript(m) ==
    /\ available' = IF m \in reserved
                    THEN [available EXCEPT ![WalletOf[m]] = IncrBy(@, CostOf(m))]
                    ELSE available
    /\ reserved' = reserved \ {m}

SetAvailable(w, units) ==
    /\ available' = [available EXCEPT ![w] = units]
    /\ UNCHANGED reserved

\* SETNX of the balance key with a balance loaded earlier from PostgreSQL.
SetNX(w, units) ==
    /\ available' = [available EXCEPT ![w] = IF @ = Uninitialised THEN units ELSE @]
    /\ UNCHANGED reserved

\* Redis comes back empty: the case reserveScript answers -2 for, and the
\* worker's "credit reservation is missing".
RedisFlush ==
    /\ Fault("redisFlush")
    /\ available' = [w \in Wallets |-> Uninitialised]
    /\ reserved' = {}
=============================================================================
