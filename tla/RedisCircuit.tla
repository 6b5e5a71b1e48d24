---------------------------- MODULE RedisCircuit ----------------------------
(***************************************************************************)
(* The circuit of one provider as the worker replicas share it in Redis    *)
(* (infrastructure/sms/redis_provider_state.go): a hash that two Lua       *)
(* scripts read and write atomically.  opened_at and half_open_until are   *)
(* kept as the time that is left of the cooldown and of the lease.         *)
(***************************************************************************)
EXTENDS Naturals

CONSTANTS
    FailureThreshold,   \* failures in a row that open a closed circuit
    Cooldown,           \* time an open circuit refuses every call
    Lease               \* time a probe has before another may replace it

\* The durations are passed in milliseconds: a shorter one is zero.
ASSUME CircuitAssumption ==
    /\ FailureThreshold \in Nat \ {0}
    /\ Cooldown \in Nat
    /\ Lease \in Nat

Phases == {"closed", "open", "half-open"}

CircuitType == [state : Phases, generation : Nat, failures : Nat,
                cooling : 0..Cooldown, lease : 0..Lease]

\* The hash does not exist yet.
NewCircuit == [state |-> "closed", generation |-> 0, failures |-> 0,
               cooling |-> 0, lease |-> 0]

\* Mutant: the lease of a probe does not run out.
AdmitsWithoutExpiry(k) ==
    \/ k.state = "closed"
    \/ k.state = "open" /\ k.cooling = 0

\* redisCircuitAcquireScript: whether it answers allowed ...
Admits(k) ==
    \/ k.state = "closed"
    \/ k.state = "open" /\ k.cooling = 0
    \/ k.state = "half-open" /\ k.lease = 0

\* Mutant: a probe that replaces another keeps its generation.
AcquiredSameGeneration(k) ==
    IF ~Admits(k) \/ k.state = "closed" THEN k
    ELSE [k EXCEPT !.state = "half-open", !.lease = Lease]

\* ... and the circuit it leaves.  The generation is the caller's ticket.
Acquired(k) ==
    IF ~Admits(k) \/ k.state = "closed" THEN k
    ELSE IF k.state = "open" THEN [k EXCEPT !.state = "half-open", !.lease = Lease]
    ELSE [k EXCEPT !.generation = @ + 1, !.lease = Lease]

Opened(k) == [k EXCEPT !.state = "open", !.generation = @ + 1,
                       !.cooling = Cooldown, !.lease = 0]

Closed(k) == [NewCircuit EXCEPT !.generation = k.generation + 1]

\* A failure counted by a closed circuit.
Failed(k) ==
    LET counted == [k EXCEPT !.failures = @ + 1] IN
    IF counted.failures >= FailureThreshold THEN Opened(counted) ELSE counted

\* Mutant: a result is counted whatever generation it belongs to.
CompletedAnyTicket(k, ticket, ok) ==
    IF k.state = "open" THEN k
    ELSE IF k.state = "half-open" THEN (IF ok THEN Closed(k) ELSE Opened(k))
    ELSE IF ok THEN [k EXCEPT !.failures = 0] ELSE Failed(k)

\* redisCircuitCompleteScript: a ticket of another generation is ignored.
Completed(k, ticket, ok) ==
    IF ticket # k.generation \/ k.state = "open" THEN k
    ELSE IF k.state = "half-open" THEN (IF ok THEN Closed(k) ELSE Opened(k))
    ELSE IF ok THEN [k EXCEPT !.failures = 0] ELSE Failed(k)

\* Redis TIME moves on by one unit.
Elapse(k) == [k EXCEPT !.cooling = IF @ = 0 THEN 0 ELSE @ - 1,
                       !.lease = IF @ = 0 THEN 0 ELSE @ - 1]
=============================================================================
