--------------------------- MODULE MemoryCircuit ---------------------------
(***************************************************************************)
(* The in-process circuit (circuitBreaker in provider_pool.go), which the  *)
(* pool uses without Redis.  acquire and complete run under its mutex.  A  *)
(* flag stands where the Redis circuit has a lease: a caller that acquired *)
(* always completes, so the probe needs no deadline of its own.            *)
(***************************************************************************)
EXTENDS Naturals

CONSTANTS
    Callers,            \* the goroutines that call Send
    FailureThreshold,   \* failures in a row that open a closed circuit
    Cooldown,           \* time an open circuit refuses every call
    MaxGeneration       \* bound: no acquire once this generation is reached

ASSUME MemoryAssumption ==
    /\ FailureThreshold \in Nat \ {0}
    /\ Cooldown \in Nat \ {0}
    /\ MaxGeneration \in Nat

VARIABLES
    state,              \* "closed", "open" or "half-open"
    failures,           \* failures in a row while closed
    cooling,            \* what is left of the cooldown since openedAt
    halfOpenInFlight,   \* a probe is under way
    generation,         \* counts the openings and closings
    ticket              \* ticket[c]: the generation c acquired, or NoTicket

NoTicket == MaxGeneration + 1

vars == <<state, failures, cooling, halfOpenInFlight, generation, ticket>>

TypeOK ==
    /\ state \in {"closed", "open", "half-open"}
    /\ failures \in 0..FailureThreshold
    /\ cooling \in 0..Cooldown
    /\ halfOpenInFlight \in BOOLEAN
    /\ generation \in 0..MaxGeneration
    /\ ticket \in [Callers -> 0..NoTicket]

Init ==
    /\ state = "closed"
    /\ failures = 0
    /\ cooling = 0
    /\ halfOpenInFlight = FALSE
    /\ generation = 0
    /\ ticket = [c \in Callers |-> NoTicket]

Sending(c) == ticket[c] # NoTicket

AcquireClosed(c) ==
    /\ ~Sending(c)
    /\ state = "closed"
    /\ generation < MaxGeneration
    /\ ticket' = [ticket EXCEPT ![c] = generation]
    /\ UNCHANGED <<state, failures, cooling, halfOpenInFlight, generation>>

\* Mutant: the flag of the probe is not tested.
AcquireProbeUnguarded(c) ==
    /\ ~Sending(c)
    /\ \/ state = "open" /\ cooling = 0
       \/ state = "half-open"
    /\ generation < MaxGeneration
    /\ state' = "half-open"
    /\ halfOpenInFlight' = TRUE
    /\ ticket' = [ticket EXCEPT ![c] = generation]
    /\ UNCHANGED <<failures, cooling, generation>>

\* The cooldown is over and no probe is under way.  Every other acquire of an
\* open or half-open circuit is refused and changes nothing: the flag is never
\* set while the circuit is open (FlagMeansLiveProbe).
AcquireProbe(c) ==
    /\ ~Sending(c)
    /\ \/ state = "open" /\ cooling = 0
       \/ state = "half-open"
    /\ ~halfOpenInFlight
    /\ generation < MaxGeneration
    /\ state' = "half-open"
    /\ halfOpenInFlight' = TRUE
    /\ ticket' = [ticket EXCEPT ![c] = generation]
    /\ UNCHANGED <<failures, cooling, generation>>

Returned(c) == ticket' = [ticket EXCEPT ![c] = NoTicket]

Open == state' = "open" /\ cooling' = Cooldown /\ generation' = generation + 1

CompleteStale(c) ==
    /\ Sending(c)
    /\ ticket[c] # generation
    /\ Returned(c)
    /\ UNCHANGED <<state, failures, cooling, halfOpenInFlight, generation>>

\* Mutant: the flag survives the probe.
CompleteProbeKeepsFlag(c) ==
    /\ Sending(c) /\ ticket[c] = generation
    /\ state = "half-open"
    /\ \/ Open /\ UNCHANGED failures
       \/ /\ state' = "closed" /\ failures' = 0
          /\ generation' = generation + 1
          /\ UNCHANGED cooling
    /\ Returned(c)
    /\ UNCHANGED halfOpenInFlight

CompleteProbe(c) ==
    /\ Sending(c) /\ ticket[c] = generation
    /\ state = "half-open"
    /\ halfOpenInFlight' = FALSE
    /\ \/ Open /\ UNCHANGED failures
       \/ /\ state' = "closed" /\ failures' = 0
          /\ generation' = generation + 1
          /\ UNCHANGED cooling
    /\ Returned(c)

\* Mutant: the circuit opens one failure late.
CompleteClosedOneLate(c) ==
    /\ Sending(c) /\ ticket[c] = generation
    /\ state = "closed"
    /\ \/ failures' = 0 /\ UNCHANGED <<state, cooling, generation>>
       \/ /\ failures' = failures + 1
          /\ IF failures' > FailureThreshold
             THEN Open
             ELSE UNCHANGED <<state, cooling, generation>>
    /\ Returned(c)
    /\ UNCHANGED halfOpenInFlight

CompleteClosed(c) ==
    /\ Sending(c) /\ ticket[c] = generation
    /\ state = "closed"
    /\ \/ failures' = 0 /\ UNCHANGED <<state, cooling, generation>>
       \/ /\ failures' = failures + 1
          /\ IF failures' >= FailureThreshold
             THEN Open
             ELSE UNCHANGED <<state, cooling, generation>>
    /\ Returned(c)
    /\ UNCHANGED halfOpenInFlight

Tick ==
    /\ cooling' = IF cooling = 0 THEN 0 ELSE cooling - 1
    /\ UNCHANGED <<state, failures, halfOpenInFlight, generation, ticket>>

CallStep(c) ==
    \/ AcquireClosed(c) \/ AcquireProbe(c)
    \/ CompleteStale(c) \/ CompleteProbe(c) \/ CompleteClosed(c)

Next == Tick \/ \E c \in Callers : CallStep(c)

Spec == Init /\ [][Next]_vars

\* Callers keep sending, provider calls return, time passes.
FairSpec == Spec /\ WF_vars(Tick) /\ \A c \in Callers : WF_vars(CallStep(c))

-----------------------------------------------------------------------------
Live == {c \in Callers : ticket[c] = generation}

Circuit == INSTANCE CircuitSpec WITH phase <- state, live <- Live

\* The in-process circuit keeps the same promise as the Redis circuit.
ImplementsCircuitSpec == Circuit!Spec

\* The flag says what it is named for: it is set exactly while a probe whose
\* result will count is under way, and only in a half-open circuit.
FlagMeansLiveProbe ==
    halfOpenInFlight <=> (state = "half-open" /\ Live # {})

\* Why both hold, an inductive invariant: a ticket is never ahead of the
\* generation, a closed circuit is below its threshold, no ticket of an open
\* circuit is current, and a half-open circuit has its flag set for the one
\* current ticket.
MInv ==
    /\ TypeOK
    /\ \A c \in Callers : Sending(c) => ticket[c] <= generation /\ ticket[c] < MaxGeneration
    /\ state = "closed" => failures < FailureThreshold
    /\ state = "open" => Live = {}
    /\ state = "half-open" => Live # {} /\ \A c, d \in Live : c = d
    /\ halfOpenInFlight <=> state = "half-open"

\* An open circuit does not stay open: some call is admitted as a probe, and
\* its result closes the circuit or opens it anew, up to the bound.
OpenIsLeft ==
    \A g \in 0..MaxGeneration :
        state = "open" /\ generation = g ~> generation > g \/ g = MaxGeneration
=============================================================================
