---------------------------- MODULE ProviderPool ----------------------------
(***************************************************************************)
(* The provider pool of the workers (RoundRobinSender.Send with the Redis  *)
(* state): a call takes the next place of a shared cursor, walks the       *)
(* providers from there past the circuits that refuse it, sends through the*)
(* first that admits it and reports the result to that circuit.  It never  *)
(* tries a second provider once it has sent.                               *)
(***************************************************************************)
EXTENDS RedisCircuit

CONSTANTS
    N,              \* number of providers
    Callers,        \* the goroutines that call Send
    MaxGeneration,  \* bound: no new call once a circuit has this generation
    MaxLosses       \* bound: lost replies, failed calls, deaths of workers and flushes

ASSUME PoolAssumption ==
    N \in Nat \ {0} /\ MaxGeneration \in Nat /\ MaxLosses \in Nat

Providers == 0..(N - 1)

VARIABLES
    circuit,    \* circuit[p]: the hash of provider p
    cursor,     \* the round-robin counter, modulo N
    spc,        \* spc[c]: where the Send of caller c is
    start,      \* start[c]: its place of the cursor
    offset,     \* offset[c]: providers it has passed
    ticket,     \* ticket[c]: the generation acquire gave it
    ok,         \* ok[c]: the provider took the SMS
    survivors,  \* history: the calls whose ticket is older than the Redis data
    losses      \* how many losses may still happen

callVars == <<start, offset, ticket, ok, survivors>>
vars == <<circuit, cursor, spc, callVars, losses>>

ProviderOf(c) == (start[c] + offset[c]) % N

TypeOK ==
    /\ circuit \in [Providers -> CircuitType]
    /\ cursor \in Providers
    /\ spc \in [Callers -> {"idle", "acquire", "sending", "report"}]
    /\ start \in [Callers -> Providers]
    /\ offset \in [Callers -> Providers]
    /\ ticket \in [Callers -> Nat]
    /\ ok \in [Callers -> BOOLEAN]
    /\ survivors \subseteq Callers
    /\ losses \in Nat

Init ==
    /\ circuit = [p \in Providers |-> NewCircuit]
    /\ cursor = 0
    /\ spc = [c \in Callers |-> "idle"]
    /\ start = [c \in Callers |-> 0]
    /\ offset = [c \in Callers |-> 0]
    /\ ticket = [c \in Callers |-> 0]
    /\ ok = [c \in Callers |-> FALSE]
    /\ survivors = {}
    /\ losses = MaxLosses

\* The call of c returns; what it knew is gone.
Finish(c) ==
    /\ spc' = [spc EXCEPT ![c] = "idle"]
    /\ start' = [start EXCEPT ![c] = 0]
    /\ offset' = [offset EXCEPT ![c] = 0]
    /\ ticket' = [ticket EXCEPT ![c] = 0]
    /\ ok' = [ok EXCEPT ![c] = FALSE]
    /\ survivors' = survivors \ {c}

Loss == losses > 0 /\ losses' = losses - 1

SetCircuit(p, k) == circuit' = [circuit EXCEPT ![p] = k]

\* state.next
Select(c) ==
    /\ spc[c] = "idle"
    /\ \A p \in Providers : circuit[p].generation < MaxGeneration
    /\ spc' = [spc EXCEPT ![c] = "acquire"]
    /\ start' = [start EXCEPT ![c] = cursor]
    /\ cursor' = (cursor + 1) % N
    /\ UNCHANGED <<circuit, offset, ticket, ok, survivors, losses>>

\* The counter moved and its reply is lost: Send returns an error, or the Redis
\* client counts once more.
SelectLost(c) ==
    /\ Loss
    /\ spc[c] = "idle"
    /\ cursor' = (cursor + 1) % N
    /\ UNCHANGED <<circuit, spc, callVars>>

AcquireAllowed(c) ==
    LET p == ProviderOf(c)
        k == circuit[p]
    IN  /\ spc[c] = "acquire"
        /\ Admits(k)
        /\ SetCircuit(p, Acquired(k))
        /\ ticket' = [ticket EXCEPT ![c] = Acquired(k).generation]
        /\ spc' = [spc EXCEPT ![c] = "sending"]
        /\ UNCHANGED <<cursor, start, offset, ok, survivors, losses>>

\* Mutant: the walk goes one provider too far.
AcquireRefusedPastEnd(c) ==
    /\ spc[c] = "acquire"
    /\ ~Admits(circuit[ProviderOf(c)])
    /\ offset[c] < N
    /\ offset' = [offset EXCEPT ![c] = @ + 1]
    /\ UNCHANGED <<circuit, cursor, spc, start, ticket, ok, survivors, losses>>

\* The circuit refuses: on to the next provider.
AcquireRefused(c) ==
    /\ spc[c] = "acquire"
    /\ ~Admits(circuit[ProviderOf(c)])
    /\ offset[c] + 1 < N
    /\ offset' = [offset EXCEPT ![c] = @ + 1]
    /\ UNCHANGED <<circuit, cursor, spc, start, ticket, ok, survivors, losses>>

\* ErrAllProvidersUnavailable
AllUnavailable(c) ==
    /\ spc[c] = "acquire"
    /\ ~Admits(circuit[ProviderOf(c)])
    /\ offset[c] + 1 = N
    /\ Finish(c)
    /\ UNCHANGED <<circuit, cursor, losses>>

\* The script ran and its reply is lost: the Redis client sends it again, or
\* Send returns an error.
AcquireLost(c) ==
    LET p == ProviderOf(c) IN
    /\ Loss
    /\ spc[c] = "acquire"
    /\ SetCircuit(p, Acquired(circuit[p]))
    /\ Finish(c) \/ UNCHANGED <<spc, callVars>>
    /\ UNCHANGED cursor

\* The provider took the SMS, refused it, or ran into the context's deadline.
ProviderAnswers(c) ==
    /\ spc[c] = "sending"
    /\ spc' = [spc EXCEPT ![c] = "report"]
    /\ \E took \in BOOLEAN : ok' = [ok EXCEPT ![c] = took]
    /\ UNCHANGED <<circuit, cursor, start, offset, ticket, survivors, losses>>

Complete(c) ==
    LET p == ProviderOf(c) IN
    /\ spc[c] = "report"
    /\ SetCircuit(p, Completed(circuit[p], ticket[c], ok[c]))
    /\ Finish(c)
    /\ UNCHANGED <<cursor, losses>>

\* The script ran, its reply is lost and the Redis client sends it again.
CompleteLost(c) ==
    LET p == ProviderOf(c) IN
    /\ Loss
    /\ spc[c] = "report"
    /\ SetCircuit(p, Completed(circuit[p], ticket[c], ok[c]))
    /\ UNCHANGED <<cursor, spc, callVars>>

\* The worker dies, or a call to Redis fails without effect: Send drops the
\* error of complete and returns that of acquire, and the circuit never hears
\* of this call again.
Vanish(c) ==
    /\ Loss
    /\ spc[c] # "idle"
    /\ Finish(c)
    /\ UNCHANGED <<circuit, cursor>>

\* The callers that hold a ticket.
Admitted == {c \in Callers : spc[c] \in {"sending", "report"}}

\* Redis comes back without its data: cursor and circuits start again, and the
\* calls in progress keep the tickets they have.
RedisFlush ==
    /\ Loss
    /\ circuit' = [p \in Providers |-> NewCircuit]
    /\ cursor' = 0
    /\ survivors' = Admitted
    /\ UNCHANGED <<spc, start, offset, ticket, ok>>

Tick ==
    /\ circuit' = [p \in Providers |-> Elapse(circuit[p])]
    /\ UNCHANGED <<cursor, spc, callVars, losses>>

CallStep(c) ==
    \/ Select(c) \/ AcquireAllowed(c) \/ AcquireRefused(c) \/ AllUnavailable(c)
    \/ ProviderAnswers(c) \/ Complete(c)

Next ==
    \/ \E c \in Callers : CallStep(c) \/ SelectLost(c) \/ AcquireLost(c) \/ CompleteLost(c) \/ Vanish(c)
    \/ RedisFlush
    \/ Tick

Spec == Init /\ [][Next]_vars

\* Workers keep sending, the calls to providers and to Redis return some time, and
\* time passes; nothing is assumed of lost replies and dying workers.  A probe that
\* does not return would be replaced by its lease all the same.
FairSpec ==
    /\ Spec
    /\ \A c \in Callers : WF_vars(CallStep(c))
    /\ WF_vars(Tick)

-----------------------------------------------------------------------------
\* The calls of this life of Redis whose result the circuit of p will count.
Live(p) ==
    {c \in Admitted \ survivors :
        ProviderOf(c) = p /\ ticket[c] = circuit[p].generation}

Circuit(p) == INSTANCE CircuitSpec WITH phase <- circuit[p].state, live <- Live(p)

\* A call from before the flush reports: its old ticket may be taken for a new
\* one.
SurvivorReports == \E c \in survivors : Complete(c) \/ CompleteLost(c)

\* Every circuit keeps the promise of CircuitSpec: whatever calls are slow,
\* late, lost or repeated, the results of disowned calls never move it and a
\* half-open circuit listens to its one current probe.  Only the loss of the
\* data itself and the reports of calls that outlived it may break the promise,
\* and it holds again for every step after them.
ImplementsCircuitSpec ==
    /\ \A p \in Providers : Circuit(p)!Init
    /\ [][\/ RedisFlush \/ SurvivorReports
         \/ \A p \in Providers : Circuit(p)!Next \/ UNCHANGED Circuit(p)!vars]_vars

\* An open circuit has no call in progress that counts, a half-open one at most
\* one, and no call is ahead of its circuit's generation, calls that outlived
\* the data set apart.
LiveCallsFitPhase ==
    /\ \A p \in Providers :
        /\ circuit[p].state = "open" => Live(p) = {}
        /\ circuit[p].state = "half-open" => \A c, d \in Live(p) : c = d
    /\ \A c \in Admitted \ survivors : ticket[c] <= circuit[ProviderOf(c)].generation

\* A circuit does not stay half-open when its probe dies or its result is lost:
\* the lease lets another probe in, until the bound on generations is met.
HalfOpenEnds ==
    \A p \in Providers :
        circuit[p].state = "half-open" ~>
            \/ circuit[p].state # "half-open"
            \/ \E q \in Providers : circuit[q].generation >= MaxGeneration
=============================================================================
