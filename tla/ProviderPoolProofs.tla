------------------------- MODULE ProviderPoolProofs -------------------------
(***************************************************************************)
(* Proofs about the provider pool and its Redis circuits, for any number   *)
(* of providers and callers, any threshold, cooldown and lease, and any    *)
(* bound on generations and losses.                                        *)
(***************************************************************************)
EXTENDS ProviderPool, TLAPS

USE CircuitAssumption, PoolAssumption DEF Phases

-----------------------------------------------------------------------------
(* What the two scripts do to a circuit.                                   *)

\* The hash of a provider nobody has called is a closed circuit.
LEMMA NewType == NewCircuit \in CircuitType
  BY DEF NewCircuit, CircuitType

\* The ends of the ranges.
LEMMA LimitTypes == Cooldown \in 0..Cooldown /\ Lease \in 0..Lease /\ 0 \in 0..Lease
  OBVIOUS

\* A circuit with one field replaced.
LEMMA FieldTypes ==
  ASSUME NEW k \in CircuitType
  PROVE  /\ \A x \in Phases : [k EXCEPT !.state = x] \in CircuitType
         /\ \A x \in Nat : [k EXCEPT !.generation = x] \in CircuitType
         /\ \A x \in Nat : [k EXCEPT !.failures = x] \in CircuitType
         /\ \A x \in 0..Cooldown : [k EXCEPT !.cooling = x] \in CircuitType
         /\ \A x \in 0..Lease : [k EXCEPT !.lease = x] \in CircuitType
  BY DEF CircuitType

\* A circuit that opens.
LEMMA OpenedType ==
  ASSUME NEW k \in CircuitType
  PROVE  /\ Opened(k) \in CircuitType
         /\ Opened(k).state = "open"
         /\ Opened(k).generation = k.generation + 1
  <1> DEFINE k1 == [k EXCEPT !.state = "open"]
             k2 == [k1 EXCEPT !.generation = k1.generation + 1]
             k3 == [k2 EXCEPT !.cooling = Cooldown]
             k4 == [k3 EXCEPT !.lease = 0]
  <1>1. k1 \in CircuitType
    BY FieldTypes
  <1>2. k2 \in CircuitType
    <2>1. k1.generation + 1 \in Nat
      BY <1>1 DEF CircuitType
    <2> HIDE DEF k1
    <2> QED
      BY <1>1, <2>1, FieldTypes
  <1>3. k3 \in CircuitType
    <2> HIDE DEF k2
    <2> QED
      BY <1>2, FieldTypes, LimitTypes
  <1>4. k4 \in CircuitType
    <2> HIDE DEF k3
    <2> QED
      BY <1>3, FieldTypes, LimitTypes
  <1>5. Opened(k) = k4
    BY Zenon DEF Opened
  <1> QED
    BY <1>4, <1>5 DEF Opened, CircuitType

\* The acquire script, when it admits the caller: a closed circuit is left as
\* it is, an open one becomes half-open, a half-open one gets a new generation.
LEMMA AcquiredAdmits ==
  ASSUME NEW k \in CircuitType, Admits(k)
  PROVE  /\ Acquired(k) \in CircuitType
         /\ Acquired(k).failures = k.failures
         /\ Acquired(k).state = IF k.state = "closed" THEN "closed" ELSE "half-open"
         /\ Acquired(k).generation =
              IF k.state = "half-open" THEN k.generation + 1 ELSE k.generation
  <1>1. CASE k.state = "closed"
    BY <1>1 DEF Acquired, CircuitType
  <1>2. CASE k.state = "open"
    <2> DEFINE k1 == [k EXCEPT !.state = "half-open"]
    <2>1. k1 \in CircuitType
      BY FieldTypes
    <2>2. [k1 EXCEPT !.lease = Lease] \in CircuitType
      <3> HIDE DEF k1
      <3> QED
        BY <2>1, FieldTypes, LimitTypes
    <2>3. Acquired(k) = [k EXCEPT !.state = "half-open", !.lease = Lease]
      BY <1>2 DEF Acquired
    <2>4. Acquired(k) = [k1 EXCEPT !.lease = Lease]
      BY <2>3, Zenon
    <2> QED
      BY <1>2, <2>2, <2>3, <2>4 DEF CircuitType
  <1>3. CASE k.state = "half-open"
    <2> DEFINE k1 == [k EXCEPT !.generation = k.generation + 1]
    <2>1. k1 \in CircuitType
      <3>1. k.generation + 1 \in Nat
        BY DEF CircuitType
      <3> QED
        BY <3>1, FieldTypes
    <2>2. [k1 EXCEPT !.lease = Lease] \in CircuitType
      <3> HIDE DEF k1
      <3> QED
        BY <2>1, FieldTypes, LimitTypes
    <2>3. Acquired(k) = [k EXCEPT !.generation = k.generation + 1, !.lease = Lease]
      BY <1>3 DEF Acquired
    <2>4. Acquired(k) = [k1 EXCEPT !.lease = Lease]
      BY <2>3, Zenon
    <2> QED
      BY <1>3, <2>2, <2>3, <2>4 DEF CircuitType
  <1>4. k.state \in Phases
    BY DEF CircuitType
  <1> QED
    BY <1>1, <1>2, <1>3, <1>4

\* The acquire script, when it refuses the caller.
LEMMA AcquiredRefuses ==
  ASSUME NEW k, ~Admits(k)
  PROVE  Acquired(k) = k
  BY DEF Acquired

\* Counting a failure of a closed circuit: it stays closed below its threshold,
\* or opens with a new generation.
LEMMA FailedCases ==
  ASSUME NEW k \in CircuitType, k.state = "closed"
  PROVE  /\ Failed(k) \in CircuitType
         /\ \/ /\ Failed(k).state = "closed"
               /\ Failed(k).generation = k.generation
               /\ Failed(k).failures < FailureThreshold
            \/ /\ Failed(k).state = "open"
               /\ Failed(k).generation = k.generation + 1
  <1> DEFINE counted == [k EXCEPT !.failures = k.failures + 1]
  <1>1. counted \in CircuitType
    BY DEF CircuitType
  <1>2. /\ counted.state = "closed" /\ counted.generation = k.generation
        /\ counted.failures \in Nat
    BY DEF CircuitType
  <1>3. Failed(k) = IF counted.failures >= FailureThreshold THEN Opened(counted) ELSE counted
    BY DEF Failed
  <1> HIDE DEF counted
  <1> QED
    BY <1>1, <1>2, <1>3, OpenedType

\* The complete script: a result that belongs to another generation, or reaches
\* an open circuit, changes nothing; any other leaves a closed circuit closed
\* and below its threshold, or starts a new generation in another state.
LEMMA CompletedCases ==
  ASSUME NEW k \in CircuitType, NEW t \in Nat, NEW b
  PROVE  /\ Completed(k, t, b) \in CircuitType
         /\ \/ Completed(k, t, b) = k
            \/ /\ t = k.generation
               /\ k.state = "closed"
               /\ Completed(k, t, b).state = "closed"
               /\ Completed(k, t, b).generation = k.generation
               /\ Completed(k, t, b).failures < FailureThreshold
            \/ /\ t = k.generation
               /\ k.state \in {"closed", "half-open"}
               /\ Completed(k, t, b).state = "open"
               /\ Completed(k, t, b).generation = k.generation + 1
            \/ /\ t = k.generation
               /\ k.state = "half-open"
               /\ Completed(k, t, b).state = "closed"
               /\ Completed(k, t, b).generation = k.generation + 1
               /\ Completed(k, t, b).failures < FailureThreshold
         /\ t = k.generation /\ k.state = "half-open" =>
              Completed(k, t, b).generation = k.generation + 1
  <1>1. CASE t # k.generation \/ k.state = "open"
    BY <1>1 DEF Completed
  <1>2. CASE t = k.generation /\ k.state = "half-open" /\ b
    BY <1>2 DEF Completed, Closed, NewCircuit, CircuitType
  <1>3. CASE t = k.generation /\ k.state = "half-open" /\ ~b
    BY <1>3, OpenedType DEF Completed
  <1>4. CASE t = k.generation /\ k.state = "closed" /\ b
    BY <1>4 DEF Completed, CircuitType
  <1>5. CASE t = k.generation /\ k.state = "closed" /\ ~b
    <2>1. Completed(k, t, b) = Failed(k)
      BY <1>5 DEF Completed
    <2> QED
      BY <1>5, <2>1, FailedCases
  <1>6. k.state \in Phases
    BY DEF CircuitType
  <1> QED
    BY <1>1, <1>2, <1>3, <1>4, <1>5, <1>6

\* Time changes neither phase nor generation nor failures.
LEMMA ElapseSame ==
  ASSUME NEW k \in CircuitType
  PROVE  /\ Elapse(k) \in CircuitType
         /\ Elapse(k).state = k.state
         /\ Elapse(k).generation = k.generation
         /\ Elapse(k).failures = k.failures
  <1> DEFINE co == IF k.cooling = 0 THEN 0 ELSE k.cooling - 1
             le == IF k.lease = 0 THEN 0 ELSE k.lease - 1
             k1 == [k EXCEPT !.cooling = co]
  <1>1. co \in 0..Cooldown /\ le \in 0..Lease
    BY DEF CircuitType
  <1>2. Elapse(k) = [k EXCEPT !.cooling = co, !.lease = le]
    BY Zenon DEF Elapse
  <1> HIDE DEF co, le
  <1>3. Elapse(k) = [k1 EXCEPT !.lease = le]
    BY <1>2, Zenon
  <1>4. k1 \in CircuitType
    BY <1>1, FieldTypes
  <1>5. [k1 EXCEPT !.lease = le] \in CircuitType
    <2> HIDE DEF k1
    <2> QED
      BY <1>1, <1>4, FieldTypes
  <1> QED
    BY <1>2, <1>3, <1>5 DEF CircuitType

-----------------------------------------------------------------------------
(* TypeOK.                                                                 *)

\* The place of a caller is one of the providers.
LEMMA ProviderType == ASSUME TypeOK, NEW c \in Callers PROVE ProviderOf(c) \in Providers
  BY DEF TypeOK, Providers, ProviderOf

\* The end of a call.
LEMMA FinishType ==
  ASSUME TypeOK, NEW c \in Callers, Finish(c), circuit' \in [Providers -> CircuitType],
         cursor' \in Providers, losses' \in Nat
  PROVE  TypeOK'
  <1>1. ok' \in [Callers -> BOOLEAN]
    BY DEF TypeOK, Finish
  <1>2. 0 \in Providers
    BY DEF Providers
  <1> QED
    BY <1>1, <1>2 DEF TypeOK, Finish

\* The scripts leave circuits.
LEMMA CircuitsTyped ==
  ASSUME TypeOK, NEW c \in Callers, ticket[c] \in Nat
  PROVE  LET p == ProviderOf(c) IN
         /\ Acquired(circuit[p]) \in CircuitType
         /\ Completed(circuit[p], ticket[c], ok[c]) \in CircuitType
         /\ \A k \in CircuitType : [circuit EXCEPT ![p] = k] \in [Providers -> CircuitType]
  <1>1. circuit[ProviderOf(c)] \in CircuitType
    BY ProviderType DEF TypeOK
  <1>2. Acquired(circuit[ProviderOf(c)]) \in CircuitType
    BY <1>1, AcquiredAdmits, AcquiredRefuses
  <1>3. Completed(circuit[ProviderOf(c)], ticket[c], ok[c]) \in CircuitType
    BY <1>1, CompletedCases
  <1> QED
    BY <1>2, <1>3 DEF TypeOK

\* Every step keeps TypeOK.
LEMMA NextType == ASSUME TypeOK, Next PROVE TypeOK'
  <1>1. ASSUME NEW c \in Callers, Select(c) PROVE TypeOK'
    BY <1>1 DEF TypeOK, Select, Providers
  <1>2. ASSUME NEW c \in Callers, SelectLost(c) PROVE TypeOK'
    BY <1>2 DEF TypeOK, SelectLost, Loss, Providers, callVars
  <1>3. ASSUME NEW c \in Callers, AcquireAllowed(c) PROVE TypeOK'
    <2>1. Acquired(circuit[ProviderOf(c)]).generation \in Nat
      BY CircuitsTyped DEF TypeOK, CircuitType
    <2> QED
      BY <1>3, <2>1, CircuitsTyped DEF TypeOK, AcquireAllowed, SetCircuit
  <1>4. ASSUME NEW c \in Callers, AcquireRefused(c) PROVE TypeOK'
    BY <1>4 DEF TypeOK, AcquireRefused, Providers
  <1>5. ASSUME NEW c \in Callers, AllUnavailable(c) PROVE TypeOK'
    BY <1>5, FinishType DEF TypeOK, AllUnavailable
  <1>6. ASSUME NEW c \in Callers, AcquireLost(c) PROVE TypeOK'
    <2>1. /\ circuit' \in [Providers -> CircuitType]
          /\ cursor' \in Providers /\ losses' \in Nat
      BY <1>6, CircuitsTyped DEF TypeOK, AcquireLost, SetCircuit, Loss
    <2>2. CASE Finish(c)
      BY <2>1, <2>2, FinishType
    <2>3. CASE UNCHANGED <<spc, callVars>>
      BY <2>1, <2>3 DEF TypeOK, callVars
    <2> QED
      BY <1>6, <2>2, <2>3 DEF AcquireLost
  <1>7. ASSUME NEW c \in Callers, ProviderAnswers(c) PROVE TypeOK'
    <2>1. ok' \in [Callers -> BOOLEAN]
      BY <1>7 DEF TypeOK, ProviderAnswers
    <2> QED
      BY <1>7, <2>1 DEF TypeOK, ProviderAnswers
  <1>8. ASSUME NEW c \in Callers, Complete(c) PROVE TypeOK'
    BY <1>8, CircuitsTyped, FinishType DEF TypeOK, Complete, SetCircuit
  <1>9. ASSUME NEW c \in Callers, CompleteLost(c) PROVE TypeOK'
    BY <1>9, CircuitsTyped DEF TypeOK, CompleteLost, SetCircuit, Loss, callVars
  <1>10. ASSUME NEW c \in Callers, Vanish(c) PROVE TypeOK'
    BY <1>10, FinishType DEF TypeOK, Vanish, Loss
  <1>11. CASE RedisFlush
    BY <1>11, NewType DEF TypeOK, RedisFlush, Loss, Providers, Admitted
  <1>12. CASE Tick
    BY <1>12, ElapseSame DEF TypeOK, Tick, callVars
  <1> QED
    BY <1>1, <1>2, <1>3, <1>4, <1>5, <1>6, <1>7, <1>8, <1>9, <1>10, <1>11, <1>12
    DEF Next, CallStep

-----------------------------------------------------------------------------
(* Which calls are live.                                                   *)

\* The inductive invariant: the calls set apart are in progress, so a new call of
\* the same goroutine is never taken for one of them.
PInv ==
    /\ TypeOK
    /\ survivors \subseteq Admitted
    /\ LiveCallsFitPhase

\* Only the call of c changes.
OnlyCall(c) ==
    \A d \in Callers \ {c} :
        /\ spc'[d] = spc[d] /\ ticket'[d] = ticket[d]
        /\ start'[d] = start[d] /\ offset'[d] = offset[d]
        /\ d \in survivors' <=> d \in survivors

\* The end of a call is one.
LEMMA FinishOnly ==
  ASSUME TypeOK, NEW c \in Callers, Finish(c)
  PROVE  OnlyCall(c) /\ c \notin Admitted' /\ c \notin survivors'
  BY DEF TypeOK, Finish, OnlyCall, Admitted

\* Then the other live calls of a circuit stay live as long as its generation
\* does; a new generation disowns them.
LEMMA LiveOthers ==
  ASSUME PInv, NEW c \in Callers, OnlyCall(c), NEW p \in Providers,
         circuit'[p].generation \in Nat,
         circuit'[p].generation >= circuit[p].generation
  PROVE  /\ circuit'[p].generation = circuit[p].generation =>
              Live(p)' \ {c} = Live(p) \ {c}
         /\ circuit'[p].generation # circuit[p].generation => Live(p)' \ {c} = {}
  <1>1. circuit[p].generation \in Nat
    BY DEF PInv, TypeOK, CircuitType
  <1>2. \A d \in Callers \ {c} :
          /\ d \in Admitted' <=> d \in Admitted
          /\ ProviderOf(d)' = ProviderOf(d) /\ ticket'[d] = ticket[d]
          /\ d \in survivors' <=> d \in survivors
    BY DEF OnlyCall, Admitted, ProviderOf
  <1>3. \A d \in Live(p) : ticket[d] = circuit[p].generation
    BY DEF Live
  <1>4. \A d \in Callers : d \in Admitted \ survivors /\ ProviderOf(d) = p =>
          ticket[d] \in Nat /\ ticket[d] <= circuit[p].generation
    BY DEF PInv, TypeOK, LiveCallsFitPhase
  <1> QED
    BY <1>1, <1>2, <1>3, <1>4 DEF Live, Admitted

\* The part of the invariant about one circuit.
FitsPhase(p) ==
    /\ circuit[p].state = "open" => Live(p) = {}
    /\ circuit[p].state = "half-open" => \A c, d \in Live(p) : c = d

\* A step of CircuitSpec, or none, for every circuit.
KeepsPromise ==
    \A p \in Providers : Circuit(p)!Next \/ UNCHANGED Circuit(p)!vars

\* A circuit that a step of one call does not touch.
LEMMA OtherCircuit ==
  ASSUME PInv, NEW c \in Callers, OnlyCall(c), NEW p \in Providers,
         circuit'[p] = circuit[p], c \in Live(p)' <=> c \in Live(p)
  PROVE  /\ circuit'[p].generation >= circuit[p].generation
         /\ FitsPhase(p)'
         /\ UNCHANGED Circuit(p)!vars
  <1>1. circuit[p].generation \in Nat
    BY DEF PInv, TypeOK, CircuitType
  <1>2. Live(p)' \ {c} = Live(p) \ {c}
    BY <1>1, LiveOthers
  <1>3. Live(p)' = Live(p)
    BY <1>2
  <1>4. FitsPhase(p)
    BY DEF PInv, LiveCallsFitPhase, FitsPhase
  <1>5. FitsPhase(p)'
    BY <1>3, <1>4 DEF FitsPhase
  <1> QED
    BY <1>1, <1>3, <1>5 DEF Circuit!vars

\* What a step of one call has to show: of each circuit, that its generation
\* does not go back and its phase fits the live calls; and of the call itself,
\* that its ticket is not ahead.
LEMMA OneCallPInv ==
  ASSUME PInv, TypeOK', NEW c \in Callers, OnlyCall(c),
         c \in survivors' => c \in Admitted',
         c \in Admitted' \ survivors' =>
            ticket'[c] <= circuit'[ProviderOf(c)'].generation,
         \A p \in Providers :
            circuit'[p].generation >= circuit[p].generation /\ FitsPhase(p)'
  PROVE  PInv'
  <1>1. survivors' \subseteq Admitted'
    BY DEF PInv, TypeOK, OnlyCall, Admitted
  <1>2. ASSUME NEW d \in Admitted' \ survivors'
        PROVE  ticket'[d] <= circuit'[ProviderOf(d)'].generation
    <2>1. CASE d = c
      BY <1>2, <2>1
    <2>2. CASE d # c
      <3>1. d \in Admitted \ survivors /\ d \in Callers
        BY <1>2, <2>2 DEF OnlyCall, Admitted
      <3>2. ProviderOf(d)' = ProviderOf(d) /\ ticket'[d] = ticket[d]
        BY <2>2, <3>1 DEF OnlyCall, ProviderOf
      <3>3. ProviderOf(d) \in Providers
        BY <3>1, ProviderType DEF PInv
      <3>4. /\ circuit[ProviderOf(d)].generation \in Nat
            /\ circuit'[ProviderOf(d)].generation \in Nat
            /\ ticket[d] \in Nat
            /\ ticket[d] <= circuit[ProviderOf(d)].generation
        BY <3>1, <3>3 DEF PInv, TypeOK, CircuitType, LiveCallsFitPhase
      <3>5. circuit'[ProviderOf(d)].generation >= circuit[ProviderOf(d)].generation
        BY <3>3
      <3> QED
        BY <3>2, <3>4, <3>5
    <2> QED
      BY <2>1, <2>2
  <1>3. LiveCallsFitPhase'
    BY <1>2 DEF LiveCallsFitPhase, FitsPhase
  <1> QED
    BY <1>1, <1>3 DEF PInv

\* A step that changes neither the circuits nor a call that holds a ticket.
LEMMA QuietPInv ==
  ASSUME PInv, TypeOK', UNCHANGED <<circuit, survivors>>, Admitted' = Admitted,
         \A d \in Admitted : ticket'[d] = ticket[d] /\ ProviderOf(d)' = ProviderOf(d)
  PROVE  PInv' /\ \A p \in Providers : UNCHANGED Circuit(p)!vars
  <1>1. \A p \in Providers : Live(p)' = Live(p)
    BY DEF Live
  <1>2. LiveCallsFitPhase'
    BY <1>1 DEF PInv, LiveCallsFitPhase
  <1> QED
    BY <1>1, <1>2 DEF PInv, Circuit!vars

-----------------------------------------------------------------------------
(* The steps that change a circuit or end a call.                          *)

\* A call is admitted: it is live, and alone if the circuit is not closed.
LEMMA AcquireAllowedPInv ==
  ASSUME PInv, TypeOK', NEW c \in Callers, AcquireAllowed(c)
  PROVE  PInv' /\ KeepsPromise
  <1>0. PICK q \in Providers : q = ProviderOf(c)
    BY ProviderType DEF PInv
  <1> DEFINE k == circuit[q]
  <1>1. q \in Providers /\ k \in CircuitType /\ Admits(k) /\ ProviderOf(c)' = q
    BY <1>0 DEF PInv, TypeOK, AcquireAllowed, ProviderOf
  <1>2. /\ circuit' = [circuit EXCEPT ![q] = Acquired(k)]
        /\ circuit'[q] = Acquired(k)
    BY <1>0, <1>1 DEF PInv, TypeOK, AcquireAllowed, SetCircuit
  <1>3. /\ OnlyCall(c) /\ c \notin Admitted /\ c \in Admitted' \ survivors'
        /\ ticket'[c] = circuit'[q].generation
    BY <1>0, <1>2 DEF PInv, TypeOK, AcquireAllowed, OnlyCall, Admitted
  <1>4. \A p \in Providers : c \notin Live(p) /\ (c \in Live(p)' <=> p = q)
    BY <1>1, <1>3 DEF Live
  <1>5. ASSUME NEW p \in Providers, p # q
        PROVE  /\ circuit'[p].generation >= circuit[p].generation
               /\ FitsPhase(p)' /\ UNCHANGED Circuit(p)!vars
    <2>1. circuit'[p] = circuit[p]
      BY <1>2, <1>5 DEF PInv, TypeOK
    <2> QED
      BY <1>3, <1>4, <1>5, <2>1, OtherCircuit
  <1>6. /\ circuit'[q].generation >= circuit[q].generation
        /\ FitsPhase(q)' /\ Circuit(q)!Next
    <2>1. k.generation \in Nat /\ k.state \in Phases
      BY <1>1 DEF CircuitType
    <2>2. FitsPhase(q)
      BY <1>1 DEF PInv, LiveCallsFitPhase, FitsPhase
    <2>3. circuit'[q].generation \in Nat /\ circuit'[q].generation >= k.generation
      BY <1>1, <1>2, <2>1, AcquiredAdmits
    <2>4. c \in Live(q)' /\ c \notin Live(q)
      BY <1>1, <1>4
    <2>5. CASE k.state = "closed"
      <3>1. circuit'[q].state = "closed" /\ circuit'[q].generation = k.generation
        BY <1>1, <1>2, <2>5, AcquiredAdmits
      <3>2. Live(q)' = Live(q) \cup {c}
        BY <1>1, <1>3, <2>3, <2>4, <3>1, LiveOthers
      <3>3. Circuit(q)!Admit(c)
        BY <2>5, <3>1, <3>2 DEF Circuit!Admit
      <3> QED
        BY <2>2, <2>3, <2>5, <3>1, <3>3 DEF FitsPhase, Circuit!Next
    <2>6. CASE k.state \in {"open", "half-open"}
      <3>1. circuit'[q].state = "half-open"
        BY <1>1, <1>2, <2>6, AcquiredAdmits
      <3>2. Live(q)' \ {c} = {}
        <4>1. CASE k.state = "open"
          BY <1>1, <1>2, <1>3, <2>2, <2>3, <4>1, AcquiredAdmits, LiveOthers DEF FitsPhase
        <4>2. CASE k.state = "half-open"
          BY <1>1, <1>2, <1>3, <2>1, <2>3, <4>2, AcquiredAdmits, LiveOthers
        <4> QED
          BY <2>6, <4>1, <4>2
      <3>3. Live(q)' = {c}
        BY <2>4, <3>2
      <3>4. Circuit(q)!Probe(c)
        BY <2>6, <3>1, <3>3 DEF Circuit!Probe
      <3> QED
        BY <2>3, <3>1, <3>3, <3>4 DEF FitsPhase, Circuit!Next
    <2> QED
      BY <2>1, <2>5, <2>6
  <1>7. PInv'
    <2>1. ticket'[c] <= circuit'[ProviderOf(c)'].generation
      BY <1>1, <1>3, <1>6 DEF PInv, TypeOK
    <2> QED
      BY <1>3, <1>5, <1>6, <2>1, OneCallPInv
  <1> QED
    BY <1>1, <1>5, <1>6, <1>7 DEF KeepsPromise

\* A caller is admitted and does not learn of it: if the circuit is not closed,
\* no call is live.
LEMMA AcquireLostPInv ==
  ASSUME PInv, TypeOK', NEW c \in Callers, AcquireLost(c)
  PROVE  PInv' /\ KeepsPromise
  <1>0. PICK q \in Providers : q = ProviderOf(c)
    BY ProviderType DEF PInv
  <1> DEFINE k == circuit[q]
  <1>1. q \in Providers /\ k \in CircuitType
    BY <1>0 DEF PInv, TypeOK
  <1>2. /\ circuit' = [circuit EXCEPT ![q] = Acquired(k)]
        /\ circuit'[q] = Acquired(k)
    BY <1>0, <1>1 DEF PInv, TypeOK, AcquireLost, SetCircuit
  <1>3. c \notin Admitted /\ c \notin survivors
    BY DEF PInv, AcquireLost, Admitted
  <1>4. OnlyCall(c) /\ c \notin Admitted' /\ c \notin survivors'
    <2>1. CASE Finish(c)
      BY <2>1, FinishOnly DEF PInv
    <2>2. CASE UNCHANGED <<spc, callVars>>
      BY <1>3, <2>2 DEF callVars, OnlyCall, Admitted
    <2> QED
      BY <2>1, <2>2 DEF AcquireLost
  <1>5. \A p \in Providers : c \notin Live(p) /\ c \notin Live(p)'
    BY <1>3, <1>4 DEF Live
  <1>6. ASSUME NEW p \in Providers, circuit'[p] = circuit[p]
        PROVE  /\ circuit'[p].generation >= circuit[p].generation
               /\ FitsPhase(p)' /\ UNCHANGED Circuit(p)!vars
    BY <1>4, <1>5, <1>6, OtherCircuit
  <1>7. CASE Admits(k) /\ k.state # "closed"
    <2>1. /\ k.generation \in Nat /\ k.state \in {"open", "half-open"}
      BY <1>1, <1>7 DEF CircuitType
    <2>2. FitsPhase(q)
      BY <1>1 DEF PInv, LiveCallsFitPhase, FitsPhase
    <2>3. /\ circuit'[q].generation \in Nat /\ circuit'[q].generation >= k.generation
          /\ circuit'[q].state = "half-open"
      BY <1>1, <1>2, <1>7, <2>1, AcquiredAdmits
    <2>4. Live(q)' \ {c} = {}
      <3>1. CASE k.state = "open"
        BY <1>1, <1>2, <1>4, <1>7, <2>2, <2>3, <3>1, AcquiredAdmits, LiveOthers DEF FitsPhase
      <3>2. CASE k.state = "half-open"
        BY <1>1, <1>2, <1>4, <1>7, <2>1, <2>3, <3>2, AcquiredAdmits, LiveOthers
      <3> QED
        BY <2>1, <3>1, <3>2
    <2>5. Live(q)' = {}
      BY <1>1, <1>5, <2>4
    <2>6. FitsPhase(q)'
      BY <2>3, <2>5 DEF FitsPhase
    <2>7. Circuit(q)!ProbeUnheard
      BY <2>1, <2>3, <2>5 DEF Circuit!ProbeUnheard
    <2>8. \A p \in Providers : p # q => circuit'[p] = circuit[p]
      BY <1>1, <1>2 DEF PInv, TypeOK
    <2>9. PInv'
      BY <1>4, <1>6, <2>3, <2>6, <2>8, OneCallPInv
    <2> QED
      BY <1>6, <2>7, <2>8, <2>9 DEF KeepsPromise, Circuit!Next
  <1>8. CASE ~Admits(k) \/ k.state = "closed"
    <2>1. Acquired(k) = k
      BY <1>8 DEF Acquired
    <2>2. \A p \in Providers : circuit'[p] = circuit[p]
      BY <1>1, <1>2, <2>1 DEF PInv, TypeOK
    <2>3. PInv'
      BY <1>4, <1>6, <2>2, OneCallPInv
    <2> QED
      BY <1>6, <2>2, <2>3 DEF KeepsPromise
  <1> QED
    BY <1>7, <1>8


\* A circuit that keeps phase and generation, when no call becomes live.
LEMMA SameGeneration ==
  ASSUME PInv, NEW c \in Callers, OnlyCall(c), NEW p \in Providers,
         circuit'[p].state = circuit[p].state,
         circuit'[p].generation = circuit[p].generation,
         c \in Live(p)' => c \in Live(p)
  PROVE  /\ circuit'[p].generation >= circuit[p].generation
         /\ FitsPhase(p)'
         /\ Circuit(p)!Next \/ UNCHANGED Circuit(p)!vars
  <1>1. circuit[p].generation \in Nat
    BY DEF PInv, TypeOK, CircuitType
  <1>2. Live(p)' \ {c} = Live(p) \ {c}
    BY <1>1, LiveOthers
  <1>3. FitsPhase(p)
    BY DEF PInv, LiveCallsFitPhase, FitsPhase
  <1>4. FitsPhase(p)'
    <2>1. Live(p)' \subseteq Live(p)
      BY <1>2
    <2> QED
      BY <1>3, <2>1 DEF FitsPhase
  <1>5. CASE c \in Live(p) /\ c \notin Live(p)'
    <2>1. Live(p)' = Live(p) \ {c}
      BY <1>2, <1>5
    <2>2. Circuit(p)!Release(c)
      BY <1>5, <2>1 DEF Circuit!Release
    <2> QED
      BY <1>1, <1>4, <2>2 DEF Circuit!Next
  <1>6. CASE c \in Live(p)' <=> c \in Live(p)
    <2>1. Live(p)' = Live(p)
      BY <1>2, <1>6
    <2> QED
      BY <1>1, <1>4, <2>1 DEF Circuit!vars
  <1> QED
    BY <1>5, <1>6

\* A circuit that starts a new generation has no live call.
LEMMA NewGeneration ==
  ASSUME PInv, NEW c \in Callers, OnlyCall(c), NEW p \in Providers,
         circuit'[p].generation = circuit[p].generation + 1,
         c \notin Live(p)'
  PROVE  /\ circuit'[p].generation >= circuit[p].generation
         /\ FitsPhase(p)'
         /\ Live(p)' = {}
  <1>1. circuit[p].generation \in Nat
    BY DEF PInv, TypeOK, CircuitType
  <1>2. Live(p)' \ {c} = {}
    BY <1>1, LiveOthers
  <1>3. Live(p)' = {}
    BY <1>2
  <1> QED
    BY <1>1, <1>3 DEF FitsPhase

\* The report of a call, which ends or is sent again: if its ticket counts, it
\* leaves a closed circuit closed or ends the generation.  A call set apart may
\* do so without being live.
LEMMA ReportPInv ==
  ASSUME PInv, TypeOK', NEW c \in Callers, OnlyCall(c), c \in Admitted,
         circuit' = [circuit EXCEPT ![ProviderOf(c)] =
                        Completed(circuit[ProviderOf(c)], ticket[c], ok[c])],
         \/ c \notin Admitted' /\ c \notin survivors'
         \/ UNCHANGED <<spc, start, offset, ticket, survivors>>
  PROVE  PInv' /\ (c \notin survivors => KeepsPromise)
  <1>0. PICK q \in Providers : q = ProviderOf(c)
    BY ProviderType DEF PInv
  <1> DEFINE k == circuit[q]
             k2 == circuit'[q]
  <1>1. /\ k \in CircuitType /\ k2 = Completed(k, ticket[c], ok[c])
        /\ ticket[c] \in Nat /\ k.generation \in Nat
    BY <1>0 DEF PInv, TypeOK, CircuitType
  <1>2. /\ circuit'[q].generation >= circuit[q].generation
        /\ FitsPhase(q)'
        /\ c \notin survivors => Circuit(q)!Next \/ UNCHANGED Circuit(q)!vars
    <2>1. FitsPhase(q)
      BY DEF PInv, LiveCallsFitPhase, FitsPhase
    <2>2. CASE k2.generation = k.generation /\ k2.state = k.state
      <3>1. c \in Live(q)' => c \in Live(q)
        BY <2>2 DEF Live, Admitted, ProviderOf
      <3> QED
        BY <2>2, <3>1, SameGeneration
    <2>3. CASE /\ k2.generation = k.generation + 1 /\ ticket[c] = k.generation
               /\ \/ k.state \in {"closed", "half-open"} /\ k2.state = "open"
                  \/ k.state = "half-open" /\ k2.state = "closed"
      <3>1. c \notin Live(q)'
        BY <1>1, <2>3 DEF Live
      <3>2. k2.generation >= k.generation /\ FitsPhase(q)' /\ Live(q)' = {}
        BY <2>3, <3>1, NewGeneration
      <3>3. c \notin survivors => c \in Live(q)
        BY <1>0, <2>3 DEF Live
      <3>4. c \notin survivors => Circuit(q)!Trip \/ Circuit(q)!Recover
        BY <2>3, <3>2, <3>3 DEF Circuit!Trip, Circuit!Recover
      <3> QED
        BY <3>2, <3>4 DEF Circuit!Next
    <2> QED
      BY <1>1, <2>1, <2>2, <2>3, CompletedCases DEF FitsPhase
  <1>3. ASSUME NEW p \in Providers, p # q
        PROVE  /\ circuit'[p].generation >= circuit[p].generation
               /\ FitsPhase(p)' /\ UNCHANGED Circuit(p)!vars
    <2>1. circuit'[p] = circuit[p]
      BY <1>0, <1>3 DEF PInv, TypeOK
    <2>2. c \notin Live(p)
      BY <1>0, <1>3 DEF Live
    <2>3. c \notin Live(p)'
      BY <1>0, <1>3 DEF Live, ProviderOf
    <2> QED
      BY <2>1, <2>2, <2>3, OtherCircuit
  <1>4. PInv'
    <2>1. c \in survivors' => c \in Admitted'
      BY DEF Admitted
    <2>2. c \in Admitted' \ survivors' => ticket'[c] <= circuit'[ProviderOf(c)'].generation
      <3> SUFFICES ASSUME UNCHANGED <<spc, start, offset, ticket, survivors>>,
                          c \notin survivors
                   PROVE  ticket'[c] <= circuit'[ProviderOf(c)'].generation
        OBVIOUS
      <3>1. ticket'[c] = ticket[c] /\ ProviderOf(c)' = q
        BY <1>0 DEF ProviderOf
      <3>2. ticket[c] <= circuit[q].generation
        BY <1>0 DEF PInv, LiveCallsFitPhase
      <3>3. circuit'[q].generation \in Nat
        BY DEF TypeOK, CircuitType
      <3> QED
        BY <1>1, <1>2, <3>1, <3>2, <3>3
    <2> QED
      BY <1>2, <1>3, <2>1, <2>2, OneCallPInv
  <1> QED
    BY <1>2, <1>3, <1>4 DEF KeepsPromise

\* The call ends with its report.
LEMMA CompletePInv ==
  ASSUME PInv, TypeOK', NEW c \in Callers, Complete(c)
  PROVE  PInv' /\ (KeepsPromise \/ SurvivorReports)
  <1>1. OnlyCall(c) /\ c \notin Admitted' /\ c \notin survivors' /\ c \in Admitted
    BY FinishOnly DEF PInv, Complete, Admitted
  <1>2. PInv' /\ (c \notin survivors => KeepsPromise)
    BY <1>1, ReportPInv DEF Complete, SetCircuit
  <1> QED
    BY <1>2 DEF SurvivorReports

\* The report counts and is sent again.
LEMMA CompleteLostPInv ==
  ASSUME PInv, TypeOK', NEW c \in Callers, CompleteLost(c)
  PROVE  PInv' /\ (KeepsPromise \/ SurvivorReports)
  <1>1. UNCHANGED <<spc, start, offset, ticket, survivors>>
    BY DEF CompleteLost, callVars
  <1>2. OnlyCall(c) /\ c \in Admitted
    BY <1>1 DEF CompleteLost, OnlyCall, Admitted
  <1>3. PInv' /\ (c \notin survivors => KeepsPromise)
    BY <1>1, <1>2, ReportPInv DEF CompleteLost, SetCircuit
  <1> QED
    BY <1>3 DEF SurvivorReports

\* A call that ends without a report is live no more.
LEMMA EndPInv ==
  ASSUME PInv, TypeOK', NEW c \in Callers, Finish(c), UNCHANGED circuit
  PROVE  PInv' /\ KeepsPromise
  <1>1. OnlyCall(c) /\ c \notin Admitted' /\ c \notin survivors'
    BY FinishOnly DEF PInv
  <1>2. ASSUME NEW p \in Providers
        PROVE  /\ circuit'[p].generation >= circuit[p].generation
               /\ FitsPhase(p)'
               /\ Circuit(p)!Next \/ UNCHANGED Circuit(p)!vars
    <2>1. c \notin Live(p)'
      BY <1>1 DEF Live
    <2> QED
      BY <1>1, <2>1, SameGeneration
  <1>3. PInv'
    BY <1>1, <1>2, OneCallPInv
  <1> QED
    BY <1>2, <1>3 DEF KeepsPromise

\* A flush leaves new circuits, and sets every call in progress apart.
LEMMA FlushPInv == ASSUME PInv, TypeOK', RedisFlush PROVE PInv'
  <1>1. Admitted' = Admitted /\ survivors' = Admitted
    BY DEF RedisFlush, Admitted
  <1>2. \A p \in Providers : Live(p)' = {} /\ circuit'[p].state = "closed"
    BY <1>1 DEF Live, RedisFlush, NewCircuit
  <1>3. LiveCallsFitPhase'
    BY <1>1, <1>2 DEF LiveCallsFitPhase
  <1> QED
    BY <1>1, <1>3 DEF PInv

\* Time changes no live call.
LEMMA TickPInv == ASSUME PInv, TypeOK', Tick PROVE PInv' /\ KeepsPromise
  <1>1. UNCHANGED <<spc, start, offset, ticket, survivors>>
    BY DEF Tick, callVars
  <1>2. Admitted' = Admitted /\ \A d \in Callers : ProviderOf(d)' = ProviderOf(d)
    BY <1>1 DEF Admitted, ProviderOf
  <1>3. \A p \in Providers :
          /\ circuit'[p].state = circuit[p].state
          /\ circuit'[p].generation = circuit[p].generation
    BY ElapseSame DEF PInv, TypeOK, Tick
  <1>4. \A p \in Providers : Live(p)' = Live(p)
    BY <1>1, <1>2, <1>3 DEF Live, Admitted
  <1>5. LiveCallsFitPhase'
    <2>1. \A c \in Callers : ProviderOf(c) \in Providers
      BY ProviderType DEF PInv
    <2>2. \A c \in Admitted \ survivors :
            ticket'[c] <= circuit'[ProviderOf(c)'].generation
      BY <1>1, <1>2, <1>3, <2>1 DEF PInv, LiveCallsFitPhase, Admitted
    <2> QED
      BY <1>1, <1>2, <1>3, <1>4, <2>2 DEF PInv, LiveCallsFitPhase
  <1> QED
    BY <1>1, <1>2, <1>3, <1>4, <1>5 DEF PInv, KeepsPromise, Circuit!vars

-----------------------------------------------------------------------------
(* The theorems.                                                           *)

LEMMA InitPInv == Init => PInv /\ \A p \in Providers : Circuit(p)!Init
  <1> SUFFICES ASSUME Init PROVE PInv /\ \A p \in Providers : Circuit(p)!Init
    OBVIOUS
  <1>1. 0 \in Providers
    BY DEF Providers
  <1>2. TypeOK
    BY <1>1, NewType DEF Init, TypeOK
  <1>3. Admitted = {} /\ \A p \in Providers : Live(p) = {}
    BY DEF Init, Admitted, Live
  <1>4. \A p \in Providers : circuit[p].state = "closed"
    BY DEF Init, NewCircuit
  <1>5. survivors = {}
    BY DEF Init
  <1> QED
    BY <1>2, <1>3, <1>4, <1>5
    DEF PInv, LiveCallsFitPhase, Circuit!Init

\* The steps that touch neither a circuit nor a call that holds a ticket.
LEMMA WalkPInv ==
  ASSUME PInv, TypeOK', NEW c \in Callers,
         Select(c) \/ SelectLost(c) \/ AcquireRefused(c) \/ ProviderAnswers(c)
  PROVE  PInv' /\ KeepsPromise
  <1>1. /\ UNCHANGED <<circuit, survivors>> /\ Admitted' = Admitted
        /\ \A d \in Admitted : ticket'[d] = ticket[d] /\ ProviderOf(d)' = ProviderOf(d)
    <2>1. CASE Select(c)
      BY <2>1 DEF PInv, TypeOK, Select, Admitted, ProviderOf
    <2>2. CASE SelectLost(c)
      BY <2>2 DEF SelectLost, callVars, Admitted, ProviderOf
    <2>3. CASE AcquireRefused(c)
      BY <2>3 DEF PInv, TypeOK, AcquireRefused, Admitted, ProviderOf
    <2>4. CASE ProviderAnswers(c)
      BY <2>4 DEF PInv, TypeOK, ProviderAnswers, Admitted, ProviderOf
    <2> QED
      BY <2>1, <2>2, <2>3, <2>4
  <1> QED
    BY <1>1, QuietPInv DEF KeepsPromise

\* Every step keeps PInv, and is one that CircuitSpec allows of every circuit
\* unless the data was lost or a call that outlived it reports.
LEMMA NextPInv ==
  PInv /\ [Next]_vars => PInv' /\ (RedisFlush \/ SurvivorReports \/ KeepsPromise)
  <1> SUFFICES ASSUME PInv, [Next]_vars
               PROVE  PInv' /\ (RedisFlush \/ SurvivorReports \/ KeepsPromise)
    OBVIOUS
  <1>1. CASE Next
    <2>0. TypeOK'
      BY <1>1, NextType DEF PInv
    <2>1. ASSUME NEW c \in Callers, AcquireAllowed(c) PROVE PInv' /\ KeepsPromise
      BY <2>0, <2>1, AcquireAllowedPInv
    <2>2. ASSUME NEW c \in Callers, AcquireLost(c) PROVE PInv' /\ KeepsPromise
      BY <2>0, <2>2, AcquireLostPInv
    <2>3. ASSUME NEW c \in Callers, AllUnavailable(c) \/ Vanish(c) PROVE PInv' /\ KeepsPromise
      BY <2>0, <2>3, EndPInv DEF AllUnavailable, Vanish
    <2>4. ASSUME NEW c \in Callers, Complete(c) PROVE PInv' /\ (KeepsPromise \/ SurvivorReports)
      BY <2>0, <2>4, CompletePInv
    <2>5. ASSUME NEW c \in Callers, CompleteLost(c) PROVE PInv' /\ (KeepsPromise \/ SurvivorReports)
      BY <2>0, <2>5, CompleteLostPInv
    <2>6. CASE RedisFlush
      BY <2>0, <2>6, FlushPInv
    <2>7. CASE Tick
      BY <2>0, <2>7, TickPInv
    <2> QED
      BY <1>1, <2>0, <2>1, <2>2, <2>3, <2>4, <2>5, <2>6, <2>7, WalkPInv DEF Next, CallStep
  <1>2. CASE UNCHANGED vars
    <2>1. UNCHANGED <<circuit, cursor, spc, start, offset, ticket, ok, survivors, losses>>
      BY <1>2 DEF vars, callVars
    <2>2. TypeOK'
      BY <2>1 DEF PInv, TypeOK
    <2>3. Admitted' = Admitted
      BY <2>1 DEF Admitted
    <2>4. \A d \in Admitted : ticket'[d] = ticket[d] /\ ProviderOf(d)' = ProviderOf(d)
      BY <2>1 DEF ProviderOf
    <2> QED
      BY <2>1, <2>2, <2>3, <2>4, QuietPInv DEF KeepsPromise
  <1> QED
    BY <1>1, <1>2

\* The calls set apart stay in progress, and tickets and phases of all circuits fit
\* together whatever replies are lost, workers die or data goes.
LEMMA PoolInvariance == Spec => []PInv
  BY InitPInv, NextPInv, PTL DEF Spec

\* The pool and its circuits keep their types.
THEOREM PoolTypeCorrect == Spec => []TypeOK
  <1>1. PInv => TypeOK
    BY DEF PInv
  <1> QED
    BY <1>1, PoolInvariance, PTL

\* An open circuit has no call that counts, a half-open one at most its probe,
\* and no ticket is ahead of its circuit.
THEOREM PoolLiveCallsFitPhase == Spec => []LiveCallsFitPhase
  <1>1. PInv => LiveCallsFitPhase
    BY DEF PInv
  <1> QED
    BY <1>1, PoolInvariance, PTL

\* The two scripts and the pool that calls them implement CircuitSpec for every
\* provider, but for the loss of the data and the reports that outlive it.
THEOREM PoolRefinement == Spec => ImplementsCircuitSpec
  <1>1. PInv /\ [Next]_vars =>
          [\/ RedisFlush \/ SurvivorReports
           \/ \A p \in Providers : Circuit(p)!Next \/ UNCHANGED Circuit(p)!vars]_vars
    BY NextPInv DEF KeepsPromise
  <1> QED
    BY <1>1, InitPInv, PoolInvariance, PTL DEF Spec, ImplementsCircuitSpec
=============================================================================
