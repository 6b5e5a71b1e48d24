------------------------ MODULE MemoryCircuitProofs ------------------------
(***************************************************************************)
(* Proofs about the in-process circuit, for any number of callers, any     *)
(* threshold and cooldown and any bound on the generations.                *)
(***************************************************************************)
EXTENDS MemoryCircuit, TLAPS

USE MemoryAssumption DEF NoTicket

\* The initial state.
LEMMA InitMInv == Init => MInv
  <1> SUFFICES ASSUME Init PROVE MInv
    OBVIOUS
  <1>1. TypeOK
    <2>1. halfOpenInFlight \in BOOLEAN
      BY DEF Init
    <2> QED
      BY <2>1 DEF Init, TypeOK
  <1>2. \A c \in Callers : ~Sending(c)
    BY DEF Init, Sending
  <1> QED
    BY <1>1, <1>2 DEF Init, MInv

\* An acquire of a closed circuit keeps the invariant: the new call is live.
LEMMA AcquireClosedMInv ==
  ASSUME MInv, NEW c \in Callers, AcquireClosed(c)
  PROVE  MInv' /\ Circuit!Next
  <1> USE DEF MInv, TypeOK, Sending, AcquireClosed
  <1>1. Live' = Live \cup {c}
    BY DEF Live
  <1>2. MInv'
    BY <1>1 DEF Live
  <1>3. Circuit!Admit(c)
    BY <1>1 DEF Circuit!Admit
  <1> QED
    BY <1>2, <1>3 DEF Circuit!Next

\* A probe is the only live call.
LEMMA AcquireProbeMInv ==
  ASSUME MInv, NEW c \in Callers, AcquireProbe(c)
  PROVE  MInv' /\ Circuit!Next
  <1> USE DEF MInv, TypeOK, Sending, AcquireProbe
  <1>1. state = "open" /\ Live = {}
    OBVIOUS
  <1>2. Live' = {c}
    BY <1>1 DEF Live
  <1>3. MInv'
    BY <1>1, <1>2
  <1>4. Circuit!Probe(c)
    BY <1>1, <1>2 DEF Circuit!Probe
  <1> QED
    BY <1>3, <1>4 DEF Circuit!Next

\* The result of a disowned call changes nothing.
LEMMA CompleteStaleMInv ==
  ASSUME MInv, NEW c \in Callers, CompleteStale(c)
  PROVE  MInv' /\ UNCHANGED Circuit!vars
  <1> USE DEF MInv, TypeOK, Sending, CompleteStale, Returned
  <1>1. UNCHANGED Live
    BY DEF Live
  <1> QED
    BY <1>1 DEF Circuit!vars

\* A new generation has no live call.
LEMMA NewGeneration ==
  ASSUME MInv, NEW c \in Callers, ticket[c] = generation, Returned(c),
         generation' = generation + 1
  PROVE  Live' = {}
  BY DEF MInv, TypeOK, Sending, Returned, Live

\* The result of the probe closes or reopens the circuit.
LEMMA CompleteProbeMInv ==
  ASSUME MInv, NEW c \in Callers, CompleteProbe(c)
  PROVE  MInv' /\ Circuit!Next
  <1> USE DEF MInv, TypeOK, Sending, CompleteProbe, Returned
  <1>1. generation' = generation + 1 /\ Live' = {}
    BY NewGeneration DEF Open
  <1>2. c \in Live
    BY DEF Live
  <1>3. MInv'
    <2>1. halfOpenInFlight' \in BOOLEAN /\ ~halfOpenInFlight'
      BY Zenon DEF CompleteProbe
    <2>2. CASE Open /\ UNCHANGED failures
      BY <1>1, <2>1, <2>2 DEF Open
    <2>3. CASE state' = "closed" /\ failures' = 0 /\ UNCHANGED cooling
      BY <1>1, <2>1, <2>3
    <2> QED
      BY <2>2, <2>3
  <1>4. Circuit!Trip \/ Circuit!Recover
    BY <1>1, <1>2 DEF Circuit!Trip, Circuit!Recover, Open
  <1> QED
    BY <1>3, <1>4 DEF Circuit!Next

\* The result of a call of a closed circuit lets it go, or opens the circuit.
LEMMA CompleteClosedMInv ==
  ASSUME MInv, NEW c \in Callers, CompleteClosed(c)
  PROVE  MInv' /\ Circuit!Next
  <1> USE DEF MInv, TypeOK, Sending, CompleteClosed, Returned
  <1>1. c \in Live
    BY DEF Live
  <1>2. CASE UNCHANGED <<state, cooling, generation>>
    <2>1. Live' = Live \ {c}
      BY <1>2 DEF Live
    <2>2. failures' < FailureThreshold /\ failures' \in 0..FailureThreshold
      BY <1>2 DEF Open
    <2>3. MInv'
      BY <1>2, <2>1, <2>2
    <2>4. Circuit!Release(c)
      BY <1>1, <1>2, <2>1 DEF Circuit!Release
    <2> QED
      BY <2>3, <2>4 DEF Circuit!Next
  <1>3. CASE Open /\ failures' = failures + 1
    <2>1. Live' = {}
      BY <1>3, NewGeneration DEF Open
    <2>2. MInv'
      BY <1>3, <2>1 DEF Open
    <2>3. Circuit!Trip
      BY <1>1, <1>3, <2>1 DEF Circuit!Trip, Open
    <2> QED
      BY <2>2, <2>3 DEF Circuit!Next
  <1> QED
    BY <1>2, <1>3

\* Time passes unnoticed.
LEMMA TickMInv ==
  ASSUME MInv, Tick
  PROVE  MInv' /\ UNCHANGED Circuit!vars
  BY DEF MInv, TypeOK, Sending, Live, Tick, Circuit!vars

\* A step that changes nothing.
LEMMA StutterMInv ==
  ASSUME MInv, UNCHANGED vars
  PROVE  MInv' /\ UNCHANGED Circuit!vars
  BY DEF MInv, TypeOK, Sending, Live, vars, Circuit!vars

\* Every step keeps the invariant and is one of CircuitSpec, or none.
LEMMA NextMInv == MInv /\ [Next]_vars => MInv' /\ [Circuit!Next]_Circuit!vars
  BY AcquireClosedMInv, AcquireProbeMInv, CompleteStaleMInv, CompleteProbeMInv,
     CompleteClosedMInv, TickMInv, StutterMInv
  DEF Next, CallStep

\* MInv holds in every reachable state.
THEOREM MemoryInvariance == Spec => []MInv
  BY InitMInv, NextMInv, PTL DEF Spec

\* Every variable of the circuit keeps its type; the failure count never passes
\* its threshold.
THEOREM MemoryTypeCorrect == Spec => []TypeOK
  <1>1. MInv => TypeOK
    BY DEF MInv
  <1> QED
    BY <1>1, MemoryInvariance, PTL

\* The flag of acquire and complete is set exactly while a probe whose result
\* will count is under way: it cannot be left behind and shut the provider out.
THEOREM MemoryFlag == Spec => []FlagMeansLiveProbe
  <1>1. MInv => FlagMeansLiveProbe
    BY DEF MInv, FlagMeansLiveProbe
  <1> QED
    BY <1>1, MemoryInvariance, PTL

\* acquire and complete implement CircuitSpec.
THEOREM MemoryRefinement == Spec => ImplementsCircuitSpec
  <1>1. Init => Circuit!Init
    BY DEF Init, Live, Circuit!Init
  <1> QED
    BY <1>1, MemoryInvariance, NextMInv, PTL
    DEF Spec, Circuit!Spec, ImplementsCircuitSpec
=============================================================================
