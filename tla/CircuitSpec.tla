---------------------------- MODULE CircuitSpec ----------------------------
(***************************************************************************)
(* What a provider circuit promises, whoever keeps its state: a set of     *)
(* live calls, the ones whose result will count.  While the circuit is     *)
(* closed every admitted call is live.  An open circuit has no live call.  *)
(* A half-open circuit has at most one, the probe, and only its result     *)
(* closes or reopens the circuit; admitting another probe disowns the      *)
(* first.  Generation numbers, failure counts, clocks and leases are means *)
(* to this end and do not appear.                                          *)
(***************************************************************************)
CONSTANT Callers

VARIABLES
    phase,      \* "closed", "open" or "half-open"
    live        \* the callers whose result will count

Init == phase = "closed" /\ live = {}

Admit(c) ==
    /\ phase = "closed"
    /\ live' = live \cup {c}
    /\ UNCHANGED phase

Probe(c) ==
    /\ phase \in {"open", "half-open"}
    /\ phase' = "half-open"
    /\ live' = {c}

\* A probe is admitted, and its caller never learns of it.
ProbeUnheard ==
    /\ phase \in {"open", "half-open"}
    /\ phase' = "half-open"
    /\ live' = {}

\* The result of a live call leaves the circuit closed, or the caller is gone.
Release(c) ==
    /\ c \in live
    /\ live' = live \ {c}
    /\ UNCHANGED phase

\* The failure of a live call opens the circuit; all other calls are disowned.
Trip ==
    /\ phase \in {"closed", "half-open"}
    /\ live # {}
    /\ phase' = "open"
    /\ live' = {}

Recover ==
    /\ phase = "half-open"
    /\ live # {}
    /\ phase' = "closed"
    /\ live' = {}

Next ==
    \/ \E c \in Callers : Admit(c) \/ Probe(c) \/ Release(c)
    \/ ProbeUnheard \/ Trip \/ Recover

vars == <<phase, live>>

Spec == Init /\ [][Next]_vars
=============================================================================
