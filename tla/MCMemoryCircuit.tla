-------------------------- MODULE MCMemoryCircuit --------------------------
(***************************************************************************)
(* Three callers: a probe, and two calls that were admitted before it.     *)
(***************************************************************************)
EXTENDS MemoryCircuit
=============================================================================
