--------------------------- MODULE MCProviderPool ---------------------------
(***************************************************************************)
(* Two providers and two callers, which is what overlapping probes need.   *)
(***************************************************************************)
EXTENDS ProviderPool
=============================================================================
