---------------------------- MODULE MCFairOutbox ----------------------------
(***************************************************************************)
(* Instances of FairOutbox for TLC.  The limits are scaled down: a batch   *)
(* of two rows and a query that reads three or four, where the code has    *)
(* 100 and 1000.                                                           *)
(***************************************************************************)
EXTENDS FairOutbox

CONSTANTS a1, a2, b1, z1, x1, acct

\* a1 and a2 are rows of channel a on the normal line, x1 one on the express line.
MCChannelOf ==
    [m \in Messages |-> CASE m = b1 -> "b" [] m = z1 -> "z" [] OTHER -> "a"]

MCLineOf == [m \in Messages |-> IF m = x1 THEN "express" ELSE "normal"]

OneWallet == [m \in Messages |-> acct]
UnitCost  == [l \in Lines |-> 1]
Names     == <<"a", "b", "z">>
=============================================================================
