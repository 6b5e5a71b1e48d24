---------------------------- MODULE AtomicLedger ----------------------------
(***************************************************************************)
(* What the wallets promise when a message is charged before it is queued: *)
(* accounts that change by one whole operation at a time.  A message is    *)
(* charged at most once and only from credit the wallet has; a charged     *)
(* message ends once, delivered or with exactly its price returned.  Locks,*)
(* transactions, copies, retries and crashes do not appear.                *)
(***************************************************************************)
EXTENDS Integers

CONSTANTS Messages, Wallets, WalletOf, Price, MaxBalance

VARIABLES
    open,       \* the wallets that exist
    balance,    \* balance[w]: the credit of w
    charged,    \* the messages that were charged
    outcome     \* outcome[m]: "none", "delivered" or "refunded"

vars == <<open, balance, charged, outcome>>

Init ==
    /\ open = {}
    /\ balance = [w \in Wallets |-> 0]
    /\ charged = {}
    /\ outcome = [m \in Messages |-> "none"]

Open(w) ==
    /\ w \notin open
    /\ open' = open \cup {w}
    /\ \E n \in 0..MaxBalance : balance' = [balance EXCEPT ![w] = n]
    /\ UNCHANGED <<charged, outcome>>

TopUp(w) ==
    /\ w \in open
    /\ \E n \in 1..(MaxBalance - balance[w]) : balance' = [balance EXCEPT ![w] = @ + n]
    /\ UNCHANGED <<open, charged, outcome>>

Charge(m) ==
    /\ WalletOf[m] \in open
    /\ m \notin charged
    /\ balance[WalletOf[m]] >= Price[m]
    /\ balance' = [balance EXCEPT ![WalletOf[m]] = @ - Price[m]]
    /\ charged' = charged \cup {m}
    /\ UNCHANGED <<open, outcome>>

Pending(m) == m \in charged /\ outcome[m] = "none"

Deliver(m) ==
    /\ Pending(m)
    /\ outcome' = [outcome EXCEPT ![m] = "delivered"]
    /\ UNCHANGED <<open, balance, charged>>

Refund(m) ==
    /\ Pending(m)
    /\ balance[WalletOf[m]] + Price[m] <= MaxBalance
    /\ outcome' = [outcome EXCEPT ![m] = "refunded"]
    /\ balance' = [balance EXCEPT ![WalletOf[m]] = @ + Price[m]]
    /\ UNCHANGED <<open, charged>>

Next ==
    \/ \E w \in Wallets : Open(w) \/ TopUp(w)
    \/ \E m \in Messages : Charge(m) \/ Deliver(m) \/ Refund(m)

Spec == Init /\ [][Next]_vars
=============================================================================
