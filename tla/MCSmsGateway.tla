---------------------------- MODULE MCSmsGateway ----------------------------
(***************************************************************************)
(* Instances of SmsGateway for TLC: one wallet, up to three messages, two  *)
(* workers, at most one top-up, and the constants that are functions.      *)
(***************************************************************************)
EXTENDS SmsGateway, TLC

CONSTANTS m1, m2, m3, w1, w2, acct, t1

\* Express costs more than Normal, as in the seeded price table.
MCCost == [l \in Lines |-> IF l = "express" THEN 2 ELSE 1]

AllNormal  == [m \in Messages |-> "normal"]
AllExpress == [m \in Messages |-> "express"]

OneWallet == [m \in Messages |-> acct]

NormalWorkers  == [w \in Workers |-> "normal"]
ExpressWorkers == [w \in Workers |-> "express"]

\* One slot on each line: the second request of a line may find it taken.
OneSlot  == [l \in Lines |-> 1]
TwoSlots == [l \in Lines |-> 2]

Balance2 == [w \in Wallets |-> 2]
Balance3 == [w \in Wallets |-> 3]

TopUpTo  == [t \in TopUps |-> acct]
TopUpBy  == [t \in TopUps |-> 1]

Symmetry == Permutations(Messages) \cup Permutations(Workers)
=============================================================================
