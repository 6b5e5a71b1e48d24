-------------------------- MODULE MCLegacyGateway --------------------------
(***************************************************************************)
(* An instance of LegacyGateway for TLC: one wallet, created and topped up *)
(* in the course of the behaviour, and amounts at the edges of the integer.*)
(***************************************************************************)
EXTENDS LegacyGateway, TLC

CONSTANTS m1, v1, v2, acct, open, chan, top1

MCCost == [l \in Lines |-> IF l = "express" THEN 2 ELSE 1]

AllExpress == [m \in Messages |-> "express"]
ExpressWorkers == [v \in Workers |-> "express"]
OneWallet == [m \in Messages |-> acct]

MCAdminKind == [a \in Admins |-> IF a = open THEN "createWallet"
                                 ELSE IF a = chan THEN "createChannel" ELSE "topUp"]
MCAdminWallet == [a \in Admins |-> acct]

\* A charge of 2 is refused at a balance of 1; a refund after a balance of 3, the
\* charge and a top-up of 3 does not fit; the last one wraps around or converts
\* differently from build to build.
MCAmounts == {1, 3, IntMax + 1}
=============================================================================
