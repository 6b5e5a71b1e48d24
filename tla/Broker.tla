------------------------------- MODULE Broker -------------------------------
(***************************************************************************)
(* RabbitMQ as the gateway uses it (Declare in messaging/rabbitmq.go): one *)
(* durable quorum queue per line, persistent messages, manual              *)
(* acknowledgements.  A copy is in a queue or with the consumer it was     *)
(* delivered to.  The order of a queue matters to no property here, so a   *)
(* queue is a count of the copies of each message; a message is on the     *)
(* queue of its line.                                                      *)
(*                                                                         *)
(* Declare gives the queues no x-delivery-limit and no dead-letter         *)
(* exchange: the broker's own limit applies, and a copy that comes back    *)
(* once more after so many redeliveries is dropped for good.               *)
(***************************************************************************)
EXTENDS GatewayBase

CONSTANT DeliveryLimit      \* redeliveries of one copy: 20 in RabbitMQ 4.1

ASSUME BrokerAssumption == DeliveryLimit \in Nat

VARIABLES
    ready,      \* ready[m]: copies of m waiting in the queue of its line
    returned    \* returned[m]: how often copies of m came back, up to one
                \* more than the limit

brokerVars == <<ready, returned>>

\* A published copy is stored.
Publish(m) ==
    /\ ready' = [ready EXCEPT ![m] = @ + 1]
    /\ UNCHANGED returned

\* basic.deliver: the copy leaves the queue and is held, unacknowledged, by
\* one consumer.
Deliver(m) ==
    /\ ready[m] > 0
    /\ ready' = [ready EXCEPT ![m] = @ - 1]
    /\ UNCHANGED returned

CountReturn(m) ==
    returned' = [returned EXCEPT ![m] = IF @ <= DeliveryLimit THEN @ + 1 ELSE @]

\* A nack with requeue, or the loss of the consumer that held the copy.  The
\* copies of a message are not told apart: when together they have come back
\* as often as the limit, this copy may be the one that has used it up.
Requeue(m) ==
    /\ CountReturn(m)
    /\ \/ ready' = [ready EXCEPT ![m] = @ + 1]
       \/ returned[m] >= DeliveryLimit /\ UNCHANGED ready

\* The same of a copy that its consumer has fetched in advance.
ReturnFetched(m) ==
    /\ ready[m] > 0
    /\ CountReturn(m)
    /\ \/ UNCHANGED ready
       \/ returned[m] >= DeliveryLimit /\ ready' = [ready EXCEPT ![m] = @ - 1]

\* Only then may a copy of m have been dropped.
Exhausted(m) == returned[m] > DeliveryLimit
=============================================================================
