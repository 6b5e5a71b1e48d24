-------------------------- MODULE OutboxDispatcher --------------------------
(***************************************************************************)
(* The outbox dispatcher (Dispatcher in messaging/rabbitmq.go): it reads a *)
(* batch of unpublished rows of one line, publishes all of it, then waits  *)
(* for the confirms and marks the rows one by one.  Any error makes Run    *)
(* return and the process exit; what was published and not yet marked is   *)
(* then published again after the restart.                                 *)
(*                                                                         *)
(* Which rows of a line selectFairRows picks is left open here: any        *)
(* nonempty set of the pending rows.                                       *)
(***************************************************************************)
EXTENDS WalletLedger, Broker

VARIABLES
    toPublish,  \* rows of the current batch that are not yet sent
    toConfirm,  \* rows sent, stored by the broker and not yet marked published
    refused     \* rows sent and not stored: the broker nacks them

dispatcherVars == <<toPublish, toConfirm, refused>>

Pending(l) == {m \in Messages : LineOf[m] = l /\ outbox[m] = "pending"}

\* publishLineBatch reads the rows WHERE published_at IS NULL.
SelectBatch(l) ==
    /\ toPublish = {} /\ toConfirm = {} /\ refused = {}
    /\ toPublish' \in (SUBSET Pending(l)) \ {{}}
    /\ NoFault
    /\ UNCHANGED <<toConfirm, refused, brokerVars, dbVars>>

\* PublishWithDeferredConfirm: the broker has the row, the table says pending.
PublishRow(m) ==
    /\ m \in toPublish
    /\ Publish(m)
    /\ toPublish' = toPublish \ {m}
    /\ toConfirm' = toConfirm \cup {m}
    /\ NoFault
    /\ UNCHANGED <<refused, dbVars>>

\* The same, and the broker does not store the row.  The batch is sent to its
\* end before anybody asks.
PublishRefused(m) ==
    /\ Fault("publishNack")
    /\ m \in toPublish
    /\ toPublish' = toPublish \ {m}
    /\ refused' = refused \cup {m}
    /\ UNCHANGED <<toConfirm, brokerVars, dbVars>>

\* The whole batch is sent before the first confirm is awaited.
ConfirmRow(m) ==
    /\ toPublish = {}
    /\ m \in toConfirm
    /\ toConfirm' = toConfirm \ {m}
    /\ outbox' = [outbox EXCEPT ![m] = "published"]
    /\ NoFault
    /\ UNCHANGED <<toPublish, refused, brokerVars, balance, debits, status>>

\* Wait answers false: the batch ends there, with the rows behind unmarked.
ConfirmRefused ==
    /\ toPublish = {}
    /\ refused # {}
    /\ toConfirm' = {}
    /\ refused' = {}
    /\ NoFault
    /\ UNCHANGED <<toPublish, brokerVars, dbVars>>

\* A publish, a confirm or the update fails, or the process dies: the batch is
\* forgotten, the copies already in the broker are not.
DispatcherStop ==
    /\ Fault("dispatcherStop")
    /\ toPublish \cup toConfirm \cup refused # {}
    /\ toPublish' = {}
    /\ toConfirm' = {}
    /\ refused' = {}
    /\ UNCHANGED <<brokerVars, dbVars>>

DispatcherStep ==
    \/ \E l \in Lines : SelectBatch(l)
    \/ \E m \in Messages : PublishRow(m) \/ ConfirmRow(m)
    \/ ConfirmRefused

DispatcherFault == DispatcherStop \/ \E m \in Messages : PublishRefused(m)
=============================================================================
