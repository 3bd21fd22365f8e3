-------------------------- MODULE BlindPayWebhooks --------------------------
(***************************************************************************)
(* Verified BlindPay payout notifications (settlement/blindpay/webhook.go):*)
(* the HTTP handler stores and processes a delivery in one transaction, a  *)
(* reconciler processes stored terminal deliveries again, batch by batch,  *)
(* until they have produced an event.  A notification (its svix id) may be *)
(* delivered any number of times and in any order.                         *)
(***************************************************************************)
EXTENDS PayoutSaga, PayoutExecution, Ledger, FiniteSets

CONSTANT BatchLimit    \* the LIMIT of one pass of the reconciler, 100 in the code

ASSUME BatchLimitAssumption == BatchLimit \in Nat \ {0}

VARIABLES
  stored,      \* blindpay_webhook_events
  emitted,     \* notifications with an outbox row evt_blindpay_<svix id>
  batch        \* what the reconciler's pass has loaded and not processed yet

webhookVars == <<stored, emitted, batch>>

WebhookTypeOK ==
  /\ stored \subseteq Webhook
  /\ emitted \subseteq Webhook
  /\ batch \subseteq Webhook

WebhookInit == stored = {} /\ emitted = {} /\ batch = {}

Terminal(status) == status \in {"completed", "failed", "refunded"}

payoutStatusRank(status) ==
  CASE status \in {"submission_pending", "unknown"} -> 1
    [] status = "processing"                        -> 2
    [] status = "on_hold"                           -> 3
    [] Terminal(status)                             -> 4
    [] OTHER                                        -> 0

payoutStatusCanAdvance(current, next) ==
  IF current = next \/ current \in {"failed", "refunded"} THEN FALSE
  ELSE IF current = "completed" THEN next = "refunded"
  ELSE payoutStatusRank(next) > payoutStatusRank(current)

SagaEventType(status) ==
  CASE status = "completed" -> "payout.provider_completed"
    [] status = "refunded"  -> "payout.provider_returned"
    [] status = "on_hold"   -> "payout.on_hold"
    [] OTHER                -> "payout.provider_failed"

\* enqueueSagaResult: once per svix id, and only when the saga exists.
enqueueSagaResult(w) ==
  IF saga[w.payment] # "none" /\ w \notin emitted
  THEN /\ events' = Append(events, Evt(SagaEventType(w.status), w.payment))
       /\ emitted' = emitted \cup {w}
  ELSE UNCHANGED <<events, emitted>>

-----------------------------------------------------------------------------
\* Process, by the branches of its transaction.

Matched(w)  == w.payment \in ref
Advances(w) == Matched(w) /\ payoutStatusCanAdvance(payout[w.payment], w.status)
PostSuccessReturn(w) ==
  Advances(w) /\ payout[w.payment] = "completed" /\ w.status = "refunded"

\* Unmatched, or not an advance: the delivery is only stored, except that a
\* terminal status the row already has is reported to the saga again.
ProcessIdle(w) ==
  /\ ~Advances(w)
  /\ IF Matched(w) /\ payout[w.payment] = w.status /\ Terminal(w.status)
     THEN enqueueSagaResult(w)
     ELSE UNCHANGED <<events, emitted>>
  /\ UNCHANGED <<payout, ledgerVars, announced>>

ProcessAdvance(w) ==
  /\ Advances(w) /\ ~PostSuccessReturn(w)
  /\ payout' = [payout EXCEPT ![w.payment] = w.status]
  /\ enqueueSagaResult(w)
  /\ UNCHANGED <<ledgerVars, announced>>

\* The return announced as a failure of the payment.
MutantProcessReturnFails(w) ==
  /\ PostSuccessReturn(w)
  /\ RecordReturn(w.payment)
  /\ payout' = [payout EXCEPT ![w.payment] = "refunded"]
  /\ Announce(w.payment, {"payment.failed"})
  /\ emitted' = emitted \cup {w}
  /\ UNCHANGED events

\* A return recorded as soon as the provider has reported both statuses.
MutantProcessReturn(w) ==
  /\ PostSuccessReturn(w)
  /\ journals' = [journals EXCEPT ![w.payment] = @ \cup {"payment.return.succeeded"}]
  /\ payout' = [payout EXCEPT ![w.payment] = "refunded"]
  /\ Announce(w.payment, {"payment.return.succeeded"})
  /\ emitted' = emitted \cup {w}
  /\ UNCHANGED <<events, payment>>

ProcessReturn(w) ==
  /\ PostSuccessReturn(w)
  /\ RecordReturn(w.payment)
  /\ payout' = [payout EXCEPT ![w.payment] = "refunded"]
  /\ Announce(w.payment, {"payment.return.succeeded"})
  /\ emitted' = emitted \cup {w}
  /\ UNCHANGED events

Process(w) ==
  /\ ProcessIdle(w) \/ ProcessAdvance(w) \/ ProcessReturn(w)
  /\ stored' = stored \cup {w}
  /\ UNCHANGED <<commands, sagaVars, ref, submitted, provider, sent>>

\* RecordReturn refuses a payment that is not settled yet: the transaction is
\* rolled back, the stored delivery included.
ProcessFails(w) == PostSuccessReturn(w) /\ ~ReturnAllowed(w.payment)

\* The provider delivers a notification; a failed delivery changes nothing and
\* is repeated by the provider.
DeliverWebhook(w) ==
  /\ w \in sent
  /\ Process(w)
  /\ UNCHANGED <<batch, worker, crashes>>

-----------------------------------------------------------------------------
\* ReconcileOnce: one query, then one transaction for each row it returned.

\* A reconciler that only looks for completed payouts.
MutantUnreconciled == {w \in stored : w.status = "completed" /\ w \notin emitted}

Unreconciled == {w \in stored : Terminal(w.status) /\ w \notin emitted}

\* The query.  received_at is not modelled: any of the rows may be the oldest.
LoadBatch ==
  /\ batch = {}
  /\ \E rows \in SUBSET Unreconciled :
       /\ rows # {} /\ Cardinality(rows) <= BatchLimit
       /\ rows = Unreconciled \/ Cardinality(rows) = BatchLimit
       /\ batch' = rows
  /\ UNCHANGED <<messagingVars, sagaVars, ledgerVars, executionVars, stored, emitted>>

\* The next row, as the tables are by now.
ReconcileNext(w) ==
  /\ w \in batch
  /\ Process(w)
  /\ batch' = batch \ {w}
  /\ UNCHANGED <<worker, crashes>>

ReconcileOnce == LoadBatch \/ \E w \in batch : ReconcileNext(w)

\* The first error ends the pass, whatever is left of it, and makes RunReconciler
\* return, which stops the whole process.
ReconcileFails(w) ==
  /\ w \in batch /\ ProcessFails(w)
  /\ crashes < MaxCrashes
  /\ worker' = Idle
  /\ batch' = {}
  /\ crashes' = crashes + 1
  /\ UNCHANGED <<messagingVars, sagaVars, ledgerVars, stored, emitted>>
  /\ UNCHANGED <<payout, ref, submitted, provider, sent>>
=============================================================================
