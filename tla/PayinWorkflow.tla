--------------------------- MODULE PayinWorkflow ---------------------------
(***************************************************************************)
(* The pay-in workflow: creation, the commands of the settlement worker    *)
(* (workers/handlers.go), execution against the BlindPay adapter           *)
(* (paymentcore/payin/execute.go, result.go), the receipt journal          *)
(* (ledger/service.go RecordPayin) and BlindPay's pay-in notifications     *)
(* with their reconciler (settlement/blindpay/webhook.go).                 *)
(*                                                                         *)
(* Execution is not one transaction: prepare commits the attempt, the HTTP *)
(* call follows, an error is recorded in a transaction of its own, and the *)
(* result is applied with the command's inbox row.                         *)
(***************************************************************************)
EXTENDS PayinSaga, FiniteSets

CONSTANTS
  BatchLimit,    \* the LIMIT of one pass of the reconciler, 100 in the code
  MaxCrashes     \* bound: process stops in one behaviour

ASSUME PayinWorkflowAssumption == BatchLimit \in Nat \ {0} /\ MaxCrashes \in Nat

VARIABLES
  payment,       \* payments.payment_status
  payin,         \* payins.settlement_status
  ref,           \* pay-ins whose row has a provider_payin_id
  journals,      \* ledger_journals posted for the pay-in
  announced,     \* payment-events: the public types announced
  written,       \* ids of the workflow events that have a deterministic one
  worker,        \* where the command worker is, and the result it holds
  provider,      \* the provider's own record, by idempotency key
  sent,          \* notifications the provider has sent
  stored,        \* blindpay_webhook_events
  applied,       \* provider_webhook_applications
  batch,         \* what the reconciler's pass has loaded and not processed yet
  crashes        \* process stops so far (bounded by MaxCrashes)

rowVars == <<payment, payin, ref, journals, announced, written>>
providerVars == <<provider, sent>>
webhookVars == <<stored, applied, batch>>
vars == <<commands, events, sagaVars, rowVars, worker, providerVars, webhookVars, crashes>>

PaymentStatuses == {"none", "created", "processing", "succeeded", "failed"}

\* The CHECK constraint of payins.settlement_status.
PayinStatuses ==
  {"created", "submission_pending", "unknown", "processing", "on_hold",
   "received", "failed", "refunded"}

ProviderStatuses == {"processing", "on_hold", "completed", "failed", "refunded"}
ExecutionStatuses == {"pending", "on_hold", "succeeded", "failed"}
PublicTypes == {"payment.created", "payment.processing", "payment.succeeded", "payment.failed"}
JournalTypes == {"payin.succeeded", "payin.refunded"}
Sources == {"own", "webhook"}

Webhook == [payin : Payins, status : ProviderStatuses]

At(pc, result) == [pc |-> pc, result |-> result]
Idle == At("idle", "none")

TypeOK ==
  /\ SagaTypeOK
  /\ payment \in [Payins -> PaymentStatuses]
  /\ payin \in [Payins -> PayinStatuses \cup {"none"}]
  /\ ref \subseteq Payins
  /\ journals \in [Payins -> SUBSET JournalTypes]
  /\ announced \in [Payins -> SUBSET PublicTypes]
  /\ written \subseteq [payin : Payins, source : Sources, type : EventTypes]
  /\ worker \in [pc : {"idle", "call", "record", "apply"},
                 result : ExecutionStatuses \cup {"none", "rejected", "unknown"}]
  /\ provider \in [Payins -> ProviderStatuses \cup {"none"}]
  /\ sent \subseteq Webhook
  /\ stored \subseteq sent
  /\ applied \subseteq stored
  /\ batch \subseteq stored
  /\ crashes \in 0..MaxCrashes

Init ==
  /\ SagaInit
  /\ payment = [p \in Payins |-> "none"]
  /\ payin = [p \in Payins |-> "none"]
  /\ ref = {}
  /\ journals = [p \in Payins |-> {}]
  /\ announced = [p \in Payins |-> {}]
  /\ written = {}
  /\ worker = Idle
  /\ provider = [p \in Payins |-> "none"]
  /\ sent = {}
  /\ stored = {}
  /\ applied = {}
  /\ batch = {}
  /\ crashes = 0

-----------------------------------------------------------------------------
\* INSERT INTO outbox_events with a deterministic id: ON CONFLICT DO NOTHING.
WriteOnce(p, source, type) ==
  LET id == [payin |-> p, source |-> source, type |-> type] IN
    /\ written' = written \cup {id}
    /\ events' = IF id \in written THEN events ELSE Append(events, Msg(type, p))

Announce(p, types) == announced' = [announced EXCEPT ![p] = @ \cup types]

PublicType(status) ==
  CASE status \in {"processing", "on_hold"} -> {"payment.processing"}
    [] status \in {"failed", "refunded"}    -> {"payment.failed"}
    [] OTHER                                -> {}

EventType(status) ==
  CASE status = "processing" -> "payin.processing"
    [] status = "on_hold"    -> "payin.on_hold"
    [] status = "received"   -> "payin.received"
    [] status = "failed"     -> "payin.failed"
    [] status = "refunded"   -> "payin.refunded"

\* createPayin: payment, pay-in, payin.created and payment.created together.
CreatePayin(p) ==
  /\ payment[p] = "none"
  /\ payment' = [payment EXCEPT ![p] = "created"]
  /\ payin' = [payin EXCEPT ![p] = "created"]
  /\ events' = Append(events, Msg("payin.created", p))
  /\ Announce(p, {"payment.created"})
  /\ UNCHANGED <<commands, sagaVars, ref, journals, written, worker, providerVars,
                 webhookVars, crashes>>

-----------------------------------------------------------------------------
\* Results (result.go).

normalizeResultStatus(result) ==
  CASE result = "pending"   -> "processing"
    [] result = "on_hold"   -> "on_hold"
    [] result = "succeeded" -> "received"
    [] result = "failed"    -> "failed"

\* The settlement status returned as if it were a result.
MutantExecutionStatus(status) == status

executionStatusFromPayin(status) ==
  CASE status = "on_hold"                -> "on_hold"
    [] status = "received"               -> "succeeded"
    [] status \in {"failed", "refunded"} -> "failed"
    [] OTHER                             -> "pending"

paymentStateForResult(status) ==
  IF status \in {"failed", "refunded"} THEN "failed" ELSE "processing"

\* ApplyResult writes the row whatever its status is now, and clears the
\* provider's reference when the result has none.
ApplyResult(p, result, referenced) ==
  LET status == normalizeResultStatus(result) IN
    /\ payin' = [payin EXCEPT ![p] = status]
    /\ ref' = IF referenced THEN ref \cup {p} ELSE ref \ {p}
    /\ payment' = [payment EXCEPT ![p] = paymentStateForResult(status)]
    /\ WriteOnce(p, "own", EventType(status))
    /\ Announce(p, PublicType(status))
    /\ UNCHANGED journals

-----------------------------------------------------------------------------
\* The command worker.

AtHead(type, p) == commands # <<>> /\ Head(commands) = Msg(type, p)

Take(type, p) ==
  /\ worker = Idle /\ AtHead(type, p)
  /\ commands' = Tail(commands)
  /\ UNCHANGED <<sagaVars, worker, providerVars, webhookVars, crashes>>

PolicyEvaluate(p) ==
  /\ Take("payin.policy.evaluate", p)
  /\ \/ /\ events' = Append(events, Msg("payin.policy.approved", p))
        /\ UNCHANGED rowVars
     \/ ApplyResult(p, "failed", FALSE)

PayinFail(p) ==
  /\ Take("payin.fail", p)
  /\ ApplyResult(p, "failed", FALSE)

\* A receipt that does not look at the settlement status.
MutantRecordPayin(p) ==
  /\ Take("payin.ledger.record", p)
  /\ journals' = [journals EXCEPT ![p] = @ \cup {"payin.succeeded"}]
  /\ payment' = [payment EXCEPT ![p] = "succeeded"]
  /\ WriteOnce(p, "own", "payin.succeeded")
  /\ Announce(p, {"payment.succeeded"})
  /\ UNCHANGED <<payin, ref>>

\* RecordPayin.  From any status but received it returns an error that is not
\* permanent: the consumer stays on the command.
RecordPayin(p) ==
  /\ Take("payin.ledger.record", p)
  /\ payin[p] = "received"
  /\ journals' = [journals EXCEPT ![p] = @ \cup {"payin.succeeded"}]
  /\ payment' = [payment EXCEPT ![p] = "succeeded"]
  /\ WriteOnce(p, "own", "payin.succeeded")
  /\ Announce(p, {"payment.succeeded"})
  /\ UNCHANGED <<payin, ref>>

\* ExecutePayin up to the provider call.  A pay-in with a reference returns the
\* result its status stands for.  One without a reference is submitted, or
\* refused with a retryable error once it has failed.
Submittable == {"created", "submission_pending", "unknown"}

\* An execution that submits whatever the status is.
MutantPrepare(p) ==
  /\ worker = Idle /\ AtHead("payin.execute", p)
  /\ \/ /\ p \in ref
        /\ worker' = At("apply", executionStatusFromPayin(payin[p]))
        /\ UNCHANGED payin
     \/ /\ p \notin ref
        /\ payin' = [payin EXCEPT ![p] = "submission_pending"]
        /\ worker' = At("call", "none")
  /\ UNCHANGED <<commands, events, sagaVars, payment, ref, journals, announced, written,
                 providerVars, webhookVars, crashes>>

prepare(p) ==
  /\ worker = Idle /\ AtHead("payin.execute", p)
  /\ \/ /\ p \in ref
        /\ worker' = At("apply", executionStatusFromPayin(payin[p]))
        /\ UNCHANGED payin
     \/ /\ p \notin ref /\ payin[p] \in Submittable
        /\ payin' = [payin EXCEPT ![p] = "submission_pending"]
        /\ worker' = At("call", "none")
  /\ UNCHANGED <<commands, events, sagaVars, payment, ref, journals, announced, written,
                 providerVars, webhookVars, crashes>>

-----------------------------------------------------------------------------
\* The provider.

Notify(p, status) == sent' = sent \cup {[payin |-> p, status |-> status]}

ProviderMoves(p, statuses) ==
  /\ \E status \in statuses \ {provider[p]} :
       provider' = [provider EXCEPT ![p] = status] /\ Notify(p, status)
  /\ UNCHANGED <<commands, events, sagaVars, rowVars, worker, webhookVars, crashes>>

ProviderDecides(p) ==
  /\ provider[p] \in {"processing", "on_hold"}
  /\ ProviderMoves(p, ProviderStatuses)

\* The payer gets the funds back after they were received.
ProviderRefunds(p) ==
  /\ provider[p] = "completed"
  /\ ProviderMoves(p, {"refunded"})

\* A request creates the pay-in unless the idempotency key is known.
Accept(p) ==
  IF provider[p] = "none"
  THEN \E status \in ProviderStatuses \ {"refunded"} :
         provider' = [provider EXCEPT ![p] = status] /\ Notify(p, status)
  ELSE UNCHANGED providerVars

\* A compliance hold taken for a receipt.
MutantMapPayinStatus(status) ==
  CASE status \in {"completed", "on_hold"} -> "succeeded"
    [] status \in {"failed", "refunded"}   -> "failed"
    [] OTHER                               -> "pending"

mapPayinStatus(status) ==
  CASE status = "completed"              -> "succeeded"
    [] status \in {"failed", "refunded"} -> "failed"
    [] status = "on_hold"                -> "on_hold"
    [] OTHER                             -> "pending"

Calling(p) ==
  /\ worker.pc = "call" /\ AtHead("payin.execute", p)
  /\ UNCHANGED <<commands, events, sagaVars, rowVars, webhookVars, crashes>>

CallAnswered(p) ==
  /\ Calling(p)
  /\ Accept(p)
  /\ worker' = At("apply", mapPayinStatus(provider'[p]))

\* The request or its answer is lost, or the provider asks to retry.
CallLost(p) ==
  /\ Calling(p)
  /\ Accept(p) \/ UNCHANGED providerVars
  /\ worker' = At("record", "unknown")

\* The provider refuses the request for good.
CallRejected(p) ==
  /\ Calling(p)
  /\ worker' = At("record", "rejected")
  /\ UNCHANGED providerVars

\* recordError.  After a retryable error the command is tried again.
recordError(p) ==
  /\ worker.pc = "record" /\ AtHead("payin.execute", p)
  /\ payin' = IF payin[p] # "submission_pending" THEN payin
              ELSE [payin EXCEPT ![p] = IF worker.result = "rejected" THEN "failed" ELSE "unknown"]
  /\ worker' = IF worker.result = "rejected" THEN At("apply", "rejected") ELSE Idle
  /\ UNCHANGED <<commands, events, sagaVars, payment, ref, journals, announced, written,
                 providerVars, webhookVars, crashes>>

ApplyExecution(p) ==
  /\ worker.pc = "apply" /\ AtHead("payin.execute", p)
  /\ IF worker.result = "rejected"
     THEN ApplyResult(p, "failed", FALSE)
     ELSE ApplyResult(p, worker.result, TRUE)
  /\ commands' = Tail(commands)
  /\ worker' = Idle
  /\ UNCHANGED <<sagaVars, providerVars, webhookVars, crashes>>

\* The process stops and starts again: the command being executed and the
\* reconciler's pass are lost.
Stop ==
  /\ crashes < MaxCrashes
  /\ worker' = Idle
  /\ batch' = {}
  /\ crashes' = crashes + 1
  /\ UNCHANGED <<commands, events, sagaVars, rowVars, providerVars, stored, applied>>

Crash == (worker # Idle \/ batch # {}) /\ Stop

-----------------------------------------------------------------------------
\* Notifications: Process and applyPayinWebhook.

\* A pending pay-in stored as processing.
MutantLifecycleStatus(status) ==
  CASE mapPayinStatus(status) = "succeeded" -> "received"
    [] mapPayinStatus(status) = "pending"   -> "processing"
    [] OTHER                                -> mapPayinStatus(status)

\* The notified status, by way of mapPayinStatus: only succeeded is renamed.
LifecycleStatus(status) ==
  LET result == mapPayinStatus(status) IN IF result = "succeeded" THEN "received" ELSE result

Matched(w) == w.payin \in ref

Unchanging(w) == payin[w.payin] \in {LifecycleStatus(w.status), "failed", "refunded"}

\* Unmatched: only stored.
ProcessUnmatched(w) ==
  /\ ~Matched(w)
  /\ UNCHANGED <<events, rowVars, applied>>

\* An early return before applied_at is set.
MutantProcessUnchanging(w) ==
  /\ Matched(w) /\ Unchanging(w)
  /\ UNCHANGED <<events, rowVars, applied>>

ProcessUnchanging(w) ==
  /\ Matched(w) /\ Unchanging(w)
  /\ applied' = applied \cup {w}
  /\ UNCHANGED <<events, rowVars>>

KeptStatus(current, status) ==
  IF current = "succeeded" THEN current ELSE paymentStateForResult(status)

\* The UPDATE of the row satisfies the CHECK constraint.  The inverse journal
\* is posted for a refund of a succeeded payment.
ProcessChange(w) ==
  LET p == w.payin
      status == LifecycleStatus(w.status)
  IN /\ Matched(w) /\ ~Unchanging(w) /\ status \in PayinStatuses
     /\ payin' = [payin EXCEPT ![p] = status]
     /\ payment' = [payment EXCEPT ![p] = KeptStatus(@, status)]
     /\ IF saga[p] # "none" THEN WriteOnce(p, "webhook", EventType(status))
        ELSE UNCHANGED <<events, written>>
     /\ Announce(p, IF payment[p] = "succeeded" THEN {} ELSE PublicType(status))
     /\ journals' = IF payment[p] = "succeeded" /\ status = "refunded"
                    THEN [journals EXCEPT ![p] = @ \cup {"payin.refunded"}] ELSE journals
     /\ applied' = applied \cup {w}
     /\ UNCHANGED ref

Process(w) ==
  /\ ProcessUnmatched(w) \/ ProcessUnchanging(w) \/ ProcessChange(w)
  /\ stored' = stored \cup {w}
  /\ UNCHANGED <<commands, sagaVars, worker, providerVars, crashes>>

\* The UPDATE violates the constraint: the transaction is rolled back.
ProcessFails(w) ==
  Matched(w) /\ ~Unchanging(w) /\ LifecycleStatus(w.status) \notin PayinStatuses

DeliverWebhook(w) == w \in sent /\ Process(w) /\ UNCHANGED batch

\* The pay-in part of ReconcileOnce: one query, then one transaction for each row.
Unreconciled == {w \in stored : w \notin applied /\ Matched(w)}

\* The query.  received_at is not modelled: any of the rows may be the oldest.
LoadBatch ==
  /\ batch = {}
  /\ \E rows \in SUBSET Unreconciled :
       /\ rows # {} /\ Cardinality(rows) <= BatchLimit
       /\ rows = Unreconciled \/ Cardinality(rows) = BatchLimit
       /\ batch' = rows
  /\ UNCHANGED <<commands, events, sagaVars, rowVars, worker, providerVars, stored, applied,
                 crashes>>

\* The next row, as the tables are by now.
ReconcileNext(w) == w \in batch /\ Process(w) /\ batch' = batch \ {w}

ReconcileOnce == LoadBatch \/ \E w \in batch : ReconcileNext(w)

\* The first error ends the pass, whatever is left of it, and makes RunReconciler
\* return, which stops the whole process.
ReconcileFails(w) == w \in batch /\ ProcessFails(w) /\ Stop

-----------------------------------------------------------------------------
SagaStep ==
  /\ Handle
  /\ UNCHANGED <<rowVars, worker, providerVars, webhookVars, crashes>>

SagaExpiry(p) ==
  /\ ExpireOnce(p)
  /\ UNCHANGED <<rowVars, worker, providerVars, webhookVars, crashes>>

WorkerStep(p) ==
  \/ PolicyEvaluate(p) \/ PayinFail(p) \/ RecordPayin(p)
  \/ prepare(p) \/ recordError(p) \/ ApplyExecution(p)

ProviderCall(p) == CallAnswered(p) \/ CallLost(p) \/ CallRejected(p)

ProviderStep(p) == ProviderDecides(p) \/ ProviderRefunds(p)

WebhookStep(w) == DeliverWebhook(w) \/ ReconcileNext(w) \/ ReconcileFails(w)

Next ==
  \/ \E p \in Payins :
       \/ CreatePayin(p)
       \/ SagaExpiry(p)
       \/ WorkerStep(p)
       \/ ProviderCall(p)
       \/ ProviderStep(p)
  \/ SagaStep
  \/ Crash
  \/ LoadBatch
  \/ \E w \in Webhook : WebhookStep(w)

Spec == Init /\ [][Next]_vars

\* The goroutines keep running, the provider eventually answers a request that
\* is repeated, decides what it accepted, and redelivers a notification until
\* it is accepted.
Fairness ==
  /\ WF_vars(SagaStep)
  /\ \A p \in Payins :
       /\ WF_vars(WorkerStep(p))
       /\ SF_vars(ProviderCall(p) /\ worker'.result # "unknown")
       /\ WF_vars(ProviderDecides(p))
  /\ WF_vars(ReconcileOnce)
  /\ \A w \in Webhook : WF_vars(DeliverWebhook(w) /\ w \notin stored)

FairSpec == Spec /\ Fairness

-----------------------------------------------------------------------------
\* The provider has reported this status of p at some time.
Reported(p, status) == [payin |-> p, status |-> status] \in sent

\* README.md: received becomes succeeded only after the ledger command.  A
\* payment succeeds only with its receipt journal, and both only for funds the
\* provider reported as received, whatever was retried, lost or delivered late.
SucceededOnlyWhenReceived ==
  \A p \in Payins :
    /\ payment[p] = "succeeded" => "payin.succeeded" \in journals[p]
    /\ "payin.succeeded" \in journals[p] => Reported(p, "completed")

\* No repeated command and no late notification changes the payment once it has
\* succeeded, although ApplyResult never looks at what it overwrites: the
\* order of the commands alone prevents it.  Nor is anything booked after the
\* receipt: the inverse journal of a refund is never posted, because no
\* notification has the lifecycle status refunded.
SucceededIsFinal ==
  [][\A p \in Payins :
       payment[p] = "succeeded" =>
         payment'[p] = "succeeded" /\ journals'[p] = journals[p]]_vars

\* The provider is made to create a pay-in only for a payment that policy
\* approved and that nothing has failed since.
CreatedOnlyWhileOpen ==
  [][\A p \in Payins :
       provider[p] = "none" /\ provider'[p] # "none"
         => payment[p] = "created" /\ "payment.failed" \notin announced[p]]_vars

\* A saga completes only for a succeeded payment, and stays in step with it: a
\* succeeded payment's saga waits for the news or has closed.
SagaFollowsReceipt ==
  \A p \in Payins :
    /\ saga[p] = "completed" => payment[p] = "succeeded"
    /\ payment[p] = "succeeded" => saga[p] \in {"awaiting_ledger"} \cup Closed

\* Unless a command was repeated after a timeout, merchants are never told both
\* outcomes: a result and a notification of the same pay-in then never cross.
OneOutcomeUnlessRepeated ==
  expiries = 0 =>
    \A p \in Payins : ~({"payment.succeeded", "payment.failed"} \subseteq announced[p])

\* The command consumer gets stuck on payin.ledger.record only when the receipt
\* was overruled: the provider also reported a hold, a failure or a refund, or
\* a deadline repeated a command that overwrote the row.
RefusedReceiptWasOverruled ==
  \A p \in Payins :
    AtHead("payin.ledger.record", p) /\ payin[p] # "received" =>
      expiries > 0 \/ \E status \in {"on_hold", "failed", "refunded"} : Reported(p, status)

\* Notifications that came early are applied once their pay-ins are visible: the
\* reconciler catches up with all of them.  It takes them in one batch and stops
\* at the first error, so two things can keep it from doing so: more rows than
\* a batch holds, and a row that violates the CHECK constraint, as processing
\* notifications do.
ReconcilerCatchesUp ==
  Unreconciled # {} ~>
    \/ Unreconciled = {}
    \/ Cardinality(Unreconciled) > BatchLimit
    \/ \E w \in Unreconciled \cup batch : w.status = "processing"

-----------------------------------------------------------------------------
\* What the documentation says and the code does not do.

\* A notification that p's funds were refunded has been applied.
RefundApplied(p) == [payin |-> p, status |-> "refunded"] \in applied

\* README.md: a pay-in refunded before success becomes payment_status=failed.
RefundedBeforeSuccessFails ==
  \A p \in Payins :
    RefundApplied(p) /\ "payment.failed" \in announced[p] => payment[p] # "succeeded"
=============================================================================
