--------------------------- MODULE PayoutWorkflow ---------------------------
(***************************************************************************)
(* The payout workflow of StableRail: payment creation, the saga           *)
(* coordinator with its timeout worker and manual review, the command      *)
(* worker with the ledger and the provider call, and BlindPay's            *)
(* notifications, running concurrently.                                    *)
(***************************************************************************)
EXTENDS CommandWorker, BlindPayWebhooks

vars == <<messagingVars, sagaVars, ledgerVars, executionVars, webhookVars>>

TypeOK ==
  /\ MessagingTypeOK
  /\ SagaTypeOK
  /\ LedgerTypeOK
  /\ ExecutionTypeOK
  /\ WebhookTypeOK

Init ==
  /\ MessagingInit
  /\ SagaInit
  /\ LedgerInit
  /\ ExecutionInit
  /\ WebhookInit

\* The accepted request: payment row, payout.created and payment.created commit
\* together.
CreatePayout(p) ==
  /\ payment[p] = "none"
  /\ payment' = [payment EXCEPT ![p] = "created"]
  /\ events' = Append(events, Evt("payout.created", p))
  /\ Announce(p, {"payment.created"})
  /\ UNCHANGED <<commands, journals, sagaVars, executionVars, webhookVars>>

\* The coordinator.
SagaStep ==
  /\ Handle
  /\ UNCHANGED <<ledgerVars, executionVars, webhookVars>>

SagaExpiry(p) ==
  /\ ExpireOnce(p)
  /\ UNCHANGED <<ledgerVars, executionVars, webhookVars>>

SagaReview(p) ==
  /\ \E action \in ReviewActions : ResolveManualReview(p, action)
  /\ UNCHANGED <<ledgerVars, executionVars, webhookVars>>

\* The command consumer.
LedgerOrPaymentCommand(p) ==
  /\ \/ PolicyEvaluate(p)
     \/ LedgerReserve(p)
     \/ LedgerRelease(p)
     \/ PaymentSettle(p)
     \/ \E type \in {"payment.fail", "payment.fail_reserved"} : PaymentFail(type, p)
     \/ PaymentReturn(p)
  /\ UNCHANGED webhookVars

ExecuteCommand(p) ==
  /\ prepare(p) \/ record(p) \/ ApplyResult(p)
  /\ UNCHANGED <<sagaVars, ledgerVars, webhookVars>>

ProviderCall(p) ==
  /\ CallAnswered(p) \/ CallLost(p) \/ CallRejected(p)
  /\ UNCHANGED <<sagaVars, ledgerVars, webhookVars>>

\* A stop also ends the reconciler's pass.
Restart ==
  /\ worker # Idle \/ batch # {}
  /\ Crash
  /\ batch' = {}
  /\ UNCHANGED <<sagaVars, ledgerVars, stored, emitted>>

\* The provider.
ProviderStep(p) ==
  /\ ProviderDecides(p) \/ ProviderReturns(p)
  /\ UNCHANGED <<messagingVars, sagaVars, ledgerVars, webhookVars>>

WebhookStep(w) == DeliverWebhook(w) \/ ReconcileNext(w) \/ ReconcileFails(w)

Next ==
  \/ \E p \in Payments :
       \/ CreatePayout(p)
       \/ SagaExpiry(p)
       \/ SagaReview(p)
       \/ LedgerOrPaymentCommand(p)
       \/ ExecuteCommand(p)
       \/ ProviderCall(p)
       \/ ProviderStep(p)
  \/ SagaStep
  \/ Restart
  \/ LoadBatch
  \/ \E w \in Webhook : WebhookStep(w)

Spec == Init /\ [][Next]_vars

\* The goroutines keep running, the provider eventually answers a request that
\* is repeated, decides what it accepted, and redelivers a notification until
\* it is accepted.  Nothing is assumed of deadlines, operators, merchants,
\* crashes or provider returns.
Fairness ==
  /\ WF_vars(SagaStep)
  /\ \A p \in Payments :
       /\ WF_vars(LedgerOrPaymentCommand(p))
       /\ WF_vars(ExecuteCommand(p))
       /\ SF_vars(ProviderCall(p) /\ worker'.result # "unknown")
       /\ WF_vars(ProviderStep(p) /\ ~Terminal(provider[p]))
  /\ WF_vars(ReconcileOnce)
  /\ \A w \in Webhook : WF_vars(DeliverWebhook(w) /\ w \notin stored)

FairSpec == Spec /\ Fairness

-----------------------------------------------------------------------------
\* Safety.

\* The provider has reported this status of p's payout at some time.
Reported(p, status) == \E w \in sent : w.payment = p /\ w.status = status

Queued(type, p) == Cmd(type, p) \in Elems(commands)

FailQueued(p) == Queued("payment.fail", p) \/ Queued("payment.fail_reserved", p)

\* Whatever the order of retries, webhooks and reviews, the entries posted for
\* a payment never leave settlement:payable negative or reserved twice: a
\* reservation is either settled or released, at most once, and a post-success
\* return follows a settlement.
PayableBounded == \A p \in Payments : Payable(p) \in 0..1

\* payment.settle succeeds only after the provider itself decided that the
\* payout is completed, or an operator resolved its review as complete.  How
\* the decision was learned is another question: SettledOnNotification.
SettledOnlyWhenConfirmed ==
  \A p \in Payments :
    payment[p] = "succeeded" => Reported(p, "completed") \/ "complete" \in audits[p]

\* ledger.release posts only for a payout whose row says that the provider
\* returned the funds, or after an operator resolved the review as return.  A
\* return that the row could not take, because it was failed, releases nothing.
ReleasedOnlyWhenReturned ==
  \A p \in Payments :
    "payment.released" \in journals[p] =>
      payout[p] = "refunded" \/ "return" \in audits[p]

\* A payment fails while the provider still processes or has paid its payout
\* only by an operator's decision, or after the provider refused a repeated
\* submission request.
PaidPayoutIsNotFailed ==
  \A p \in Payments :
    payment[p] = "failed" /\ provider[p] \in {"processing", "on_hold", "completed"}
      => "fail" \in audits[p] \/ (payout[p] = "submission_failed" /\ p \notin ref)

\* The saga and the payment agree on success: a completed saga has a succeeded
\* payment, and a succeeded payment's saga is completed or waits for the reply
\* of payment.settle.
SagaAgreesOnSuccess ==
  \A p \in Payments :
    /\ saga[p] = "completed" => payment[p] = "succeeded"
    /\ payment[p] = "succeeded" => saga[p] \in {"settling_payment", "completed"}

\* A failed saga's payment.fail command is never lost or refused: the payment
\* has failed or the command is still in the topic.
FailureIsCarriedOut ==
  \A p \in Payments :
    saga[p] = "failed" => payment[p] = "failed" \/ FailQueued(p)

\* A saga that waits for something else than an operator has a deadline, and
\* no other saga has one.
WaitingSagaHasDeadline ==
  \A p \in Payments : deadline[p] <=> saga[p] \in Expirable

\* The consumer of payout-events is stuck on its next event.
Blocked ==
  /\ events # <<>>
  /\ LET e == Head(events) IN
       /\ Consumed(e.type) /\ e.type # "payout.created"
       /\ transition(saga[e.payment], e) = {}

\* The coordinator gets stuck only on news that comes after the outcome: as long
\* as no deadline passed and no process stopped, an event that transition
\* refuses belongs to a saga that is no longer waiting for the provider.
BlockedOnlyAfterOutcome ==
  Blocked /\ expiries = 0 /\ crashes = 0 =>
    saga[Head(events).payment] \in
      {"settling_payment", "completed", "failed", "returning", "returned"}

\* The public outcome of a payment never changes once reached, whichever late
\* command or notification arrives.
OutcomeIsFinal ==
  [][\A p \in Payments :
       payment[p] \in {"succeeded", "failed"} => payment'[p] = payment[p]]_vars

\* The provider is made to create a payout only for a payment that is
\* processing and whose reservation is posted and neither settled nor released.
CreatedOnlyWhileReserved ==
  [][\A p \in Payments :
       provider[p] = "none" /\ provider'[p] # "none"
         => payment[p] = "processing" /\ Payable(p) = 1]_vars

\* Merchants are told one outcome: after payment.succeeded or payment.failed
\* the only event still announced is a post-success return.
OneOutcomeAnnounced ==
  [][\A p \in Payments :
       announced[p] \cap {"payment.succeeded", "payment.failed"} # {} =>
         announced'[p] \ announced[p] \subseteq {"payment.return.succeeded"}]_vars

\* An attempt that a stop left without an answer is never resolved: from
\* submission_pending no redelivery, deadline, review, notification or
\* reconciliation moves the row or starts the worker on it again, and its command
\* stays at the head of the topic.
LostSubmissionStaysPending ==
  [][\A p \in Payments :
       Executing(p) /\ worker = Idle /\ payout[p] = "submission_pending"
         => payout'[p] = "submission_pending" /\ Executing(p)' /\ worker' = Idle]_vars

-----------------------------------------------------------------------------
\* Liveness.

\* The consumer of settlement-commands is stuck on a payment without a quote.
CommandBlocked ==
  worker = Idle /\ commands # <<>> /\ \E p \in Unrouted : Executing(p)

\* Another payment holds up one of the topics that all payments share.
HeldUp(p) ==
  \/ Blocked /\ Head(events).payment # p
  \/ CommandBlocked /\ Head(commands).payment # p

\* Unless a deadline passes or the process stops, a created payout that has a
\* quote reaches a public outcome or has its reservation released.  Its own late
\* and repeated events never prevent that; those of another payment can, because
\* a consumer stays on an event or command that is refused with a retryable
\* error.
EveryPayoutIsDisposed ==
  \A p \in Payments \ Unrouted :
    payment[p] = "created" ~>
      \/ payment[p] \in {"succeeded", "failed"}
      \/ "payment.released" \in journals[p]
      \/ HeldUp(p)
      \/ expiries > 0 \/ crashes > 0

\* The reconciler cannot get at every notification: there are more than a pass
\* loads, or one of them makes the pass fail.
ReconcilerHeldUp ==
  \/ Cardinality(Unreconciled) > BatchLimit
  \/ \E w \in Unreconciled : ProcessFails(w)

\* Once the provider's reference is stored, the provider's terminal status
\* becomes that of the payouts row, even when its notification came before the
\* reference was stored or the process stopped.  It does not when funds come
\* back: a row that is failed never advances to refunded, and a completed one
\* does so only once the payment is settled.
ProviderOutcomeIsLearned ==
  \A p \in Payments :
    (p \in ref /\ Terminal(provider[p])) ~>
      \/ payout[p] = provider[p]
      \/ provider[p] = "refunded" /\ payout[p] = "failed"
      \/ provider[p] = "refunded" /\ payout[p] = "completed" /\ ~ReturnAllowed(p)
      \/ ReconcilerHeldUp

-----------------------------------------------------------------------------
\* What the documentation says and the code does not do.

\* README.md, payout saga lifecycle: a payment whose saga is returned remains
\* failed.
ReturnedPaymentIsFailed ==
  \A p \in Payments :
    saga[p] = "returned" /\ ~Queued("payment.return", p) => payment[p] = "failed"

\* README.md: a verified webhook or reconciliation result, rather than the initial
\* HTTP response alone, determines the final payment status.
SettledOnNotification ==
  \A p \in Payments :
    payment[p] = "succeeded" =>
      \/ \E w \in stored : w.payment = p /\ w.status = "completed"
      \/ "complete" \in audits[p]

\* README.md: settlement timeouts retry the idempotent provider command, so the
\* result of a repeated settlement.execute can be applied.
RepeatedExecuteIsAccepted ==
  \A p \in Payments :
    Executing(p) /\ worker.pc = "apply" /\ worker.result # "rejected"
      => p \notin submitted
=============================================================================
