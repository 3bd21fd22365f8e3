# StableRail in TLA+

StableRail moves money for merchants through an external settlement provider
(BlindPay). Payments are sagas: a coordinator reacts to workflow events, sends
commands over Kafka through a transactional outbox, and a command worker books
the ledger and calls the provider; provider webhooks, a webhook reconciler and
timeout workers run beside them. Around the workflows stand the merchant's
requests (quotes, payments, refunds), the notifications sent to merchants and
an internal reconciliation. This directory models that machinery, checks it
with TLC on small instances and proves with TLAPS, for every value of the
constants, all the invariants and action properties the passing runs check;
liveness is left to TLC.

Run a check from this directory with `tlc -config payout.cfg MCPayoutWorkflow`
(the table below names the module of each configuration) and the proofs with
`tlapm <module>.tla` for each module whose name ends in `_proofs`.

## Inventory

| Component | State | Operations | Interacts by | Hard because |
|---|---|---|---|---|
| payout saga (`paymentcore/payout/coordinator.go`) | `settlement_sagas` row: state, deadline | `Handle`, `ExpireOnce`, `ResolveManualReview` | consumes payout-events, writes settlement-commands | retries and late events meet a state that has moved on |
| command worker (`workers/handlers.go`) | none of its own | one case per command | consumes settlement-commands, replies on payout-events, announces on payment-events | permanent errors drop a command, retryable ones block the topic |
| ledger (`ledger/service.go`) | payment status, journals | `Reserve`, `Release`, `Settle`, `RecordReturn`, `RecordPayin` | called in the caller's transaction | effects must happen once, in a legal order |
| payout execution (`execute.go`, `result.go`, BlindPay adapter) | `payouts`, `settlement_submissions` | prepare, call, record, apply | HTTP to the provider between two commits | crash or lost answer between the commits |
| webhooks and reconciler (`settlement/blindpay/webhook.go`) | stored notifications, `payouts`, `payins` | `Process`, `ReconcileOnce` | provider calls in, writes saga events | early, late, repeated and reordered notifications |
| pay-in saga and execution (`paymentcore/payin`) | `settlement_sagas`, `payins` | as for payouts | payin-events, settlement-commands | results written without looking at the row |
| outbox relay (`outbox/relay.go`) | `outbox_events` | `RelayOnce`, `recordFailure`, `Redrive` | Kafka topics, dead-letter topic | several relays, crash after publication, order per aggregate |
| inbox and consumer loop (`inbox`, `consumer`) | `inbox_events`, offset | `Process`, `Run` | Kafka in, handlers in one transaction | redelivery, restart between two commits |
| creation, quotes, refunds (`create.go`, `quote.go`, `refund.go`, `paymentapi/handler.go`) | `payments`, `payment_quotes`, `payment_refunds` | `CreateQuote`, `CreatePayment`, `CreateRefund` | writes the first workflow event | idempotency keys, expiry, refund sum |
| merchant notifications (`notification`, `paymentapi/webhook_endpoints.go`) | `webhook_endpoints`, `webhook_deliveries` | `Register`, `Disable`, `EventHandler`, `DispatchOnce`, `Redrive` | consumes payment-events, HTTP out | no lock, stale attempt count, endpoint limit |
| internal reconciliation (`reconciliation`) | discrepancies, `payouts.reconciliation_status` | `RunOnce`, `Resolve` | reads every table, writes every payouts row | compares and marks rows of a running workflow |
| API keys, schema registry, policy, configuration | one row or none | | | no state to interleave |

`PROJECT.json` lists the same components with their status, the hazards at
their lines, and the map from definitions to source lines.

What makes each part correct: a payment has one outcome and never changes it;
settlement and release need the provider's word or an operator's; the payable
account stays within one reservation; saga and payment agree; nothing waits
without a deadline; what the provider decided is eventually learned; every
committed event is applied at most once, in order, and is not lost; a quote is
accepted by one payment on its terms, a key names one payout, and refunds stay
within the payment; every notification is delivered or has used its attempts;
a mark of the reconciliation was true when it was made.

## Modules

| Module | Models |
|---|---|
| `Messaging` | the two topics of the payout workflow as FIFO sequences, and what merchants were told |
| `Ledger` | payment status and posted journals; `post` is shared by three operations as in the code |
| `PayoutSaga` | `transition` as a set of rows, `updateAndCommand`, `ExpireOnce`, `ResolveManualReview` |
| `PayoutExecution` | settlement.execute as prepare, call, record, apply; the provider; process stops |
| `BlindPayWebhooks` | `Process` for payout notifications, and the reconciler: one limited batch per pass, one transaction per row, the end of the pass at the first error |
| `CommandWorker` | the other payout commands |
| `PayoutWorkflow` | the composition, its fairness and its properties |
| `PayinSaga`, `PayinWorkflow` | the pay-in coordinator; its worker, provider, notifications, and the pay-in half of the reconciler's pass |
| `EventDelivery` | what handlers rely on: applied at most once, in commit order per aggregate and topic |
| `Outbox` | outbox table, relays, Kafka log, inbox and consumer, shown to implement `EventDelivery` |
| `PaymentCreation` | quotes, payments, pay-ins and refunds as a merchant's requests create them |
| `Notifications` | endpoint registration, deliveries, concurrent dispatchers, redrive |
| `Reconciliation` | `RunOnce` and `Resolve` beside `PayoutWorkflow`, which it extends |
| `PayoutWorkflow_proofs`, `PayoutSafety_proofs`, `PayoutOutcome_proofs` | the theorems about the payout workflow, each module extending the one before |
| `PayinWorkflow_proofs`, `Outbox_proofs`, `PaymentCreation_proofs`, `Notifications_proofs`, `Reconciliation_proofs` | the theorems about the other components; the last one extends `PayoutSafety_proofs` |
| `MCPayoutWorkflow`, `MCPayinWorkflow`, `MCOutbox`, `MCPaymentCreation`, `MCNotifications`, `MCReconciliation` | the modules TLC runs, with the symmetry sets of the runs that use one |

The workflow modules use a FIFO topic whose consumer applies each event once;
`Outbox` is the justification of that abstraction, since it shows that the
relay, Kafka and the inbox together implement `EventDelivery`. Two limits of
this layering: the outbox orders events of one aggregate, and the workflow
modules give each topic one order; and `EventDelivery` lets an event that was
refused with a permanent error be applied when it is delivered once more,
because a refusal leaves no inbox row.

Correspondence of state: `saga`/`deadline` are the columns of
`settlement_sagas`; `audits` is `saga_manual_review_actions`; `payment` and
`journals` are `payments.payment_status` and `ledger_journals`; `payout`, `ref`
and `submitted` are `payouts.settlement_status`, the presence of
`provider_payout_id` and a row of `settlement_submissions`; `worker` is the
program counter of the handler between its commits; `stored` is
`blindpay_webhook_events`, `batch` the rows that the reconciler's pass has
loaded and not processed yet, each of which it processes as the tables are by
then; `announced` is the set of public events written for
a payment. Amounts do not occur: all entries of one payment carry its amount,
so `Payable` counts reservations.

`PaymentCreation` keeps the tables as sequences (a row's index is its id) and
amounts as small numbers, since the refund sum and the terms of a quote are what
its properties compare. A creation or a refund is one transaction under a row
lock and one action; a direct payment is two, because its implicit quote commits
before the payment does. `answer` is the request just answered with a payout or refund.
`Notifications` keeps what each dispatcher has read (`Reads`) apart from the row, since the
code sends without a lock and writes from what it read; `Register` is open
between its lock and its commit. `Reconciliation` keeps the open repeatable-read
transaction as the set of payouts it saw, its findings, and whether a row it
will update was written since: PostgreSQL refuses such an update, and the error
ends the process.

A retryable error is an action that is not enabled: the code rolls back, sleeps
and tries the same message again, so the state does not change until another
action enables it. A permanent error consumes the message and does nothing
else. A payment of `Unrouted` has no accepted quote (a refund created without
one), which `prepare` refuses for ever. An event of `Refused` is the same in
`Outbox`: its handler never stops returning a retryable error.

Three details are abstracted. The order of `received_at` in the reconciler's
queries is left out: any of the rows may be the oldest. Payout notifications
with a status that enqueues nothing (`processing`) are not sent: they move the
row from a pending status to `processing` at most. A refund's external
reference, the original's followed by the new payment's id, is a pair that no
merchant's reference equals (`RefAssumption`).

## Runs

| Run | Module, configuration | Shows |
|---|---|---|
| `payout` | `MCPayoutWorkflow`, `payout.cfg` | the safety properties of the payout workflow, with a deadline, a stop and repeated notifications |
| `payout_live` | same, `payout_live.cfg` | two payments on shared topics: each is disposed of, unless the other one holds up a consumer |
| `outbox` | `MCOutbox`, `outbox.cfg` | every copy in a topic keeps the order, nothing is lost, refinement of `EventDelivery` |
| `outbox_live` | same, `outbox_live.cfg` | every committed event is handled, or blocked by a dead letter of its aggregate or by a handler of its topic that never ends |
| `payin` | `MCPayinWorkflow`, `payin.cfg` | the safety of the pay-in workflow, and that the reconciler catches up with early notifications, with its two exceptions |
| `creation` | `MCPaymentCreation`, `creation.cfg` | quotes are honoured and decided once, keys name one payout, refunds stay within the payment |
| `notifications` | `MCNotifications`, `notifications.cfg` | the endpoint limit, earned and final outcomes, and that every delivery is settled |
| `reconciliation` | `MCReconciliation`, `reconciliation.cfg` | marks and discrepancies agree with the records, also of a workflow under way; the provider's outcome reaches the row, with its exceptions |
| `returned`, `repeated_execute`, `settled_on_answer` | `MCPayoutWorkflow` | sentences of the README the payout code does not satisfy |
| `payin_stale` | `MCPayinWorkflow` | the same for pay-ins |

Bounds. One payment is enough for the safety properties, which are all stated
per payment; the proofs cover any set of payments. It is not enough for
liveness, because the topics are shared and a consumer stays on a message that
is refused with a retryable error: `payout_live` has two payments, no deadline
and no stop, and provider statuses (`UsedStatuses`) that are enough for what blocks a
topic: an answer and a notification of the same completion, and a hold that
is followed by it. What the property excepts (`HeldUp`) is exactly the other
payment's message at the head of a topic that nobody will accept. The
reconciliation run has the four statuses its records are compared by and one
deadline. In `payout`, `Copies = {1, 2}` makes the provider send every
notification twice under different ids, one deadline repeats a command whose
first reply is still on its way, and one crash falls between any two commits of
the worker or rows of the reconciler. `BatchLimit` is 1 there, so that every
pass is cut off, and 2 in the other runs, so that a pass holds a row while
another is processed (100 in the code).
`Unrouted` is empty in the runs, since a payment without a quote stops at its
execution and the proofs cover any such set.
The outbox has two events, in one or two aggregates, two relays, a limit of
two attempts and one loss (a stopped relay, a lost session or a redrive), enough for
a publication to be repeated while the next row waits; in `outbox_live` the
handler of the first event never ends (`Refused`), and the other aggregate's
event may be behind it. Symmetry on relays and
aggregates, and on keys and tenants, is only used in `outbox` and `creation`,
which check no liveness.
`creation` has two tenants, three keys and three payments, enough for a payout
with two refunds; explicit quotes have two keys of their own, as their column
is never compared with the payments' one; `MaxRows` caps
quotes and payments together at four, so that two quotes meet two payments and
one quote meets three. There is one external reference: requests that reuse a
key differ by tenant, amount, quote or original payment. `notifications` has
two registrations for one active endpoint (five in the code) and one event, and
spends its bounds on that delivery: three attempts (ten in the code) let a stale
count set the number back in between, two dispatchers hold the same row at the
limit, and `MaxFaults` allows two stops or redrives. A batch of several
deliveries is a `Claim` well before its `Send`, which is also how one delivery
is held while the other dispatcher settles it. `reconciliation` adds runs
without a bound to the payout workflow.
Deadlock is not checked: a workflow that has reached its outcome, or a consumer
that is blocked on a refused message, really stops.

Fairness. `FairSpec` of the payout workflow assumes that the goroutines started
by `app/runtime.go` keep running (weak fairness of the coordinator, the worker
and the reconciler, which is one loop: a row that fails or is cut off by the
limit keeps the others waiting), that the provider decides what it accepted and redelivers
a notification until it is stored, and that a call repeated again and again is
not lost every time (strong fairness). Nothing is assumed of deadlines,
operators, merchants, crashes or returns of funds. In the outbox, transactions
end, relays and consumers run, and a publication tried again and again
succeeds; a handler is not assumed to end, as the consumer retries a retryable
error for ever. `EveryPayoutIsDisposed` is claimed only while no deadline has passed
and no process has stopped: after a timeout the repeated execution command can
block the topic (finding `repeated_execute`). The pay-in `FairSpec` makes the same assumptions of its
goroutines and of the provider. Dispatchers run (`Run` loops, and a stopped
process is started again) and a retry falls due; nothing is assumed of the
merchant's server, of operators or of ageing, so `EveryDeliveryIsSettled` rests on the attempt
limit alone, and is claimed of deliveries whose endpoint stays active. The reconciliation begins again after every run
and ends the run it began.

Every property has a mutant in `PROJECT.json`: the mutated definition stands
right before the original in its module, is named `Mutant...`, and is used by
nothing else.

## Findings

Each of these is a sentence of the repository's README that the code does not
satisfy. Findings 1, 2, 4 and 5 are the
counterexamples of runs that check the sentence; the other four are properties
that state what the code does instead, or have to except it; `PROJECT.json` quotes the lines.

1. `returned`: payment.return requires a failed payment, but a payout whose
   funds came back before success is still processing, and stays so.
2. `repeated_execute`: the execution a settlement timeout repeats violates
   the unique provider reference of `settlement_submissions` and blocks the
   command consumer.
3. `LostSubmissionStaysPending` (run `payout`, proved): a stop between the
   persisted attempt and the recorded answer leaves `submission_pending`, which
   no retry, webhook or reconciliation ever resolves.
4. `payin_stale`: a pay-in result read before a refund notification overwrites
   it, and the pay-in succeeds.
5. `settled_on_answer`: a completed HTTP answer settles the payment, before any
   webhook was received or reconciled.
6. `ProviderOutcomeIsLearned` (run `reconciliation`): a refund the provider
   reports after a failure never reaches the row, which stays failed, and the
   late return the README describes does not happen. The property names this
   exception; `ReleasedOnlyWhenReturned` says that nothing is released for it.
7. `SucceededIsFinal` (run `payin`, proved): a refund after success is mapped to
   failed before the branch that would post the inverse journal, so nothing is
   booked after the receipt.
8. `ReconcilerCatchesUp` (run `payin`): a processing notification of a pay-in
   violates a CHECK constraint. It cannot advance the row, and a stored one ends
   every pass of the reconciler and stops the process.

Observed while modelling, without a document that says otherwise: an event the
saga does not expect is retried for ever and blocks its partition (a repeated
terminal notification, or a late reply after a timeout); a timeout in
`awaiting_ledger` fails the payment and leaves its reservation; a repeated
payment.settle announces `payment.succeeded` twice; a repeated submission that
the provider refuses after a lost answer fails a payout that was paid, which is
why `PaidPayoutIsNotFailed` excludes that case; `payin.ledger.record` is refused
with a retryable error once the pay-in left `received`; `payin.fail` clears the
provider's reference, so later notifications are unmatched.

Further behaviours the models have, which no property contradicts:

- Shared topics. A second completion of one payment blocks the coordinator for
  all payments without any deadline or stop, and a payment without a quote
  blocks the commands (`HeldUp` in `EveryPayoutIsDisposed`). The same holds for
  pay-ins: a late notification can move a received pay-in back to on_hold, after
  which its ledger command is retried for ever and later pay-ins are not
  booked; `RefusedReceiptWasOverruled` says this is the only way to get there.
- The reconciler. A terminal notification that never matches a payout, or whose
  event is not to be written any more, is loaded by every pass: a hundred of
  them fill the batch. A completed payout whose refund arrives before the
  payment is settled makes every pass fail until it is (`ReconcilerHeldUp`).
- Creation. A pay-in of a quote is returned whatever the key of the request,
  which is why `PayoutKeyNamesOnePayment` leaves pay-ins out. A key is unique
  over all tenants. A direct request whose implicit quote has lapsed is refused
  for ever, because the quote is found by the request's key. Pay-ins cannot be
  refunded: only a payout has the journal that the code looks for.
- Notifications. `attempt_count` can go backwards when two dispatchers hold the
  same delivery. A redriven delivery that is older than the maximum age gets one
  attempt, and a slow dispatcher may end a redriven delivery early.
- Reconciliation. A payout that is still undecided is marked as matched. A
  payout returned before success is a discrepancy for ever (finding 1). A row
  written during a run stops the process, by design of the isolation level.

## Proofs

Every theorem rests on the named assumptions of the constants only (natural
bounds, at least one notification per status change). The counters that TLC
bounds keep their bounds in the guards, and the theorems hold for all of them.
Each module has an inductive invariant, one lemma per action of `Next` that
shows the invariant preserved, lemmas on what an append and a take do to a
topic or a table, and the theorems that follow.

| Module | Properties proved |
|---|---|
| `PayoutWorkflow_proofs` | `TypeOK` |
| `PayoutSafety_proofs` | `PayableBounded`, `SettledOnlyWhenConfirmed`, `SagaAgreesOnSuccess`, `FailureIsCarriedOut`, `WaitingSagaHasDeadline`, `OutcomeIsFinal`, `OneOutcomeAnnounced` |
| `PayoutOutcome_proofs` | `PaidPayoutIsNotFailed`, `ReleasedOnlyWhenReturned`, `CreatedOnlyWhileReserved`, `BlockedOnlyAfterOutcome`, `LostSubmissionStaysPending` |
| `PayinWorkflow_proofs` | `TypeOK`, `SucceededOnlyWhenReceived`, `SagaFollowsReceipt`, `OneOutcomeUnlessRepeated`, `RefusedReceiptWasOverruled`, `SucceededIsFinal`, `CreatedOnlyWhileOpen` |
| `Outbox_proofs` | `TypeOK`, `TopicKeepsOrder`, `NothingIsLost`, `ImplementsDelivery` |
| `PaymentCreation_proofs` | `TypeOK`, `AcceptedQuoteIsHonoured`, `PayoutKeyNamesOnePayment`, `QuoteIsDecidedOnce`, `RefundsWithinAmount` |
| `Notifications_proofs` | `TypeOK`, `EndpointsWithinLimit`, `OutcomeIsEarned`, `DeliveredIsFinal` |
| `Reconciliation_proofs` | `MatchedWhenRecordsAgree`, and `OpenIsException` (a payout with an open discrepancy is marked as an exception), which no run checks |

### Payout: ledger, saga and announcements

None of the properties is inductive alone: whether a payment may be settled
depends on what the saga was when it enqueued the command, which may lie far
back in the topic. `IInv` of `PayoutSafety_proofs` therefore adds, per payment,

- `LedgerInv`: which journals go with which payment status;
- `SagaInv`: a settlement that is queued or done has its saga in
  `settling_payment` or `completed`, a release has it in `returning` or
  `returned`, states that are not left for others; a completion is reported
  only of a succeeded payment; a failed saga has its command queued or done;
- `AnnouncedInv`: the announced outcome is the payment's;
- `ReportInv`: a terminal status seen by the row, the worker or an event in the
  topic was reported by the provider.

The two action properties follow from `IInv` and the ledger's guards.

### Payout: what is known of the provider

Five places know something of a payout: the provider's record, a notification
on its way, the `payouts` row, the worker between two commits, and the saga
behind two topics. `OInv` of `PayoutOutcome_proofs` says how far each may be
behind.

- `RowInv`: a stored reference, a result the worker holds and a notification
  all have a record at the provider, and a failure they carry is final there;
  while a request is under way the row is undecided.
- `FlowInv`: a failure that is queued, done or on its way to the saga is of a
  payout that will not be paid, was refused, or was failed by an operator; an
  execution command without an answer has its saga in `awaiting_settlement`.
- `TokenInv`, only while no deadline has passed and no process has stopped: the
  policy evaluation, the reservation, the execution and a hold exist once, as
  a command, as its answer or as the saga's state.

`CreatedOnlyWhileReserved` is where these meet: an unanswered request means a
waiting saga, which means that nothing has failed, settled or released the
payment. `BlockedOnlyAfterOutcome` goes through the types of events: the tokens
exclude late and repeated answers of policy, ledger and hold, and a provider
event finds a saga that has submitted. The two exceptions in
`PaidPayoutIsNotFailed`, an operator's decision and a refused repetition, are
the only ones the invariant needs. For `ReleasedOnlyWhenReturned` a second
invariant, `ReturnInv`, follows a return from the row through the event and the
saga to the release: each of them, unless an operator decided, has the row at
`refunded`, a status the row never leaves. `LostSubmissionStaysPending` is a
property of single steps: none of the writers of the row accepts
`submission_pending` without a reference.

### Pay-in

`ApplyResult` overwrites the row and the payment without looking at them, so
only the order of the commands protects a succeeded payment. The invariant says
that once `payin.ledger.record` is in the topic nothing behind it can overwrite
the pay-in (`QueueInv`), that a receipt was reported (`ReportInv`), and, before
any deadline, that policy evaluation, approval and execution are one token that
the result uses up (`TokenInv`), on which `OneOutcomeUnlessRepeated` rests.

### Outbox and its refinement

A row is claimed only when the earlier rows of its aggregate are published, and
a published row is in its topic (`RelayInv`). Hence whatever a relay appends,
also one that lost its session and repeats an old publication, the events it
must follow are in the topic already (`LogInv`, which gives `TopicKeepsOrder`), and a consumer that closes a
topic in order has closed them (`ConsumerInv`). With this, every step of
`Outbox` is a step of `EventDelivery` or leaves its variables alone:
`Spec => ImplementsDelivery`.

### Creation

That quote and payment belong to each other is inductive once a payment's quote is
known to exist; what an answer names needs the unique index on keys. The refund
bound is about a sum over a table that the model computes with a recursive
function. Its module proves that the recursion is well defined on finite sets of rows
and what it gives when a row is added, by least counterexamples in place of an
induction rule: a set of numbers at which the claim fails would have a least
element.

### Notifications

A registration that holds the tenant's lock knows that its URL is free and the
limit not reached; `Disable`, which takes no lock, can only make both truer.
`OutcomeIsEarned` needs an order between three counts, since the code writes
back what it read without a lock: the row's, the one a dispatcher read, and the
attempts really made.

### Reconciliation

A run compares rows it read earlier. Its mark is still true at the commit: a
`payouts` row written since makes the run fail, and what the row is compared
with never changes back, because a payment's outcome is final and journals are
only added. This uses the payout invariant and `OutcomeStep` of
`PayoutSafety_proofs`.

### Only model-checked

Reasoning under fairness and about ENABLED is out of the prover's reach, so the liveness
properties are checked by TLC alone: `EveryPayoutIsDisposed`,
`ProviderOutcomeIsLearned`, `EveryEventIsHandled`, `ReconcilerCatchesUp`,
`EveryDeliveryIsSettled` and `DiscrepancyFollowsRecords`.

## Not modelled

Signature verification, schema versions and upcasting (the program registers no
schema), HTTP decoding and response codes, configuration, read models and audit
history, API keys (single statements on one row), the policy's arithmetic (its
decision is a free choice), retry times and backoff (a retry may come at any
moment), the mock provider with its operator endpoint, and BlindPay's customer,
bank account and wallet references, which no program code writes. The
reconciliation's queries on journals and on other providers' submissions have no
findings for BlindPay payouts, and pay-in rows are only marked by it: that a
concurrent write of a pay-in row makes a run fail is left out as well. Each
workflow module has its own half of the webhook reconciler's pass; that an
error in the payout half keeps the pay-in half from running is not modelled.
Liveness of two pay-ins is not checked: their state space is beyond what a run
of minutes covers.

## Plan

Done: the payout workflow, the outbox with its abstract specification, the
pay-in workflow, creation of quotes, payments and refunds, merchant
notifications, internal reconciliation; proofs of every invariant, every action
property and the refinement that the passing runs check.

Left:

1. Steps towards the liveness properties that need no fairness: that an answer
   or an outcome a liveness property waits for is not undone once reached, and
   that the waiting states are left only towards it.
2. Liveness of several pay-ins on the shared topics, which needs a smaller
   composition than `PayinWorkflow`.
3. A specification of the payment's public life (created, processing, one
   outcome, at most one return) that the payout workflow implements.
