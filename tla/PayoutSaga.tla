----------------------------- MODULE PayoutSaga -----------------------------
(***************************************************************************)
(* The payout saga coordinator (paymentcore/payout/coordinator.go): the    *)
(* settlement_sagas row of each payment, its transition table, the timeout *)
(* worker and the operator's manual review.  Each operation is one         *)
(* PostgreSQL transaction that updates the row under its lock and enqueues *)
(* at most one command.                                                    *)
(*                                                                         *)
(* Time is left out: a row with a deadline may expire at any moment.  The  *)
(* failure_reason text is left out.                                        *)
(***************************************************************************)
EXTENDS Messaging

CONSTANT MaxExpiries   \* bound: deadlines that pass in one behaviour

ASSUME MaxExpiriesAssumption == MaxExpiries \in Nat

VARIABLES
  saga,        \* settlement_sagas.state, "none" before the row exists
  deadline,    \* settlement_sagas.deadline_at IS NOT NULL
  audits,      \* saga_manual_review_actions: the actions taken
  expiries     \* deadlines that have passed (bounded by MaxExpiries)

sagaVars == <<saga, deadline, audits, expiries>>

SagaStates ==
  {"none", "awaiting_policy", "awaiting_ledger", "awaiting_settlement",
   "on_hold", "manual_review", "settling_payment", "completed", "failed",
   "releasing_ledger", "ledger_released", "returning", "returned"}

ReviewActions == {"retry", "complete", "fail", "return"}

NoCommand == "none"

\* What a step does to the row: its new state, the command it enqueues and
\* whether a deadline is set.
Step(to, command, timed) == [to |-> to, command |-> command, timed |-> timed]

SagaTypeOK ==
  /\ saga \in [Payments -> SagaStates]
  /\ deadline \in [Payments -> BOOLEAN]
  /\ audits \in [Payments -> SUBSET ReviewActions]
  /\ expiries \in 0..MaxExpiries

SagaInit ==
  /\ saga = [p \in Payments |-> "none"]
  /\ deadline = [p \in Payments |-> FALSE]
  /\ audits = [p \in Payments |-> {}]
  /\ expiries = 0

-----------------------------------------------------------------------------
\* The transition switch.  A row matches every reason unless it names one.

Row(from, on, to, command, timed) ==
  [from |-> from, on |-> on, reasons |-> Reasons, step |-> Step(to, command, timed)]

ReasonRow(from, on, reasons, to, command, timed) ==
  [from |-> from, on |-> on, reasons |-> reasons, step |-> Step(to, command, timed)]

Transitions ==
  {Row("awaiting_policy", "payout.policy.approved", "awaiting_ledger", "ledger.reserve", TRUE),
   Row("awaiting_policy", "payout.policy.rejected", "failed", "payment.fail", FALSE),
   Row("awaiting_ledger", "payout.funds_reserved", "awaiting_settlement", "settlement.execute", TRUE),
   Row("awaiting_ledger", "payout.ledger_failed", "failed", "payment.fail", FALSE),
   Row("awaiting_settlement", "payout.provider_completed", "settling_payment", "payment.settle", TRUE),
   Row("awaiting_settlement", "payout.on_hold", "on_hold", NoCommand, TRUE),
   Row("on_hold", "payout.provider_completed", "settling_payment", "payment.settle", TRUE),
   Row("on_hold", "payout.provider_failed", "failed", "payment.fail_reserved", FALSE),
   Row("on_hold", "payout.provider_returned", "returning", "ledger.release", TRUE),
   Row("settling_payment", "payout.completed", "completed", NoCommand, FALSE),
   Row("settling_payment", "payout.provider_completed", "settling_payment", NoCommand, TRUE),
   ReasonRow("awaiting_settlement", "payout.provider_failed", {"submission_failed"},
             "failed", "payment.fail", FALSE),
   ReasonRow("awaiting_settlement", "payout.provider_failed", {"other"},
             "failed", "payment.fail_reserved", FALSE),
   Row("awaiting_settlement", "payout.provider_returned", "returning", "ledger.release", TRUE),
   Row("failed", "payout.provider_returned", "returning", "ledger.release", TRUE),
   Row("failed", "payout.failed", "failed", NoCommand, FALSE),
   Row("releasing_ledger", "payout.funds_released", "ledger_released", "payment.fail", FALSE),
   Row("returning", "payout.funds_released", "returned", "payment.return", FALSE)}

\* A return accepted in every state.
MutantTransition(state, e) ==
  {t.step : t \in {r \in Transitions :
                     /\ r.from = state \/ e.type = "payout.provider_returned"
                     /\ r.on = e.type /\ e.reason \in r.reasons}}

\* A hold that only a failure or a return ends.
MutantTransitionHeld(state, e) ==
  {t.step : t \in {r \in Transitions :
                     /\ r.from = state /\ r.on = e.type /\ e.reason \in r.reasons
                     /\ ~(state = "on_hold" /\ e.type = "payout.provider_completed")}}

\* transition: the step for an event, or none at all - the handler then
\* returns a retryable error and the consumer stays on the event.
transition(state, e) ==
  {t.step : t \in {r \in Transitions :
                     r.from = state /\ r.on = e.type /\ e.reason \in r.reasons}}

-----------------------------------------------------------------------------
\* A step that sets its deadline only when it also enqueues a command.
MutantUpdateAndCommand(p, step) ==
  /\ saga' = [saga EXCEPT ![p] = step.to]
  /\ deadline' = [deadline EXCEPT ![p] = step.timed /\ step.command # NoCommand]
  /\ commands' = IF step.command = NoCommand
                 THEN commands ELSE Append(commands, Cmd(step.command, p))

updateAndCommand(p, step) ==
  /\ saga' = [saga EXCEPT ![p] = step.to]
  /\ deadline' = [deadline EXCEPT ![p] = step.timed]
  /\ commands' = IF step.command = NoCommand
                 THEN commands ELSE Append(commands, Cmd(step.command, p))

\* start: INSERT ... ON CONFLICT (payment_id) DO NOTHING, then the first command.
start(p) ==
  IF saga[p] = "none"
  THEN updateAndCommand(p, Step("awaiting_policy", "policy.evaluate", TRUE))
  ELSE UNCHANGED <<saga, deadline, commands>>

\* PayoutSagaHandler drops event types the coordinator does not consume.
Consumed(type) == type # "payout.funds_returned"

\* Handle, for the event at the head of payout-events.
Handle ==
  /\ events # <<>>
  /\ LET e == Head(events) IN
       IF ~Consumed(e.type) THEN UNCHANGED <<saga, deadline, commands>>
       ELSE IF e.type = "payout.created" THEN start(e.payment)
       ELSE \E step \in transition(saga[e.payment], e) : updateAndCommand(e.payment, step)
  /\ events' = Tail(events)
  /\ UNCHANGED <<announced, audits, expiries>>

-----------------------------------------------------------------------------
\* ExpireOnce: the states it claims, and what it does in each.
Expirable ==
  {"awaiting_policy", "awaiting_ledger", "awaiting_settlement", "on_hold",
   "releasing_ledger", "returning", "settling_payment"}

\* A compliance timeout that releases the reservation by itself.
MutantExpiryReleases(state) ==
  CASE state = "on_hold"          -> Step("returning", "ledger.release", TRUE)
    [] OTHER                      -> Step("failed", "payment.fail", FALSE)

\* A settlement timeout that gives up instead of repeating the command.
MutantExpiryFails(state) ==
  CASE state = "on_hold"          -> Step("manual_review", NoCommand, FALSE)
    [] state = "returning"        -> Step(state, "ledger.release", TRUE)
    [] state = "settling_payment" -> Step(state, "payment.settle", TRUE)
    [] OTHER                      -> Step("failed", "payment.fail", FALSE)

\* A policy timeout that moves on to the settlement.
MutantExpiryExecutes(state) ==
  CASE state = "on_hold" -> Step("manual_review", NoCommand, FALSE)
    [] OTHER             -> Step("awaiting_settlement", "settlement.execute", TRUE)

ExpiryStep(state) ==
  CASE state = "awaiting_settlement" -> Step(state, "settlement.execute", TRUE)
    [] state = "on_hold"             -> Step("manual_review", NoCommand, FALSE)
    [] state = "returning"           -> Step(state, "ledger.release", TRUE)
    [] state = "settling_payment"    -> Step(state, "payment.settle", TRUE)
    [] OTHER                         -> Step("failed", "payment.fail", FALSE)

ExpireOnce(p) ==
  /\ expiries < MaxExpiries
  /\ deadline[p] /\ saga[p] \in Expirable
  /\ updateAndCommand(p, ExpiryStep(saga[p]))
  /\ expiries' = expiries + 1
  /\ UNCHANGED <<events, announced, audits>>

-----------------------------------------------------------------------------
ReviewStep(action) ==
  CASE action = "retry"    -> Step("on_hold", NoCommand, TRUE)
    [] action = "complete" -> Step("settling_payment", "payment.settle", TRUE)
    [] action = "fail"     -> Step("failed", "payment.fail_reserved", FALSE)
    [] action = "return"   -> Step("returning", "ledger.release", TRUE)

ResolveManualReview(p, action) ==
  /\ saga[p] = "manual_review"
  /\ audits' = [audits EXCEPT ![p] = @ \cup {action}]
  /\ updateAndCommand(p, ReviewStep(action))
  /\ UNCHANGED <<events, announced, expiries>>
=============================================================================
