------------------------ MODULE PayoutSafety_proofs ------------------------
(***************************************************************************)
(* The safety properties of PayoutWorkflow, for any set of payments.       *)
(*                                                                         *)
(* None of them is inductive as it stands: a settled payment's saga cannot *)
(* be returning because of what the saga was when payment.settle was       *)
(* enqueued, long before the command is carried out.  IInv therefore also  *)
(* speaks of the commands and events still in the topics.                  *)
(***************************************************************************)
EXTENDS PayoutWorkflow_proofs

EventQueued(type, p) == \E e \in Elems(events) : e.type = type /\ e.payment = p

\* Journals follow the payment's status.
LedgerInv(p) ==
  /\ payment[p] = "processing" => "payment.processing" \in journals[p]
  /\ "payment.succeeded" \in journals[p] <=> payment[p] = "succeeded"
  /\ "payment.return.succeeded" \in journals[p] => payment[p] = "succeeded"
  /\ "payment.released" \in journals[p] \/ payment[p] = "succeeded"
       => "payment.processing" \in journals[p]

\* A settlement or release that is queued or done has its saga in the states
\* that are never left again; a completion is only reported of a settled
\* payment; a failed saga's command is queued or done.
SagaInv(p) ==
  /\ Queued("payment.settle", p) \/ payment[p] = "succeeded" => saga[p] \in Success
  /\ Queued("ledger.release", p) \/ "payment.released" \in journals[p] => saga[p] \in Return
  /\ EventQueued("payout.completed", p) \/ saga[p] = "completed" => payment[p] = "succeeded"
  /\ saga[p] = "failed" => payment[p] = "failed" \/ FailQueued(p)
  /\ deadline[p] <=> saga[p] \in Expirable

\* What merchants were told is the payment's outcome.
AnnouncedInv(p) ==
  /\ "payment.succeeded" \in announced[p] <=> payment[p] = "succeeded"
  /\ "payment.failed" \in announced[p] <=> payment[p] = "failed"

\* A status that reached the payouts row, the worker or a workflow event was
\* reported by the provider.
Seen(p, status) ==
  \/ provider[p] = status
  \/ payout[p] = status
  \/ worker.pc \in {"record", "apply"} /\ Executing(p) /\ worker.result = status

ReportInv(p) ==
  /\ Seen(p, "completed") \/ EventQueued("payout.provider_completed", p) => Reported(p, "completed")
  /\ Seen(p, "refunded") \/ EventQueued("payout.provider_returned", p) => Reported(p, "refunded")
  /\ saga[p] \in Success => Reported(p, "completed") \/ "complete" \in audits[p]
  /\ saga[p] \in Return => Reported(p, "refunded") \/ "return" \in audits[p]

IInv ==
  /\ TypeOK
  /\ worker.pc # "idle" => commands # <<>>
  /\ stored \subseteq sent /\ batch \subseteq sent
  /\ \A p \in Payments : LedgerInv(p) /\ SagaInv(p) /\ AnnouncedInv(p) /\ ReportInv(p)

-----------------------------------------------------------------------------
\* The invariant holds before the first payout is created.
LEMMA InitInv == Init => IInv
<1> SUFFICES ASSUME Init PROVE IInv
  OBVIOUS
<1>1. TypeOK
  BY InitType
<1>2. Elems(commands) = {} /\ Elems(events) = {}
  BY DEF Init, MessagingInit, Elems
<1>3. worker.pc = "idle" /\ stored = {} /\ batch = {}
  BY DEF Init, ExecutionInit, WebhookInit, Idle, At
<1>4. ASSUME NEW p \in Payments
      PROVE  LedgerInv(p) /\ SagaInv(p) /\ AnnouncedInv(p) /\ ReportInv(p)
  <2>1. /\ payment[p] = "none" /\ journals[p] = {} /\ saga[p] = "none" /\ deadline[p] = FALSE
        /\ announced[p] = {} /\ provider[p] = "none" /\ payout[p] = "none"
    BY DEF Init, MessagingInit, SagaInit, LedgerInit, ExecutionInit
  <2>2. LedgerInv(p) /\ AnnouncedInv(p)
    BY <2>1 DEF LedgerInv, AnnouncedInv
  <2>3. SagaInv(p)
    BY <1>2, <2>1 DEF SagaInv, Queued, EventQueued, Expirable
  <2>4. ReportInv(p)
    BY <1>2, <1>3, <2>1 DEF ReportInv, Seen, EventQueued, Success, Return
  <2> QED BY <2>2, <2>3, <2>4
<1> QED BY <1>1, <1>3, <1>4 DEF IInv

-----------------------------------------------------------------------------
(* The coordinator's steps. *)

\* A good step that completes only a settled payment keeps the agreement
\* between sagas, commands and the ledger.
LEMMA GoodStepInv ==
  ASSUME IInv, NEW p \in Payments, NEW step,
         GoodStep(saga[p], step), updateAndCommand(p, step),
         step.to = "completed" => payment[p] = "succeeded",
         UNCHANGED <<payment, journals, announced>>,
         Elems(events') \subseteq Elems(events)
  PROVE  \A q \in Payments : LedgerInv(q)' /\ SagaInv(q)' /\ AnnouncedInv(q)'
<1> SUFFICES ASSUME NEW q \in Payments PROVE LedgerInv(q)' /\ SagaInv(q)' /\ AnnouncedInv(q)'
  OBVIOUS
<1> TypeOK /\ LedgerInv(q) /\ SagaInv(q) /\ AnnouncedInv(q) /\ SagaInv(p)
  BY DEF IInv
<1>1. LedgerInv(q)' /\ AnnouncedInv(q)'
  BY DEF LedgerInv, AnnouncedInv
<1>2. /\ saga'[p] = step.to
      /\ deadline'[p] = step.timed
      /\ \A r \in Payments \ {p} : saga'[r] = saga[r] /\ deadline'[r] = deadline[r]
      /\ Elems(commands') = IF step.command = NoCommand THEN Elems(commands)
                            ELSE Elems(commands) \cup {Cmd(step.command, p)}
  BY SagaUpdate
<1>3. Queued("payment.settle", q)' \/ payment'[q] = "succeeded" => saga'[q] \in Success
  BY <1>2 DEF SagaInv, Queued, GoodStep, Cmd, Success
<1>4. Queued("ledger.release", q)' \/ "payment.released" \in journals'[q] => saga'[q] \in Return
  BY <1>2 DEF SagaInv, Queued, GoodStep, Cmd, Return
<1>5. EventQueued("payout.completed", q)' \/ saga'[q] = "completed" => payment'[q] = "succeeded"
  BY <1>2 DEF SagaInv, EventQueued
<1>6. saga'[q] = "failed" => payment'[q] = "failed" \/ FailQueued(q)'
  BY <1>2 DEF SagaInv, FailQueued, Queued, GoodStep, Cmd, NoCommand
<1>7. deadline'[q] <=> saga'[q] \in Expirable
  BY <1>2 DEF SagaInv, GoodStep
<1> QED BY <1>1, <1>3, <1>4, <1>5, <1>6, <1>7 DEF SagaInv

\* It keeps the worker's command at the head of the topic, and enters success
\* or return only on a report or an operator's decision.
LEMMA GoodStepReport ==
  ASSUME IInv, NEW p \in Payments, NEW step,
         GoodStep(saga[p], step), updateAndCommand(p, step),
         UNCHANGED <<provider, payout, worker, sent>>,
         Elems(events') \subseteq Elems(events),
         \A q \in Payments : audits[q] \subseteq audits'[q],
         step.to \in Success => saga[p] \in Success \/ Reported(p, "completed") \/ "complete" \in audits'[p],
         step.to \in Return => saga[p] \in Return \/ Reported(p, "refunded") \/ "return" \in audits'[p]
  PROVE  /\ \A q \in Payments : ReportInv(q)'
         /\ worker'.pc # "idle" => commands' # <<>>
<1>1. /\ saga'[p] = step.to
      /\ \A r \in Payments \ {p} : saga'[r] = saga[r]
      /\ commands # <<>> => commands' # <<>> /\ Head(commands') = Head(commands)
  BY SagaUpdate DEF IInv
<1>2. worker'.pc # "idle" => commands' # <<>>
  BY <1>1 DEF IInv
<1>3. ASSUME NEW q \in Payments PROVE ReportInv(q)'
  <2>1. \A status : Reported(q, status)' <=> Reported(q, status)
    BY DEF Reported
  <2>2. \A status : Seen(q, status)' => Seen(q, status)
    BY <1>1 DEF Seen, Executing, IInv
  <2>3. \A type : EventQueued(type, q)' => EventQueued(type, q)
    BY DEF EventQueued
  <2>4. saga'[q] \in Success => Reported(q, "completed") \/ "complete" \in audits'[q]
    BY <1>1 DEF IInv, ReportInv
  <2>5. saga'[q] \in Return => Reported(q, "refunded") \/ "return" \in audits'[q]
    BY <1>1 DEF IInv, ReportInv
  <2> QED BY <2>1, <2>2, <2>3, <2>4, <2>5 DEF IInv, ReportInv
<1> QED BY <1>2, <1>3

\* The coordinator handling the event at the head of payout-events keeps it.
LEMMA SagaStepInv == ASSUME IInv, SagaStep PROVE IInv'
<1> USE DEF ledgerVars, executionVars, webhookVars
<1> TypeOK
  BY DEF IInv
<1>1. TypeOK'
  BY NextType DEF Next
<1>2. /\ Handle
      /\ UNCHANGED <<payment, journals, announced, provider, payout, worker, sent, stored, batch, audits>>
      /\ events # <<>> /\ events' = Tail(events)
  BY DEF SagaStep, Handle
<1>3. Elems(events') \subseteq Elems(events) /\ Head(events) \in Elems(events)
  BY <1>2, HeadEvent
<1>4. CASE UNCHANGED <<saga, deadline, commands>>
  <2>1. ASSUME NEW q \in Payments
        PROVE  LedgerInv(q)' /\ SagaInv(q)' /\ AnnouncedInv(q)' /\ ReportInv(q)'
    <3>1. LedgerInv(q)' /\ AnnouncedInv(q)'
      BY <1>2 DEF IInv, LedgerInv, AnnouncedInv
    <3>2. SagaInv(q)'
      BY <1>2, <1>3, <1>4 DEF IInv, SagaInv, Queued, FailQueued, EventQueued
    <3>3. ReportInv(q)'
      BY <1>2, <1>3, <1>4 DEF IInv, ReportInv, Seen, Executing, EventQueued, Reported
    <3> QED BY <3>1, <3>2, <3>3
  <2> QED BY <1>1, <1>2, <1>4, <2>1 DEF IInv
<1>5. ASSUME NEW p \in Payments, NEW step,
             GoodStep(saga[p], step), updateAndCommand(p, step),
             p = Head(events).payment,
             step.to = "settling_payment" => Head(events).type = "payout.provider_completed",
             step.to = "completed" =>
               Head(events).type = "payout.completed" /\ saga[p] = "settling_payment",
             step.to = "returning" => Head(events).type = "payout.provider_returned",
             step.to = "returned" => saga[p] = "returning"
      PROVE  IInv'
  <2>1. \A type : Head(events).type = type => EventQueued(type, p)
    BY <1>3, <1>5 DEF EventQueued
  <2>2. step.to = "completed" => payment[p] = "succeeded"
    BY <1>5, <2>1 DEF IInv, SagaInv
  <2>3. step.to \in Success => saga[p] \in Success \/ Reported(p, "completed")
    BY <1>5, <2>1 DEF IInv, ReportInv, Success
  <2>4. step.to \in Return => saga[p] \in Return \/ Reported(p, "refunded")
    BY <1>5, <2>1 DEF IInv, ReportInv, Return
  <2>5. \A q \in Payments : LedgerInv(q)' /\ SagaInv(q)' /\ AnnouncedInv(q)'
    BY <1>2, <1>3, <1>5, <2>2, GoodStepInv
  <2>6. /\ \A q \in Payments : ReportInv(q)'
        /\ worker'.pc # "idle" => commands' # <<>>
    <3>1. \A q \in Payments : audits[q] \subseteq audits'[q]
      BY <1>2
    <3> QED BY <1>2, <1>3, <1>5, <2>3, <2>4, <3>1, GoodStepReport
  <2> QED BY <1>1, <1>2, <2>5, <2>6 DEF IInv
<1> QED BY <1>2, <1>4, <1>5, HandleSteps

\* A passed deadline (ExpireOnce) keeps it.
LEMMA SagaExpiryInv == ASSUME IInv, NEW p \in Payments, SagaExpiry(p) PROVE IInv'
<1> USE DEF ledgerVars, executionVars, webhookVars
<1> DEFINE step == ExpiryStep(saga[p])
<1>1. TypeOK'
  BY NextType DEF Next, IInv
<1>2. /\ saga[p] \in Expirable
      /\ updateAndCommand(p, step)
      /\ UNCHANGED <<payment, journals, announced, events, provider, payout, worker, sent, stored, batch, audits>>
  BY DEF SagaExpiry, ExpireOnce
<1>3. /\ GoodStep(saga[p], step)
      /\ step.to = "settling_payment" => saga[p] = "settling_payment"
      /\ step.to = "returning" => saga[p] = "returning"
      /\ step.to \notin {"completed", "returned"}
  BY <1>2, ExpirySteps
<1> HIDE DEF step
<1>4. Elems(events') \subseteq Elems(events) /\ \A q \in Payments : audits[q] \subseteq audits'[q]
  BY <1>2
<1>5. \A q \in Payments : LedgerInv(q)' /\ SagaInv(q)' /\ AnnouncedInv(q)'
  BY <1>2, <1>3, <1>4, GoodStepInv
<1>6. /\ \A q \in Payments : ReportInv(q)'
      /\ worker'.pc # "idle" => commands' # <<>>
  <2>1. /\ step.to \in Success => saga[p] \in Success
        /\ step.to \in Return => saga[p] \in Return
    BY <1>3 DEF Success, Return
  <2> QED BY <1>2, <1>3, <1>4, <2>1, GoodStepReport
<1> QED BY <1>1, <1>2, <1>5, <1>6 DEF IInv

\* An operator's decision (ResolveManualReview) keeps it.
LEMMA SagaReviewInv == ASSUME IInv, NEW p \in Payments, SagaReview(p) PROVE IInv'
<1> USE DEF ledgerVars, executionVars, webhookVars
<1>1. TypeOK'
  BY NextType DEF Next, IInv
<1>2. PICK action \in ReviewActions : ResolveManualReview(p, action)
  BY DEF SagaReview
<1> DEFINE step == ReviewStep(action)
<1>3. /\ saga[p] = "manual_review"
      /\ updateAndCommand(p, step)
      /\ audits' = [audits EXCEPT ![p] = @ \cup {action}]
      /\ UNCHANGED <<payment, journals, announced, events, provider, payout, worker, sent, stored, batch>>
  BY <1>2 DEF SagaReview, ResolveManualReview
<1>4. /\ GoodStep(saga[p], step)
      /\ step.to = "settling_payment" => action = "complete"
      /\ step.to = "returning" => action = "return"
      /\ step.to \notin {"completed", "returned"}
  BY <1>3, ReviewSteps
<1> HIDE DEF step
<1>5. /\ Elems(events') \subseteq Elems(events)
      /\ \A q \in Payments : audits[q] \subseteq audits'[q]
      /\ action \in audits'[p]
  BY <1>3 DEF IInv, TypeOK, SagaTypeOK
<1>6. \A q \in Payments : LedgerInv(q)' /\ SagaInv(q)' /\ AnnouncedInv(q)'
  BY <1>3, <1>4, <1>5, GoodStepInv
<1>7. /\ \A q \in Payments : ReportInv(q)'
      /\ worker'.pc # "idle" => commands' # <<>>
  <2>1. /\ step.to \in Success => "complete" \in audits'[p]
        /\ step.to \in Return => "return" \in audits'[p]
    BY <1>4, <1>5 DEF Success, Return
  <2> QED BY <1>3, <1>4, <1>5, <2>1, GoodStepReport
<1> QED BY <1>1, <1>3, <1>6, <1>7 DEF IInv

-----------------------------------------------------------------------------
(* Creation and the command worker. *)

\* createPayout keeps it: a new payment has no journals and no saga.
LEMMA CreatePayoutInv == ASSUME IInv, NEW p \in Payments, CreatePayout(p) PROVE IInv'
<1> USE DEF sagaVars, executionVars, webhookVars
<1> TypeOK
  BY DEF IInv
<1>1. TypeOK'
  BY NextType DEF Next
<1>2. /\ payment[p] = "none" /\ payment' = [payment EXCEPT ![p] = "created"]
      /\ Announce(p, {"payment.created"})
      /\ UNCHANGED <<commands, journals, saga, deadline, audits, payout, worker, provider, sent, stored, batch>>
  BY DEF CreatePayout
<1>3. /\ payment'[p] = "created"
      /\ \A q \in Payments \ {p} : payment'[q] = payment[q]
  BY <1>2 DEF TypeOK, LedgerTypeOK
<1>4. /\ announced'[p] = announced[p] \cup {"payment.created"}
      /\ \A q \in Payments \ {p} : announced'[q] = announced[q]
  BY <1>2, AnnounceType DEF PublicTypes
<1>5. Elems(events') = Elems(events) \cup {Evt("payout.created", p)}
  <2>1. Evt("payout.created", p) \in Event
    BY EvtType DEF EventTypes
  <2> QED BY <2>1, PublishEvent DEF CreatePayout
<1>6. ASSUME NEW q \in Payments
      PROVE  LedgerInv(q)' /\ SagaInv(q)' /\ AnnouncedInv(q)' /\ ReportInv(q)'
  <2> LedgerInv(q) /\ SagaInv(q) /\ AnnouncedInv(q) /\ ReportInv(q)
    BY DEF IInv
  <2>1. \A type : EventQueued(type, q)' => EventQueued(type, q) \/ type = "payout.created"
    BY <1>5 DEF EventQueued, Evt
  <2>2. LedgerInv(q)'
    BY <1>2, <1>3 DEF LedgerInv
  <2>3. SagaInv(q)'
    BY <1>2, <1>3, <2>1 DEF SagaInv, Queued, FailQueued
  <2>4. AnnouncedInv(q)'
    BY <1>2, <1>3, <1>4 DEF AnnouncedInv
  <2>5. ReportInv(q)'
    BY <1>2, <2>1 DEF ReportInv, Seen, Executing, Reported
  <2> QED BY <2>2, <2>3, <2>4, <2>5
<1> QED BY <1>1, <1>2, <1>6 DEF IInv

\* What every command that is one transaction does outside the ledger: it
\* leaves the topic, replies at most once, and nothing else changes.
LEMMA CommandFrame ==
  ASSUME IInv, NEW p \in Payments, LedgerOrPaymentCommand(p)
  PROVE  /\ UNCHANGED <<saga, deadline, audits, payout, worker, provider, sent, stored, batch>>
         /\ worker = Idle
         /\ Head(commands) \in Elems(commands)
         /\ Elems(commands') \subseteq Elems(commands)
         /\ Elems(commands) \subseteq Elems(commands') \cup {Head(commands)}
<1>1. /\ UNCHANGED <<saga, deadline, audits, payout, worker, provider, sent, stored, batch>>
      /\ worker = Idle
      /\ commands # <<>> /\ commands' = Tail(commands)
  BY DEF LedgerOrPaymentCommand, PolicyEvaluate, LedgerReserve, LedgerRelease, PaymentSettle,
         PaymentFail, PaymentReturn, Take, sagaVars, executionVars, webhookVars
<1> QED BY <1>1, TakeHead DEF IInv

\* The reports the invariant speaks of are not the replies of commands.
LEMMA CommandReport ==
  ASSUME IInv, NEW p \in Payments, LedgerOrPaymentCommand(p)
  PROVE  /\ worker'.pc # "idle" => commands' # <<>>
         /\ stored' \subseteq sent' /\ batch' \subseteq sent'
         /\ \A q \in Payments : ReportInv(q)'
<1>1. /\ UNCHANGED <<saga, audits, payout, worker, provider, sent, stored, batch>>
      /\ worker = Idle /\ worker.pc = "idle"
  BY CommandFrame DEF Idle, At
<1>2. ASSUME NEW q \in Payments,
             NEW type \in {"payout.provider_completed", "payout.provider_returned"}
      PROVE  EventQueued(type, q)' => EventQueued(type, q)
  <2>1. \/ UNCHANGED events
        \/ \E reply \in EventTypes \ {"payout.provider_completed", "payout.provider_returned"} :
             enqueueReply(p, reply)
    BY DEF LedgerOrPaymentCommand, PolicyEvaluate, LedgerReserve, LedgerRelease, PaymentSettle,
           PaymentFail, PaymentReturn, Reply, Drop, EventTypes
  <2>2. ASSUME NEW reply \in EventTypes \ {"payout.provider_completed", "payout.provider_returned"},
               enqueueReply(p, reply)
        PROVE  EventQueued(type, q)' => EventQueued(type, q)
    <3>1. Elems(events') = Elems(events) \cup {Evt(reply, p)}
      BY <2>2, ReplyType DEF IInv
    <3> QED BY <3>1 DEF EventQueued, Evt
  <2> QED BY <2>1, <2>2 DEF EventQueued
<1>3. ASSUME NEW q \in Payments PROVE ReportInv(q)'
  BY <1>1, <1>2 DEF IInv, ReportInv, Seen, Reported
<1> QED BY <1>1, <1>3 DEF IInv

\* A command leaves what the invariant says of the other payments alone.
LEMMA CommandOthers ==
  ASSUME IInv, NEW p \in Payments, LedgerOrPaymentCommand(p),
         NEW q \in Payments, q # p
  PROVE  LedgerInv(q)' /\ SagaInv(q)' /\ AnnouncedInv(q)'
<1> TypeOK
  BY DEF IInv
<1> LedgerInv(q) /\ SagaInv(q) /\ AnnouncedInv(q)
  BY DEF IInv
<1>1. payment'[q] = payment[q] /\ journals'[q] = journals[q]
  BY DEF LedgerOrPaymentCommand, PolicyEvaluate, LedgerReserve, LedgerRelease, PaymentSettle,
         PaymentFail, PaymentReturn, Reply, Drop, Reserve, Release, Settle, post, ledgerVars,
         TypeOK, LedgerTypeOK
<1>2. \/ UNCHANGED <<events, announced>>
      \/ \E reply \in EventTypes : enqueueReply(p, reply)
  BY DEF LedgerOrPaymentCommand, PolicyEvaluate, LedgerReserve, LedgerRelease, PaymentSettle,
         PaymentFail, PaymentReturn, Reply, Drop, EventTypes
<1>3. /\ announced'[q] = announced[q]
      /\ \A e \in Elems(events') : e.payment = q => e \in Elems(events)
  <2>1. ASSUME NEW reply \in EventTypes, enqueueReply(p, reply)
        PROVE  /\ announced'[q] = announced[q]
               /\ \A e \in Elems(events') : e.payment = q => e \in Elems(events)
    BY <2>1, ReplyType, EvtType
  <2> QED BY <1>2, <2>1
<1>4. \A type : Queued(type, q)' <=> Queued(type, q)
  <2>1. \E type : Head(commands) = Cmd(type, p)
    BY DEF LedgerOrPaymentCommand, PolicyEvaluate, LedgerReserve, LedgerRelease, PaymentSettle,
           PaymentFail, PaymentReturn, Take
  <2> QED BY <2>1, CommandFrame DEF Queued, Cmd
<1>5. saga' = saga /\ deadline' = deadline
  BY CommandFrame
<1>6. LedgerInv(q)' /\ AnnouncedInv(q)'
  BY <1>1, <1>3 DEF LedgerInv, AnnouncedInv
<1>7. SagaInv(q)'
  BY <1>1, <1>3, <1>4, <1>5 DEF SagaInv, EventQueued, FailQueued
<1> QED BY <1>6, <1>7

\* Its own payment: one case per command.
LEMMA CommandOwn ==
  ASSUME IInv, NEW p \in Payments, LedgerOrPaymentCommand(p)
  PROVE  LedgerInv(p)' /\ SagaInv(p)' /\ AnnouncedInv(p)'
<1> TypeOK /\ LedgerInv(p) /\ SagaInv(p) /\ AnnouncedInv(p)
  BY DEF IInv
<1>1. /\ saga' = saga /\ deadline' = deadline
      /\ Head(commands) \in Elems(commands)
      /\ Elems(commands') \subseteq Elems(commands)
      /\ Elems(commands) \subseteq Elems(commands') \cup {Head(commands)}
  BY CommandFrame
<1>2. \A type : Head(commands) = Cmd(type, p) => Queued(type, p)
  BY <1>1 DEF Queued
<1>3. \A type : Queued(type, p)' => Queued(type, p)
  BY <1>1 DEF Queued
<1>4. ASSUME NEW type, type \notin {"payment.fail", "payment.fail_reserved"}, Head(commands) = Cmd(type, p)
      PROVE  FailQueued(p) => FailQueued(p)'
  BY <1>1, <1>4 DEF FailQueued, Queued, Cmd
<1>5. ASSUME NEW reply \in EventTypes, enqueueReply(p, reply)
      PROVE  /\ announced'[p] = announced[p] \cup PublicType(reply)
             /\ EventQueued("payout.completed", p)' =>
                  EventQueued("payout.completed", p) \/ reply = "payout.completed"
  BY <1>5, ReplyType, EvtType DEF EventQueued
<1>6. ASSUME Drop, FailQueued(p) => FailQueued(p)' \/ saga[p] # "failed" \/ payment[p] = "failed"
      PROVE  LedgerInv(p)' /\ SagaInv(p)' /\ AnnouncedInv(p)'
  <2>1. LedgerInv(p)' /\ AnnouncedInv(p)'
    BY <1>6 DEF Drop, ledgerVars, LedgerInv, AnnouncedInv
  <2>2. SagaInv(p)'
    BY <1>1, <1>3, <1>6 DEF Drop, ledgerVars, SagaInv, EventQueued
  <2> QED BY <2>1, <2>2
<1>7. ASSUME NEW reply \in EventTypes, reply \notin {"payout.completed", "payout.failed"},
             enqueueReply(p, reply), UNCHANGED ledgerVars, FailQueued(p) => FailQueued(p)'
      PROVE  LedgerInv(p)' /\ SagaInv(p)' /\ AnnouncedInv(p)'
  <2>1. announced'[p] \subseteq announced[p] \cup {"payment.processing"} /\ announced[p] \subseteq announced'[p]
    BY <1>5, <1>7 DEF PublicType
  <2>2. LedgerInv(p)' /\ AnnouncedInv(p)'
    BY <1>7, <2>1 DEF ledgerVars, LedgerInv, AnnouncedInv
  <2>3. SagaInv(p)'
    BY <1>1, <1>3, <1>5, <1>7 DEF ledgerVars, SagaInv
  <2> QED BY <2>2, <2>3
<1>8. CASE PolicyEvaluate(p)
  <2>1. FailQueued(p) => FailQueued(p)'
    BY <1>4, <1>8 DEF PolicyEvaluate, Take
  <2> QED BY <1>7, <1>8, <2>1 DEF PolicyEvaluate, Reply, EventTypes
<1>9. CASE LedgerReserve(p)
  <2>1. FailQueued(p) => FailQueued(p)'
    BY <1>4, <1>9 DEF LedgerReserve, Take
  <2>2. CASE Reserve(p) /\ enqueueReply(p, "payout.funds_reserved")
    <3>1. CASE payment[p] = "processing"
      BY <1>7, <2>1, <2>2, <3>1 DEF Reserve, post, EventTypes
    <3>2. CASE payment[p] = "created"
      <4>1. payment'[p] = "processing" /\ journals'[p] = journals[p] \cup {"payment.processing"}
        BY <2>2, <3>2 DEF Reserve, post, TypeOK, LedgerTypeOK
      <4>2. announced'[p] = announced[p] \cup {"payment.processing"}
        BY <1>5, <2>2 DEF PublicType, EventTypes
      <4>3. EventQueued("payout.completed", p)' => EventQueued("payout.completed", p)
        BY <1>5, <2>2 DEF EventTypes
      <4>4. LedgerInv(p)'
        BY <3>2, <4>1 DEF LedgerInv
      <4>5. AnnouncedInv(p)'
        BY <3>2, <4>1, <4>2 DEF AnnouncedInv
      <4>6. SagaInv(p)'
        BY <1>1, <1>3, <2>1, <3>2, <4>1, <4>3 DEF SagaInv
      <4> QED BY <4>4, <4>5, <4>6
    <3> QED BY <2>2, <3>1, <3>2 DEF Reserve, post, Posts
  <2> QED BY <1>6, <1>9, <2>1, <2>2 DEF LedgerReserve
<1>10. CASE LedgerRelease(p)
  <2>1. FailQueued(p) => FailQueued(p)'
    BY <1>4, <1>10 DEF LedgerRelease, Take
  <2>2. CASE Release(p) /\ enqueueReply(p, "payout.funds_released")
    <3>1. /\ payment[p] = "processing" /\ payment'[p] = payment[p]
          /\ journals'[p] = journals[p] \cup {"payment.released"}
      BY <2>2 DEF Release, post, Posts, TypeOK, LedgerTypeOK
    <3>2. saga[p] \in Return
      BY <1>2, <1>10 DEF LedgerRelease, Take, SagaInv
    <3>3. announced'[p] = announced[p]
      BY <1>5, <2>2 DEF PublicType, EventTypes
    <3>4. EventQueued("payout.completed", p)' => EventQueued("payout.completed", p)
      BY <1>5, <2>2 DEF EventTypes
    <3>5. LedgerInv(p)'
      BY <3>1 DEF LedgerInv
    <3>6. AnnouncedInv(p)'
      BY <3>1, <3>3 DEF AnnouncedInv
    <3>7. SagaInv(p)'
      BY <1>1, <1>3, <2>1, <3>1, <3>2, <3>4 DEF SagaInv
    <3> QED BY <3>5, <3>6, <3>7
  <2> QED BY <1>6, <1>10, <2>1, <2>2 DEF LedgerRelease
<1>11. CASE PaymentSettle(p)
  <2>1. FailQueued(p) => FailQueued(p)'
    BY <1>4, <1>11 DEF PaymentSettle, Take
  <2>2. CASE Settle(p) /\ enqueueReply(p, "payout.completed")
    <3>1. /\ payment'[p] = "succeeded"
          /\ \/ journals'[p] = journals[p] /\ payment[p] = "succeeded"
             \/ /\ journals'[p] = journals[p] \cup {"payment.succeeded"}
                /\ payment[p] = "processing"
      BY <2>2 DEF Settle, post, Posts, ledgerVars, TypeOK, LedgerTypeOK
    <3>2. saga[p] \in Success
      BY <1>2, <1>11 DEF PaymentSettle, Take, SagaInv
    <3>3. announced'[p] = announced[p] \cup {"payment.succeeded"}
      BY <1>5, <2>2 DEF PublicType, EventTypes
    <3>4. LedgerInv(p)'
      BY <3>1 DEF LedgerInv
    <3>5. AnnouncedInv(p)'
      BY <3>1, <3>3 DEF AnnouncedInv
    <3>6. SagaInv(p)'
      BY <1>1, <1>3, <3>1, <3>2 DEF SagaInv, Success
    <3> QED BY <3>4, <3>5, <3>6
  <2> QED BY <1>6, <1>11, <2>1, <2>2 DEF PaymentSettle
<1>12. ASSUME NEW type \in {"payment.fail", "payment.fail_reserved"}, PaymentFail(type, p)
       PROVE  LedgerInv(p)' /\ SagaInv(p)' /\ AnnouncedInv(p)'
  <2>1. CASE Failable(p)
    <3>1. payment'[p] = "failed" /\ payment[p] \notin {"succeeded", "failed"} /\ journals' = journals
      BY <1>12, <2>1 DEF PaymentFail, Failable, TypeOK, LedgerTypeOK
    <3>2. enqueueReply(p, "payout.failed")
      BY <1>12, <2>1 DEF PaymentFail
    <3>3. announced'[p] = announced[p] \cup {"payment.failed"}
      BY <1>5, <3>2 DEF PublicType, EventTypes
    <3>4. EventQueued("payout.completed", p)' => EventQueued("payout.completed", p)
      BY <1>5, <3>2 DEF EventTypes
    <3>5. LedgerInv(p)'
      BY <3>1 DEF LedgerInv
    <3>6. AnnouncedInv(p)'
      BY <3>1, <3>3 DEF AnnouncedInv
    <3>7. SagaInv(p)'
      BY <1>1, <1>3, <3>1, <3>4 DEF SagaInv
    <3> QED BY <3>5, <3>6, <3>7
  <2>2. CASE ~Failable(p)
    <3>1. payment[p] = "failed" \/ saga[p] # "failed"
      BY <2>2 DEF Failable, SagaInv, Success
    <3> QED BY <1>6, <1>12, <2>2, <3>1 DEF PaymentFail
  <2> QED BY <2>1, <2>2
<1>13. CASE PaymentReturn(p)
  <2>1. FailQueued(p) => FailQueued(p)'
    BY <1>4, <1>13 DEF PaymentReturn, Take
  <2> QED BY <1>6, <1>7, <1>13, <2>1 DEF PaymentReturn, Reply, EventTypes
<1> QED BY <1>8, <1>9, <1>10, <1>11, <1>12, <1>13 DEF LedgerOrPaymentCommand

\* The worker's ledger and payment commands keep it, refused ones included.
LEMMA CommandInv == ASSUME IInv, NEW p \in Payments, LedgerOrPaymentCommand(p) PROVE IInv'
<1>1. TypeOK'
  BY NextType DEF Next, IInv
<1>2. ASSUME NEW q \in Payments PROVE LedgerInv(q)' /\ SagaInv(q)' /\ AnnouncedInv(q)'
  <2>1. CASE q = p
    BY <2>1, CommandOwn
  <2>2. CASE q # p
    BY <2>2, CommandOthers
  <2> QED BY <2>1, <2>2
<1> QED BY <1>1, <1>2, CommandReport DEF IInv

-----------------------------------------------------------------------------
(* Execution of settlement.execute, the provider and its notifications. *)

\* A status the provider notifies of is reported from then on.
LEMMA NotifyReports ==
  ASSUME NEW p \in Payments, NEW status, Notify(p, status)
  PROVE  /\ \A q \in Payments : \A s : Reported(q, s) => Reported(q, s)'
         /\ status \in NotifiedStatuses => Reported(p, status)'
<1>1. sent \subseteq sent'
  BY DEF Notify
<1>2. \A q \in Payments : \A s : Reported(q, s) => Reported(q, s)'
  BY <1>1 DEF Reported
<1>3. ASSUME status \in NotifiedStatuses PROVE Reported(p, status)'
  <2>1. PICK c \in Copies : TRUE
    BY ExecutionAssumption
  <2> DEFINE w == [payment |-> p, status |-> status, copy |-> c]
  <2>2. w \in sent'
    BY <1>3, <2>1 DEF Notify
  <2>3. w.payment = p /\ w.status = status
    OBVIOUS
  <2> QED BY <2>2, <2>3 DEF Reported
<1> QED BY <1>2, <1>3

\* Executing the provider command moves neither sagas nor the ledger.
LEMMA ExecutionOthers ==
  ASSUME IInv, UNCHANGED <<payment, journals, announced, saga, deadline>>,
         \A e \in Elems(events') : e \in Elems(events) \/ e.type # "payout.completed",
         \A c \in Elems(commands') : c \in Elems(commands),
         \A c \in Elems(commands) : c \in Elems(commands') \/ c.type = "settlement.execute"
  PROVE  \A q \in Payments : LedgerInv(q)' /\ SagaInv(q)' /\ AnnouncedInv(q)'
<1> SUFFICES ASSUME NEW q \in Payments PROVE LedgerInv(q)' /\ SagaInv(q)' /\ AnnouncedInv(q)'
  OBVIOUS
<1>1. LedgerInv(q)' /\ AnnouncedInv(q)'
  BY DEF IInv, LedgerInv, AnnouncedInv
<1>2. \A type : Queued(type, q)' => Queued(type, q)
  BY DEF Queued
<1>3. FailQueued(q) => FailQueued(q)'
  BY DEF FailQueued, Queued, Cmd
<1>4. EventQueued("payout.completed", q)' => EventQueued("payout.completed", q)
  BY DEF EventQueued
<1>5. SagaInv(q)'
  BY <1>2, <1>3, <1>4 DEF IInv, SagaInv
<1> QED BY <1>1, <1>5

\* The worker's own steps of settlement.execute keep it.
LEMMA ExecuteCommandInv == ASSUME IInv, NEW p \in Payments, ExecuteCommand(p) PROVE IInv'
<1> USE DEF sagaVars, ledgerVars, webhookVars
<1> TypeOK
  BY DEF IInv
<1>1. TypeOK'
  BY NextType DEF Next
<1>2. UNCHANGED <<payment, journals, announced, saga, deadline, audits, provider, sent, stored, batch>>
  BY DEF ExecuteCommand, prepare, record, ApplyResult
<1>3. Executing(p)
  BY DEF ExecuteCommand, prepare, record, ApplyResult
<1>4. \A q \in Payments : Executing(q) => q = p
  BY <1>3 DEF Executing, Cmd
<1>5. ASSUME NEW q \in Payments, NEW s PROVE Reported(q, s)' <=> Reported(q, s)
  BY <1>2 DEF Reported
<1>6. CASE prepare(p) \/ record(p)
  <2>1. UNCHANGED <<commands, events>>
    BY <1>6 DEF prepare, record
  <2>2. \A q \in Payments : LedgerInv(q)' /\ SagaInv(q)' /\ AnnouncedInv(q)'
    BY <1>2, <2>1, ExecutionOthers
  <2>3. ASSUME NEW q \in Payments, NEW s \in {"completed", "refunded"}
        PROVE  Seen(q, s)' => Seen(q, s)
    <3>1. CASE q = p
      <4>1. CASE prepare(p)
        BY <1>2, <1>3, <3>1, <4>1 DEF prepare, Seen, mapPersistedResult, At, TypeOK, ExecutionTypeOK
      <4>2. CASE record(p)
        BY <1>2, <1>3, <3>1, <4>2 DEF record, RecordStatus, persistedStatus, Seen, Idle, At, TypeOK, ExecutionTypeOK
      <4> QED BY <1>6, <4>1, <4>2
    <3>2. CASE q # p
      <4>1. payout'[q] = payout[q]
        BY <1>6, <3>2 DEF prepare, record, RecordStatus, TypeOK, ExecutionTypeOK
      <4>2. ~Executing(q)'
        BY <1>4, <2>1, <3>2 DEF Executing
      <4> QED BY <1>2, <4>1, <4>2 DEF Seen
    <3> QED BY <3>1, <3>2
  <2>4. ASSUME NEW q \in Payments PROVE ReportInv(q)'
    BY <1>2, <1>5, <2>1, <2>3 DEF IInv, ReportInv, EventQueued
  <2>5. commands' # <<>>
    BY <1>3, <2>1 DEF Executing
  <2> QED BY <1>1, <1>2, <2>2, <2>4, <2>5 DEF IInv
<1>7. CASE ApplyResult(p)
  <2>1. /\ payout' = payout /\ worker' = Idle /\ worker'.pc = "idle"
        /\ commands # <<>> /\ Head(commands) = Cmd("settlement.execute", p)
        /\ commands' = Tail(commands)
        /\ worker.pc = "apply"
    BY <1>7 DEF ApplyResult, Executing, Idle, At
  <2>2. ResultEvent(p, worker.result) \in Event
    BY DEF ResultEvent, Event, EventTypes, Reasons
  <2>3. Elems(events') \subseteq Elems(events) \cup {ResultEvent(p, worker.result)}
    BY <1>7, <2>2, PublishEvent DEF ApplyResult
  <2>4. /\ ResultEvent(p, worker.result).payment = p
        /\ ResultEvent(p, worker.result).type # "payout.completed"
        /\ ResultEvent(p, worker.result).type = "payout.provider_completed" => worker.result = "completed"
        /\ ResultEvent(p, worker.result).type = "payout.provider_returned" => worker.result = "refunded"
    BY DEF ResultEvent
  <2>5. \A q \in Payments : LedgerInv(q)' /\ SagaInv(q)' /\ AnnouncedInv(q)'
    <3>1. Head(commands).type = "settlement.execute"
      BY <2>1 DEF Cmd
    <3>2. \A e \in Elems(events') : e \in Elems(events) \/ e.type # "payout.completed"
      BY <2>3, <2>4
    <3> QED BY <1>2, <2>1, <3>1, <3>2, TakeHead, ExecutionOthers
  <2>6. ASSUME NEW q \in Payments PROVE ReportInv(q)'
    <3>1. \A s : Seen(q, s)' => Seen(q, s)
      BY <1>2, <2>1 DEF Seen
    <3>2. EventQueued("payout.provider_completed", q)' =>
            EventQueued("payout.provider_completed", q) \/ Seen(q, "completed")
      BY <1>3, <2>1, <2>3, <2>4 DEF EventQueued, Seen
    <3>3. EventQueued("payout.provider_returned", q)' =>
            EventQueued("payout.provider_returned", q) \/ Seen(q, "refunded")
      BY <1>3, <2>1, <2>3, <2>4 DEF EventQueued, Seen
    <3> QED BY <1>2, <1>5, <3>1, <3>2, <3>3 DEF IInv, ReportInv
  <2> QED BY <1>1, <1>2, <2>1, <2>5, <2>6 DEF IInv
<1> QED BY <1>6, <1>7 DEF ExecuteCommand

\* A step of the provider, or of the request to it, only adds reports.
LEMMA ProviderInv ==
  ASSUME IInv, TypeOK',
         UNCHANGED <<messagingVars, sagaVars, ledgerVars, stored, payout>>,
         batch' \subseteq stored \cup batch,
         commands # <<>> \/ worker'.pc = "idle",
         sent \subseteq sent',
         \A q \in Payments, s \in {"completed", "refunded"} :
           Seen(q, s)' => Seen(q, s) \/ Reported(q, s)'
  PROVE  IInv'
<1> USE DEF messagingVars, sagaVars, ledgerVars
<1>1. \A q \in Payments : LedgerInv(q)' /\ SagaInv(q)' /\ AnnouncedInv(q)'
  BY ExecutionOthers
<1>2. ASSUME NEW q \in Payments PROVE ReportInv(q)'
  <2>1. \A s : Reported(q, s) => Reported(q, s)'
    BY DEF Reported
  <2>2. \A type : EventQueued(type, q)' <=> EventQueued(type, q)
    BY DEF EventQueued
  <2>3. ReportInv(q)
    BY DEF IInv
  <2> QED BY <2>1, <2>2, <2>3 DEF ReportInv
<1>3. stored' \subseteq sent' /\ batch' \subseteq sent' /\ (worker'.pc # "idle" => commands' # <<>>)
  BY DEF IInv
<1> QED BY <1>1, <1>2, <1>3 DEF IInv

\* The provider's record of an accepted request is reported.
LEMMA AcceptReports ==
  ASSUME IInv, NEW p \in Payments, Accept(p) \/ UNCHANGED <<provider, sent>>
  PROVE  /\ sent \subseteq sent'
         /\ \A q \in Payments, s \in {"completed", "refunded"} :
              provider'[q] = s => Reported(q, s)'
<1>1. ASSUME NEW q \in Payments, NEW s \in {"completed", "refunded"}, provider[q] = s
      PROVE  Reported(q, s)
  BY <1>1 DEF IInv, ReportInv, Seen
<1>2. CASE UNCHANGED <<provider, sent>>
  BY <1>1, <1>2 DEF Reported
<1>3. CASE Accept(p) /\ provider[p] = "none"
  <2>1. PICK status \in CreateStatuses :
          provider' = [provider EXCEPT ![p] = status] /\ Notify(p, status)
    BY <1>3 DEF Accept
  <2>2. provider'[p] = status /\ \A q \in Payments \ {p} : provider'[q] = provider[q]
    BY <2>1 DEF IInv, TypeOK, ExecutionTypeOK
  <2>3. sent \subseteq sent'
    BY <2>1 DEF Notify
  <2>4. {"completed", "refunded"} \subseteq NotifiedStatuses
    BY DEF NotifiedStatuses
  <2> QED BY <1>1, <2>1, <2>2, <2>3, <2>4, NotifyReports
<1>4. CASE Accept(p) /\ provider[p] # "none"
  BY <1>2, <1>4 DEF Accept
<1> QED BY <1>2, <1>3, <1>4

\* The provider's answer, its loss and its refusal keep it.
LEMMA ProviderCallInv == ASSUME IInv, NEW p \in Payments, ProviderCall(p) PROVE IInv'
<1> USE DEF messagingVars
<1>1. TypeOK'
  BY NextType DEF Next, IInv
<1>2. /\ UNCHANGED <<messagingVars, sagaVars, ledgerVars, webhookVars, payout>>
      /\ Executing(p)
      /\ Accept(p) \/ UNCHANGED <<provider, sent>>
  BY DEF ProviderCall, CallAnswered, CallLost, CallRejected
<1>3. commands # <<>>
  BY <1>2 DEF Executing
<1>4. /\ sent \subseteq sent'
      /\ \A q \in Payments, s \in {"completed", "refunded"} : provider'[q] = s => Reported(q, s)'
  BY <1>2, AcceptReports
<1>5. ASSUME NEW s \in {"completed", "refunded"}, worker'.result = s
      PROVE  provider'[p] = s
  BY <1>5 DEF ProviderCall, CallAnswered, CallLost, CallRejected, mapPersistedResult, At
<1>6. \A q \in Payments : Executing(q)' => q = p
  BY <1>2 DEF Executing, Cmd
<1>7. \A q \in Payments, s \in {"completed", "refunded"} : Seen(q, s)' => Seen(q, s) \/ Reported(q, s)'
  BY <1>2, <1>4, <1>5, <1>6 DEF Seen
<1> QED BY <1>1, <1>2, <1>3, <1>4, <1>7, ProviderInv DEF webhookVars

\* A status change at the provider keeps it: every change is reported.
LEMMA ProviderStepInv == ASSUME IInv, NEW p \in Payments, ProviderStep(p) PROVE IInv'
<1> USE DEF messagingVars
<1>1. TypeOK'
  BY NextType DEF Next, IInv
<1>2. PICK status \in NotifiedStatuses :
        /\ provider' = [provider EXCEPT ![p] = status]
        /\ Notify(p, status)
        /\ UNCHANGED <<payout, ref, submitted, worker, crashes>>
  BY DEF ProviderStep, ProviderDecides, ProviderReturns, ProviderMoves, NotifiedStatuses
<1>3. UNCHANGED <<messagingVars, sagaVars, ledgerVars, webhookVars, payout>>
  BY <1>2 DEF ProviderStep
<1>4. provider'[p] = status /\ \A q \in Payments \ {p} : provider'[q] = provider[q]
  BY <1>2 DEF IInv, TypeOK, ExecutionTypeOK
<1>5. \A q \in Payments, s \in {"completed", "refunded"} : Seen(q, s)' => Seen(q, s) \/ Reported(q, s)'
  BY <1>2, <1>3, <1>4, NotifyReports DEF Seen, Executing
<1>6. sent \subseteq sent'
  BY <1>2 DEF Notify
<1>7. commands # <<>> \/ worker'.pc = "idle"
  BY <1>2 DEF IInv
<1> QED BY <1>1, <1>3, <1>5, <1>6, <1>7, ProviderInv DEF webhookVars

\* A stop forgets what the worker held.
LEMMA StopInv ==
  ASSUME IInv, TypeOK', worker' = Idle,
         UNCHANGED <<messagingVars, sagaVars, ledgerVars, stored, payout, provider, sent>>,
         batch' = {}
  PROVE  IInv'
<1>1. worker'.pc = "idle"
  BY DEF Idle, At
<1>2. \A q \in Payments, s \in {"completed", "refunded"} : Seen(q, s)' => Seen(q, s) \/ Reported(q, s)'
  BY <1>1 DEF Seen
<1> QED BY <1>1, <1>2, ProviderInv

\* A process stop keeps it: it only forgets how far the worker and the
\* reconciler had got.
LEMMA RestartInv == ASSUME IInv, Restart PROVE IInv'
<1>1. TypeOK'
  BY NextType DEF Next, IInv
<1> QED BY <1>1, StopInv DEF Restart, Crash, messagingVars

\* The reconciler's query changes nothing: it loads what was delivered.
LEMMA LoadBatchInv == ASSUME IInv, LoadBatch PROVE IInv'
<1>1. TypeOK'
  BY NextType DEF Next, IInv
<1>2. /\ UNCHANGED <<messagingVars, sagaVars, ledgerVars, stored, payout, provider, sent, worker>>
      /\ batch' \subseteq stored
  BY DEF LoadBatch, Unreconciled, executionVars
<1>3. \A q \in Payments, s \in {"completed", "refunded"} : Seen(q, s)' => Seen(q, s)
  BY <1>2 DEF Seen, Executing, messagingVars
<1>4. commands # <<>> \/ worker'.pc = "idle"
  BY <1>2 DEF IInv
<1> QED BY <1>1, <1>2, <1>3, <1>4, ProviderInv

\* A delivered or reconciled notification (Process) keeps it.
LEMMA WebhookStepInv == ASSUME IInv, NEW w \in Webhook, WebhookStep(w) PROVE IInv'
<1> USE DEF messagingVars, sagaVars, ledgerVars, webhookVars
<1> TypeOK
  BY DEF IInv
<1>1. TypeOK'
  BY NextType DEF Next
<1>2. CASE ReconcileFails(w)
  BY <1>1, <1>2, StopInv DEF ReconcileFails
<1>3. CASE w \in sent /\ Process(w) /\ batch' \subseteq batch /\ UNCHANGED <<worker, crashes>>
  <2> DEFINE p == w.payment
  <2>1. p \in Payments /\ Reported(p, w.status)
    BY <1>3 DEF Webhook, Reported
  <2>2. UNCHANGED <<commands, saga, deadline, audits, worker, provider, sent>> /\ stored' = stored \cup {w}
    BY <1>3 DEF Process
  <2>3. /\ payout'[p] = payout[p] \/ payout'[p] = w.status
        /\ \A q \in Payments \ {p} : payout'[q] = payout[q]
    BY <1>3, <2>1 DEF Process, ProcessIdle, ProcessAdvance, ProcessReturn, PostSuccessReturn,
                      TypeOK, ExecutionTypeOK
  <2>4. Elems(events') \subseteq Elems(events) \cup {Evt(SagaEventType(w.status), p)}
    <3>1. Evt(SagaEventType(w.status), p) \in Event
      BY <2>1, EvtType DEF SagaEventType, EventTypes
    <3>2. CASE enqueueSagaResult(w)
      BY <3>1, <3>2, PublishEvent DEF enqueueSagaResult
    <3> QED BY <1>3, <3>2 DEF Process, ProcessIdle, ProcessAdvance, ProcessReturn
  <2>5. /\ SagaEventType(w.status) # "payout.completed"
        /\ SagaEventType(w.status) = "payout.provider_completed" => w.status = "completed"
        /\ SagaEventType(w.status) = "payout.provider_returned" => w.status = "refunded"
    BY DEF SagaEventType
  <2>6. payment' = payment
    BY <1>3 DEF Process, ProcessIdle, ProcessAdvance, ProcessReturn, RecordReturn
  <2>7. /\ \A q \in Payments \ {p} : journals'[q] = journals[q]
        /\ \/ journals'[p] = journals[p]
           \/ /\ journals'[p] = journals[p] \cup {"payment.return.succeeded"}
              /\ payment[p] = "succeeded"
    BY <1>3, <2>1 DEF Process, ProcessIdle, ProcessAdvance, ProcessReturn, RecordReturn, ReturnAllowed,
                      TypeOK, LedgerTypeOK
  <2>8. \A q \in Payments : announced'[q] = announced[q] \/ announced'[q] = announced[q] \cup {"payment.return.succeeded"}
    BY <1>3, <2>1, AnnounceType DEF Process, ProcessIdle, ProcessAdvance, ProcessReturn, PublicTypes
  <2> HIDE DEF p
  <2>9. ASSUME NEW q \in Payments
        PROVE  LedgerInv(q)' /\ SagaInv(q)' /\ AnnouncedInv(q)' /\ ReportInv(q)'
    <3> LedgerInv(q) /\ SagaInv(q) /\ AnnouncedInv(q) /\ ReportInv(q)
      BY DEF IInv
    <3>1. LedgerInv(q)'
      BY <2>1, <2>6, <2>7 DEF LedgerInv
    <3>2. AnnouncedInv(q)'
      BY <2>6, <2>8 DEF AnnouncedInv
    <3>3. \A type : EventQueued(type, q)' =>
             EventQueued(type, q) \/ (q = p /\ type = SagaEventType(w.status))
      BY <2>4 DEF EventQueued, Evt
    <3>4. SagaInv(q)'
      BY <2>1, <2>2, <2>5, <2>6, <2>7, <3>3 DEF SagaInv, Queued, FailQueued
    <3>5. \A s : Reported(q, s)' <=> Reported(q, s)
      BY <2>2 DEF Reported
    <3>6. \A s : Seen(q, s)' => Seen(q, s) \/ (q = p /\ s = w.status)
      BY <2>1, <2>2, <2>3 DEF Seen, Executing
    <3>7. ReportInv(q)'
      BY <2>1, <2>2, <2>5, <3>3, <3>5, <3>6 DEF ReportInv
    <3> QED BY <3>1, <3>2, <3>4, <3>7
  <2> QED BY <1>1, <1>3, <2>2, <2>9 DEF IInv
<1> QED BY <1>2, <1>3 DEF WebhookStep, DeliverWebhook, ReconcileNext, IInv

-----------------------------------------------------------------------------
(* The theorems. *)

\* IInv is inductive: one case per disjunct of Next.
LEMMA NextInv == IInv /\ [Next]_vars => IInv'
<1> SUFFICES ASSUME IInv, [Next]_vars PROVE IInv'
  OBVIOUS
<1>1. CASE UNCHANGED vars
  <2>1. UNCHANGED <<messagingVars, sagaVars, ledgerVars, webhookVars, payout, provider, sent, worker>>
    BY <1>1 DEF vars, executionVars
  <2>2. TypeOK'
    BY NextType DEF IInv
  <2>3. \A q \in Payments, s \in {"completed", "refunded"} : Seen(q, s)' => Seen(q, s)
    BY <2>1 DEF Seen, Executing, messagingVars
  <2>4. commands # <<>> \/ worker'.pc = "idle"
    BY <2>1 DEF IInv
  <2> QED BY <2>1, <2>2, <2>3, <2>4, ProviderInv DEF webhookVars
<1>2. CASE Next
  BY <1>2, CreatePayoutInv, SagaStepInv, SagaExpiryInv, SagaReviewInv, CommandInv, ExecuteCommandInv,
     ProviderCallInv, ProviderStepInv, RestartInv, LoadBatchInv, WebhookStepInv DEF Next
<1> QED BY <1>1, <1>2

\* The inductive invariant holds of the whole workflow.
THEOREM Invariant == Spec => []IInv
<1>1. Init => IInv
  BY InitInv
<1>2. IInv /\ [Next]_vars => IInv'
  BY NextInv
<1> QED BY <1>1, <1>2, PTL DEF Spec

\* Whatever the order of commands, retries and notifications, what is posted
\* for a payment leaves settlement:payable at zero or at the payment's amount.
THEOREM PayableIsBounded == Spec => []PayableBounded
<1>1. IInv => PayableBounded
  <2> SUFFICES ASSUME IInv, NEW p \in Payments PROVE Payable(p) \in 0..1
    BY DEF PayableBounded
  <2>1. LedgerInv(p) /\ SagaInv(p)
    BY DEF IInv
  <2>2. ~("payment.released" \in journals[p] /\ "payment.succeeded" \in journals[p])
    BY <2>1 DEF LedgerInv, SagaInv, Success, Return
  <2> QED BY <2>1, <2>2 DEF LedgerInv, Payable, Posted
<1> QED BY <1>1, Invariant, PTL

\* A payment succeeds only on the provider's report or an operator's decision.
THEOREM SettlementIsConfirmed == Spec => []SettledOnlyWhenConfirmed
<1>1. IInv => SettledOnlyWhenConfirmed
  BY DEF IInv, SagaInv, ReportInv, SettledOnlyWhenConfirmed
<1> QED BY <1>1, Invariant, PTL

\* The coordinator and the ledger agree on success at all times.
THEOREM SagaAgreement == Spec => []SagaAgreesOnSuccess
<1>1. IInv => SagaAgreesOnSuccess
  BY DEF IInv, SagaInv, SagaAgreesOnSuccess, Success
<1> QED BY <1>1, Invariant, PTL

\* The failure command of a failed saga is never lost nor refused.
THEOREM FailureCarriedOut == Spec => []FailureIsCarriedOut
<1>1. IInv => FailureIsCarriedOut
  BY DEF IInv, SagaInv, FailureIsCarriedOut
<1> QED BY <1>1, Invariant, PTL

\* Exactly the sagas that wait for something else than an operator can expire.
THEOREM WaitingHasDeadline == Spec => []WaitingSagaHasDeadline
<1>1. IInv => WaitingSagaHasDeadline
  BY DEF IInv, SagaInv, WaitingSagaHasDeadline
<1> QED BY <1>1, Invariant, PTL

\* A payment that has succeeded or failed keeps its status.
LEMMA OutcomeStep ==
  ASSUME IInv, [Next]_vars,
         NEW p \in Payments, payment[p] \in {"succeeded", "failed"}
  PROVE  payment'[p] = payment[p]
<1> USE DEF ledgerVars
<1>1. ASSUME NEW q \in Payments, CreatePayout(q) PROVE payment'[p] = payment[p]
  BY <1>1 DEF CreatePayout, IInv, TypeOK, LedgerTypeOK
<1>2. ASSUME NEW q \in Payments, LedgerOrPaymentCommand(q) PROVE payment'[p] = payment[p]
  BY <1>2 DEF LedgerOrPaymentCommand, PolicyEvaluate, LedgerReserve, LedgerRelease,
       PaymentSettle, PaymentFail, PaymentReturn, Reply, Drop, Reserve, Release, Settle, post, Posts,
       Failable, IInv, TypeOK, LedgerTypeOK
<1>3. ASSUME NEW w \in Webhook, WebhookStep(w) PROVE payment'[p] = payment[p]
  BY <1>3 DEF WebhookStep, DeliverWebhook, ReconcileNext, ReconcileFails, Process, ProcessIdle,
       ProcessAdvance, ProcessReturn, RecordReturn
<1>4. CASE \/ \E q \in Payments : \/ SagaExpiry(q) \/ SagaReview(q) \/ ExecuteCommand(q)
                                  \/ ProviderCall(q) \/ ProviderStep(q)
           \/ SagaStep \/ Restart \/ LoadBatch \/ UNCHANGED vars
  BY <1>4 DEF SagaExpiry, SagaReview, ExecuteCommand, ProviderCall, ProviderStep, SagaStep, Restart,
             LoadBatch, vars
<1> QED BY <1>1, <1>2, <1>3, <1>4 DEF Next

\* No late command or notification changes the outcome of a payment.
THEOREM FinalOutcome == Spec => OutcomeIsFinal
<1> DEFINE Final == \A p \in Payments :
                      payment[p] \in {"succeeded", "failed"} => payment'[p] = payment[p]
<1>1. ASSUME IInv, [Next]_vars PROVE Final
  BY <1>1, OutcomeStep
<1>2. Spec => [][Final]_vars
  BY <1>1, Invariant, PTL DEF Spec
<1> QED BY <1>2 DEF OutcomeIsFinal

\* Merchants are told one outcome, and after it at most of a return.
THEOREM OneOutcome == Spec => OneOutcomeAnnounced
<1> DEFINE Told == \A p \in Payments :
                     announced[p] \cap {"payment.succeeded", "payment.failed"} # {} =>
                       announced'[p] \ announced[p] \subseteq {"payment.return.succeeded"}
<1>1. ASSUME IInv, [Next]_vars PROVE Told
  <2> SUFFICES ASSUME NEW p \in Payments,
                      announced[p] \cap {"payment.succeeded", "payment.failed"} # {}
               PROVE  announced'[p] \ announced[p] \subseteq {"payment.return.succeeded"}
    OBVIOUS
  <2> TypeOK
    BY <1>1 DEF IInv
  <2>1. \/ payment[p] = "succeeded" /\ "payment.succeeded" \in announced[p]
        \/ payment[p] = "failed"
    BY <1>1 DEF IInv, AnnouncedInv
  <2>2. ASSUME NEW q \in Payments, CreatePayout(q) PROVE announced'[p] = announced[p]
    <3>1. q # p
      BY <2>1, <2>2 DEF CreatePayout
    <3>2. {"payment.created"} \in SUBSET PublicTypes
      BY DEF PublicTypes
    <3> QED BY <2>2, <3>1, <3>2, AnnounceType DEF CreatePayout
  <2>3. ASSUME NEW q \in Payments, LedgerOrPaymentCommand(q) PROVE announced'[p] = announced[p]
    <3>1. CASE UNCHANGED announced
      BY <3>1
    <3>2. ASSUME NEW reply \in EventTypes, enqueueReply(q, reply), q # p \/ PublicType(reply) \subseteq announced[p]
          PROVE  announced'[p] = announced[p]
      BY <3>2, ReplyType
    <3>3. CASE PolicyEvaluate(q) \/ LedgerRelease(q) \/ PaymentReturn(q)
      <4>1. \A reply \in {"payout.policy.approved", "payout.policy.rejected", "payout.funds_released",
                          "payout.funds_returned"} : PublicType(reply) = {} /\ reply \in EventTypes
        BY DEF PublicType, EventTypes
      <4> QED BY <3>1, <3>2, <3>3, <4>1 DEF PolicyEvaluate, LedgerRelease, PaymentReturn, Reply, Drop
    <3>4. CASE LedgerReserve(q)
      BY <2>1, <3>1, <3>2, <3>4 DEF LedgerReserve, Posts, Drop, EventTypes
    <3>5. CASE PaymentSettle(q)
      BY <2>1, <3>1, <3>2, <3>5 DEF PaymentSettle, Posts, Drop, EventTypes, PublicType
    <3>6. ASSUME NEW type, PaymentFail(type, q) PROVE announced'[p] = announced[p]
      BY <2>1, <3>1, <3>2, <3>6 DEF PaymentFail, Failable, Drop, EventTypes
    <3> QED BY <2>3, <3>3, <3>4, <3>5, <3>6 DEF LedgerOrPaymentCommand
  <2>4. ASSUME NEW w \in Webhook, WebhookStep(w)
        PROVE  announced'[p] \ announced[p] \subseteq {"payment.return.succeeded"}
    <3>1. w.payment \in Payments
      BY DEF Webhook
    <3>2. UNCHANGED announced \/ Announce(w.payment, {"payment.return.succeeded"})
      BY <2>4 DEF WebhookStep, DeliverWebhook, ReconcileNext, ReconcileFails, Process, ProcessIdle,
           ProcessAdvance, ProcessReturn, messagingVars
    <3>3. {"payment.return.succeeded"} \in SUBSET PublicTypes
      BY DEF PublicTypes
    <3> QED BY <3>1, <3>2, <3>3, AnnounceType
  <2>5. CASE \/ \E q \in Payments : \/ SagaExpiry(q) \/ SagaReview(q) \/ ExecuteCommand(q)
                                    \/ ProviderCall(q) \/ ProviderStep(q)
             \/ SagaStep \/ Restart \/ LoadBatch \/ UNCHANGED vars
    <3>1. UNCHANGED announced
      BY <2>5 DEF SagaExpiry, SagaReview, ExecuteCommand, ProviderCall, ProviderStep, SagaStep, Restart, LoadBatch,
           vars, ExpireOnce, ResolveManualReview, prepare, record, ApplyResult, CallAnswered, CallLost, CallRejected,
           Handle, Crash, messagingVars
    <3> QED BY <3>1
  <2> QED BY <1>1, <2>2, <2>3, <2>4, <2>5 DEF Next
<1>2. Spec => [][Told]_vars
  BY <1>1, Invariant, PTL DEF Spec
<1> QED BY <1>2 DEF OneOutcomeAnnounced
=============================================================================
