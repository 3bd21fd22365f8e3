----------------------- MODULE PayoutWorkflow_proofs -----------------------
(***************************************************************************)
(* Proofs about PayoutWorkflow for any set of payments, any number of      *)
(* deadlines and process stops.                                            *)
(***************************************************************************)
EXTENDS PayoutWorkflow, TLAPS

-----------------------------------------------------------------------------
(* Topics: what appending to and reading from a FIFO does to its elements. *)

\* A publication adds the message to the topic and nothing else.
LEMMA ElemsAppend ==
  ASSUME NEW S, NEW q \in Seq(S), NEW m \in S
  PROVE  /\ Append(q, m) \in Seq(S)
         /\ Append(q, m) # <<>>
         /\ Elems(Append(q, m)) = Elems(q) \cup {m}
         /\ q # <<>> => Head(Append(q, m)) = Head(q)
<1>1. Append(q, m) \in Seq(S) /\ Len(Append(q, m)) = Len(q) + 1
  OBVIOUS
<1>a. Append(q, m) # <<>>
  <2>1. Len(q) + 1 # 0
    OBVIOUS
  <2>2. Len(<<>>) = 0
    OBVIOUS
  <2> QED BY <1>1, <2>1, <2>2
<1>2. Elems(Append(q, m)) = Elems(q) \cup {m}
  BY DEF Elems
<1>3. q # <<>> => Head(Append(q, m)) = Head(q)
  OBVIOUS
<1> QED BY <1>1, <1>a, <1>2, <1>3

\* A consumer takes the head of the topic and leaves the other messages.
LEMMA ElemsTail ==
  ASSUME NEW S, NEW q \in Seq(S), q # <<>>
  PROVE  /\ Tail(q) \in Seq(S)
         /\ Head(q) \in S
         /\ Head(q) \in Elems(q)
         /\ Elems(Tail(q)) \subseteq Elems(q)
         /\ Elems(q) \subseteq Elems(Tail(q)) \cup {Head(q)}
<1>1. Tail(q) \in Seq(S) /\ Head(q) \in S
  OBVIOUS
<1>2. Head(q) \in Elems(q)
  BY DEF Elems
<1>3. Elems(Tail(q)) \subseteq Elems(q)
  BY DEF Elems
<1>4. Elems(q) \subseteq Elems(Tail(q)) \cup {Head(q)}
  BY DEF Elems
<1> QED BY <1>1, <1>2, <1>3, <1>4

-----------------------------------------------------------------------------
(* The saga's tables. *)

Success == {"settling_payment", "completed"}
Return  == {"returning", "returned"}

\* What every step of a saga respects, whichever table it comes from: success
\* and return are never left, a settlement or a release is only commanded on
\* entering them, a failure is commanded, and exactly the states the timeout
\* worker claims have a deadline.
GoodStep(from, step) ==
  /\ step.to \in SagaStates \ {"none"}
  /\ step.command \in CommandTypes \cup {NoCommand}
  /\ step.timed \in BOOLEAN
  /\ step.timed <=> step.to \in Expirable
  /\ step.command = "payment.settle" => step.to = "settling_payment"
  /\ step.command = "ledger.release" => step.to = "returning"
  /\ from \in Success => step.to \in Success
  /\ from \in Return => step.to \in Return
  /\ step.to = "failed" => from = "failed" \/ step.command \in {"payment.fail", "payment.fail_reserved"}

\* The transition table's rows are good steps; they enter success on a
\* completed report, completion on the settlement's reply and return on a
\* returned report.
LEMMA TransitionRows ==
  ASSUME NEW r \in Transitions
  PROVE  /\ GoodStep(r.from, r.step)
         /\ r.step.to = "settling_payment" => r.on = "payout.provider_completed"
         /\ r.step.to = "completed" => r.on = "payout.completed" /\ r.from = "settling_payment"
         /\ r.step.to = "returning" => r.on = "payout.provider_returned"
         /\ r.step.to = "returned" => r.from = "returning"
<1> USE DEF Transitions, Row, ReasonRow, Step, NoCommand
<1>1. r.step.to \in SagaStates \ {"none"}
  BY DEF SagaStates
<1>2. r.step.command \in CommandTypes \cup {NoCommand}
  BY DEF CommandTypes
<1>3. r.step.timed \in BOOLEAN
  <2>1. r.step.timed = TRUE \/ r.step.timed = FALSE
    OBVIOUS
  <2> QED BY ONLY <2>1, Zenon
<1>4. r.step.timed <=> r.step.to \in Expirable
  BY DEF Expirable
<1>5. r.step.command = "payment.settle" => r.step.to = "settling_payment"
  OBVIOUS
<1>6. r.step.command = "ledger.release" => r.step.to = "returning"
  OBVIOUS
<1>7. r.from \in Success => r.step.to \in Success
  BY DEF Success
<1>8. r.from \in Return => r.step.to \in Return
  BY DEF Return
<1>9. r.step.to = "failed" => r.from = "failed" \/ r.step.command \in {"payment.fail", "payment.fail_reserved"}
  OBVIOUS
<1>10. /\ r.step.to = "settling_payment" => r.on = "payout.provider_completed"
       /\ r.step.to = "completed" => r.on = "payout.completed" /\ r.from = "settling_payment"
       /\ r.step.to = "returning" => r.on = "payout.provider_returned"
       /\ r.step.to = "returned" => r.from = "returning"
  OBVIOUS
<1> HIDE DEF Transitions, Row, ReasonRow, Step, NoCommand
<1> QED BY <1>1, <1>2, <1>3, <1>4, <1>5, <1>6, <1>7, <1>8, <1>9, <1>10 DEF GoodStep

\* So are the steps of the timeout worker, which enter neither success nor
\* return,
LEMMA ExpirySteps ==
  ASSUME NEW from \in Expirable
  PROVE  /\ GoodStep(from, ExpiryStep(from))
         /\ ExpiryStep(from).to = "settling_payment" => from = "settling_payment"
         /\ ExpiryStep(from).to = "returning" => from = "returning"
         /\ ExpiryStep(from).to \notin {"completed", "returned"}
BY DEF ExpiryStep, GoodStep, Step, NoCommand, Expirable, SagaStates, CommandTypes, Success, Return

\* those of a manual review,
LEMMA ReviewSteps ==
  ASSUME NEW action \in ReviewActions
  PROVE  /\ GoodStep("manual_review", ReviewStep(action))
         /\ ReviewStep(action).to = "settling_payment" => action = "complete"
         /\ ReviewStep(action).to = "returning" => action = "return"
         /\ ReviewStep(action).to \notin {"completed", "returned"}
BY DEF ReviewStep, GoodStep, Step, NoCommand, Expirable, ReviewActions, SagaStates, CommandTypes, Success, Return

\* and the first step of a saga.
LEMMA StartStep ==
  GoodStep("none", Step("awaiting_policy", "policy.evaluate", TRUE))
BY DEF GoodStep, Step, NoCommand, Expirable, SagaStates, CommandTypes, Success, Return

\* A step leaves the saga row and the topic of commands well typed, adds its
\* command to the topic and touches no other payment.
LEMMA SagaUpdate ==
  ASSUME TypeOK, NEW p \in Payments, NEW step,
         GoodStep(saga[p], step), updateAndCommand(p, step)
  PROVE  /\ saga' \in [Payments -> SagaStates]
         /\ deadline' \in [Payments -> BOOLEAN]
         /\ commands' \in Seq(Command)
         /\ saga'[p] = step.to
         /\ deadline'[p] = step.timed
         /\ \A q \in Payments \ {p} : saga'[q] = saga[q] /\ deadline'[q] = deadline[q]
         /\ Elems(commands') = IF step.command = NoCommand THEN Elems(commands)
                               ELSE Elems(commands) \cup {Cmd(step.command, p)}
         /\ commands # <<>> => commands' # <<>> /\ Head(commands') = Head(commands)
<1>1. /\ saga' \in [Payments -> SagaStates]
      /\ saga'[p] = step.to
      /\ \A q \in Payments \ {p} : saga'[q] = saga[q]
  BY DEF TypeOK, SagaTypeOK, GoodStep, updateAndCommand
<1>2. /\ deadline' \in [Payments -> BOOLEAN]
      /\ deadline'[p] = step.timed
      /\ \A q \in Payments \ {p} : deadline'[q] = deadline[q]
  BY DEF TypeOK, SagaTypeOK, GoodStep, updateAndCommand
<1>3. /\ commands' \in Seq(Command)
      /\ Elems(commands') = IF step.command = NoCommand THEN Elems(commands)
                            ELSE Elems(commands) \cup {Cmd(step.command, p)}
      /\ commands # <<>> => commands' # <<>> /\ Head(commands') = Head(commands)
  <2>1. commands \in Seq(Command)
    BY DEF TypeOK, MessagingTypeOK
  <2>2. CASE step.command = NoCommand
    BY <2>1, <2>2 DEF updateAndCommand
  <2>3. CASE step.command # NoCommand
    <3>1. Cmd(step.command, p) \in Command
      BY <2>3 DEF GoodStep, Cmd, Command
    <3> QED BY <2>1, <2>3, <3>1, ElemsAppend DEF updateAndCommand
  <2> QED BY <2>2, <2>3
<1> QED BY <1>1, <1>2, <1>3

\* The event a handler takes is a well-typed event of the topic.
LEMMA HeadEvent ==
  ASSUME TypeOK, events # <<>>
  PROVE  /\ Head(events) \in Event
         /\ Head(events).payment \in Payments
         /\ Head(events) \in Elems(events)
         /\ Tail(events) \in Seq(Event)
         /\ Elems(Tail(events)) \subseteq Elems(events)
<1>1. events \in Seq(Event)
  BY DEF TypeOK, MessagingTypeOK
<1>2. /\ Head(events) \in Event
      /\ Head(events) \in Elems(events)
      /\ Tail(events) \in Seq(Event)
      /\ Elems(Tail(events)) \subseteq Elems(events)
  BY <1>1, ElemsTail
<1> QED BY <1>2 DEF Event

\* Handling an event leaves the sagas alone or takes one good step of the
\* event's own saga.
LEMMA HandleSteps ==
  ASSUME TypeOK, Handle
  PROVE  \/ UNCHANGED <<saga, deadline, commands>>
         \/ \E p \in Payments : \E step :
              /\ GoodStep(saga[p], step) /\ updateAndCommand(p, step)
              /\ p = Head(events).payment
              /\ step.to = "settling_payment" => Head(events).type = "payout.provider_completed"
              /\ step.to = "completed" =>
                   Head(events).type = "payout.completed" /\ saga[p] = "settling_payment"
              /\ step.to = "returning" => Head(events).type = "payout.provider_returned"
              /\ step.to = "returned" => saga[p] = "returning"
<1> DEFINE e == Head(events)
<1>1. e.payment \in Payments
  BY HeadEvent DEF Handle
<1>2. CASE ~Consumed(e.type)
  BY <1>2 DEF Handle
<1>3. CASE Consumed(e.type) /\ e.type = "payout.created"
  <2>1. start(e.payment)
    BY <1>3 DEF Handle
  <2>2. CASE saga[e.payment] = "none"
    <3> DEFINE step == Step("awaiting_policy", "policy.evaluate", TRUE)
    <3>1. updateAndCommand(e.payment, step)
      BY <2>1, <2>2 DEF start
    <3>2. GoodStep(saga[e.payment], step)
      BY <2>2, StartStep
    <3>3. step.to = "awaiting_policy"
      BY DEF Step
    <3> HIDE DEF step, e
    <3> QED BY <1>1, <3>1, <3>2, <3>3 DEF e
  <2>3. CASE saga[e.payment] # "none"
    BY <2>1, <2>3 DEF start
  <2> QED BY <2>2, <2>3
<1>4. CASE Consumed(e.type) /\ e.type # "payout.created"
  <2>1. PICK step \in transition(saga[e.payment], e) : updateAndCommand(e.payment, step)
    BY <1>4 DEF Handle
  <2>2. PICK r \in Transitions : r.from = saga[e.payment] /\ r.on = e.type /\ step = r.step
    BY <2>1 DEF transition
  <2> HIDE DEF e
  <2> QED BY <1>1, <2>1, <2>2, TransitionRows DEF e
<1> QED BY <1>2, <1>3, <1>4

-----------------------------------------------------------------------------
(* Type correctness. *)

\* The initial state is well typed.
LEMMA InitType == Init => TypeOK
<1> SUFFICES ASSUME Init PROVE TypeOK
  OBVIOUS
<1>1. MessagingTypeOK
  BY DEF Init, MessagingInit, MessagingTypeOK
<1>2. SagaTypeOK
  BY MaxExpiriesAssumption DEF Init, SagaInit, SagaTypeOK, SagaStates
<1>3. LedgerTypeOK
  BY DEF Init, LedgerInit, LedgerTypeOK, PaymentStatuses
<1>4. ExecutionTypeOK
  BY ExecutionAssumption DEF Init, ExecutionInit, ExecutionTypeOK, PayoutStatuses, Idle, At, WorkerResults
<1>5. WebhookTypeOK
  BY DEF Init, WebhookInit, WebhookTypeOK
<1> QED BY <1>1, <1>2, <1>3, <1>4, <1>5 DEF TypeOK

\* A published workflow event is well typed, and announcing adds public types.
LEMMA PublishEvent ==
  ASSUME TypeOK, NEW e \in Event, events' = Append(events, e)
  PROVE  events' \in Seq(Event) /\ Elems(events') = Elems(events) \cup {e}
BY ElemsAppend DEF TypeOK, MessagingTypeOK

\* Announcing public events keeps announced well typed.
LEMMA AnnounceType ==
  ASSUME TypeOK, NEW p \in Payments, NEW types \in SUBSET PublicTypes, Announce(p, types)
  PROVE  /\ announced' \in [Payments -> SUBSET PublicTypes]
         /\ announced'[p] = announced[p] \cup types
         /\ \A q \in Payments \ {p} : announced'[q] = announced[q]
BY DEF TypeOK, MessagingTypeOK, Announce

\* Evt builds a workflow event.
LEMMA EvtType ==
  ASSUME NEW type \in EventTypes, NEW p \in Payments
  PROVE  Evt(type, p) \in Event /\ Evt(type, p).type = type /\ Evt(type, p).payment = p
BY DEF Evt, Event, Reasons

\* A reply is one workflow event and at most one public event.
LEMMA ReplyType ==
  ASSUME TypeOK, NEW p \in Payments, NEW reply \in EventTypes, enqueueReply(p, reply)
  PROVE  /\ events' \in Seq(Event)
         /\ Elems(events') = Elems(events) \cup {Evt(reply, p)}
         /\ announced' \in [Payments -> SUBSET PublicTypes]
         /\ announced'[p] = announced[p] \cup PublicType(reply)
         /\ \A q \in Payments \ {p} : announced'[q] = announced[q]
<1>1. Evt(reply, p) \in Event
  BY EvtType
<1>2. PublicType(reply) \in SUBSET PublicTypes
  BY DEF PublicType, PublicTypes
<1> QED BY <1>1, <1>2, PublishEvent, AnnounceType DEF enqueueReply

\* Taking a command removes the head of the topic.
LEMMA TakeHead ==
  ASSUME TypeOK, commands # <<>>, commands' = Tail(commands)
  PROVE  /\ commands' \in Seq(Command)
         /\ Head(commands) \in Elems(commands)
         /\ Elems(commands') \subseteq Elems(commands)
         /\ Elems(commands) \subseteq Elems(commands') \cup {Head(commands)}
BY ElemsTail DEF TypeOK, MessagingTypeOK

\* The ledger's postings keep its types.
LEMMA PostType ==
  ASSUME TypeOK, NEW p \in Payments, NEW from, NEW to \in PaymentStatuses,
         NEW journal \in JournalTypes, NEW updateState \in BOOLEAN,
         post(p, from, to, journal, updateState)
  PROVE  payment' \in [Payments -> PaymentStatuses] /\ journals' \in [Payments -> SUBSET JournalTypes]
BY DEF TypeOK, LedgerTypeOK, post, ledgerVars

\* The provider's notifications are well typed.
LEMMA NotifyType ==
  ASSUME TypeOK, NEW p \in Payments, NEW status, Notify(p, status)
  PROVE  sent' \subseteq Webhook
<1>1. sent \subseteq Webhook
  BY DEF TypeOK, ExecutionTypeOK
<1>2. \A c \in IF status \in NotifiedStatuses THEN Copies ELSE {} :
        [payment |-> p, status |-> status, copy |-> c] \in Webhook
  BY DEF Webhook
<1> QED BY <1>1, <1>2 DEF Notify

\* A request to the provider keeps its records and notifications well typed.
LEMMA AcceptType ==
  ASSUME TypeOK, NEW p \in Payments, Accept(p)
  PROVE  provider' \in [Payments -> ProviderStatuses \cup {"none"}] /\ sent' \subseteq Webhook
<1>1. CASE provider[p] = "none"
  <2>1. PICK status \in CreateStatuses :
          provider' = [provider EXCEPT ![p] = status] /\ Notify(p, status)
    BY <1>1 DEF Accept
  <2>2. sent' \subseteq Webhook
    BY <2>1, NotifyType
  <2> QED BY <2>1, <2>2, ExecutionAssumption DEF TypeOK, ExecutionTypeOK, CreateStatuses
<1>2. CASE provider[p] # "none"
  BY <1>2 DEF Accept, TypeOK, ExecutionTypeOK
<1> QED BY <1>1, <1>2

\* Every action of the next-state relation preserves the types.
LEMMA NextType == TypeOK /\ [Next]_vars => TypeOK'
<1> SUFFICES ASSUME TypeOK, [Next]_vars PROVE TypeOK'
  OBVIOUS
<1> USE DEF messagingVars, sagaVars, ledgerVars, executionVars, webhookVars
<1>1. ASSUME NEW p \in Payments, CreatePayout(p) PROVE TypeOK'
  <2>1. MessagingTypeOK'
    <3>1. Evt("payout.created", p) \in Event
      BY EvtType DEF EventTypes
    <3>2. {"payment.created"} \in SUBSET PublicTypes
      BY DEF PublicTypes
    <3>3. commands' = commands /\ commands \in Seq(Command)
      BY <1>1 DEF CreatePayout, TypeOK, MessagingTypeOK
    <3> QED BY <1>1, <3>1, <3>2, <3>3, PublishEvent, AnnounceType DEF CreatePayout, MessagingTypeOK
  <2>2. LedgerTypeOK'
    BY <1>1 DEF CreatePayout, TypeOK, LedgerTypeOK, PaymentStatuses
  <2>3. SagaTypeOK' /\ ExecutionTypeOK' /\ WebhookTypeOK'
    BY <1>1 DEF CreatePayout, TypeOK, SagaTypeOK, ExecutionTypeOK, WebhookTypeOK
  <2> QED BY <2>1, <2>2, <2>3 DEF TypeOK
<1>2. ASSUME SagaStep PROVE TypeOK'
  <2>1. Handle
    BY <1>2 DEF SagaStep
  <2>2. /\ saga' \in [Payments -> SagaStates]
        /\ deadline' \in [Payments -> BOOLEAN]
        /\ commands' \in Seq(Command)
    <3>1. CASE UNCHANGED <<saga, deadline, commands>>
      BY <3>1 DEF TypeOK, SagaTypeOK, MessagingTypeOK
    <3>2. CASE \E p \in Payments : \E step : GoodStep(saga[p], step) /\ updateAndCommand(p, step)
      BY <3>2, SagaUpdate
    <3> QED BY <2>1, <3>1, <3>2, HandleSteps
  <2>3. MessagingTypeOK'
    BY <2>1, <2>2, HeadEvent DEF Handle, TypeOK, MessagingTypeOK
  <2>4. SagaTypeOK'
    BY <2>1, <2>2 DEF Handle, TypeOK, SagaTypeOK
  <2>5. LedgerTypeOK' /\ ExecutionTypeOK' /\ WebhookTypeOK'
    BY <1>2 DEF SagaStep, TypeOK, LedgerTypeOK, ExecutionTypeOK, WebhookTypeOK
  <2> QED BY <2>3, <2>4, <2>5 DEF TypeOK
<1>3. ASSUME NEW p \in Payments, SagaExpiry(p) PROVE TypeOK'
  <2>1. ExpireOnce(p)
    BY <1>3 DEF SagaExpiry
  <2>2. /\ saga' \in [Payments -> SagaStates]
        /\ deadline' \in [Payments -> BOOLEAN]
        /\ commands' \in Seq(Command)
    BY <2>1, ExpirySteps, SagaUpdate DEF ExpireOnce
  <2>3. expiries' \in 0..MaxExpiries
    BY <2>1, MaxExpiriesAssumption DEF ExpireOnce, TypeOK, SagaTypeOK
  <2>4. MessagingTypeOK' /\ SagaTypeOK'
    BY <2>1, <2>2, <2>3 DEF ExpireOnce, TypeOK, MessagingTypeOK, SagaTypeOK
  <2>5. LedgerTypeOK' /\ ExecutionTypeOK' /\ WebhookTypeOK'
    BY <1>3 DEF SagaExpiry, TypeOK, LedgerTypeOK, ExecutionTypeOK, WebhookTypeOK
  <2> QED BY <2>4, <2>5 DEF TypeOK
<1>4. ASSUME NEW p \in Payments, SagaReview(p) PROVE TypeOK'
  <2>1. PICK action \in ReviewActions : ResolveManualReview(p, action)
    BY <1>4 DEF SagaReview
  <2>2. /\ saga' \in [Payments -> SagaStates]
        /\ deadline' \in [Payments -> BOOLEAN]
        /\ commands' \in Seq(Command)
    BY <2>1, ReviewSteps, SagaUpdate DEF ResolveManualReview
  <2>3. audits' \in [Payments -> SUBSET ReviewActions]
    BY <2>1 DEF ResolveManualReview, TypeOK, SagaTypeOK
  <2>4. MessagingTypeOK' /\ SagaTypeOK'
    BY <2>1, <2>2, <2>3 DEF ResolveManualReview, TypeOK, MessagingTypeOK, SagaTypeOK
  <2>5. LedgerTypeOK' /\ ExecutionTypeOK' /\ WebhookTypeOK'
    BY <1>4 DEF SagaReview, TypeOK, LedgerTypeOK, ExecutionTypeOK, WebhookTypeOK
  <2> QED BY <2>4, <2>5 DEF TypeOK
<1>5. ASSUME NEW p \in Payments, LedgerOrPaymentCommand(p) PROVE TypeOK'
  <2>1. UNCHANGED <<sagaVars, executionVars, webhookVars>>
    BY <1>5 DEF LedgerOrPaymentCommand, PolicyEvaluate, LedgerReserve, LedgerRelease,
                PaymentSettle, PaymentFail, PaymentReturn
  <2>2. commands # <<>> /\ commands' = Tail(commands)
    BY <1>5 DEF LedgerOrPaymentCommand, PolicyEvaluate, LedgerReserve, LedgerRelease,
                PaymentSettle, PaymentFail, PaymentReturn, Take
  <2>3. \/ UNCHANGED <<events, announced>>
        \/ \E reply \in EventTypes : enqueueReply(p, reply)
    BY <1>5 DEF LedgerOrPaymentCommand, PolicyEvaluate, LedgerReserve, LedgerRelease,
                PaymentSettle, PaymentFail, PaymentReturn, Reply, Drop, EventTypes
  <2>4. LedgerTypeOK'
    <3>1. CASE UNCHANGED ledgerVars
      BY <3>1 DEF TypeOK, LedgerTypeOK
    <3>2. CASE Reserve(p) \/ Release(p) \/ Settle(p)
      BY <3>2, PostType DEF Reserve, Release, Settle, PaymentStatuses, JournalTypes, LedgerTypeOK
    <3>3. CASE payment' = [payment EXCEPT ![p] = "failed"] /\ UNCHANGED journals
      BY <3>3 DEF TypeOK, LedgerTypeOK, PaymentStatuses
    <3> QED BY <1>5, <3>1, <3>2, <3>3 DEF LedgerOrPaymentCommand, PolicyEvaluate, LedgerReserve,
                LedgerRelease, PaymentSettle, PaymentFail, PaymentReturn, Reply, Drop
  <2>5. MessagingTypeOK'
    BY <2>2, <2>3, TakeHead, ReplyType DEF TypeOK, MessagingTypeOK
  <2>6. SagaTypeOK' /\ ExecutionTypeOK' /\ WebhookTypeOK'
    BY <2>1 DEF TypeOK, SagaTypeOK, ExecutionTypeOK, WebhookTypeOK
  <2> QED BY <2>4, <2>5, <2>6 DEF TypeOK
<1>6. ASSUME NEW p \in Payments, ExecuteCommand(p) PROVE TypeOK'
  <2>1. SagaTypeOK' /\ LedgerTypeOK' /\ WebhookTypeOK'
    BY <1>6 DEF ExecuteCommand, TypeOK, SagaTypeOK, LedgerTypeOK, WebhookTypeOK
  <2>2. CASE prepare(p)
    <3>1. MessagingTypeOK'
      BY <2>2 DEF prepare, TypeOK, MessagingTypeOK
    <3>2. worker' \in [pc : {"idle", "call", "record", "apply"}, result : WorkerResults]
      <4>1. payout[p] \in PayoutStatuses /\ payout[p] # "none" => mapPersistedResult(payout[p]) \in Results
        BY DEF mapPersistedResult, PayoutStatuses, ProviderStatuses, Results
      <4>2. worker' = At("call", "none") \/ worker' = At("apply", mapPersistedResult(payout[p]))
        BY <2>2 DEF prepare
      <4>3. payout[p] \in PayoutStatuses
        BY DEF TypeOK, ExecutionTypeOK
      <4>4. mapPersistedResult(payout[p]) \in WorkerResults
        BY <4>1, <4>3 DEF WorkerResults, mapPersistedResult
      <4> QED BY <4>2, <4>4 DEF At, WorkerResults
    <3>3. payout' \in [Payments -> PayoutStatuses]
      BY <2>2 DEF prepare, TypeOK, ExecutionTypeOK, PayoutStatuses
    <3>4. ExecutionTypeOK'
      BY <2>2, <3>2, <3>3 DEF prepare, TypeOK, ExecutionTypeOK
    <3> QED BY <2>1, <3>1, <3>4 DEF TypeOK
  <2>3. CASE record(p)
    <3>1. MessagingTypeOK'
      BY <2>3 DEF record, TypeOK, MessagingTypeOK
    <3>2. worker' \in [pc : {"idle", "call", "record", "apply"}, result : WorkerResults]
      BY <2>3 DEF record, TypeOK, ExecutionTypeOK, Idle, At, WorkerResults
    <3>3. payout' \in [Payments -> PayoutStatuses]
      <4>1. ASSUME NEW status \in PayoutStatuses, RecordStatus(p, status)
            PROVE  payout' \in [Payments -> PayoutStatuses]
        BY <4>1 DEF RecordStatus, TypeOK, ExecutionTypeOK
      <4>2. \A result \in Results : persistedStatus(result) \in PayoutStatuses
        BY DEF persistedStatus, Results, PayoutStatuses, ProviderStatuses
      <4>3. {"unknown", "submission_failed"} \subseteq PayoutStatuses
        BY DEF PayoutStatuses, ProviderStatuses
      <4> QED BY <2>3, <4>1, <4>2, <4>3 DEF record
    <3>4. ref' \subseteq Payments
      BY <2>3 DEF record, TypeOK, ExecutionTypeOK
    <3>5. ExecutionTypeOK'
      BY <2>3, <3>2, <3>3, <3>4 DEF record, TypeOK, ExecutionTypeOK
    <3> QED BY <2>1, <3>1, <3>5 DEF TypeOK
  <2>4. CASE ApplyResult(p)
    <3>1. ResultEvent(p, worker.result) \in Event
      BY DEF ResultEvent, Event, EventTypes, Reasons
    <3>2. MessagingTypeOK'
      BY <2>4, <3>1, PublishEvent, TakeHead DEF ApplyResult, Executing, TypeOK, MessagingTypeOK
    <3>3. ExecutionTypeOK'
      BY <2>4 DEF ApplyResult, TypeOK, ExecutionTypeOK, Idle, At, WorkerResults
    <3> QED BY <2>1, <3>2, <3>3 DEF TypeOK
  <2> QED BY <1>6, <2>2, <2>3, <2>4 DEF ExecuteCommand
<1>7. ASSUME NEW p \in Payments, ProviderCall(p) PROVE TypeOK'
  <2>1. SagaTypeOK' /\ LedgerTypeOK' /\ WebhookTypeOK'
    BY <1>7 DEF ProviderCall, TypeOK, SagaTypeOK, LedgerTypeOK, WebhookTypeOK
  <2>2. MessagingTypeOK'
    BY <1>7 DEF ProviderCall, CallAnswered, CallLost, CallRejected, TypeOK, MessagingTypeOK
  <2>3. provider' \in [Payments -> ProviderStatuses \cup {"none"}] /\ sent' \subseteq Webhook
    <3>1. CASE Accept(p)
      BY <3>1, AcceptType
    <3>2. CASE UNCHANGED <<provider, sent>>
      BY <3>2 DEF TypeOK, ExecutionTypeOK
    <3> QED BY <1>7, <3>1, <3>2 DEF ProviderCall, CallAnswered, CallLost, CallRejected
  <2>4. worker' \in [pc : {"idle", "call", "record", "apply"}, result : WorkerResults]
    <3>1. ASSUME NEW status \in ProviderStatuses \cup {"none"}
          PROVE  mapPersistedResult(status) \in WorkerResults
      BY DEF mapPersistedResult, ProviderStatuses, WorkerResults, Results
    <3>2. provider'[p] \in ProviderStatuses \cup {"none"}
      BY <2>3
    <3> QED BY <1>7, <3>1, <3>2 DEF ProviderCall, CallAnswered, CallLost, CallRejected, At, WorkerResults
  <2>5. ExecutionTypeOK'
    BY <1>7, <2>3, <2>4 DEF ProviderCall, CallAnswered, CallLost, CallRejected, TypeOK, ExecutionTypeOK
  <2> QED BY <2>1, <2>2, <2>5 DEF TypeOK
<1>8. ASSUME NEW p \in Payments, ProviderStep(p) PROVE TypeOK'
  <2>1. SagaTypeOK' /\ LedgerTypeOK' /\ WebhookTypeOK' /\ MessagingTypeOK'
    BY <1>8 DEF ProviderStep, TypeOK, SagaTypeOK, LedgerTypeOK, WebhookTypeOK, MessagingTypeOK
  <2>2. PICK status \in NotifiedStatuses :
          /\ provider' = [provider EXCEPT ![p] = status]
          /\ Notify(p, status)
          /\ UNCHANGED <<payout, ref, submitted, worker, crashes>>
    BY <1>8 DEF ProviderStep, ProviderDecides, ProviderReturns, ProviderMoves, NotifiedStatuses
  <2>3. sent' \subseteq Webhook
    BY <2>2, NotifyType
  <2>4. ExecutionTypeOK'
    BY <2>2, <2>3 DEF TypeOK, ExecutionTypeOK, NotifiedStatuses, ProviderStatuses
  <2> QED BY <2>1, <2>4 DEF TypeOK
<1>9. ASSUME Restart PROVE TypeOK'
  <2>1. ExecutionTypeOK'
    BY <1>9, ExecutionAssumption DEF Restart, Crash, TypeOK, ExecutionTypeOK, Idle, At, WorkerResults
  <2>2. SagaTypeOK' /\ LedgerTypeOK' /\ WebhookTypeOK' /\ MessagingTypeOK'
    BY <1>9 DEF Restart, Crash, TypeOK, SagaTypeOK, LedgerTypeOK, WebhookTypeOK, MessagingTypeOK
  <2> QED BY <2>1, <2>2 DEF TypeOK
<1>10. ASSUME NEW w \in Webhook, WebhookStep(w) PROVE TypeOK'
  <2> w.payment \in Payments /\ w.status \in NotifiedStatuses
    BY DEF Webhook
  <2>1. CASE Process(w) /\ batch' \subseteq batch /\ UNCHANGED <<worker, crashes>>
    <3>1. commands' = commands /\ SagaTypeOK'
      BY <2>1 DEF Process, TypeOK, SagaTypeOK
    <3>2. stored' \subseteq Webhook /\ emitted' \subseteq Webhook /\ batch' \subseteq Webhook
      BY <2>1 DEF Process, ProcessIdle, ProcessAdvance, ProcessReturn, enqueueSagaResult, TypeOK, WebhookTypeOK
    <3>3. payout' \in [Payments -> PayoutStatuses]
      BY <2>1 DEF Process, ProcessIdle, ProcessAdvance, ProcessReturn, TypeOK, ExecutionTypeOK,
                  PayoutStatuses, ProviderStatuses, NotifiedStatuses
    <3>4. LedgerTypeOK'
      BY <2>1 DEF Process, ProcessIdle, ProcessAdvance, ProcessReturn, RecordReturn, TypeOK, LedgerTypeOK, JournalTypes
    <3>5. events' \in Seq(Event)
      <4>1. Evt(SagaEventType(w.status), w.payment) \in Event
        BY EvtType DEF SagaEventType, EventTypes
      <4>2. CASE enqueueSagaResult(w)
        BY <4>1, <4>2, PublishEvent DEF enqueueSagaResult, TypeOK, MessagingTypeOK
      <4>3. CASE UNCHANGED events
        BY <4>3 DEF TypeOK, MessagingTypeOK
      <4> QED BY <2>1, <4>2, <4>3 DEF Process, ProcessIdle, ProcessAdvance, ProcessReturn
    <3>6. announced' \in [Payments -> SUBSET PublicTypes]
      <4>1. {"payment.return.succeeded"} \in SUBSET PublicTypes
        BY DEF PublicTypes
      <4>2. CASE UNCHANGED announced
        BY <4>2 DEF TypeOK, MessagingTypeOK
      <4> QED BY <2>1, <4>1, <4>2, AnnounceType DEF Process, ProcessIdle, ProcessAdvance, ProcessReturn
    <3>7. MessagingTypeOK'
      BY <3>1, <3>5, <3>6 DEF TypeOK, MessagingTypeOK
    <3>8. ExecutionTypeOK'
      BY <2>1, <3>3 DEF Process, TypeOK, ExecutionTypeOK
    <3> QED BY <3>1, <3>2, <3>4, <3>7, <3>8 DEF TypeOK, WebhookTypeOK
  <2>2. CASE ReconcileFails(w)
    <3>1. ExecutionTypeOK'
      BY <2>2, ExecutionAssumption DEF ReconcileFails, TypeOK, ExecutionTypeOK, Idle, At, WorkerResults
    <3>2. SagaTypeOK' /\ LedgerTypeOK' /\ WebhookTypeOK' /\ MessagingTypeOK'
      BY <2>2 DEF ReconcileFails, TypeOK, SagaTypeOK, LedgerTypeOK, WebhookTypeOK, MessagingTypeOK
    <3> QED BY <3>1, <3>2 DEF TypeOK
  <2> QED BY <1>10, <2>1, <2>2 DEF WebhookStep, DeliverWebhook, ReconcileNext
<1>11. ASSUME LoadBatch PROVE TypeOK'
  <2>1. batch' \subseteq stored
    BY <1>11 DEF LoadBatch, Unreconciled
  <2> QED BY <1>11, <2>1 DEF LoadBatch, TypeOK, MessagingTypeOK, SagaTypeOK, LedgerTypeOK,
                             ExecutionTypeOK, WebhookTypeOK
<1>12. CASE UNCHANGED vars
  BY <1>12 DEF vars, TypeOK, MessagingTypeOK, SagaTypeOK, LedgerTypeOK, ExecutionTypeOK, WebhookTypeOK
<1> QED BY <1>1, <1>2, <1>3, <1>4, <1>5, <1>6, <1>7, <1>8, <1>9, <1>10, <1>11, <1>12 DEF Next

\* The variables always hold values the code can store in the corresponding
\* columns, topics and worker, for any set of payments.
THEOREM TypeCorrect == Spec => []TypeOK
<1>1. Init => TypeOK
  BY InitType
<1>2. TypeOK /\ [Next]_vars => TypeOK'
  BY NextType
<1> QED BY <1>1, <1>2, PTL DEF Spec
=============================================================================
