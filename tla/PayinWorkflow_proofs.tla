------------------------ MODULE PayinWorkflow_proofs ------------------------
(***************************************************************************)
(* The safety properties of PayinWorkflow, for any set of pay-ins.         *)
(*                                                                         *)
(* ApplyResult overwrites the row and the payment without looking at them, *)
(* so nothing but the order of the commands protects a succeeded payment:  *)
(* once payin.ledger.record is in the topic the saga enqueues nothing else *)
(* for the pay-in, and what it enqueued before comes before.  Unless a     *)
(* deadline passed, the policy evaluation and the execution are one token  *)
(* that moves between the topics and is used up by the one result.         *)
(***************************************************************************)
EXTENDS PayinWorkflow, TLAPS

\* A topic holds one of these messages; holds at most one; holds none of them
\* behind the message r.
Has(s, M) == \E i \in 1..Len(s) : s[i] \in M

Unique(s, M) == \A i, j \in 1..Len(s) : s[i] \in M /\ s[j] \in M => i = j

NoneAfter(s, r, M) == \A i, j \in 1..Len(s) : i < j /\ s[i] = r => s[j] \notin M

\* The commands that book a receipt, and those that end in ApplyResult: the
\* policy evaluation and the execution, and the failure after a timeout.
Booking(p) == {Msg("payin.ledger.record", p)}
Trial(p) == {Msg("payin.policy.evaluate", p), Msg("payin.execute", p)}
Failure(p) == {Msg("payin.fail", p)}
Overwriting(p) == Trial(p) \cup Failure(p)

Approval(p) == {Msg("payin.policy.approved", p)}
Receipt(p) == {Msg("payin.received", p)}
Success(p) == {Msg("payin.succeeded", p)}

Late == {"awaiting_ledger"} \cup Closed

OnExecute(p) == AtHead("payin.execute", p)

\* The worker holds the command at the head of the topic.
WorkerInv ==
  /\ worker.pc # "idle" => commands # <<>>
  /\ worker.pc = "record" => worker.result \in {"unknown", "rejected"}
  /\ worker.pc = "apply" => worker.result \in ExecutionStatuses \cup {"rejected"}

\* A pay-in that may be submitted has no outcome; funds are received and booked
\* only on the provider's report.
StatusInv(p) ==
  /\ payment[p] = "none" => announced[p] = {} /\ p \notin ref
  /\ payin[p] \in Submittable =>
       payment[p] = "created" /\ "payment.failed" \notin announced[p] /\ p \notin ref
  /\ worker.pc = "call" /\ OnExecute(p) => payin[p] = "submission_pending"
  /\ payment[p] = "succeeded" => "payin.succeeded" \in journals[p]
  /\ "payment.succeeded" \in announced[p] => payment[p] = "succeeded"

Seen(p) ==
  \/ provider[p] = "completed"
  \/ payin[p] = "received"
  \/ worker.pc = "apply" /\ OnExecute(p) /\ worker.result = "succeeded"
  \/ "payin.succeeded" \in journals[p]

ReportInv(p) == Seen(p) => Reported(p, "completed")

\* The order of the commands.
QueueInv(p) ==
  /\ NoneAfter(commands, Msg("payin.ledger.record", p), Overwriting(p))
  /\ payment[p] = "succeeded" => ~Has(commands, Overwriting(p))
  /\ Has(commands, Booking(p)) \/ payment[p] = "succeeded" => saga[p] \in Late
  /\ Has(events, Success(p)) \/ saga[p] = "completed" => payment[p] = "succeeded"
  /\ saga[p] = "none" =>
       /\ ~Has(commands, Overwriting(p)) /\ ~Has(events, Approval(p))
       /\ p \notin ref /\ "payment.failed" \notin announced[p]

\* As long as no deadline has passed.
Overruled(p) == \E status \in {"on_hold", "failed", "refunded"} : Reported(p, status)

TokenInv(p) ==
  /\ ~Has(commands, Failure(p))
  /\ Unique(commands, Trial(p)) /\ Unique(events, Approval(p))
  /\ ~(Has(commands, Trial(p)) /\ Has(events, Approval(p)))
  /\ Has(commands, Trial(p)) \/ Has(events, Approval(p)) =>
       p \notin ref /\ "payment.failed" \notin announced[p]

OutcomeInv(p) ==
  /\ "payment.failed" \in announced[p] =>
       payin[p] = "failed" /\ "payment.succeeded" \notin announced[p]
  /\ Has(events, Receipt(p)) \/ Has(commands, Booking(p)) =>
       p \in ref /\ (payin[p] = "received" \/ Overruled(p))

PayinInv(p) ==
  /\ StatusInv(p)
  /\ ReportInv(p)
  /\ QueueInv(p)
  /\ expiries = 0 => TokenInv(p) /\ OutcomeInv(p)

IInv ==
  /\ TypeOK
  /\ WorkerInv
  /\ \A p \in Payins : PayinInv(p)

-----------------------------------------------------------------------------
(* Topics. *)

\* A message that is appended is the only news.
LEMMA AppendTopic ==
  ASSUME NEW S, NEW s \in Seq(S), NEW m \in S, NEW M
  PROVE  /\ Has(Append(s, m), M) <=> Has(s, M) \/ m \in M
         /\ Unique(s, M) /\ ~(Has(s, M) /\ m \in M) => Unique(Append(s, m), M)
<1> DEFINE t == Append(s, m)
<1>1. /\ Len(s) \in Nat /\ Len(t) = Len(s) + 1 /\ t[Len(s) + 1] = m
      /\ \A i \in 1..Len(s) : t[i] = s[i]
  OBVIOUS
<1> HIDE DEF t
<1>2. /\ \A i \in 1..Len(t) : i \in 1..Len(s) \/ i = Len(s) + 1
      /\ 1..Len(s) \subseteq 1..Len(t) /\ Len(s) + 1 \in 1..Len(t)
  BY <1>1
<1>3. Has(t, M) <=> Has(s, M) \/ m \in M
  BY <1>1, <1>2 DEF Has
<1>4. ASSUME Unique(s, M), ~(Has(s, M) /\ m \in M) PROVE Unique(t, M)
  <2> SUFFICES ASSUME NEW i \in 1..Len(t), NEW j \in 1..Len(t), t[i] \in M, t[j] \in M
               PROVE  i = j
    BY DEF Unique
  <2> QED BY <1>1, <1>2, <1>4 DEF Unique, Has
<1> QED BY <1>3, <1>4 DEF t

\* Nothing of M gets behind r unless it is appended after r.
LEMMA AppendOrder ==
  ASSUME NEW S, NEW s \in Seq(S), NEW m \in S, NEW r, NEW M,
         NoneAfter(s, r, M), ~(Has(s, {r}) /\ m \in M)
  PROVE  NoneAfter(Append(s, m), r, M)
<1> DEFINE t == Append(s, m)
<1>1. /\ Len(s) \in Nat /\ Len(t) = Len(s) + 1 /\ t[Len(s) + 1] = m
      /\ \A i \in 1..Len(s) : t[i] = s[i]
  OBVIOUS
<1> HIDE DEF t
<1>2. ASSUME NEW i \in 1..Len(t), NEW j \in 1..Len(t), i < j, t[i] = r PROVE t[j] \notin M
  <2>1. i \in 1..Len(s)
    BY <1>1, <1>2
  <2>2. CASE j \in 1..Len(s)
    BY <1>1, <1>2, <2>1, <2>2 DEF NoneAfter
  <2>3. CASE j = Len(s) + 1
    BY <1>1, <1>2, <2>1, <2>3 DEF Has
  <2> QED BY <1>1, <2>2, <2>3
<1>3. NoneAfter(t, r, M)
  BY <1>2 DEF NoneAfter
<1> QED BY <1>3 DEF t

\* Taking the first message leaves the others as they are.
LEMMA TailTopic ==
  ASSUME NEW S, NEW s \in Seq(S), s # <<>>, NEW M
  PROVE  /\ Head(s) \in M => Has(s, M)
         /\ Has(Tail(s), M) => Has(s, M)
         /\ Unique(s, M) => Unique(Tail(s), M)
         /\ Unique(s, M) /\ Head(s) \in M => ~Has(Tail(s), M)
<1> DEFINE t == Tail(s)
<1>1. /\ Len(s) \in Nat \ {0} /\ Len(t) = Len(s) - 1 /\ Head(s) = s[1]
      /\ \A i \in 1..Len(t) : t[i] = s[i + 1]
  OBVIOUS
<1> HIDE DEF t
<1>2. /\ \A i \in 1..Len(t) : i + 1 \in 1..Len(s) /\ i + 1 # 1
      /\ 1 \in 1..Len(s)
  BY <1>1
<1>3. (Head(s) \in M => Has(s, M)) /\ (Has(t, M) => Has(s, M))
  BY <1>1, <1>2 DEF Has
<1>4. ASSUME Unique(s, M) PROVE Unique(t, M)
  <2> SUFFICES ASSUME NEW i \in 1..Len(t), NEW j \in 1..Len(t), t[i] \in M, t[j] \in M
               PROVE  i = j
    BY DEF Unique
  <2>1. i + 1 = j + 1
    BY <1>1, <1>2, <1>4 DEF Unique
  <2> QED BY <2>1
<1>5. ASSUME Unique(s, M), Head(s) \in M PROVE ~Has(t, M)
  BY <1>1, <1>2, <1>5 DEF Unique, Has
<1> QED BY <1>3, <1>4, <1>5 DEF t

\* The order stays, and behind a first r there is nothing of M.
LEMMA TailOrder ==
  ASSUME NEW S, NEW s \in Seq(S), s # <<>>, NEW r, NEW M, NoneAfter(s, r, M)
  PROVE  /\ NoneAfter(Tail(s), r, M)
         /\ Head(s) = r => ~Has(Tail(s), M)
<1> DEFINE t == Tail(s)
<1>1. /\ Len(s) \in Nat \ {0} /\ Len(t) = Len(s) - 1 /\ Head(s) = s[1]
      /\ \A i \in 1..Len(t) : t[i] = s[i + 1]
  OBVIOUS
<1> HIDE DEF t
<1>2. /\ \A i \in 1..Len(t) : i + 1 \in 1..Len(s) /\ 1 < i + 1
      /\ 1 \in 1..Len(s)
  BY <1>1
<1>3. NoneAfter(t, r, M)
  <2> SUFFICES ASSUME NEW i \in 1..Len(t), NEW j \in 1..Len(t), i < j, t[i] = r
               PROVE  t[j] \notin M
    BY DEF NoneAfter
  <2>1. i + 1 < j + 1 /\ s[i + 1] = r
    BY <1>1
  <2> QED BY <1>1, <1>2, <2>1 DEF NoneAfter
<1>4. Head(s) = r => ~Has(t, M)
  BY <1>1, <1>2 DEF NoneAfter, Has
<1> QED BY <1>3, <1>4 DEF t

\* An empty topic holds nothing.
LEMMA EmptyTopic ==
  ASSUME NEW M, NEW r
  PROVE  ~Has(<<>>, M) /\ Unique(<<>>, M) /\ NoneAfter(<<>>, r, M)
BY DEF Has, Unique, NoneAfter

\* Which message is which.
LEMMA Messages ==
  ASSUME NEW p, NEW q, NEW type
  PROVE  /\ Msg(type, p) \in Booking(q) <=> type = "payin.ledger.record" /\ p = q
         /\ Msg(type, p) \in Trial(q) <=>
              type \in {"payin.policy.evaluate", "payin.execute"} /\ p = q
         /\ Msg(type, p) \in Failure(q) <=> type = "payin.fail" /\ p = q
         /\ Msg(type, p) \in Overwriting(q) <=>
              type \in {"payin.policy.evaluate", "payin.execute", "payin.fail"} /\ p = q
         /\ Msg(type, p) \in Approval(q) <=> type = "payin.policy.approved" /\ p = q
         /\ Msg(type, p) \in Receipt(q) <=> type = "payin.received" /\ p = q
         /\ Msg(type, p) \in Success(q) <=> type = "payin.succeeded" /\ p = q
<1>1. ASSUME NEW t, NEW r PROVE Msg(type, p) = Msg(t, r) <=> type = t /\ p = r
  <2>1. Msg(type, p).type = type /\ Msg(type, p).payin = p /\ Msg(t, r).type = t /\ Msg(t, r).payin = r
    BY DEF Msg
  <2> QED BY <2>1
<1> QED BY <1>1 DEF Booking, Trial, Failure, Overwriting, Approval, Receipt, Success

-----------------------------------------------------------------------------
(* Types. *)

\* The statuses a result stands for.
Settled == {"processing", "on_hold", "received", "failed"}

\* What the conversions of a result return.
LEMMA ResultStatus ==
  /\ \A result \in ExecutionStatuses : normalizeResultStatus(result) \in Settled
  /\ \A status : executionStatusFromPayin(status) \in ExecutionStatuses
  /\ \A status : mapPayinStatus(status) \in ExecutionStatuses
  /\ \A status \in Settled : EventType(status) \in EventTypes
  /\ \A status : PublicType(status) \subseteq PublicTypes
  /\ \A status : paymentStateForResult(status) \in {"failed", "processing"}
<1>1. \A result \in ExecutionStatuses : normalizeResultStatus(result) \in Settled
  BY DEF normalizeResultStatus, ExecutionStatuses, Settled
<1>2. \A status : executionStatusFromPayin(status) \in ExecutionStatuses
  BY DEF executionStatusFromPayin, ExecutionStatuses
<1>3. \A status : mapPayinStatus(status) \in ExecutionStatuses
  BY DEF mapPayinStatus, ExecutionStatuses
<1>4. \A status \in Settled : EventType(status) \in EventTypes
  BY DEF EventType, Settled, EventTypes
<1>5. \A status : PublicType(status) \subseteq PublicTypes
  BY DEF PublicType, PublicTypes
<1>6. \A status : paymentStateForResult(status) \in {"failed", "processing"}
  BY DEF paymentStateForResult
<1> QED BY <1>1, <1>2, <1>3, <1>4, <1>5, <1>6

\* A status a notification can write.
LEMMA NotifiedStatus ==
  ASSUME NEW status \in ProviderStatuses, LifecycleStatus(status) \in PayinStatuses
  PROVE  /\ LifecycleStatus(status) \in {"received", "failed", "on_hold"}
         /\ LifecycleStatus(status) = "received" => status = "completed"
         /\ LifecycleStatus(status) = "failed" => status \in {"failed", "refunded"}
         /\ LifecycleStatus(status) = "on_hold" => status = "on_hold"
BY DEF LifecycleStatus, mapPayinStatus, PayinStatuses, ProviderStatuses

\* Messages and rows added to a topic have their type.
LEMMA WriteOnceType ==
  ASSUME TypeOK, NEW p \in Payins, NEW source \in Sources, NEW type \in EventTypes,
         WriteOnce(p, source, type)
  PROVE  /\ written' \subseteq [payin : Payins, source : Sources, type : EventTypes]
         /\ events' \in Seq(Message(EventTypes))
<1>1. /\ written \subseteq [payin : Payins, source : Sources, type : EventTypes]
      /\ events \in Seq(Message(EventTypes))
  BY DEF TypeOK, SagaTypeOK
<1>2. Msg(type, p) \in Message(EventTypes)
  BY DEF Msg, Message
<1>3. [payin |-> p, source |-> source, type |-> type] \in [payin : Payins, source : Sources, type : EventTypes]
  OBVIOUS
<1> QED BY <1>1, <1>2, <1>3 DEF WriteOnce

\* ApplyResult keeps the types.
LEMMA ApplyResultType ==
  ASSUME TypeOK, NEW p \in Payins, NEW result \in ExecutionStatuses, NEW referenced \in BOOLEAN,
         ApplyResult(p, result, referenced)
  PROVE  /\ payment' \in [Payins -> PaymentStatuses]
         /\ payin' \in [Payins -> PayinStatuses \cup {"none"}]
         /\ ref' \subseteq Payins /\ UNCHANGED journals
         /\ announced' \in [Payins -> SUBSET PublicTypes]
         /\ written' \subseteq [payin : Payins, source : Sources, type : EventTypes]
         /\ events' \in Seq(Message(EventTypes))
<1>1. PICK status : status = normalizeResultStatus(result)
  OBVIOUS
<1>2. status \in Settled
  BY <1>1, ResultStatus
<1>3. /\ payin' = [payin EXCEPT ![p] = status]
      /\ ref' = IF referenced THEN ref \cup {p} ELSE ref \ {p}
      /\ payment' = [payment EXCEPT ![p] = paymentStateForResult(status)]
      /\ WriteOnce(p, "own", EventType(status))
      /\ announced' = [announced EXCEPT ![p] = announced[p] \cup PublicType(status)]
      /\ UNCHANGED journals
  BY <1>1 DEF ApplyResult, Announce
<1>4. EventType(status) \in EventTypes /\ "own" \in Sources
  BY <1>2, ResultStatus DEF Sources
<1>5. announced' \in [Payins -> SUBSET PublicTypes]
  BY <1>3, ResultStatus DEF TypeOK
<1>6. payin' \in [Payins -> PayinStatuses \cup {"none"}] /\ ref' \subseteq Payins
  BY <1>2, <1>3 DEF TypeOK, Settled, PayinStatuses
<1>7. payment' \in [Payins -> PaymentStatuses]
  BY <1>3, ResultStatus DEF TypeOK, PaymentStatuses
<1> QED BY <1>3, <1>4, <1>5, <1>6, <1>7, WriteOnceType

\* Commands are enqueued with their type.
LEMMA EnqueueType ==
  ASSUME TypeOK, NEW p \in Payins, NEW command \in CommandTypes \cup {NoCommand},
         enqueueCommand(p, command)
  PROVE  commands' \in Seq(Message(CommandTypes))
<1>1. commands \in Seq(Message(CommandTypes))
  BY DEF TypeOK, SagaTypeOK
<1>2. command # NoCommand => Msg(command, p) \in Message(CommandTypes)
  BY DEF Msg, Message
<1> QED BY <1>1, <1>2 DEF enqueueCommand

\* The first message of a topic.
LEMMA FirstEvent ==
  ASSUME TypeOK, events # <<>>
  PROVE  /\ Head(events).payin \in Payins /\ Head(events).type \in EventTypes
         /\ Head(events) = Msg(Head(events).type, Head(events).payin)
         /\ Tail(events) \in Seq(Message(EventTypes))
<1>1. events \in Seq(Message(EventTypes))
  BY DEF TypeOK, SagaTypeOK
<1>2. Head(events) \in Message(EventTypes) /\ Tail(events) \in Seq(Message(EventTypes))
  BY <1>1
<1> QED BY <1>2 DEF Message, Msg

\* The moves of a saga: the start, and the rows of the switch.
Move(from, on, to, command) ==
  \/ /\ from = "none" /\ on = "payin.created"
     /\ to = "awaiting_policy" /\ command = "payin.policy.evaluate"
  \/ /\ from = "awaiting_policy" /\ on = "payin.policy.approved"
     /\ to = "awaiting_execution" /\ command = "payin.execute"
  \/ /\ from \in Executing /\ on \in {"payin.processing", "payin.on_hold"}
     /\ to \in Executing /\ command = NoCommand
  \/ /\ from \in Executing /\ on = "payin.received"
     /\ to = "awaiting_ledger" /\ command = "payin.ledger.record"
  \/ /\ from = "awaiting_ledger" /\ on = "payin.succeeded"
     /\ to = "completed" /\ command = NoCommand
  \/ /\ from # "none" /\ on \in {"payin.failed", "payin.refunded"}
     /\ to \in {"failed", "refunded"} /\ command = NoCommand

\* Every row of the switch is one of these moves.
LEMMA RowsAreMoves ==
  ASSUME NEW state, NEW type, NEW row \in Matching(state, type)
  PROVE  Move(state, type, row.to, row.command)
<1>1. row \in Transitions /\ row.on = type /\ state \in row.from
  BY DEF Matching
<1>2. ASSUME NEW from, NEW on, NEW to, NEW command, row = Row(from, on, to, command)
      PROVE  type = on /\ state \in from /\ row.to = to /\ row.command = command
  BY <1>1, <1>2 DEF Row
<1>3. CASE row = Row({"awaiting_policy"}, "payin.policy.approved", "awaiting_execution", "payin.execute")
  BY <1>2, <1>3 DEF Move
<1>4. CASE row = Row(Executing, "payin.processing", "processing", NoCommand)
  BY <1>2, <1>4 DEF Move, Executing
<1>5. CASE row = Row(Executing \ {"on_hold"}, "payin.on_hold", "on_hold", NoCommand)
  BY <1>2, <1>5 DEF Move, Executing
<1>6. CASE row = Row(Executing, "payin.received", "awaiting_ledger", "payin.ledger.record")
  BY <1>2, <1>6 DEF Move
<1>7. CASE row = Row({"awaiting_ledger"}, "payin.succeeded", "completed", NoCommand)
  BY <1>2, <1>7 DEF Move
<1>8. CASE row = Row(SagaStates \ {"none", "completed", "refunded"}, "payin.failed", "failed", NoCommand)
  BY <1>2, <1>8 DEF Move
<1>9. CASE row = Row(SagaStates \ {"none", "failed", "refunded"}, "payin.refunded", "refunded", NoCommand)
  BY <1>2, <1>9 DEF Move
<1> QED BY <1>1, <1>3, <1>4, <1>5, <1>6, <1>7, <1>8, <1>9 DEF Transitions

\* Handle consumes an event and makes one move, or none.
LEMMA HandleMoves ==
  ASSUME TypeOK, Handle
  PROVE  /\ events # <<>> /\ events' = Tail(events) /\ UNCHANGED expiries
         /\ \/ UNCHANGED <<saga, commands>>
            \/ \E p \in Payins, type \in EventTypes :
                 /\ Head(events) = Msg(type, p)
                 /\ \E to, command : /\ Move(saga[p], type, to, command)
                                     /\ saga' = [saga EXCEPT ![p] = to]
                                     /\ enqueueCommand(p, command)
<1>1. events # <<>> /\ events' = Tail(events) /\ UNCHANGED expiries
  BY DEF Handle
<1>2. PICK p \in Payins, type \in EventTypes :
        p = Head(events).payin /\ type = Head(events).type /\ Head(events) = Msg(type, p)
  BY <1>1, FirstEvent
<1>3. CASE type = "payin.created"
  <2>1. start(p)
    BY <1>2, <1>3 DEF Handle
  <2>2. CASE saga[p] = "none"
    <3>1. Move(saga[p], type, "awaiting_policy", "payin.policy.evaluate")
      BY <1>3, <2>2 DEF Move
    <3> QED BY <1>1, <1>2, <2>1, <2>2, <3>1 DEF start
  <2> QED BY <1>1, <2>1, <2>2 DEF start
<1>4. CASE type # "payin.created"
  <2>1. \/ \E row \in Matching(saga[p], type) : /\ saga' = [saga EXCEPT ![p] = row.to]
                                                /\ enqueueCommand(p, row.command)
        \/ UNCHANGED <<saga, commands>>
    BY <1>2, <1>4 DEF Handle
  <2> QED BY <1>1, <1>2, <2>1, RowsAreMoves
<1> QED BY <1>3, <1>4

\* A move leads to a state of the saga and to a command of the worker.
LEMMA MoveType ==
  ASSUME NEW from, NEW on, NEW to, NEW command, Move(from, on, to, command)
  PROVE  /\ to \in SagaStates \ {"none"} /\ command \in CommandTypes \cup {NoCommand}
BY DEF Move, Executing, SagaStates, CommandTypes

\* The coordinator's steps keep the types.
LEMMA SagaType ==
  ASSUME TypeOK, Handle \/ \E p \in Payins : ExpireOnce(p)
  PROVE  SagaTypeOK'
<1> commands \in Seq(Message(CommandTypes)) /\ saga \in [Payins -> SagaStates]
    /\ events \in Seq(Message(EventTypes)) /\ expiries \in 0..MaxExpiries
  BY DEF TypeOK, SagaTypeOK
<1>1. CASE Handle
  <2>1. /\ events # <<>> /\ events' = Tail(events) /\ UNCHANGED expiries
        /\ \/ UNCHANGED <<saga, commands>>
           \/ \E p \in Payins, type \in EventTypes :
                 /\ Head(events) = Msg(type, p)
                 /\ \E to, command : /\ Move(saga[p], type, to, command)
                                     /\ saga' = [saga EXCEPT ![p] = to]
                                     /\ enqueueCommand(p, command)
    BY <1>1, HandleMoves
  <2>2. events' \in Seq(Message(EventTypes))
    BY <2>1
  <2>3. ASSUME NEW p \in Payins, NEW type, NEW to, NEW command, Move(saga[p], type, to, command),
               saga' = [saga EXCEPT ![p] = to], enqueueCommand(p, command)
        PROVE  saga' \in [Payins -> SagaStates] /\ commands' \in Seq(Message(CommandTypes))
    BY <2>3, MoveType, EnqueueType
  <2> QED BY <2>1, <2>2, <2>3 DEF SagaTypeOK
<1>2. ASSUME NEW p \in Payins, ExpireOnce(p) PROVE SagaTypeOK'
  <2>1. ExpiryCommand(saga[p]) \in CommandTypes \cup {NoCommand}
    BY DEF ExpiryCommand, CommandTypes
  <2>2. commands' \in Seq(Message(CommandTypes))
    BY <1>2, <2>1, EnqueueType DEF ExpireOnce
  <2> QED BY <1>2, <2>2, PayinSagaAssumption DEF ExpireOnce, SagaTypeOK
<1> QED BY <1>1, <1>2

\* The commands of the worker that are one transaction.
OneTransaction(p) == PolicyEvaluate(p) \/ PayinFail(p) \/ RecordPayin(p)

\* They keep the types.
LEMMA TransactionType ==
  ASSUME TypeOK, WorkerInv, NEW p \in Payins, OneTransaction(p)
  PROVE  TypeOK' /\ WorkerInv'
<1>1. /\ commands # <<>> /\ commands' = Tail(commands) /\ worker = Idle
      /\ UNCHANGED <<saga, expiries, worker, provider, sent, stored, applied, batch, crashes>>
  BY DEF OneTransaction, PolicyEvaluate, PayinFail, RecordPayin, Take, AtHead, sagaVars, providerVars,
         webhookVars
<1>2. commands' \in Seq(Message(CommandTypes))
  BY <1>1 DEF TypeOK, SagaTypeOK
<1>3. WorkerInv'
  BY <1>1 DEF WorkerInv, Idle, At
<1>4. CASE events' = Append(events, Msg("payin.policy.approved", p)) /\ UNCHANGED rowVars
  <2>1. Msg("payin.policy.approved", p) \in Message(EventTypes)
    BY DEF Msg, Message, EventTypes
  <2>2. events' \in Seq(Message(EventTypes))
    BY <1>4, <2>1 DEF TypeOK, SagaTypeOK
  <2> QED BY <1>1, <1>2, <1>3, <1>4, <2>2 DEF TypeOK, SagaTypeOK, rowVars
<1>5. CASE ApplyResult(p, "failed", FALSE)
  <2>1. "failed" \in ExecutionStatuses /\ FALSE \in BOOLEAN
    BY DEF ExecutionStatuses
  <2>2. /\ payment' \in [Payins -> PaymentStatuses]
        /\ payin' \in [Payins -> PayinStatuses \cup {"none"}]
        /\ ref' \subseteq Payins /\ UNCHANGED journals
        /\ announced' \in [Payins -> SUBSET PublicTypes]
        /\ written' \subseteq [payin : Payins, source : Sources, type : EventTypes]
        /\ events' \in Seq(Message(EventTypes))
    BY <1>5, <2>1, ApplyResultType
  <2> QED BY <1>1, <1>2, <1>3, <2>2 DEF TypeOK, SagaTypeOK
<1>6. CASE RecordPayin(p)
  <2>1. /\ journals' = [journals EXCEPT ![p] = journals[p] \cup {"payin.succeeded"}]
        /\ payment' = [payment EXCEPT ![p] = "succeeded"]
        /\ WriteOnce(p, "own", "payin.succeeded")
        /\ announced' = [announced EXCEPT ![p] = announced[p] \cup {"payment.succeeded"}]
        /\ UNCHANGED <<payin, ref>>
    BY <1>6 DEF RecordPayin, Announce
  <2>2. "own" \in Sources /\ "payin.succeeded" \in EventTypes
    BY DEF Sources, EventTypes
  <2>3. /\ written' \subseteq [payin : Payins, source : Sources, type : EventTypes]
        /\ events' \in Seq(Message(EventTypes))
    BY <2>1, <2>2, WriteOnceType
  <2>4. /\ payment' \in [Payins -> PaymentStatuses]
        /\ journals' \in [Payins -> SUBSET JournalTypes]
        /\ announced' \in [Payins -> SUBSET PublicTypes]
    BY <2>1 DEF TypeOK, PaymentStatuses, JournalTypes, PublicTypes
  <2> QED BY <1>1, <1>2, <1>3, <2>1, <2>3, <2>4 DEF TypeOK, SagaTypeOK
<1> QED BY <1>4, <1>5, <1>6 DEF OneTransaction, PolicyEvaluate, PayinFail

\* So do the steps of an execution.
LEMMA ExecutionType ==
  ASSUME TypeOK, WorkerInv, NEW p \in Payins, prepare(p) \/ recordError(p) \/ ApplyExecution(p)
  PROVE  TypeOK' /\ WorkerInv'
<1>1. CASE prepare(p)
  <2>1. /\ commands # <<>>
        /\ UNCHANGED <<commands, events, saga, expiries, payment, ref, journals, announced, written,
                       provider, sent, stored, applied, batch, crashes>>
    BY <1>1 DEF prepare, AtHead, sagaVars, providerVars, webhookVars
  <2>2. payin' \in [Payins -> PayinStatuses \cup {"none"}]
    BY <1>1 DEF prepare, TypeOK, PayinStatuses
  <2>3. \/ worker' = At("apply", executionStatusFromPayin(payin[p]))
        \/ worker' = At("call", "none")
    BY <1>1 DEF prepare
  <2>4. executionStatusFromPayin(payin[p]) \in ExecutionStatuses
    BY ResultStatus
  <2>5. /\ worker' \in [pc : {"idle", "call", "record", "apply"},
                        result : ExecutionStatuses \cup {"none", "rejected", "unknown"}]
        /\ WorkerInv'
    BY <2>1, <2>3, <2>4 DEF At, WorkerInv
  <2> QED BY <2>1, <2>2, <2>5 DEF TypeOK, SagaTypeOK
<1>2. CASE recordError(p)
  <2>1. /\ commands # <<>>
        /\ UNCHANGED <<commands, events, saga, expiries, payment, ref, journals, announced, written,
                       provider, sent, stored, applied, batch, crashes>>
    BY <1>2 DEF recordError, AtHead, sagaVars, providerVars, webhookVars
  <2>2. payin' \in [Payins -> PayinStatuses \cup {"none"}]
    BY <1>2 DEF recordError, TypeOK, PayinStatuses
  <2>3. /\ worker' \in [pc : {"idle", "call", "record", "apply"},
                        result : ExecutionStatuses \cup {"none", "rejected", "unknown"}]
        /\ WorkerInv'
    BY <1>2, <2>1 DEF recordError, At, Idle, WorkerInv
  <2> QED BY <2>1, <2>2, <2>3 DEF TypeOK, SagaTypeOK
<1>3. CASE ApplyExecution(p)
  <2>1. /\ commands # <<>> /\ commands' = Tail(commands) /\ worker' = Idle /\ worker.pc = "apply"
        /\ UNCHANGED <<saga, expiries, provider, sent, stored, applied, batch, crashes>>
    BY <1>3 DEF ApplyExecution, AtHead, sagaVars, providerVars, webhookVars
  <2>2. commands' \in Seq(Message(CommandTypes))
    BY <2>1 DEF TypeOK, SagaTypeOK
  <2>3. PICK result \in ExecutionStatuses, referenced \in BOOLEAN : ApplyResult(p, result, referenced)
    BY <1>3, <2>1 DEF ApplyExecution, WorkerInv, ExecutionStatuses
  <2>4. /\ payment' \in [Payins -> PaymentStatuses]
        /\ payin' \in [Payins -> PayinStatuses \cup {"none"}]
        /\ ref' \subseteq Payins /\ UNCHANGED journals
        /\ announced' \in [Payins -> SUBSET PublicTypes]
        /\ written' \subseteq [payin : Payins, source : Sources, type : EventTypes]
        /\ events' \in Seq(Message(EventTypes))
    BY <2>3, ApplyResultType
  <2>5. /\ worker' \in [pc : {"idle", "call", "record", "apply"},
                        result : ExecutionStatuses \cup {"none", "rejected", "unknown"}]
        /\ WorkerInv'
    BY <2>1 DEF At, Idle, WorkerInv
  <2> QED BY <2>1, <2>2, <2>4, <2>5 DEF TypeOK, SagaTypeOK
<1> QED BY <1>1, <1>2, <1>3

\* The provider reports every status it takes.
LEMMA AcceptType ==
  ASSUME TypeOK, NEW p \in Payins,
         \/ Accept(p)
         \/ \E status \in ProviderStatuses :
              provider' = [provider EXCEPT ![p] = status] /\ Notify(p, status)
         \/ UNCHANGED providerVars
  PROVE  /\ provider' \in [Payins -> ProviderStatuses \cup {"none"}]
         /\ sent' \subseteq Webhook /\ sent \subseteq sent'
         /\ \A q \in Payins :
              provider'[q] = provider[q] \/ [payin |-> q, status |-> provider'[q]] \in sent'
<1>1. CASE UNCHANGED <<provider, sent>>
  BY <1>1 DEF TypeOK
<1>2. ASSUME NEW status \in ProviderStatuses, provider' = [provider EXCEPT ![p] = status],
             Notify(p, status)
      PROVE  /\ provider' \in [Payins -> ProviderStatuses \cup {"none"}]
             /\ sent' \subseteq Webhook /\ sent \subseteq sent'
             /\ \A q \in Payins :
              provider'[q] = provider[q] \/ [payin |-> q, status |-> provider'[q]] \in sent'
  BY <1>2 DEF TypeOK, Notify, Webhook
<1> QED BY <1>1, <1>2 DEF Accept, providerVars

\* Calls and the provider's own steps, a stop of the process included.
Outside(p) ==
  ProviderCall(p) \/ ProviderStep(p) \/ Crash \/ \E w \in Webhook : ReconcileFails(w)

\* They change the provider's record and the worker's position only.
LEMMA OutsideSteps ==
  ASSUME TypeOK, NEW p \in Payins, Outside(p)
  PROVE  /\ UNCHANGED <<commands, events, saga, expiries, payment, payin, ref, journals, announced,
                        written, stored, applied>>
         /\ batch' \subseteq batch
         /\ provider' \in [Payins -> ProviderStatuses \cup {"none"}]
         /\ sent' \subseteq Webhook /\ sent \subseteq sent'
         /\ \A q \in Payins :
              provider'[q] = provider[q] \/ [payin |-> q, status |-> provider'[q]] \in sent'
         /\ \/ worker' = worker \/ worker' = Idle
            \/ /\ commands # <<>> /\ OnExecute(p)
               /\ \/ worker' = At("record", "unknown") \/ worker' = At("record", "rejected")
                  \/ worker' = At("apply", mapPayinStatus(provider'[p]))
         /\ crashes' \in 0..MaxCrashes
<1>1. /\ UNCHANGED <<commands, events, saga, expiries, payment, payin, ref, journals, announced,
                     written, stored, applied>>
      /\ batch' \subseteq batch
  BY DEF Outside, ProviderCall, CallAnswered, CallLost, CallRejected, Calling, ProviderStep,
         ProviderDecides, ProviderRefunds, ProviderMoves, Crash, ReconcileFails, Stop, sagaVars, rowVars, webhookVars
<1>2. \/ Accept(p)
      \/ \E status \in ProviderStatuses :
           provider' = [provider EXCEPT ![p] = status] /\ Notify(p, status)
      \/ UNCHANGED providerVars
  BY DEF Outside, ProviderCall, CallAnswered, CallLost, CallRejected, ProviderStep,
         ProviderDecides, ProviderRefunds, ProviderMoves, Crash, ReconcileFails, Stop, ProviderStatuses
<1>3. /\ provider' \in [Payins -> ProviderStatuses \cup {"none"}]
      /\ sent' \subseteq Webhook /\ sent \subseteq sent'
      /\ \A q \in Payins :
           provider'[q] = provider[q] \/ [payin |-> q, status |-> provider'[q]] \in sent'
  BY <1>2, AcceptType
<1>4. \/ worker' = worker \/ worker' = Idle
      \/ /\ commands # <<>> /\ OnExecute(p)
         /\ \/ worker' = At("record", "unknown") \/ worker' = At("record", "rejected")
            \/ worker' = At("apply", mapPayinStatus(provider'[p]))
  BY DEF Outside, ProviderCall, CallAnswered, CallLost, CallRejected, Calling, ProviderStep,
         ProviderDecides, ProviderRefunds, ProviderMoves, Crash, ReconcileFails, Stop, OnExecute, AtHead
<1>5. crashes' = crashes \/ (crashes < MaxCrashes /\ crashes' = crashes + 1)
  BY DEF Outside, ProviderCall, CallAnswered, CallLost, CallRejected, Calling, ProviderStep,
         ProviderDecides, ProviderRefunds, ProviderMoves, Crash, ReconcileFails, Stop
<1>6. crashes' \in 0..MaxCrashes
  BY <1>5, PayinWorkflowAssumption DEF TypeOK
<1> QED BY <1>1, <1>3, <1>4, <1>6

\* They keep the types.
LEMMA OutsideType ==
  ASSUME TypeOK, WorkerInv, NEW p \in Payins, Outside(p)
  PROVE  TypeOK' /\ WorkerInv'
<1>1. /\ UNCHANGED <<commands, events, saga, expiries, payment, payin, ref, journals, announced,
                     written, stored, applied>>
      /\ batch' \subseteq batch
      /\ provider' \in [Payins -> ProviderStatuses \cup {"none"}]
      /\ sent' \subseteq Webhook /\ sent \subseteq sent' /\ crashes' \in 0..MaxCrashes
      /\ \/ worker' = worker \/ worker' = Idle
         \/ /\ commands # <<>> /\ OnExecute(p)
            /\ \/ worker' = At("record", "unknown") \/ worker' = At("record", "rejected")
               \/ worker' = At("apply", mapPayinStatus(provider'[p]))
  BY OutsideSteps
<1>2. mapPayinStatus(provider'[p]) \in ExecutionStatuses
  BY ResultStatus
<1>3. /\ worker' \in [pc : {"idle", "call", "record", "apply"},
                      result : ExecutionStatuses \cup {"none", "rejected", "unknown"}]
      /\ WorkerInv'
  BY <1>1, <1>2 DEF TypeOK, At, Idle, WorkerInv
<1> QED BY <1>1, <1>3 DEF TypeOK, SagaTypeOK

\* What a notification changes, for the pay-in p with the status it writes.  No
\* journal: that of a refund would need the status refunded.
Change(p, status) ==
  /\ payin' = [payin EXCEPT ![p] = status]
  /\ payment' = [payment EXCEPT ![p] = KeptStatus(payment[p], status)]
  /\ WriteOnce(p, "webhook", EventType(status)) \/ UNCHANGED <<events, written>>
  /\ announced' = [announced EXCEPT ![p] = announced[p] \cup
                     IF payment[p] = "succeeded" THEN {} ELSE PublicType(status)]
  /\ UNCHANGED <<journals, ref>>

\* A notification changes nothing of the workflow, or one pay-in whose row has
\* not failed.
LEMMA ProcessSteps ==
  ASSUME TypeOK, NEW w \in sent, Process(w)
  PROVE  /\ UNCHANGED <<commands, saga, expiries, worker, provider, sent, crashes>>
         /\ stored \subseteq stored' /\ stored' \subseteq sent /\ applied' \subseteq stored'
         /\ \/ UNCHANGED <<events, payment, payin, ref, journals, announced, written>>
            \/ /\ w.payin \in Payins /\ w.payin \in ref /\ payin[w.payin] # "failed"
               /\ w.status \in ProviderStatuses /\ LifecycleStatus(w.status) \in PayinStatuses
               /\ Change(w.payin, LifecycleStatus(w.status))
<1>1. /\ UNCHANGED <<commands, saga, expiries, worker, provider, sent, crashes>>
      /\ stored' = stored \cup {w}
  BY DEF Process, sagaVars, providerVars
<1>2. applied' = applied \/ applied' = applied \cup {w}
  BY DEF Process, ProcessUnmatched, ProcessUnchanging, ProcessChange
<1>3. stored \subseteq stored' /\ stored' \subseteq sent /\ applied' \subseteq stored'
  BY <1>1, <1>2 DEF TypeOK
<1>4. CASE ProcessUnmatched(w) \/ ProcessUnchanging(w)
  BY <1>1, <1>3, <1>4 DEF ProcessUnmatched, ProcessUnchanging, rowVars
<1>5. CASE ProcessChange(w)
  <2>1. PICK p, status : p = w.payin /\ status = LifecycleStatus(w.status)
    OBVIOUS
  <2>2. p \in Payins /\ w.status \in ProviderStatuses
    BY <2>1 DEF TypeOK, Webhook
  <2>3. p \in ref /\ payin[p] # "failed" /\ status \in PayinStatuses
    BY <1>5, <2>1 DEF ProcessChange, Matched, Unchanging
  <2>4. status # "refunded"
    BY <2>1, <2>2, <2>3, NotifiedStatus
  <2>5. Change(p, status)
    BY <1>5, <2>1, <2>4 DEF ProcessChange, Change, Announce
  <2> QED BY <1>1, <1>3, <2>1, <2>2, <2>3, <2>5
<1> QED BY <1>4, <1>5 DEF Process

\* A notification keeps the types.
LEMMA ProcessType ==
  ASSUME TypeOK, WorkerInv, NEW w \in sent, Process(w), batch' \subseteq batch
  PROVE  TypeOK' /\ WorkerInv'
<1>1. /\ UNCHANGED <<commands, saga, expiries, worker, provider, sent, crashes>>
      /\ stored \subseteq stored' /\ stored' \subseteq sent /\ applied' \subseteq stored'
      /\ \/ UNCHANGED <<events, payment, payin, ref, journals, announced, written>>
         \/ /\ w.payin \in Payins /\ w.payin \in ref /\ payin[w.payin] # "failed"
            /\ w.status \in ProviderStatuses /\ LifecycleStatus(w.status) \in PayinStatuses
            /\ Change(w.payin, LifecycleStatus(w.status))
  BY ProcessSteps
<1>2. WorkerInv'
  BY <1>1 DEF WorkerInv
<1>3. CASE UNCHANGED <<events, payment, payin, ref, journals, announced, written>>
  BY <1>1, <1>2, <1>3 DEF TypeOK, SagaTypeOK
<1>4. ASSUME NEW p \in Payins, NEW status \in {"received", "failed", "on_hold"}, Change(p, status)
      PROVE  TypeOK'
  <2>1. status \in Settled /\ "webhook" \in Sources /\ EventType(status) \in EventTypes
    BY ResultStatus DEF Settled, Sources
  <2>2. /\ events' \in Seq(Message(EventTypes))
        /\ written' \subseteq [payin : Payins, source : Sources, type : EventTypes]
    <3>1. CASE WriteOnce(p, "webhook", EventType(status))
      BY <2>1, <3>1, WriteOnceType
    <3>2. CASE UNCHANGED <<events, written>>
      BY <3>2 DEF TypeOK, SagaTypeOK
    <3> QED BY <1>4, <3>1, <3>2 DEF Change
  <2>3. KeptStatus(payment[p], status) \in PaymentStatuses
    BY ResultStatus DEF KeptStatus, PaymentStatuses
  <2>4. PublicType(status) \subseteq PublicTypes
    BY ResultStatus
  <2>5. /\ payment' \in [Payins -> PaymentStatuses]
        /\ payin' \in [Payins -> PayinStatuses \cup {"none"}]
        /\ announced' \in [Payins -> SUBSET PublicTypes]
    BY <1>4, <2>3, <2>4 DEF Change, TypeOK, PayinStatuses
  <2>6. journals' \in [Payins -> SUBSET JournalTypes] /\ ref' \subseteq Payins
    BY <1>4 DEF Change, TypeOK, JournalTypes
  <2> QED BY <1>1, <2>2, <2>5, <2>6 DEF TypeOK, SagaTypeOK
<1> QED BY <1>1, <1>2, <1>3, <1>4, NotifiedStatus

\* A new pay-in has its rows and its event.
LEMMA CreateType ==
  ASSUME TypeOK, WorkerInv, NEW p \in Payins, CreatePayin(p)
  PROVE  TypeOK' /\ WorkerInv'
<1>1. /\ payment' = [payment EXCEPT ![p] = "created"] /\ payin' = [payin EXCEPT ![p] = "created"]
      /\ events' = Append(events, Msg("payin.created", p))
      /\ announced' = [announced EXCEPT ![p] = announced[p] \cup {"payment.created"}]
      /\ UNCHANGED <<commands, saga, expiries, ref, journals, written, worker, provider, sent, stored,
                     applied, batch, crashes>>
  BY DEF CreatePayin, Announce, sagaVars, providerVars, webhookVars
<1>2. Msg("payin.created", p) \in Message(EventTypes)
  BY DEF Msg, Message, EventTypes
<1>3. events' \in Seq(Message(EventTypes))
  BY <1>1, <1>2 DEF TypeOK, SagaTypeOK
<1>4. /\ payment' \in [Payins -> PaymentStatuses]
      /\ payin' \in [Payins -> PayinStatuses \cup {"none"}]
      /\ announced' \in [Payins -> SUBSET PublicTypes]
  BY <1>1 DEF TypeOK, PaymentStatuses, PayinStatuses, PublicTypes
<1> QED BY <1>1, <1>3, <1>4 DEF TypeOK, SagaTypeOK, WorkerInv

\* The coordinator appends to the commands, or leaves them.
LEMMA CoordinatorType ==
  ASSUME TypeOK, WorkerInv, SagaStep \/ \E p \in Payins : SagaExpiry(p)
  PROVE  TypeOK' /\ WorkerInv'
<1>1. UNCHANGED <<payment, payin, ref, journals, announced, written, worker, provider, sent, stored,
                  applied, batch, crashes>>
  BY DEF SagaStep, SagaExpiry, rowVars, providerVars, webhookVars
<1>2. SagaTypeOK'
  BY SagaType DEF SagaStep, SagaExpiry
<1>3. commands' = commands \/ \E p, type : commands' = Append(commands, Msg(type, p))
  <2>1. CASE Handle
    BY <2>1, HandleMoves DEF enqueueCommand
  <2>2. CASE \E p \in Payins : ExpireOnce(p)
    BY <2>2 DEF ExpireOnce, enqueueCommand
  <2> QED BY <2>1, <2>2 DEF SagaStep, SagaExpiry
<1>4. commands # <<>> => commands' # <<>>
  BY <1>3 DEF TypeOK, SagaTypeOK
<1>5. WorkerInv'
  BY <1>1, <1>4 DEF WorkerInv
<1> QED BY <1>1, <1>2, <1>5 DEF TypeOK

\* Every step keeps the types.
LEMMA NextType == ASSUME TypeOK, WorkerInv, [Next]_vars PROVE TypeOK' /\ WorkerInv'
<1>1. CASE UNCHANGED vars
  BY <1>1 DEF vars, sagaVars, rowVars, providerVars, webhookVars, TypeOK, SagaTypeOK, WorkerInv
<1>2. CASE \E p \in Payins : CreatePayin(p)
  BY <1>2, CreateType
<1>3. CASE SagaStep \/ \E p \in Payins : SagaExpiry(p)
  BY <1>3, CoordinatorType
<1>4. CASE \E p \in Payins : WorkerStep(p)
  BY <1>4, TransactionType, ExecutionType DEF WorkerStep, OneTransaction
<1>5. CASE \E p \in Payins : Outside(p)
  BY <1>5, OutsideType
<1>6. ASSUME NEW w \in Webhook, WebhookStep(w) PROVE TypeOK' /\ WorkerInv'
  <2>1. CASE ReconcileFails(w)
    <3>1. w.payin \in Payins
      BY DEF Webhook
    <3>2. Outside(w.payin)
      BY <2>1 DEF Outside
    <3> QED BY <3>1, <3>2, OutsideType
  <2>2. CASE DeliverWebhook(w) \/ ReconcileNext(w)
    <3>1. w \in sent /\ Process(w) /\ batch' \subseteq batch
      BY <2>2 DEF DeliverWebhook, ReconcileNext, TypeOK
    <3> QED BY <3>1, ProcessType
  <2> QED BY <1>6, <2>1, <2>2 DEF WebhookStep
<1>7. CASE Crash
  <2>1. /\ worker' = Idle /\ crashes < MaxCrashes /\ crashes' = crashes + 1 /\ batch' = {}
        /\ UNCHANGED <<commands, events, saga, expiries, payment, payin, ref, journals, announced,
                       written, provider, sent, stored, applied>>
    BY <1>7 DEF Crash, Stop, sagaVars, rowVars, providerVars, webhookVars
  <2>2. crashes' \in 0..MaxCrashes
    BY <2>1, PayinWorkflowAssumption DEF TypeOK
  <2>3. /\ worker' \in [pc : {"idle", "call", "record", "apply"},
                        result : ExecutionStatuses \cup {"none", "rejected", "unknown"}]
        /\ WorkerInv'
    BY <2>1 DEF At, Idle, WorkerInv
  <2> QED BY <2>1, <2>2, <2>3 DEF TypeOK, SagaTypeOK
<1>8. CASE LoadBatch
  <2>1. UNCHANGED <<commands, events, saga, expiries, payment, payin, ref, journals, announced, written,
                    worker, provider, sent, stored, applied, crashes>>
    BY <1>8 DEF LoadBatch, sagaVars, rowVars, providerVars
  <2>2. batch' \subseteq stored
    BY <1>8 DEF LoadBatch, Unreconciled
  <2> QED BY <2>1, <2>2 DEF TypeOK, SagaTypeOK, WorkerInv
<1> QED BY <1>1, <1>2, <1>3, <1>4, <1>5, <1>6, <1>7, <1>8 DEF Next, Outside

-----------------------------------------------------------------------------
(* Steps that leave a pay-in alone. *)

\* No command or event of p is new, and the order stays.
CommandsKept(p) ==
  /\ Has(commands', Booking(p)) => Has(commands, Booking(p))
  /\ Has(commands', Trial(p)) => Has(commands, Trial(p))
  /\ Has(commands', Failure(p)) => Has(commands, Failure(p))
  /\ Has(commands', Overwriting(p)) => Has(commands, Overwriting(p))
  /\ Unique(commands, Trial(p)) => Unique(commands', Trial(p))
  /\ NoneAfter(commands, Msg("payin.ledger.record", p), Overwriting(p))
       => NoneAfter(commands', Msg("payin.ledger.record", p), Overwriting(p))

EventsKept(p) ==
  /\ Has(events', Approval(p)) => Has(events, Approval(p))
  /\ Has(events', Receipt(p)) => Has(events, Receipt(p))
  /\ Has(events', Success(p)) => Has(events, Success(p))
  /\ Unique(events, Approval(p)) => Unique(events', Approval(p))

\* Taking a command, or adding one of another pay-in.
LEMMA KeepCommands ==
  ASSUME TypeOK, NEW q \in Payins,
         \/ UNCHANGED commands
         \/ commands # <<>> /\ commands' = Tail(commands)
         \/ \E p \in Payins \ {q}, type \in CommandTypes : commands' = Append(commands, Msg(type, p))
  PROVE  CommandsKept(q)
<1>0. commands \in Seq(Message(CommandTypes))
  BY DEF TypeOK, SagaTypeOK
<1>1. CASE UNCHANGED commands
  BY <1>1 DEF CommandsKept
<1>2. CASE commands # <<>> /\ commands' = Tail(commands)
  BY <1>0, <1>2, TailTopic, TailOrder DEF CommandsKept
<1>3. ASSUME NEW p \in Payins \ {q}, NEW type \in CommandTypes, commands' = Append(commands, Msg(type, p))
      PROVE  CommandsKept(q)
  <2>1. PICK m \in Message(CommandTypes) : m = Msg(type, p)
    BY DEF Msg, Message
  <2>2. m \notin Booking(q) /\ m \notin Trial(q) /\ m \notin Failure(q) /\ m \notin Overwriting(q)
    BY <2>1, Messages
  <2> QED BY <1>0, <1>3, <2>1, <2>2, AppendTopic, AppendOrder DEF CommandsKept
<1> QED BY <1>1, <1>2, <1>3

\* Taking an event, or adding one of another pay-in or without consequence.
LEMMA KeepEvents ==
  ASSUME TypeOK, NEW q \in Payins,
         \/ UNCHANGED events
         \/ events # <<>> /\ events' = Tail(events)
         \/ \E p \in Payins, type \in EventTypes :
              /\ p # q \/ type \notin {"payin.policy.approved", "payin.received", "payin.succeeded"}
              /\ events' = Append(events, Msg(type, p))
  PROVE  EventsKept(q)
<1>0. events \in Seq(Message(EventTypes))
  BY DEF TypeOK, SagaTypeOK
<1>1. CASE UNCHANGED events
  BY <1>1 DEF EventsKept
<1>2. CASE events # <<>> /\ events' = Tail(events)
  BY <1>0, <1>2, TailTopic DEF EventsKept
<1>3. ASSUME NEW p \in Payins, NEW type \in EventTypes, events' = Append(events, Msg(type, p)),
             p # q \/ type \notin {"payin.policy.approved", "payin.received", "payin.succeeded"}
      PROVE  EventsKept(q)
  <2>1. PICK m \in Message(EventTypes) : m = Msg(type, p)
    BY DEF Msg, Message
  <2>2. m \notin Approval(q) /\ m \notin Receipt(q) /\ m \notin Success(q)
    BY <1>3, <2>1, Messages
  <2> QED BY <1>0, <1>3, <2>1, <2>2, AppendTopic DEF EventsKept
<1> QED BY <1>1, <1>2, <1>3

\* The rows and the saga of p stay, and nothing about it is learned that has not
\* been reported.
Still(p) ==
  /\ saga'[p] = saga[p] /\ payment'[p] = payment[p] /\ payin'[p] = payin[p]
  /\ announced'[p] = announced[p] /\ journals'[p] = journals[p] /\ (p \in ref' <=> p \in ref)

Watched(p) ==
  /\ sent \subseteq sent' /\ (expiries' = 0 => expiries = 0)
  /\ provider'[p] = "completed" => provider[p] = "completed" \/ Reported(p, "completed")'
  /\ worker'.pc = "call" /\ OnExecute(p)' => payin'[p] = "submission_pending"
  /\ worker'.pc = "apply" /\ OnExecute(p)' /\ worker'.result = "succeeded" => Reported(p, "completed")'

\* What was reported stays reported.
LEMMA ReportsStay ==
  ASSUME sent \subseteq sent', NEW p
  PROVE  /\ Reported(p, "completed") => Reported(p, "completed")'
         /\ Overruled(p) => Overruled(p)'
BY DEF Reported, Overruled

\* Such a step keeps what is known of the pay-in.
LEMMA StillInv ==
  ASSUME NEW p \in Payins, PayinInv(p), Still(p), Watched(p), CommandsKept(p), EventsKept(p)
  PROVE  PayinInv(p)'
<1>1. StatusInv(p)'
  BY DEF PayinInv, StatusInv, Still, Watched
<1>2. ReportInv(p)'
  <2>1. Seen(p)' => Seen(p) \/ Reported(p, "completed")'
    BY DEF Seen, Still, Watched
  <2>2. Reported(p, "completed") => Reported(p, "completed")'
    BY ReportsStay DEF Watched
  <2> QED BY <2>1, <2>2 DEF PayinInv, ReportInv
<1>3. QueueInv(p)'
  BY DEF PayinInv, QueueInv, Still, CommandsKept, EventsKept
<1>4. ASSUME expiries' = 0 PROVE TokenInv(p)' /\ OutcomeInv(p)'
  <2>1. TokenInv(p) /\ OutcomeInv(p)
    BY <1>4 DEF PayinInv, Watched
  <2>2. TokenInv(p)'
    BY <2>1 DEF TokenInv, Still, CommandsKept, EventsKept
  <2>3. Overruled(p) => Overruled(p)'
    BY ReportsStay DEF Watched
  <2>4. OutcomeInv(p)'
    BY <2>1, <2>3 DEF OutcomeInv, Still, CommandsKept, EventsKept
  <2> QED BY <2>2, <2>4
<1> QED BY <1>1, <1>2, <1>3, <1>4 DEF PayinInv

-----------------------------------------------------------------------------
(* The invariant, step by step. *)

\* It holds before the first pay-in is created.
LEMMA InitInv == Init => IInv
<1> SUFFICES ASSUME Init PROVE IInv
  OBVIOUS
<1>1. TypeOK
  BY PayinSagaAssumption, PayinWorkflowAssumption
  DEF Init, SagaInit, TypeOK, SagaTypeOK, SagaStates, PaymentStatuses, Idle, At
<1>2. WorkerInv
  BY DEF Init, WorkerInv, Idle, At
<1>3. ASSUME NEW p \in Payins PROVE PayinInv(p)
  <2>1. /\ payment[p] = "none" /\ payin[p] = "none" /\ p \notin ref /\ journals[p] = {}
        /\ announced[p] = {} /\ provider[p] = "none" /\ saga[p] = "none" /\ worker.pc = "idle"
        /\ commands = <<>> /\ events = <<>>
    BY DEF Init, SagaInit, Idle, At
  <2>2. StatusInv(p) /\ ReportInv(p)
    BY <2>1 DEF StatusInv, ReportInv, Seen, Submittable
  <2>3. QueueInv(p) /\ TokenInv(p) /\ OutcomeInv(p)
    BY <2>1, EmptyTopic DEF QueueInv, TokenInv, OutcomeInv
  <2> QED BY <2>2, <2>3 DEF PayinInv
<1> QED BY <1>1, <1>2, <1>3 DEF IInv

\* The worker's command stays at the head of the topic while it is busy.
LEMMA HeadStays ==
  ASSUME TypeOK, WorkerInv, worker' = worker, NEW q,
         commands' = commands \/ \E p, type : commands' = Append(commands, Msg(type, p))
  PROVE  worker'.pc # "idle" => (OnExecute(q)' <=> OnExecute(q))
<1> SUFFICES ASSUME commands # <<>> PROVE OnExecute(q)' <=> OnExecute(q)
  BY DEF WorkerInv
<1>1. commands \in Seq(Message(CommandTypes))
  BY DEF TypeOK, SagaTypeOK
<1>2. commands' # <<>> /\ Head(commands') = Head(commands)
  BY <1>1
<1> QED BY <1>2 DEF OnExecute, AtHead

\* What the worker and the provider do while the worker stays where it is.
LEMMA WatchedStays ==
  ASSUME IInv, NEW q \in Payins, UNCHANGED <<worker, provider>>, sent \subseteq sent',
         expiries' = 0 => expiries = 0, payin'[q] = payin[q],
         commands' = commands \/ \E p, type : commands' = Append(commands, Msg(type, p))
  PROVE  Watched(q)
<1>1. TypeOK /\ WorkerInv /\ PayinInv(q)
  BY DEF IInv
<1>2. worker'.pc # "idle" => (OnExecute(q)' <=> OnExecute(q))
  BY <1>1, HeadStays
<1>3. StatusInv(q) /\ ReportInv(q)
  BY <1>1 DEF PayinInv
<1>4. worker.pc = "call" /\ OnExecute(q)' => payin'[q] = "submission_pending"
  BY <1>2, <1>3 DEF StatusInv
<1>5. worker.pc = "apply" /\ OnExecute(q)' /\ worker.result = "succeeded" => Reported(q, "completed")'
  BY <1>2, <1>3, ReportsStay DEF ReportInv, Seen
<1> QED BY <1>4, <1>5 DEF Watched

\* An idle worker holds nothing.
LEMMA WatchedIdle ==
  ASSUME NEW q \in Payins, worker' = Idle, UNCHANGED provider, sent \subseteq sent',
         expiries' = 0 => expiries = 0
  PROVE  Watched(q)
<1>1. worker'.pc = "idle"
  BY DEF Idle, At
<1> QED BY <1>1 DEF Watched

\* Calls, the provider's steps and stops.
LEMMA OutsideInv ==
  ASSUME IInv, NEW p \in Payins, Outside(p), NEW q \in Payins
  PROVE  PayinInv(q)'
<1>1. TypeOK /\ WorkerInv /\ PayinInv(q) /\ PayinInv(p)
  BY DEF IInv
<1>2. /\ UNCHANGED <<commands, events, saga, expiries, payment, payin, ref, journals, announced,
                     written, stored, applied>>
      /\ sent \subseteq sent'
      /\ \A r \in Payins :
           provider'[r] = provider[r] \/ [payin |-> r, status |-> provider'[r]] \in sent'
      /\ \/ worker' = worker \/ worker' = Idle
         \/ /\ commands # <<>> /\ OnExecute(p)
            /\ \/ worker' = At("record", "unknown") \/ worker' = At("record", "rejected")
               \/ worker' = At("apply", mapPayinStatus(provider'[p]))
  BY <1>1, OutsideSteps
<1>3. Still(q) /\ CommandsKept(q) /\ EventsKept(q)
  BY <1>1, <1>2, KeepCommands, KeepEvents DEF Still
<1>4. \A r \in Payins : provider'[r] = "completed" => Reported(r, "completed")'
  <2>1. \A r \in Payins : provider[r] = "completed" => Reported(r, "completed")
    BY DEF IInv, PayinInv, ReportInv, Seen
  <2> QED BY <1>2, <2>1 DEF Reported
<1>5. OnExecute(q)' <=> OnExecute(q)
  BY <1>2 DEF OnExecute, AtHead
<1>6. OnExecute(p) /\ OnExecute(q) => q = p
  BY DEF OnExecute, AtHead, Msg
<1>7. worker'.pc = "call" => worker' = worker
  BY <1>2 DEF Idle, At
<1>8. worker'.pc = "apply" /\ OnExecute(q)' /\ worker'.result = "succeeded" => Reported(q, "completed")'
  <2>1. CASE worker' = worker
    BY <1>1, <1>2, <1>5, <2>1, ReportsStay DEF PayinInv, ReportInv, Seen
  <2>2. CASE OnExecute(p) /\ worker' = At("apply", mapPayinStatus(provider'[p]))
    <3>1. mapPayinStatus(provider'[p]) = "succeeded" => provider'[p] = "completed"
      BY DEF mapPayinStatus
    <3> QED BY <1>4, <1>5, <1>6, <2>2, <3>1 DEF At
  <2>3. CASE worker' \in {Idle, At("record", "unknown"), At("record", "rejected")}
    BY <2>3 DEF Idle, At
  <2> QED BY <1>2, <2>1, <2>2, <2>3
<1>9. worker'.pc = "call" /\ OnExecute(q)' => payin'[q] = "submission_pending"
  BY <1>1, <1>2, <1>5, <1>7 DEF PayinInv, StatusInv
<1>10. Watched(q)
  BY <1>2, <1>4, <1>8, <1>9 DEF Watched
<1> QED BY <1>1, <1>3, <1>10, StillInv

\* A new pay-in.
LEMMA CreateInv ==
  ASSUME IInv, NEW p \in Payins, CreatePayin(p), NEW q \in Payins
  PROVE  PayinInv(q)'
<1>1. TypeOK /\ WorkerInv /\ PayinInv(q)
  BY DEF IInv
<1>2. /\ payment[p] = "none"
      /\ payment' = [payment EXCEPT ![p] = "created"] /\ payin' = [payin EXCEPT ![p] = "created"]
      /\ events' = Append(events, Msg("payin.created", p))
      /\ announced' = [announced EXCEPT ![p] = announced[p] \cup {"payment.created"}]
      /\ UNCHANGED <<commands, saga, expiries, ref, journals, written, worker, provider, sent>>
  BY DEF CreatePayin, Announce, sagaVars, providerVars, webhookVars
<1>3. CommandsKept(q) /\ EventsKept(q)
  BY <1>1, <1>2, KeepCommands, KeepEvents DEF EventTypes
<1>4. CASE q # p
  <2>1. Still(q)
    BY <1>1, <1>2, <1>4 DEF Still, TypeOK
  <2>2. Watched(q)
    BY <1>2, <2>1, WatchedStays DEF Still
  <2> QED BY <1>1, <1>3, <2>1, <2>2, StillInv
<1>5. CASE q = p
  <2>1. /\ payment'[p] = "created" /\ payin'[p] = "created" /\ announced'[p] = {"payment.created"}
        /\ p \notin ref /\ announced[p] = {}
    BY <1>1, <1>2, <1>5 DEF TypeOK, PayinInv, StatusInv
  <2>2. StatusInv(p)'
    <3>1. ~(worker.pc = "call" /\ OnExecute(p)')
      BY <1>1, <1>2, <1>5 DEF PayinInv, StatusInv, OnExecute, AtHead, Submittable
    <3> QED BY <1>2, <2>1, <3>1 DEF StatusInv
  <2>3. ReportInv(p)'
    BY <1>1, <1>2, <1>5, <2>1 DEF PayinInv, ReportInv, Seen, Reported, OnExecute, AtHead
  <2>4. QueueInv(p)'
    BY <1>1, <1>2, <1>3, <1>5, <2>1 DEF PayinInv, QueueInv, CommandsKept, EventsKept
  <2>5. expiries' = 0 => TokenInv(p)' /\ OutcomeInv(p)'
    BY <1>1, <1>2, <1>3, <1>5, <2>1 DEF PayinInv, TokenInv, OutcomeInv, CommandsKept, EventsKept
  <2> QED BY <1>5, <2>2, <2>3, <2>4, <2>5 DEF PayinInv
<1> QED BY <1>4, <1>5

\* What the coordinator enqueues for p: overwriting commands only before the
\* receipt, and while no deadline has passed a trial only instead of another one.
GoodCommand(p, to, command) ==
  /\ command = "payin.ledger.record" => to \in Late
  /\ command \in {"payin.policy.evaluate", "payin.execute", "payin.fail"} => saga[p] \notin Late
  /\ expiries' = 0 =>
       /\ expiries = 0 /\ command # "payin.fail"
       /\ command \in {"payin.policy.evaluate", "payin.execute"} =>
            /\ ~Has(commands, Trial(p)) /\ ~Has(events', Approval(p))
            /\ p \notin ref /\ "payment.failed" \notin announced[p]
       /\ command = "payin.ledger.record" =>
            p \in ref /\ (payin[p] = "received" \/ Overruled(p))

\* Such a step of the saga keeps what is known of its pay-in.
LEMMA MoveOwn ==
  ASSUME IInv, NEW p \in Payins, NEW to \in SagaStates \ {"none"},
         NEW command \in CommandTypes \cup {NoCommand},
         saga'[p] = to, enqueueCommand(p, command), GoodCommand(p, to, command), EventsKept(p),
         UNCHANGED <<payment, payin, ref, journals, announced, worker, provider, sent>>,
         saga[p] \in Late => to \in Late, to = "completed" => payment[p] = "succeeded"
  PROVE  PayinInv(p)'
<1>1. /\ TypeOK /\ WorkerInv /\ PayinInv(p) /\ StatusInv(p) /\ ReportInv(p) /\ QueueInv(p)
      /\ commands \in Seq(Message(CommandTypes))
      /\ (expiries' = 0 => TokenInv(p) /\ OutcomeInv(p))
  BY DEF IInv, PayinInv, TypeOK, SagaTypeOK, GoodCommand
<1>2. commands' = commands \/ \E r, type : commands' = Append(commands, Msg(type, r))
  BY DEF enqueueCommand
<1>3. Watched(p)
  BY <1>2, WatchedStays DEF GoodCommand
<1>4. StatusInv(p)' /\ ReportInv(p)'
  BY <1>1, <1>3, ReportsStay DEF StatusInv, ReportInv, Seen, Watched
<1>5. Overruled(p) => Overruled(p)'
  BY ReportsStay
<1>6. CASE command = NoCommand
  <2>1. commands' = commands
    BY <1>6 DEF enqueueCommand
  <2>2. QueueInv(p)'
    BY <1>1, <2>1 DEF QueueInv, EventsKept
  <2>3. expiries' = 0 => TokenInv(p)' /\ OutcomeInv(p)'
    BY <1>1, <1>5, <2>1 DEF TokenInv, OutcomeInv, EventsKept
  <2> QED BY <1>4, <2>2, <2>3 DEF PayinInv
<1>7. CASE command # NoCommand
  <2>1. PICK m \in Message(CommandTypes) : m = Msg(command, p)
    BY <1>7 DEF Msg, Message
  <2>2. commands' = Append(commands, m)
    BY <1>7, <2>1 DEF enqueueCommand
  <2>3. /\ m \in Booking(p) <=> command = "payin.ledger.record"
        /\ m \in Trial(p) <=> command \in {"payin.policy.evaluate", "payin.execute"}
        /\ m \in Failure(p) <=> command = "payin.fail"
        /\ m \in Overwriting(p) <=> command \in {"payin.policy.evaluate", "payin.execute", "payin.fail"}
    BY <2>1, Messages
  <2>4. /\ Has(commands', Booking(p)) <=> Has(commands, Booking(p)) \/ m \in Booking(p)
        /\ Has(commands', Trial(p)) <=> Has(commands, Trial(p)) \/ m \in Trial(p)
        /\ Has(commands', Failure(p)) <=> Has(commands, Failure(p)) \/ m \in Failure(p)
        /\ Has(commands', Overwriting(p)) <=> Has(commands, Overwriting(p)) \/ m \in Overwriting(p)
        /\ Unique(commands, Trial(p)) /\ ~(Has(commands, Trial(p)) /\ m \in Trial(p))
             => Unique(commands', Trial(p))
    BY <1>1, <2>2, AppendTopic
  <2>5. NoneAfter(commands', Msg("payin.ledger.record", p), Overwriting(p))
    <3>1. Has(commands, Booking(p)) => m \notin Overwriting(p)
      BY <1>1, <2>3 DEF QueueInv, GoodCommand
    <3>2. Booking(p) = {Msg("payin.ledger.record", p)}
      BY DEF Booking
    <3>3. NoneAfter(commands, Msg("payin.ledger.record", p), Overwriting(p))
      BY <1>1 DEF QueueInv
    <3> QED BY <1>1, <2>2, <3>1, <3>2, <3>3, AppendOrder
  <2>6. QueueInv(p)'
    BY <1>1, <2>3, <2>4, <2>5 DEF QueueInv, EventsKept, GoodCommand
  <2>7. ASSUME expiries' = 0 PROVE TokenInv(p)' /\ OutcomeInv(p)'
    <3>1. TokenInv(p) /\ OutcomeInv(p)
      BY <1>1, <2>7
    <3>2. TokenInv(p)'
      BY <2>3, <2>4, <2>7, <3>1 DEF TokenInv, EventsKept, GoodCommand
    <3>3. OutcomeInv(p)'
      BY <1>5, <2>3, <2>4, <2>7, <3>1 DEF OutcomeInv, EventsKept, GoodCommand
    <3> QED BY <3>2, <3>3
  <2> QED BY <1>4, <2>6, <2>7 DEF PayinInv
<1> QED BY <1>6, <1>7

\* For the other pay-ins it is as if nothing happened.
LEMMA MoveOthers ==
  ASSUME IInv, NEW p \in Payins, NEW command \in CommandTypes \cup {NoCommand}, NEW q \in Payins,
         q # p, saga'[q] = saga[q], enqueueCommand(p, command), EventsKept(q),
         expiries' = 0 => expiries = 0,
         UNCHANGED <<payment, payin, ref, journals, announced, worker, provider, sent>>
  PROVE  PayinInv(q)'
<1>1. TypeOK /\ PayinInv(q)
  BY DEF IInv
<1>2. \/ commands' = commands
      \/ commands' = Append(commands, Msg(command, p)) /\ command \in CommandTypes
  BY DEF enqueueCommand
<1>3. CommandsKept(q)
  BY <1>1, <1>2, KeepCommands
<1>4. Still(q)
  BY DEF Still
<1>5. Watched(q)
  BY <1>2, WatchedStays
<1> QED BY <1>1, <1>3, <1>4, <1>5, StillInv

\* The coordinator's steps.
LEMMA CoordinatorInv ==
  ASSUME IInv, SagaStep \/ \E p \in Payins : SagaExpiry(p), NEW q \in Payins
  PROVE  PayinInv(q)'
<1>1. TypeOK /\ PayinInv(q) /\ saga \in [Payins -> SagaStates]
  BY DEF IInv, TypeOK, SagaTypeOK
<1>2. UNCHANGED <<payment, payin, ref, journals, announced, worker, provider, sent>>
  BY DEF SagaStep, SagaExpiry, rowVars, providerVars, webhookVars
<1>3. CASE Handle
  <2>1. /\ events # <<>> /\ events' = Tail(events) /\ UNCHANGED expiries
        /\ \/ UNCHANGED <<saga, commands>>
           \/ \E p \in Payins, type \in EventTypes :
                /\ Head(events) = Msg(type, p)
                /\ \E to, command : /\ Move(saga[p], type, to, command)
                                    /\ saga' = [saga EXCEPT ![p] = to]
                                    /\ enqueueCommand(p, command)
    BY <1>1, <1>3, HandleMoves
  <2>2. EventsKept(q)
    BY <1>1, <2>1, KeepEvents
  <2>3. CASE UNCHANGED <<saga, commands>>
    <3>1. CommandsKept(q) /\ Still(q)
      BY <1>1, <1>2, <2>3, KeepCommands DEF Still
    <3>2. Watched(q)
      BY <1>2, <2>1, <2>3, WatchedStays
    <3> QED BY <1>1, <2>2, <3>1, <3>2, StillInv
  <2>4. ASSUME NEW p \in Payins, NEW type \in EventTypes, Head(events) = Msg(type, p),
               NEW to, NEW command, Move(saga[p], type, to, command),
               saga' = [saga EXCEPT ![p] = to], enqueueCommand(p, command)
        PROVE  PayinInv(q)'
    <3>1. to \in SagaStates \ {"none"} /\ command \in CommandTypes \cup {NoCommand}
      BY <2>4, MoveType
    <3>2. CASE q # p
      <4>1. saga'[q] = saga[q]
        BY <1>1, <2>4, <3>2
      <4> QED BY <1>2, <2>1, <2>2, <2>4, <3>1, <3>2, <4>1, MoveOthers
    <3>3. CASE q = p
      <4>0. saga'[p] = to
        BY <1>1, <2>4
      <4>1. PICK m : m = Head(events) /\ m = Msg(type, p)
        BY <2>4
      <4>2. events \in Seq(Message(EventTypes))
        BY <1>1 DEF TypeOK, SagaTypeOK
      <4>3. /\ type = "payin.policy.approved" => Has(events, Approval(p))
            /\ type = "payin.received" => Has(events, Receipt(p))
            /\ type = "payin.succeeded" => Has(events, Success(p))
            /\ type = "payin.policy.approved" /\ Unique(events, Approval(p)) => ~Has(events', Approval(p))
        BY <2>1, <4>1, <4>2, TailTopic, Messages
      <4>4. QueueInv(p) /\ (expiries = 0 => TokenInv(p) /\ OutcomeInv(p))
        BY <1>1, <3>3 DEF PayinInv
      <4>5. ~Has(commands, Overwriting(p)) => ~Has(commands, Trial(p))
        BY DEF Has, Overwriting
      <4>6. (saga[p] \in Late => to \in Late) /\ (to = "completed" => payment[p] = "succeeded")
        BY <2>4, <4>3, <4>4 DEF Move, Late, Closed, Executing, QueueInv
      <4>7. GoodCommand(p, to, command)
        <5>1. command \in {"payin.policy.evaluate", "payin.execute", "payin.fail"} => saga[p] \notin Late
          BY <2>4 DEF Move, Late, Closed, NoCommand
        <5>2. command = "payin.ledger.record" => to \in Late /\ type = "payin.received"
          BY <2>4 DEF Move, Late, NoCommand
        <5>3. command # "payin.fail"
          BY <2>4 DEF Move, NoCommand
        <5>4. command = "payin.policy.evaluate" => saga[p] = "none"
          BY <2>4 DEF Move, NoCommand
        <5>5. command = "payin.execute" => type = "payin.policy.approved"
          BY <2>4 DEF Move, NoCommand
        <5>6. expiries = 0 /\ command = "payin.policy.evaluate" =>
                /\ ~Has(commands, Trial(p)) /\ ~Has(events', Approval(p))
                /\ p \notin ref /\ "payment.failed" \notin announced[p]
          BY <2>2, <3>3, <4>4, <4>5, <5>4 DEF QueueInv, EventsKept
        <5>7. expiries = 0 /\ command = "payin.execute" =>
                /\ ~Has(commands, Trial(p)) /\ ~Has(events', Approval(p))
                /\ p \notin ref /\ "payment.failed" \notin announced[p]
          BY <4>3, <4>4, <5>5 DEF TokenInv
        <5>8. expiries = 0 /\ command = "payin.ledger.record" =>
                p \in ref /\ (payin[p] = "received" \/ Overruled(p))
          BY <4>3, <4>4, <5>2 DEF OutcomeInv
        <5> QED BY <2>1, <5>1, <5>2, <5>3, <5>6, <5>7, <5>8 DEF GoodCommand
      <4> QED BY <1>2, <2>2, <2>4, <3>1, <3>3, <4>0, <4>6, <4>7, MoveOwn
    <3> QED BY <3>2, <3>3
  <2> QED BY <2>1, <2>3, <2>4
<1>4. ASSUME NEW p \in Payins, ExpireOnce(p) PROVE PayinInv(q)'
  <2>1. PICK command \in CommandTypes \cup {NoCommand} : command = ExpiryCommand(saga[p])
    BY DEF ExpiryCommand, CommandTypes
  <2>2. /\ saga[p] \in Active /\ enqueueCommand(p, command) /\ expiries' = expiries + 1
        /\ UNCHANGED <<saga, events>>
    BY <1>4, <2>1 DEF ExpireOnce
  <2>3. expiries' # 0
    BY <1>1, <2>2 DEF TypeOK, SagaTypeOK
  <2>4. EventsKept(q)
    BY <1>1, <2>2, KeepEvents
  <2>5. CASE q # p
    BY <1>2, <2>2, <2>3, <2>4, <2>5, MoveOthers
  <2>6. CASE q = p
    <3>1. GoodCommand(p, saga[p], command)
      BY <2>1, <2>2, <2>3 DEF GoodCommand, ExpiryCommand, Late, Closed, Active, Executing
    <3>2. saga[p] \in SagaStates \ {"none"} /\ saga'[p] = saga[p]
      BY <1>1, <2>2 DEF Active, Executing
    <3>3. saga[p] = "completed" => payment[p] = "succeeded"
      BY <1>1, <2>6 DEF PayinInv, QueueInv
    <3> QED BY <1>2, <2>2, <2>4, <2>6, <3>1, <3>2, <3>3, MoveOwn
  <2> QED BY <2>5, <2>6
<1> QED BY <1>3, <1>4 DEF SagaStep, SagaExpiry

\* What a new event of p adds to the topic.
LEMMA NewEvent ==
  ASSUME TypeOK, NEW p \in Payins, NEW type \in EventTypes,
         events' = events \/ events' = Append(events, Msg(type, p))
  PROVE  /\ \A q \in Payins : q # p => EventsKept(q)
         /\ Has(events', Approval(p)) => Has(events, Approval(p)) \/ type = "payin.policy.approved"
         /\ Has(events', Receipt(p)) => Has(events, Receipt(p)) \/ type = "payin.received"
         /\ Has(events', Success(p)) => Has(events, Success(p)) \/ type = "payin.succeeded"
         /\ Unique(events, Approval(p)) /\ (type = "payin.policy.approved" => ~Has(events, Approval(p)))
              => Unique(events', Approval(p))
<1>1. \A q \in Payins : q # p => EventsKept(q)
  BY KeepEvents
<1>2. PICK m \in Message(EventTypes) : m = Msg(type, p)
  BY DEF Msg, Message
<1>3. /\ m \in Approval(p) <=> type = "payin.policy.approved"
      /\ m \in Receipt(p) <=> type = "payin.received"
      /\ m \in Success(p) <=> type = "payin.succeeded"
  BY <1>2, Messages
<1>4. events \in Seq(Message(EventTypes))
  BY DEF TypeOK, SagaTypeOK
<1>5. CASE events' = events
  BY <1>1, <1>5
<1>6. CASE events' = Append(events, m)
  BY <1>1, <1>3, <1>4, <1>6, AppendTopic
<1> QED BY <1>2, <1>5, <1>6

\* A trial or a failure ends in ApplyResult: p is not succeeded, and while no
\* deadline has passed the token is used up.
LEMMA ApplyResultOwn ==
  ASSUME IInv, NEW p \in Payins, NEW result \in ExecutionStatuses, NEW referenced \in BOOLEAN,
         ApplyResult(p, result, referenced),
         commands # <<>>, Head(commands) \in Overwriting(p), commands' = Tail(commands), worker' = Idle,
         UNCHANGED <<saga, expiries, provider, sent>>,
         result = "succeeded" => referenced /\ Reported(p, "completed")
  PROVE  PayinInv(p)'
<1>1. /\ TypeOK /\ StatusInv(p) /\ ReportInv(p) /\ QueueInv(p)
      /\ (expiries' = 0 => TokenInv(p) /\ OutcomeInv(p))
      /\ commands \in Seq(Message(CommandTypes))
  BY DEF IInv, PayinInv, TypeOK, SagaTypeOK
<1>2. PICK status : status = normalizeResultStatus(result)
  OBVIOUS
<1>3. status \in Settled /\ (status = "received" <=> result = "succeeded")
  BY <1>2, ResultStatus DEF normalizeResultStatus, ExecutionStatuses
<1>4. PICK type \in EventTypes : type = EventType(status)
  BY <1>3, ResultStatus
<1>5. /\ type \notin {"payin.policy.approved", "payin.succeeded"}
      /\ type = "payin.received" => status = "received"
  BY <1>3, <1>4 DEF EventType, Settled
<1>6. /\ payin'[p] = status /\ payment'[p] \in {"failed", "processing"}
      /\ (p \in ref' <=> referenced) /\ announced'[p] = announced[p] \cup PublicType(status)
      /\ journals' = journals
      /\ events' = events \/ events' = Append(events, Msg(type, p))
  BY <1>1, <1>2, <1>4, ResultStatus DEF ApplyResult, Announce, WriteOnce, TypeOK
<1>7. /\ "payment.succeeded" \notin PublicType(status)
      /\ "payment.failed" \in PublicType(status) => status = "failed"
  BY <1>3 DEF PublicType, Settled
<1>8. worker'.pc = "idle"
  BY DEF Idle, At
<1>9. Has(commands, Overwriting(p)) /\ CommandsKept(p)
  BY <1>1, TailTopic, KeepCommands
<1>10. payment[p] # "succeeded" /\ saga[p] # "none"
  BY <1>1, <1>9 DEF QueueInv
<1>11. /\ Has(events', Approval(p)) => Has(events, Approval(p))
       /\ Has(events', Receipt(p)) => Has(events, Receipt(p)) \/ status = "received"
       /\ Has(events', Success(p)) => Has(events, Success(p))
       /\ Unique(events, Approval(p)) => Unique(events', Approval(p))
  BY <1>1, <1>5, <1>6, NewEvent
<1>12. StatusInv(p)'
  BY <1>1, <1>3, <1>6, <1>7, <1>8, <1>10 DEF StatusInv, Settled, Submittable
<1>13. ReportInv(p)'
  <2>1. Seen(p)' => Reported(p, "completed")
    BY <1>1, <1>3, <1>6, <1>8 DEF ReportInv, Seen
  <2> QED BY <2>1 DEF ReportInv, Reported
<1>14. QueueInv(p)'
  BY <1>1, <1>6, <1>9, <1>10, <1>11 DEF QueueInv, CommandsKept
<1>15. ASSUME expiries' = 0 PROVE TokenInv(p)' /\ OutcomeInv(p)'
  <2>1. TokenInv(p) /\ OutcomeInv(p)
    BY <1>1, <1>15
  <2>2. Head(commands) \in Trial(p)
    <3>1. Head(commands) \in Failure(p) => Has(commands, Failure(p))
      BY <1>1, TailTopic
    <3> QED BY <2>1, <3>1 DEF TokenInv, Overwriting
  <2>3. Has(commands, Trial(p)) /\ ~Has(commands', Trial(p))
    BY <1>1, <2>1, <2>2, TailTopic DEF TokenInv
  <2>4. /\ ~Has(events, Approval(p)) /\ p \notin ref /\ "payment.failed" \notin announced[p]
        /\ ~Has(events, Receipt(p)) /\ ~Has(commands, Booking(p))
    BY <2>1, <2>3 DEF TokenInv, OutcomeInv
  <2>5. TokenInv(p)'
    BY <1>9, <1>11, <2>1, <2>3, <2>4 DEF TokenInv, CommandsKept
  <2>6. "payment.succeeded" \notin announced[p]
    BY <1>1, <1>10 DEF StatusInv
  <2>7. OutcomeInv(p)'
    BY <1>3, <1>6, <1>7, <1>9, <1>11, <2>4, <2>6 DEF OutcomeInv, CommandsKept
  <2> QED BY <2>5, <2>7
<1> QED BY <1>12, <1>13, <1>14, <1>15 DEF PayinInv

\* The other pay-ins stay as they are.
LEMMA ApplyResultOthers ==
  ASSUME IInv, NEW p \in Payins, NEW result \in ExecutionStatuses, NEW referenced \in BOOLEAN,
         ApplyResult(p, result, referenced), commands # <<>>, commands' = Tail(commands), worker' = Idle,
         UNCHANGED <<saga, expiries, provider, sent>>, NEW q \in Payins, q # p
  PROVE  PayinInv(q)'
<1>1. TypeOK /\ PayinInv(q)
  BY DEF IInv
<1>2. PICK type \in EventTypes : events' = events \/ events' = Append(events, Msg(type, p))
  <2>1. normalizeResultStatus(result) \in Settled
    BY ResultStatus
  <2>2. EventType(normalizeResultStatus(result)) \in EventTypes
    BY <2>1, ResultStatus
  <2> QED BY <2>2 DEF ApplyResult, WriteOnce
<1>3. CommandsKept(q) /\ EventsKept(q)
  BY <1>1, <1>2, KeepCommands, NewEvent
<1>4. Still(q)
  BY <1>1 DEF ApplyResult, Announce, Still, TypeOK
<1>5. Watched(q)
  BY WatchedIdle
<1> QED BY <1>1, <1>3, <1>4, <1>5, StillInv

\* An approval passes the token on to the events.
LEMMA ApproveInv ==
  ASSUME IInv, NEW p \in Payins, NEW q \in Payins,
         commands # <<>>, Head(commands) = Msg("payin.policy.evaluate", p), commands' = Tail(commands),
         events' = Append(events, Msg("payin.policy.approved", p)), worker' = Idle,
         UNCHANGED <<saga, expiries, payment, payin, ref, journals, announced, provider, sent>>
  PROVE  PayinInv(q)'
<1>1. TypeOK /\ PayinInv(q) /\ commands \in Seq(Message(CommandTypes))
  BY DEF IInv, TypeOK, SagaTypeOK
<1>2. CommandsKept(q) /\ Still(q) /\ Watched(q)
  BY <1>1, KeepCommands, WatchedIdle DEF Still
<1>3. PICK type \in EventTypes : type = "payin.policy.approved"
  BY DEF EventTypes
<1>4. CASE q # p
  <2>1. EventsKept(q)
    BY <1>1, <1>3, <1>4, NewEvent
  <2> QED BY <1>1, <1>2, <2>1, StillInv
<1>5. CASE q = p
  <2>1. PICK m : m = Head(commands) /\ m = Msg("payin.policy.evaluate", p)
    OBVIOUS
  <2>2. m \in Trial(p) /\ m \in Overwriting(p)
    BY <2>1, Messages
  <2>3. /\ Has(commands, Trial(p)) /\ Has(commands, Overwriting(p))
        /\ Unique(commands, Trial(p)) => ~Has(commands', Trial(p))
    BY <1>1, <2>1, <2>2, TailTopic
  <2>4. /\ Has(events', Receipt(p)) => Has(events, Receipt(p))
        /\ Has(events', Success(p)) => Has(events, Success(p))
        /\ Unique(events, Approval(p)) /\ ~Has(events, Approval(p)) => Unique(events', Approval(p))
    BY <1>1, <1>3, NewEvent
  <2>5. /\ StatusInv(p) /\ ReportInv(p) /\ QueueInv(p)
        /\ (expiries' = 0 => TokenInv(p) /\ OutcomeInv(p))
    BY <1>1, <1>5 DEF PayinInv
  <2>6. saga[p] # "none"
    BY <2>3, <2>5 DEF QueueInv
  <2>7. worker'.pc = "idle"
    BY DEF Idle, At
  <2>8. StatusInv(p)'
    BY <2>5, <2>7 DEF StatusInv
  <2>9. ReportInv(p)'
    BY <2>5, <2>7 DEF ReportInv, Seen, Reported
  <2>10. QueueInv(p)'
    BY <1>2, <1>5, <2>4, <2>5, <2>6 DEF QueueInv, CommandsKept
  <2>11. ASSUME expiries' = 0 PROVE TokenInv(p)' /\ OutcomeInv(p)'
    <3>1. TokenInv(p) /\ OutcomeInv(p)
      BY <2>5, <2>11
    <3>2. TokenInv(p)'
      BY <1>2, <1>5, <2>3, <2>4, <3>1 DEF TokenInv, CommandsKept
    <3>3. Overruled(p) => Overruled(p)'
      BY ReportsStay
    <3>4. OutcomeInv(p)'
      BY <1>2, <1>5, <2>4, <3>1, <3>3 DEF OutcomeInv, CommandsKept
    <3> QED BY <3>2, <3>4
  <2> QED BY <1>5, <2>8, <2>9, <2>10, <2>11 DEF PayinInv
<1> QED BY <1>4, <1>5

\* A receipt is booked: the record command was at the head, so nothing that
\* overwrites the payment is left behind it.
LEMMA RecordInv ==
  ASSUME IInv, NEW p \in Payins, RecordPayin(p), NEW q \in Payins
  PROVE  PayinInv(q)'
<1>1. TypeOK /\ PayinInv(q) /\ commands \in Seq(Message(CommandTypes))
  BY DEF IInv, TypeOK, SagaTypeOK
<1>2. /\ commands # <<>> /\ Head(commands) = Msg("payin.ledger.record", p) /\ commands' = Tail(commands)
      /\ worker' = Idle /\ payin[p] = "received"
      /\ journals' = [journals EXCEPT ![p] = journals[p] \cup {"payin.succeeded"}]
      /\ payment' = [payment EXCEPT ![p] = "succeeded"]
      /\ events' = events \/ events' = Append(events, Msg("payin.succeeded", p))
      /\ announced' = [announced EXCEPT ![p] = announced[p] \cup {"payment.succeeded"}]
      /\ UNCHANGED <<payin, ref, saga, expiries, provider, sent>>
  BY DEF RecordPayin, Take, AtHead, WriteOnce, Announce, sagaVars, providerVars
<1>3. CommandsKept(q) /\ Watched(q)
  BY <1>1, <1>2, KeepCommands, WatchedIdle
<1>4. PICK type \in EventTypes : type = "payin.succeeded"
  BY DEF EventTypes
<1>5. CASE q # p
  <2>1. Still(q)
    BY <1>1, <1>2, <1>5 DEF Still, TypeOK
  <2>2. EventsKept(q)
    BY <1>1, <1>2, <1>4, <1>5, NewEvent
  <2> QED BY <1>1, <1>3, <2>1, <2>2, StillInv
<1>6. CASE q = p
  <2>1. /\ StatusInv(p) /\ ReportInv(p) /\ QueueInv(p)
        /\ (expiries' = 0 => TokenInv(p) /\ OutcomeInv(p))
    BY <1>1, <1>2, <1>6 DEF PayinInv
  <2>2. PICK m : m = Head(commands) /\ m = Msg("payin.ledger.record", p)
    BY <1>2
  <2>3. m \in Booking(p)
    BY <2>2, Messages
  <2>4. Has(commands, Booking(p)) /\ ~Has(commands', Overwriting(p))
    <3>1. NoneAfter(commands, m, Overwriting(p))
      BY <2>1, <2>2 DEF QueueInv
    <3> QED BY <1>1, <1>2, <2>2, <2>3, <3>1, TailTopic, TailOrder
  <2>5. /\ Has(events', Approval(p)) => Has(events, Approval(p))
        /\ Has(events', Receipt(p)) => Has(events, Receipt(p))
        /\ Unique(events, Approval(p)) => Unique(events', Approval(p))
    BY <1>1, <1>2, <1>4, NewEvent
  <2>6. /\ payment'[p] = "succeeded" /\ journals'[p] = journals[p] \cup {"payin.succeeded"}
        /\ announced'[p] = announced[p] \cup {"payment.succeeded"}
    BY <1>1, <1>2 DEF TypeOK
  <2>7. saga[p] \in Late /\ saga[p] # "none"
    BY <2>1, <2>4 DEF QueueInv, Late, Closed
  <2>8. worker'.pc = "idle"
    BY <1>2 DEF Idle, At
  <2>9. StatusInv(p)'
    BY <1>2, <2>6, <2>8 DEF StatusInv, Submittable
  <2>10. ReportInv(p)'
    BY <1>2, <2>1 DEF ReportInv, Seen, Reported
  <2>11. QueueInv(p)'
    BY <1>2, <1>3, <1>6, <2>1, <2>4, <2>6, <2>7 DEF QueueInv, CommandsKept
  <2>12. ASSUME expiries' = 0 PROVE TokenInv(p)' /\ OutcomeInv(p)'
    <3>1. TokenInv(p) /\ OutcomeInv(p)
      BY <2>1, <2>12
    <3>2. TokenInv(p)'
      BY <1>2, <1>3, <1>6, <2>5, <2>6, <3>1 DEF TokenInv, CommandsKept
    <3>3. OutcomeInv(p)'
      BY <1>2, <1>3, <1>6, <2>5, <2>6, <3>1 DEF OutcomeInv, CommandsKept
    <3> QED BY <3>2, <3>3
  <2> QED BY <1>6, <2>9, <2>10, <2>11, <2>12 DEF PayinInv
<1> QED BY <1>5, <1>6

\* The commands that are one transaction.
LEMMA TransactionInv ==
  ASSUME IInv, NEW p \in Payins, OneTransaction(p), NEW q \in Payins
  PROVE  PayinInv(q)'
<1>1. CASE RecordPayin(p)
  BY <1>1, RecordInv
<1>2. CASE PolicyEvaluate(p) \/ PayinFail(p)
  <2>1. PICK type \in {"payin.policy.evaluate", "payin.fail"} :
          /\ Take(type, p)
          /\ \/ ApplyResult(p, "failed", FALSE)
             \/ /\ type = "payin.policy.evaluate"
                /\ events' = Append(events, Msg("payin.policy.approved", p)) /\ UNCHANGED rowVars
    BY <1>2 DEF PolicyEvaluate, PayinFail
  <2>2. /\ commands # <<>> /\ Head(commands) = Msg(type, p) /\ commands' = Tail(commands)
        /\ worker' = Idle /\ UNCHANGED <<saga, expiries, provider, sent>>
    BY <2>1 DEF Take, AtHead, sagaVars, providerVars
  <2>3. CASE ApplyResult(p, "failed", FALSE)
    <3>1. PICK result \in ExecutionStatuses, referenced \in BOOLEAN :
            result = "failed" /\ referenced = FALSE
      BY DEF ExecutionStatuses
    <3>2. Head(commands) \in Overwriting(p)
      BY <2>2, Messages
    <3> QED BY <2>2, <2>3, <3>1, <3>2, ApplyResultOwn, ApplyResultOthers
  <2>4. CASE /\ type = "payin.policy.evaluate"
             /\ events' = Append(events, Msg("payin.policy.approved", p)) /\ UNCHANGED rowVars
    <3>1. UNCHANGED <<payment, payin, ref, journals, announced>>
      BY <2>4 DEF rowVars
    <3> QED BY <2>2, <2>4, <3>1, ApproveInv
  <2> QED BY <2>1, <2>3, <2>4
<1> QED BY <1>1, <1>2 DEF OneTransaction

\* An attempt is committed or its error recorded: only a pay-in that may be
\* submitted changes its status, and only the worker learns of it.
LEMMA AttemptInv ==
  ASSUME IInv, NEW p \in Payins, NEW q \in Payins, OnExecute(p),
         \/ payin' = payin
         \/ /\ payin[p] \in Submittable
            /\ \E status \in {"submission_pending", "unknown", "failed"} :
                 payin' = [payin EXCEPT ![p] = status],
         UNCHANGED <<commands, events, saga, expiries, payment, ref, journals, announced, provider, sent>>,
         worker'.pc = "call" => payin'[p] = "submission_pending",
         worker'.pc = "apply" /\ worker'.result = "succeeded" => Reported(p, "completed")
  PROVE  PayinInv(q)'
<1>1. /\ TypeOK /\ PayinInv(q) /\ StatusInv(q) /\ ReportInv(q) /\ QueueInv(q)
      /\ (expiries' = 0 => TokenInv(q) /\ OutcomeInv(q))
  BY DEF IInv, PayinInv
<1>2. OnExecute(q)' => q = p
  BY DEF OnExecute, AtHead, Msg
<1>3. Watched(q)
  BY <1>2, ReportsStay DEF Watched
<1>4. CommandsKept(q) /\ EventsKept(q)
  BY <1>1, KeepCommands, KeepEvents
<1>5. CASE payin'[q] = payin[q]
  <2>1. Still(q)
    BY <1>5 DEF Still
  <2> QED BY <1>1, <1>3, <1>4, <2>1, StillInv
<1>6. CASE payin'[q] # payin[q]
  <2>1. q = p /\ payin[q] \in Submittable /\ payin'[q] \in {"submission_pending", "unknown", "failed"}
    BY <1>1, <1>6 DEF TypeOK
  <2>2. payment[q] = "created" /\ "payment.failed" \notin announced[q] /\ q \notin ref
    BY <1>1, <2>1 DEF StatusInv
  <2>3. StatusInv(q)'
    BY <1>1, <1>3, <2>2 DEF StatusInv, Watched
  <2>4. ReportInv(q)'
    BY <1>1, <1>3, <2>1, ReportsStay DEF ReportInv, Seen, Watched
  <2>5. QueueInv(q)'
    BY <1>1 DEF QueueInv
  <2>6. expiries' = 0 => TokenInv(q)' /\ OutcomeInv(q)'
    BY <1>1, <2>2 DEF TokenInv, OutcomeInv
  <2> QED BY <2>3, <2>4, <2>5, <2>6 DEF PayinInv
<1> QED BY <1>5, <1>6

\* The steps of an execution.
LEMMA ExecutionInv ==
  ASSUME IInv, NEW p \in Payins, prepare(p) \/ recordError(p) \/ ApplyExecution(p), NEW q \in Payins
  PROVE  PayinInv(q)'
<1>1. TypeOK /\ WorkerInv /\ StatusInv(p) /\ ReportInv(p)
  BY DEF IInv, PayinInv
<1>2. CASE prepare(p)
  <2>1. /\ OnExecute(p)
        /\ UNCHANGED <<commands, events, saga, expiries, payment, ref, journals, announced, provider, sent>>
    BY <1>2 DEF prepare, OnExecute, sagaVars, providerVars
  <2>2. CASE worker' = At("apply", executionStatusFromPayin(payin[p])) /\ UNCHANGED payin
    <3>1. worker'.pc = "apply" /\ worker'.result = executionStatusFromPayin(payin[p])
      BY <2>2 DEF At
    <3>2. executionStatusFromPayin(payin[p]) = "succeeded" => payin[p] = "received"
      BY DEF executionStatusFromPayin
    <3>3. payin[p] = "received" => Reported(p, "completed")
      BY <1>1 DEF ReportInv, Seen
    <3> QED BY <2>1, <2>2, <3>1, <3>2, <3>3, AttemptInv
  <2>3. CASE /\ payin[p] \in Submittable /\ payin' = [payin EXCEPT ![p] = "submission_pending"]
             /\ worker' = At("call", "none")
    <3>1. worker'.pc = "call" /\ payin'[p] = "submission_pending"
      BY <1>1, <2>3 DEF At, TypeOK
    <3> QED BY <2>1, <2>3, <3>1, AttemptInv
  <2> QED BY <1>2, <2>2, <2>3 DEF prepare
<1>3. CASE recordError(p)
  <2>1. /\ OnExecute(p) /\ worker' \in {Idle, At("apply", "rejected")}
        /\ UNCHANGED <<commands, events, saga, expiries, payment, ref, journals, announced, provider, sent>>
    BY <1>3 DEF recordError, OnExecute, sagaVars, providerVars
  <2>2. \/ payin' = payin
        \/ /\ payin[p] \in Submittable
           /\ \E status \in {"submission_pending", "unknown", "failed"} :
                payin' = [payin EXCEPT ![p] = status]
    BY <1>3 DEF recordError, Submittable
  <2>3. worker'.pc # "call" /\ worker'.result # "succeeded"
    BY <2>1 DEF Idle, At
  <2> QED BY <2>1, <2>2, <2>3, AttemptInv
<1>4. CASE ApplyExecution(p)
  <2>1. /\ OnExecute(p) /\ worker.pc = "apply" /\ commands' = Tail(commands) /\ worker' = Idle
        /\ UNCHANGED <<saga, expiries, provider, sent>>
    BY <1>4 DEF ApplyExecution, OnExecute, sagaVars, providerVars
  <2>2. commands # <<>> /\ Head(commands) \in Overwriting(p)
    BY <2>1, Messages DEF OnExecute, AtHead
  <2>3. PICK result \in ExecutionStatuses, referenced \in BOOLEAN :
          /\ ApplyResult(p, result, referenced)
          /\ result = "succeeded" => referenced /\ worker.result = "succeeded"
    <3>1. CASE worker.result = "rejected"
      <4>1. ApplyResult(p, "failed", FALSE)
        BY <1>4, <3>1 DEF ApplyExecution
      <4>2. "failed" \in ExecutionStatuses /\ "failed" # "succeeded"
        BY DEF ExecutionStatuses
      <4> QED BY <4>1, <4>2
    <3>2. CASE worker.result # "rejected"
      <4>1. ApplyResult(p, worker.result, TRUE) /\ worker.result \in ExecutionStatuses
        BY <1>1, <1>4, <2>1, <3>2 DEF ApplyExecution, WorkerInv
      <4> QED BY <4>1
    <3> QED BY <3>1, <3>2
  <2>4. result = "succeeded" => referenced /\ Reported(p, "completed")
    BY <1>1, <2>1, <2>3 DEF ReportInv, Seen
  <2> QED BY <2>1, <2>2, <2>3, <2>4, ApplyResultOwn, ApplyResultOthers
<1> QED BY <1>2, <1>3, <1>4

\* A notification that changes the row of p: p has a reference, so that neither
\* a submission nor a token of p is left, and what overrules the receipt was
\* reported.
LEMMA ChangeInv ==
  ASSUME IInv, NEW p \in Payins, NEW status \in {"received", "failed", "on_hold"}, Change(p, status),
         p \in ref, payin[p] # "failed",
         status = "received" => Reported(p, "completed"), status # "received" => Overruled(p),
         UNCHANGED <<commands, saga, expiries, worker, provider, sent>>, NEW q \in Payins
  PROVE  PayinInv(q)'
<1>1. TypeOK /\ PayinInv(q)
  BY DEF IInv
<1>2. PICK type \in EventTypes : type = EventType(status)
  BY ResultStatus DEF Settled
<1>3. /\ type \notin {"payin.policy.approved", "payin.succeeded"}
      /\ type = "payin.received" => status = "received"
  BY <1>2 DEF EventType
<1>4. /\ payin' = [payin EXCEPT ![p] = status]
      /\ payment' = [payment EXCEPT ![p] = KeptStatus(payment[p], status)]
      /\ events' = events \/ events' = Append(events, Msg(type, p))
      /\ announced' = [announced EXCEPT ![p] = announced[p] \cup
                         IF payment[p] = "succeeded" THEN {} ELSE PublicType(status)]
      /\ UNCHANGED <<journals, ref>>
  BY <1>2 DEF Change, WriteOnce
<1>5. CommandsKept(q)
  BY <1>1, KeepCommands
<1>6. CASE q # p
  <2>1. Still(q)
    BY <1>1, <1>4, <1>6 DEF Still, TypeOK
  <2>2. EventsKept(q)
    BY <1>1, <1>4, <1>6, NewEvent
  <2>3. Watched(q)
    BY <2>1, WatchedStays DEF Still
  <2> QED BY <1>1, <1>5, <2>1, <2>2, <2>3, StillInv
<1>7. CASE q = p
  <2>1. /\ StatusInv(p) /\ ReportInv(p) /\ QueueInv(p)
        /\ (expiries' = 0 => TokenInv(p) /\ OutcomeInv(p))
    BY <1>1, <1>7 DEF PayinInv
  <2>2. /\ payin'[p] = status
        /\ payment[p] = "succeeded" => payment'[p] = "succeeded" /\ announced'[p] = announced[p]
        /\ payment[p] # "succeeded" => payment'[p] \in {"failed", "processing"}
        /\ announced'[p] \subseteq announced[p] \cup PublicType(status)
        /\ "payin.succeeded" \in journals'[p] <=> "payin.succeeded" \in journals[p]
    <3>1. /\ payment[p] = "succeeded" => KeptStatus(payment[p], status) = "succeeded"
          /\ payment[p] # "succeeded" => KeptStatus(payment[p], status) \in {"failed", "processing"}
      BY ResultStatus DEF KeptStatus
    <3> QED BY <1>1, <1>4, <3>1 DEF TypeOK
  <2>3. /\ "payment.succeeded" \notin PublicType(status)
        /\ "payment.failed" \in PublicType(status) => status = "failed"
    BY DEF PublicType
  <2>4. /\ Has(events', Approval(p)) => Has(events, Approval(p))
        /\ Has(events', Receipt(p)) => Has(events, Receipt(p)) \/ status = "received"
        /\ Has(events', Success(p)) => Has(events, Success(p))
        /\ Unique(events, Approval(p)) => Unique(events', Approval(p))
    BY <1>1, <1>3, <1>4, NewEvent
  <2>5. payment[p] # "none" /\ payin[p] \notin Submittable /\ saga[p] # "none"
    BY <2>1 DEF StatusInv, QueueInv
  <2>6. OnExecute(p)' <=> OnExecute(p)
    BY DEF OnExecute, AtHead
  <2>7. StatusInv(p)'
    <3>1. ~(worker.pc = "call" /\ OnExecute(p))
      BY <2>1, <2>5 DEF StatusInv, Submittable
    <3>2. payin'[p] \notin Submittable
      BY <2>2 DEF Submittable
    <3> QED BY <2>1, <2>2, <2>3, <2>5, <2>6, <3>1, <3>2 DEF StatusInv
  <2>8. ReportInv(p)'
    BY <2>1, <2>2, <2>6 DEF ReportInv, Seen, Reported
  <2>9. QueueInv(p)'
    BY <1>5, <1>7, <2>1, <2>2, <2>4, <2>5 DEF QueueInv, CommandsKept
  <2>10. ASSUME expiries' = 0 PROVE TokenInv(p)' /\ OutcomeInv(p)'
    <3>1. TokenInv(p) /\ OutcomeInv(p)
      BY <2>1, <2>10
    <3>2. ~Has(commands, Trial(p)) /\ ~Has(events, Approval(p))
      BY <3>1 DEF TokenInv
    <3>3. TokenInv(p)'
      BY <1>5, <1>7, <2>4, <3>1, <3>2 DEF TokenInv, CommandsKept
    <3>4. "payment.failed" \in announced'[p] => status = "failed" /\ "payment.succeeded" \notin announced'[p]
      BY <2>1, <2>2, <2>3, <3>1 DEF StatusInv, OutcomeInv
    <3>5. Overruled(p) => Overruled(p)'
      BY ReportsStay
    <3>6. OutcomeInv(p)'
      BY <1>4, <2>2, <3>4, <3>5 DEF OutcomeInv
    <3> QED BY <3>3, <3>6
  <2> QED BY <1>7, <2>7, <2>8, <2>9, <2>10 DEF PayinInv
<1> QED BY <1>6, <1>7

\* A notification, delivered or reconciled.
LEMMA ProcessInv ==
  ASSUME IInv, NEW w \in sent, Process(w), NEW q \in Payins
  PROVE  PayinInv(q)'
<1>1. TypeOK /\ PayinInv(q)
  BY DEF IInv
<1>2. /\ UNCHANGED <<commands, saga, expiries, worker, provider, sent>>
      /\ \/ UNCHANGED <<events, payment, payin, ref, journals, announced, written>>
         \/ /\ w.payin \in Payins /\ w.payin \in ref /\ payin[w.payin] # "failed"
            /\ w.status \in ProviderStatuses /\ LifecycleStatus(w.status) \in PayinStatuses
            /\ Change(w.payin, LifecycleStatus(w.status))
  BY <1>1, ProcessSteps
<1>3. CASE UNCHANGED <<events, payment, payin, ref, journals, announced, written>>
  <2>1. CommandsKept(q) /\ EventsKept(q) /\ Still(q)
    BY <1>1, <1>2, <1>3, KeepCommands, KeepEvents DEF Still
  <2>2. Watched(q)
    BY <1>2, <2>1, WatchedStays DEF Still
  <2> QED BY <1>1, <2>1, <2>2, StillInv
<1>4. CASE /\ w.payin \in Payins /\ w.payin \in ref /\ payin[w.payin] # "failed"
           /\ w.status \in ProviderStatuses /\ LifecycleStatus(w.status) \in PayinStatuses
           /\ Change(w.payin, LifecycleStatus(w.status))
  <2>1. PICK p, status : p = w.payin /\ status = LifecycleStatus(w.status) /\ p \in Payins
    BY <1>4
  <2>2. /\ status \in {"received", "failed", "on_hold"}
        /\ status = "received" => w.status = "completed"
        /\ status # "received" => w.status \in {"on_hold", "failed", "refunded"}
    BY <1>4, <2>1, NotifiedStatus
  <2>3. Reported(p, w.status)
    <3>1. w = [payin |-> w.payin, status |-> w.status]
      BY <1>1 DEF TypeOK, Webhook
    <3> QED BY <2>1, <3>1 DEF Reported
  <2>4. /\ status = "received" => Reported(p, "completed")
        /\ status # "received" => Overruled(p)
    BY <2>2, <2>3 DEF Overruled
  <2> QED BY <1>2, <1>4, <2>1, <2>2, <2>4, ChangeInv
<1> QED BY <1>2, <1>3, <1>4

\* Every step keeps the invariant.
LEMMA NextInv == IInv /\ [Next]_vars => IInv'
<1> SUFFICES ASSUME IInv, [Next]_vars, NEW q \in Payins PROVE PayinInv(q)'
  BY NextType DEF IInv
<1>1. CASE UNCHANGED vars \/ LoadBatch
  <2>1. UNCHANGED <<commands, events, saga, expiries, payment, payin, ref, journals, announced, worker,
                    provider, sent>>
    BY <1>1 DEF vars, LoadBatch, sagaVars, rowVars, providerVars
  <2>2. TypeOK /\ PayinInv(q)
    BY DEF IInv
  <2>3. CommandsKept(q) /\ EventsKept(q) /\ Still(q) /\ Watched(q)
    BY <2>1, <2>2, KeepCommands, KeepEvents, WatchedStays DEF Still
  <2> QED BY <2>2, <2>3, StillInv
<1>2. CASE \E p \in Payins : CreatePayin(p)
  BY <1>2, CreateInv
<1>3. CASE SagaStep \/ \E p \in Payins : SagaExpiry(p)
  BY <1>3, CoordinatorInv
<1>4. CASE \E p \in Payins : WorkerStep(p)
  BY <1>4, TransactionInv, ExecutionInv DEF WorkerStep, OneTransaction
<1>5. CASE (\E p \in Payins : ProviderCall(p) \/ ProviderStep(p)) \/ Crash
  BY <1>5, OutsideInv DEF Outside
<1>6. ASSUME NEW w \in Webhook, WebhookStep(w) PROVE PayinInv(q)'
  <2>1. CASE ReconcileFails(w)
    BY <2>1, OutsideInv DEF Outside
  <2>2. CASE DeliverWebhook(w) \/ ReconcileNext(w)
    <3>1. w \in sent /\ Process(w)
      BY <2>2 DEF DeliverWebhook, ReconcileNext, IInv, TypeOK
    <3> QED BY <3>1, ProcessInv
  <2> QED BY <1>6, <2>1, <2>2 DEF WebhookStep
<1> QED BY <1>1, <1>2, <1>3, <1>4, <1>5, <1>6 DEF Next

-----------------------------------------------------------------------------
(* The theorems. *)

\* The invariant holds in every reachable state, for any set of pay-ins, any
\* number of deadlines that pass and of stops of the process.
THEOREM Invariant == Spec => []IInv
BY InitInv, NextInv, PTL DEF Spec

\* Every variable keeps its type.
THEOREM TypeCorrect == Spec => []TypeOK
<1>1. IInv => TypeOK
  BY DEF IInv
<1> QED BY <1>1, Invariant, PTL

\* A payment succeeds only with its receipt journal, which is posted only for
\* funds the provider reported as received.
THEOREM SucceededOnReceipt == Spec => []SucceededOnlyWhenReceived
<1>1. IInv => SucceededOnlyWhenReceived
  BY DEF IInv, PayinInv, StatusInv, ReportInv, Seen, SucceededOnlyWhenReceived
<1> QED BY <1>1, Invariant, PTL

\* The saga and the payment agree: completed means succeeded, and the saga of a
\* succeeded payment waits for the news or has closed.
THEOREM SagaFollows == Spec => []SagaFollowsReceipt
<1>1. IInv => SagaFollowsReceipt
  BY DEF IInv, PayinInv, QueueInv, Late, SagaFollowsReceipt
<1> QED BY <1>1, Invariant, PTL

\* While no deadline has passed, merchants are told one outcome.
THEOREM OneOutcome == Spec => []OneOutcomeUnlessRepeated
<1>1. IInv => OneOutcomeUnlessRepeated
  BY DEF IInv, PayinInv, OutcomeInv, OneOutcomeUnlessRepeated
<1> QED BY <1>1, Invariant, PTL

\* A receipt is refused only after a contradicting report or a passed deadline.
THEOREM RefusalIsExplained == Spec => []RefusedReceiptWasOverruled
<1>1. ASSUME IInv PROVE RefusedReceiptWasOverruled
  <2> SUFFICES ASSUME NEW p \in Payins, AtHead("payin.ledger.record", p), payin[p] # "received",
                      ~(expiries > 0)
               PROVE  Overruled(p)
    BY DEF RefusedReceiptWasOverruled, Overruled
  <2>1. expiries = 0 /\ commands \in Seq(Message(CommandTypes)) /\ PayinInv(p)
    BY <1>1, PayinSagaAssumption DEF IInv, TypeOK, SagaTypeOK
  <2>2. commands # <<>> /\ Head(commands) \in Booking(p)
    BY Messages DEF AtHead
  <2>3. Has(commands, Booking(p))
    BY <2>1, <2>2, TailTopic
  <2> QED BY <2>1, <2>3 DEF PayinInv, OutcomeInv
<1> QED BY <1>1, Invariant, PTL

\* A result is applied to a payment that has not succeeded: its command is in
\* the topic.
LEMMA ResultSparesSucceeded ==
  ASSUME IInv, NEW r \in Payins, NEW result, NEW referenced, ApplyResult(r, result, referenced),
         NEW type \in {"payin.policy.evaluate", "payin.execute", "payin.fail"}, AtHead(type, r),
         NEW p \in Payins, payment[p] = "succeeded"
  PROVE  payment'[p] = "succeeded" /\ journals'[p] = journals[p]
<1>1. commands \in Seq(Message(CommandTypes)) /\ payment \in [Payins -> PaymentStatuses] /\ PayinInv(p)
  BY DEF IInv, TypeOK, SagaTypeOK
<1>2. commands # <<>> /\ Head(commands) \in Overwriting(r)
  BY Messages DEF AtHead
<1>3. Has(commands, Overwriting(r))
  BY <1>1, <1>2, TailTopic
<1>4. r # p
  BY <1>1, <1>3 DEF PayinInv, QueueInv
<1> QED BY <1>1, <1>4 DEF ApplyResult

\* No step changes a succeeded payment or what is booked for it.
THEOREM SucceededStays == Spec => SucceededIsFinal
<1> DEFINE Kept(p) == payment'[p] = "succeeded" /\ journals'[p] = journals[p]
           Final == \A p \in Payins : payment[p] = "succeeded" => Kept(p)
<1>1. ASSUME IInv, [Next]_vars PROVE Final
  <2> SUFFICES ASSUME NEW p \in Payins, payment[p] = "succeeded" PROVE Kept(p)
    OBVIOUS
  <2>0. /\ TypeOK /\ payment \in [Payins -> PaymentStatuses] /\ journals \in [Payins -> SUBSET JournalTypes]
        /\ "payin.succeeded" \in journals[p]
    BY <1>1 DEF IInv, TypeOK, PayinInv, StatusInv
  <2>1. CASE UNCHANGED vars \/ LoadBatch
    BY <2>1 DEF vars, LoadBatch, rowVars
  <2>2. ASSUME NEW r \in Payins, CreatePayin(r) PROVE Kept(p)
    BY <2>0, <2>2 DEF CreatePayin
  <2>3. CASE SagaStep \/ \E r \in Payins : SagaExpiry(r)
    BY <2>3 DEF SagaStep, SagaExpiry, rowVars
  <2>4. ASSUME NEW r \in Payins, WorkerStep(r) PROVE Kept(p)
    <3>1. CASE RecordPayin(r)
      BY <2>0, <3>1 DEF RecordPayin
    <3>2. CASE prepare(r) \/ recordError(r)
      BY <3>2 DEF prepare, recordError
    <3>3. CASE PolicyEvaluate(r) /\ UNCHANGED rowVars
      BY <3>3 DEF rowVars
    <3>4. CASE PolicyEvaluate(r) /\ ApplyResult(r, "failed", FALSE)
      BY <1>1, <3>4, ResultSparesSucceeded DEF PolicyEvaluate, Take
    <3>5. CASE PayinFail(r)
      BY <1>1, <3>5, ResultSparesSucceeded DEF PayinFail, Take
    <3>6. CASE ApplyExecution(r)
      BY <1>1, <3>6, ResultSparesSucceeded DEF ApplyExecution
    <3> QED BY <2>4, <3>1, <3>2, <3>3, <3>4, <3>5, <3>6 DEF WorkerStep, PolicyEvaluate
  <2>5. CASE \E r \in Payins : Outside(r)
    BY <2>0, <2>5, OutsideSteps
  <2>6. ASSUME NEW w \in Webhook, WebhookStep(w) PROVE Kept(p)
    <3>1. CASE ReconcileFails(w)
      BY <3>1 DEF ReconcileFails, Stop, rowVars
    <3>2. CASE DeliverWebhook(w) \/ ReconcileNext(w)
      <4>1. w \in sent /\ Process(w)
        BY <2>0, <3>2 DEF DeliverWebhook, ReconcileNext, TypeOK
      <4>2. UNCHANGED journals
        BY <2>0, <4>1, ProcessSteps DEF Change
      <4>3. \/ UNCHANGED payment
            \/ payment' = [payment EXCEPT ![w.payin] =
                             KeptStatus(payment[w.payin], LifecycleStatus(w.status))]
        BY <2>0, <4>1, ProcessSteps DEF Change
      <4> QED BY <2>0, <4>2, <4>3 DEF KeptStatus
    <3> QED BY <2>6, <3>1, <3>2 DEF WebhookStep
  <2>7. CASE Crash
    BY <2>7 DEF Crash, Stop, rowVars
  <2> QED BY <1>1, <2>1, <2>2, <2>3, <2>4, <2>5, <2>6, <2>7 DEF Next, Outside
<1>2. Spec => [][Final]_vars
  BY <1>1, Invariant, PTL DEF Spec
<1> QED BY <1>2 DEF SucceededIsFinal

\* The provider creates a pay-in only on a call, and the worker calls only for a
\* payment that is still open, whatever the topic has brought since.
THEOREM OpenWhenCreated == Spec => CreatedOnlyWhileOpen
<1> DEFINE Open == \A p \in Payins :
                     provider[p] = "none" /\ provider'[p] # "none"
                       => payment[p] = "created" /\ "payment.failed" \notin announced[p]
<1>1. ASSUME IInv, [Next]_vars PROVE Open
  <2> SUFFICES ASSUME NEW p \in Payins, provider[p] = "none", provider'[p] # "none"
               PROVE  payment[p] = "created" /\ "payment.failed" \notin announced[p]
    OBVIOUS
  <2>1. PayinInv(p) /\ provider \in [Payins -> ProviderStatuses \cup {"none"}]
    BY <1>1 DEF IInv, TypeOK
  <2>2. provider' # provider
    OBVIOUS
  <2>3. PICK r \in Payins : ProviderCall(r) \/ ProviderStep(r)
    <3>1. ~UNCHANGED vars
      BY <2>2 DEF vars, providerVars
    <3>2. \A r \in Payins : ~CreatePayin(r) /\ ~SagaExpiry(r)
      BY <2>2 DEF CreatePayin, SagaExpiry, providerVars
    <3>3. ~SagaStep /\ ~Crash /\ ~LoadBatch
      BY <2>2 DEF SagaStep, Crash, Stop, LoadBatch, providerVars
    <3>4. \A r \in Payins : ~WorkerStep(r)
      BY <2>2 DEF WorkerStep, PolicyEvaluate, PayinFail, RecordPayin, Take, prepare, recordError,
                  ApplyExecution, providerVars
    <3>5. \A w \in Webhook : ~WebhookStep(w)
      BY <2>2 DEF WebhookStep, DeliverWebhook, ReconcileNext, ReconcileFails, Stop, Process,
                  providerVars
    <3> QED BY <1>1, <3>1, <3>2, <3>3, <3>4, <3>5 DEF Next
  <2>4. ~ProviderStep(r)
    BY <2>1 DEF ProviderStep, ProviderDecides, ProviderRefunds, ProviderMoves
  <2>5. worker.pc = "call" /\ AtHead("payin.execute", r) /\ Accept(r)
    BY <2>2, <2>3, <2>4 DEF ProviderCall, CallAnswered, CallLost, CallRejected, Calling, providerVars
  <2>6. r = p
    BY <2>1, <2>5 DEF Accept, providerVars
  <2>7. payin[p] \in Submittable
    BY <2>1, <2>5, <2>6 DEF PayinInv, StatusInv, OnExecute, Submittable
  <2> QED BY <2>1, <2>7 DEF PayinInv, StatusInv
<1>2. Spec => [][Open]_vars
  BY <1>1, Invariant, PTL DEF Spec
<1> QED BY <1>2 DEF CreatedOnlyWhileOpen
=============================================================================
