------------------------ MODULE PayoutOutcome_proofs ------------------------
(***************************************************************************)
(* What the payout workflow guarantees about the provider: when it is made *)
(* to create a payout, when a payment may fail, and which events can block *)
(* the coordinator.                                                        *)
(*                                                                         *)
(* The worker, the payouts row, the notifications and the saga learn of    *)
(* the provider's record at different times; OutcomeInv says how far each  *)
(* may be behind it.  As long as no deadline passed and no process stopped *)
(* the policy evaluation, the reservation, the execution and a hold are    *)
(* tokens that exist once.                                                 *)
(***************************************************************************)
EXTENDS PayoutSafety_proofs

\* Before the submission, and after the failure or return of a payment.
Early == {"none", "awaiting_policy", "awaiting_ledger"}
Down == {"failed", "returning", "returned"}

ProviderTypes ==
  {"payout.provider_completed", "payout.provider_failed", "payout.provider_returned", "payout.on_hold"}

\* The provider has an answer for p, be it only a refused request.
Answered(p) == provider[p] # "none" \/ payout[p] = "submission_failed"

\* The provider will not pay, or somebody decided to fail the payment anyway.
Unpaid(p) ==
  \/ provider[p] \notin {"processing", "on_hold", "completed"}
  \/ "fail" \in audits[p]
  \/ payout[p] = "submission_failed" /\ p \notin ref

\* A failure once reported stands.
Stands(p, status) ==
  /\ status = "failed" => provider[p] \in {"failed", "refunded"}
  /\ status = "submission_failed" => provider[p] = "submission_failed"

Holds(pc, p) == worker.pc = pc /\ Executing(p)

\* The row, the worker and the notifications follow the provider's record.
RowInv(p) ==
  /\ p \in ref => payout[p] \in ProviderStatuses /\ provider[p] # "none" /\ Stands(p, payout[p])
  /\ Holds("call", p) \/ Holds("record", p) => Undecided(p)
  /\ Holds("record", p) /\ worker.result \in Results => provider[p] # "none" /\ Stands(p, worker.result)
  /\ Holds("apply", p) =>
       IF worker.result = "rejected" THEN payout[p] = "submission_failed" /\ p \notin ref
       ELSE worker.result \in Results /\ p \in ref /\ Stands(p, worker.result)
  /\ \A status \in NotifiedStatuses :
       Reported(p, status) => provider[p] \in NotifiedStatuses /\ Stands(p, status)

\* The saga follows the row.
FlowInv(p) ==
  /\ FailQueued(p) \/ payment[p] = "failed" => saga[p] \in Down /\ Unpaid(p)
  /\ EventQueued("payout.provider_failed", p) => Unpaid(p)
  /\ \A type \in ProviderTypes : EventQueued(type, p) => Answered(p)
  /\ Queued("settlement.execute", p) \/ payout[p] # "none" \/ provider[p] # "none" => saga[p] \notin Early
  /\ Queued("settlement.execute", p) /\ ~Answered(p) => saga[p] = "awaiting_settlement"
  /\ EventQueued("payout.funds_reserved", p) \/ saga[p] = "awaiting_settlement"
       => payment[p] \notin {"none", "created"}
  /\ EventQueued("payout.failed", p) => payment[p] = "failed"
  /\ EventQueued("payout.funds_released", p) => "payment.released" \in journals[p]
  /\ saga[p] \notin {"releasing_ledger", "ledger_released"}

\* At most one message of M is in the topic.
Once(s, M) == \A i, j \in 1..Len(s) : s[i] \in M /\ s[j] \in M => i = j

EventsOf(types, p) == {e \in Event : e.type \in types /\ e.payment = p}
Present(M) == Elems(events) \cap M # {}

Policy(p) == EventsOf({"payout.policy.approved", "payout.policy.rejected"}, p)
Reservation(p) == EventsOf({"payout.funds_reserved", "payout.ledger_failed"}, p)
Hold(p) == EventsOf({"payout.on_hold"}, p)

\* A command that is answered once, by one of these events, in this state.
Token(p, command, M, state) ==
  /\ Once(commands, {Cmd(command, p)}) /\ Once(events, M)
  /\ ~(Queued(command, p) /\ Present(M))
  /\ Queued(command, p) \/ Present(M) => saga[p] = state

\* The row has got as far as a hold.
HoldReached(p) == payout[p] \notin {"none", "submission_pending", "unknown", "processing"}

Quiet == expiries = 0 /\ crashes = 0

TokenInv(p) ==
  /\ saga[p] # "manual_review"
  /\ Token(p, "policy.evaluate", Policy(p), "awaiting_policy")
  /\ Token(p, "ledger.reserve", Reservation(p), "awaiting_ledger")
  /\ Once(commands, {Cmd("settlement.execute", p)})
  /\ Queued("settlement.execute", p) /\ p \in ref => Holds("apply", p)
  /\ Once(events, Hold(p)) /\ ~(Present(Hold(p)) /\ saga[p] = "on_hold")
  /\ Present(Hold(p)) \/ saga[p] = "on_hold" => HoldReached(p)
  /\ Holds("apply", p) /\ worker.result = "on_hold" =>
       HoldReached(p) /\ ~Present(Hold(p)) /\ saga[p] # "on_hold"

OutcomeInv(p) ==
  /\ RowInv(p)
  /\ FlowInv(p)
  /\ Quiet => TokenInv(p)

OInv ==
  /\ IInv
  /\ \A p \in Payments : OutcomeInv(p)

-----------------------------------------------------------------------------
(* Topics. *)

\* A message that is the only one of its kind stays so when another is
\* appended, and is gone when it is taken.
LEMMA OnceInTopic ==
  ASSUME NEW S, NEW s \in Seq(S), NEW M
  PROVE  /\ \A m \in S : Once(s, M) /\ (m \in M => Elems(s) \cap M = {}) => Once(Append(s, m), M)
         /\ s # <<>> /\ Once(s, M) => Once(Tail(s), M)
         /\ s # <<>> /\ Once(s, M) /\ Head(s) \in M => Elems(Tail(s)) \cap M = {}
<1>1. ASSUME NEW m \in S, Once(s, M), m \in M => Elems(s) \cap M = {} PROVE Once(Append(s, m), M)
  <2> DEFINE t == Append(s, m)
  <2>1. /\ Len(s) \in Nat /\ Len(t) = Len(s) + 1 /\ t[Len(s) + 1] = m
        /\ \A i \in 1..Len(s) : t[i] = s[i]
    OBVIOUS
  <2> HIDE DEF t
  <2>2. \A i \in 1..Len(t) : i \in 1..Len(s) \/ i = Len(s) + 1
    BY <2>1
  <2>3. ASSUME NEW i \in 1..Len(t), NEW j \in 1..Len(t), t[i] \in M, t[j] \in M PROVE i = j
    BY <1>1, <2>1, <2>2, <2>3 DEF Once, Elems
  <2>4. Once(t, M)
    BY <2>3 DEF Once
  <2> QED BY <2>4 DEF t
<1>2. ASSUME s # <<>>, Once(s, M)
      PROVE  Once(Tail(s), M) /\ (Head(s) \in M => Elems(Tail(s)) \cap M = {})
  <2> DEFINE t == Tail(s)
  <2>1. /\ Len(s) \in Nat \ {0} /\ Len(t) = Len(s) - 1 /\ Head(s) = s[1]
        /\ \A i \in 1..Len(t) : t[i] = s[i + 1]
    BY <1>2
  <2> HIDE DEF t
  <2>2. /\ \A i \in 1..Len(t) : i + 1 \in 1..Len(s) /\ i + 1 # 1
        /\ 1 \in 1..Len(s)
    BY <2>1
  <2>3. ASSUME NEW i \in 1..Len(t), NEW j \in 1..Len(t), t[i] \in M, t[j] \in M PROVE i = j
    <3>1. i + 1 = j + 1
      BY <1>2, <2>1, <2>2, <2>3 DEF Once
    <3> QED BY <3>1
  <2>4. Once(t, M)
    BY <2>3 DEF Once
  <2>5. ASSUME Head(s) \in M, NEW i \in 1..Len(t), t[i] \in M PROVE FALSE
    BY <1>2, <2>1, <2>2, <2>5 DEF Once
  <2>6. Head(s) \in M => Elems(t) \cap M = {}
    BY <2>5 DEF Elems
  <2> QED BY <2>4, <2>6 DEF t
<1> QED BY <1>1, <1>2

-----------------------------------------------------------------------------
(* Steps that leave a payment alone. *)

\* No command of q is new, and no event but that of its creation.
CommandsKept(q) ==
  /\ \A type \in CommandTypes : Queued(type, q)' => Queued(type, q)
  /\ \A type \in CommandTypes : Once(commands, {Cmd(type, q)}) => Once(commands', {Cmd(type, q)})

EventsKept(q) ==
  /\ \A type \in EventTypes \ {"payout.created"} : EventQueued(type, q)' => EventQueued(type, q)
  /\ \A M \in {Policy(q), Reservation(q), Hold(q)} :
       /\ Elems(events') \cap M # {} => Elems(events) \cap M # {}
       /\ Once(events, M) => Once(events', M)

\* The row and the provider's record of q stay, and the worker learns nothing.
RowKept(q) ==
  /\ payout'[q] = payout[q] /\ provider'[q] = provider[q] /\ (q \in ref' <=> q \in ref)
  /\ \A status \in NotifiedStatuses : Reported(q, status)' => Reported(q, status)
  /\ \A pc \in {"call", "record", "apply"} :
       Holds(pc, q)' => Holds(pc, q) /\ worker'.result = worker.result

\* Saga and ledger of q stay; the payment may be created.
SagaKept(q) ==
  /\ saga'[q] = saga[q] /\ (payment'[q] = payment[q] \/ (payment[q] = "none" /\ payment'[q] = "created"))
  /\ journals[q] \subseteq journals'[q] /\ audits[q] \subseteq audits'[q]

\* The saga of q stays; its payment fails only by command, a failure stays
\* justified, an answer is not forgotten, and only execution begins a payout.
FlowKept(q) ==
  /\ saga'[q] = saga[q] /\ journals[q] \subseteq journals'[q]
  /\ payment'[q] = "failed" => payment[q] = "failed" \/ FailQueued(q)
  /\ payment[q] = "failed" => payment'[q] = "failed"
  /\ payment[q] \notin {"none", "created"} => payment'[q] \notin {"none", "created"}
  /\ FailQueued(q) \/ payment[q] = "failed" \/ EventQueued("payout.provider_failed", q)
       => (Unpaid(q) => Unpaid(q)')
  /\ Answered(q) => Answered(q)'
  /\ payout'[q] # "none" \/ provider'[q] # "none" =>
       Queued("settlement.execute", q) \/ payout[q] # "none" \/ provider[q] # "none"

\* A new event of q says what is the case.
NewsKept(q) ==
  /\ \A type \in ProviderTypes : EventQueued(type, q)' => EventQueued(type, q) \/ Answered(q)'
  /\ EventQueued("payout.provider_failed", q)' => EventQueued("payout.provider_failed", q) \/ Unpaid(q)'
  /\ EventQueued("payout.funds_reserved", q)' =>
       EventQueued("payout.funds_reserved", q) \/ payment'[q] \notin {"none", "created"}
  /\ EventQueued("payout.failed", q)' => EventQueued("payout.failed", q) \/ payment'[q] = "failed"
  /\ EventQueued("payout.funds_released", q)' =>
       EventQueued("payout.funds_released", q) \/ "payment.released" \in journals'[q]

\* No deadline passes, no process stops, and a worker about to apply a result
\* still is.
QuietKept(q) == Quiet' => Quiet /\ (Holds("apply", q) => Holds("apply", q)')

\* Taking a command, or adding one of another payment.
LEMMA KeepCommands ==
  ASSUME TypeOK, NEW q \in Payments,
         \/ UNCHANGED commands
         \/ commands # <<>> /\ commands' = Tail(commands)
         \/ \E p \in Payments \ {q}, type \in CommandTypes : commands' = Append(commands, Cmd(type, p))
  PROVE  CommandsKept(q)
<1>0. commands \in Seq(Command)
  BY DEF TypeOK, MessagingTypeOK
<1>1. CASE UNCHANGED commands
  BY <1>1 DEF CommandsKept, Queued
<1>2. CASE commands # <<>> /\ commands' = Tail(commands)
  BY <1>0, <1>2, ElemsTail, OnceInTopic DEF CommandsKept, Queued
<1>3. ASSUME NEW p \in Payments \ {q}, NEW type \in CommandTypes, commands' = Append(commands, Cmd(type, p))
      PROVE  CommandsKept(q)
  <2>1. PICK m \in Command : m = Cmd(type, p)
    BY DEF Cmd, Command
  <2>2. \A t \in CommandTypes : m # Cmd(t, q)
    BY <2>1 DEF Cmd
  <2>3. Elems(commands') = Elems(commands) \cup {m}
    BY <1>0, <1>3, <2>1, ElemsAppend
  <2>4. ASSUME NEW t \in CommandTypes, Once(commands, {Cmd(t, q)}) PROVE Once(commands', {Cmd(t, q)})
    <3>1. m \notin {Cmd(t, q)}
      BY <2>2
    <3> QED BY <1>0, <1>3, <2>1, <2>4, <3>1, OnceInTopic
  <2> QED BY <2>2, <2>3, <2>4 DEF CommandsKept, Queued
<1> QED BY <1>1, <1>2, <1>3

\* Taking an event, or adding one of another payment or of a creation.
LEMMA KeepEvents ==
  ASSUME TypeOK, NEW q \in Payments,
         \/ UNCHANGED events
         \/ events # <<>> /\ events' = Tail(events)
         \/ \E e \in Event : (e.payment # q \/ e.type = "payout.created") /\ events' = Append(events, e)
  PROVE  EventsKept(q)
<1>0. events \in Seq(Event)
  BY DEF TypeOK, MessagingTypeOK
<1>1. CASE UNCHANGED events
  BY <1>1 DEF EventsKept, EventQueued
<1>2. CASE events # <<>> /\ events' = Tail(events)
  <2>1. Elems(events') \subseteq Elems(events)
    BY <1>0, <1>2, ElemsTail
  <2>2. \A M : Once(events, M) => Once(events', M)
    BY <1>0, <1>2, OnceInTopic
  <2> QED BY <2>1, <2>2 DEF EventsKept, EventQueued
<1>3. ASSUME NEW e \in Event, e.payment # q \/ e.type = "payout.created", events' = Append(events, e)
      PROVE  EventsKept(q)
  <2>1. Elems(events') = Elems(events) \cup {e}
    BY <1>0, <1>3, ElemsAppend
  <2>2. \A M \in {Policy(q), Reservation(q), Hold(q)} : e \notin M
    BY <1>3 DEF Policy, Reservation, Hold, EventsOf
  <2>3. \A M \in {Policy(q), Reservation(q), Hold(q)} : Once(events, M) => Once(events', M)
    BY <1>0, <1>3, <2>2, OnceInTopic
  <2> QED BY <1>3, <2>1, <2>2, <2>3 DEF EventsKept, EventQueued
<1> QED BY <1>1, <1>2, <1>3

\* The worker's view stays when it is where it was and its command is too.
LEMMA WorkerStays ==
  ASSUME IInv, worker' = worker, NEW q \in Payments,
         UNCHANGED commands \/ \E c \in Command : commands' = Append(commands, c)
  PROVE  \A pc \in {"call", "record", "apply"} : Holds(pc, q)' <=> Holds(pc, q)
<1>0. commands \in Seq(Command) /\ (worker.pc # "idle" => commands # <<>>)
  BY DEF IInv, TypeOK, MessagingTypeOK
<1>1. commands # <<>> => commands' # <<>> /\ Head(commands') = Head(commands)
  BY <1>0, ElemsAppend
<1>2. commands # <<>> => (Executing(q)' <=> Executing(q))
  BY <1>1 DEF Executing
<1> QED BY <1>0, <1>2 DEF Holds

\* An idle worker holds no command.
LEMMA WorkerIdle ==
  ASSUME worker' = Idle, NEW q
  PROVE  \A pc \in {"call", "record", "apply"} : ~Holds(pc, q)'
BY DEF Holds, Idle, At

\* What follows the provider's record still does.
LEMMA RowStill == ASSUME NEW q \in Payments, RowInv(q), RowKept(q) PROVE RowInv(q)'
<1>1. \A status : Stands(q, status)' <=> Stands(q, status)
  BY DEF RowKept, Stands
<1>2. Undecided(q)' <=> Undecided(q)
  BY DEF RowKept, Undecided
<1>3. payout'[q] = payout[q] /\ provider'[q] = provider[q] /\ (q \in ref' <=> q \in ref)
  BY DEF RowKept
<1>4. q \in ref' => payout'[q] \in ProviderStatuses /\ provider'[q] # "none" /\ Stands(q, payout[q])'
  BY <1>1, <1>3 DEF RowInv
<1>5. Holds("call", q)' \/ Holds("record", q)' => Undecided(q)'
  BY <1>2 DEF RowInv, RowKept
<1>6. Holds("record", q)' /\ worker'.result \in Results => provider'[q] # "none" /\ Stands(q, worker.result)'
  BY <1>1, <1>3 DEF RowInv, RowKept
<1>7. Holds("apply", q)' =>
        IF worker'.result = "rejected" THEN payout'[q] = "submission_failed" /\ q \notin ref'
        ELSE worker'.result \in Results /\ q \in ref' /\ Stands(q, worker.result)'
  BY <1>1, <1>3 DEF RowInv, RowKept
<1>8. \A status \in NotifiedStatuses :
        Reported(q, status)' => provider'[q] \in NotifiedStatuses /\ Stands(q, status)'
  BY <1>1, <1>3 DEF RowInv, RowKept
<1> QED BY <1>3, <1>4, <1>5, <1>6, <1>7, <1>8 DEF RowInv, RowKept

\* The payment's failure is still justified.
LEMMA UnpaidStays ==
  ASSUME NEW q \in Payments, payout'[q] = payout[q], provider'[q] = provider[q], q \in ref' <=> q \in ref,
         audits[q] \subseteq audits'[q]
  PROVE  (Unpaid(q) => Unpaid(q)') /\ (Answered(q)' <=> Answered(q))
BY DEF Unpaid, Answered

\* When the row stays, what follows it may stay as well.
LEMMA FlowFrame ==
  ASSUME NEW q \in Payments, RowKept(q), SagaKept(q), EventsKept(q) PROVE FlowKept(q) /\ NewsKept(q)
<1>1. (Unpaid(q) => Unpaid(q)') /\ (Answered(q)' <=> Answered(q))
  BY UnpaidStays DEF RowKept, SagaKept
<1>2. FlowKept(q)
  BY <1>1 DEF FlowKept, SagaKept, RowKept
<1>3. /\ \A type \in ProviderTypes : EventQueued(type, q)' => EventQueued(type, q)
      /\ EventQueued("payout.provider_failed", q)' => EventQueued("payout.provider_failed", q)
      /\ EventQueued("payout.funds_reserved", q)' => EventQueued("payout.funds_reserved", q)
      /\ EventQueued("payout.failed", q)' => EventQueued("payout.failed", q)
      /\ EventQueued("payout.funds_released", q)' => EventQueued("payout.funds_released", q)
  BY DEF EventsKept, EventTypes, ProviderTypes
<1> QED BY <1>2, <1>3 DEF NewsKept

\* What follows the row still does.
LEMMA FlowStill ==
  ASSUME NEW q \in Payments, FlowInv(q), FlowKept(q), CommandsKept(q), NewsKept(q)
  PROVE  FlowInv(q)'
<1>1. /\ FailQueued(q)' => FailQueued(q)
      /\ Queued("settlement.execute", q)' => Queued("settlement.execute", q)
  BY DEF CommandsKept, FailQueued, CommandTypes
<1>2. FailQueued(q)' \/ payment'[q] = "failed" => saga'[q] \in Down /\ Unpaid(q)'
  BY <1>1 DEF FlowInv, FlowKept
<1>3. EventQueued("payout.provider_failed", q)' => Unpaid(q)'
  BY DEF FlowInv, FlowKept, NewsKept
<1>4. \A type \in ProviderTypes : EventQueued(type, q)' => Answered(q)'
  BY DEF FlowInv, FlowKept, NewsKept
<1>5. /\ Queued("settlement.execute", q)' \/ payout'[q] # "none" \/ provider'[q] # "none" => saga'[q] \notin Early
      /\ Queued("settlement.execute", q)' /\ ~Answered(q)' => saga'[q] = "awaiting_settlement"
  BY <1>1 DEF FlowInv, FlowKept
<1>6. /\ EventQueued("payout.funds_reserved", q)' \/ saga'[q] = "awaiting_settlement"
           => payment'[q] \notin {"none", "created"}
      /\ EventQueued("payout.failed", q)' => payment'[q] = "failed"
      /\ EventQueued("payout.funds_released", q)' => "payment.released" \in journals'[q]
      /\ saga'[q] \notin {"releasing_ledger", "ledger_released"}
  BY DEF FlowInv, FlowKept, NewsKept
<1> QED BY <1>2, <1>3, <1>4, <1>5, <1>6 DEF FlowInv

\* The tokens stay single.
LEMMA TokenStill ==
  ASSUME NEW q \in Payments, TokenInv(q), saga'[q] = saga[q], payout'[q] = payout[q], q \in ref' <=> q \in ref,
         CommandsKept(q), EventsKept(q),
         Holds("apply", q)' <=> Holds("apply", q),
         Holds("apply", q)' => worker'.result = worker.result
  PROVE  TokenInv(q)'
<1>1. \A command \in CommandTypes, M \in {Policy(q), Reservation(q), Hold(q)} : \A state :
        Token(q, command, M, state) => Token(q, command, M, state)'
  BY DEF Token, CommandsKept, EventsKept, Present
<1>2. /\ Token(q, "policy.evaluate", Policy(q), "awaiting_policy")'
      /\ Token(q, "ledger.reserve", Reservation(q), "awaiting_ledger")'
  BY <1>1 DEF TokenInv, CommandTypes
<1>3. /\ Once(commands', {Cmd("settlement.execute", q)})
      /\ Queued("settlement.execute", q)' => Queued("settlement.execute", q)
  BY DEF TokenInv, CommandsKept, CommandTypes
<1>4. Once(events', Hold(q)) /\ (Present(Hold(q))' => Present(Hold(q)))
  BY DEF TokenInv, EventsKept, Present
<1>5. HoldReached(q)' <=> HoldReached(q)
  BY DEF HoldReached
<1> QED BY <1>2, <1>3, <1>4, <1>5 DEF TokenInv

\* Together.
LEMMA StillInv ==
  ASSUME NEW q \in Payments, OutcomeInv(q), RowKept(q), SagaKept(q), CommandsKept(q), EventsKept(q),
         QuietKept(q)
  PROVE  OutcomeInv(q)'
<1>1. RowInv(q)' /\ FlowInv(q)'
  BY RowStill, FlowStill, FlowFrame DEF OutcomeInv
<1>2. Quiet' => TokenInv(q)'
  BY TokenStill DEF OutcomeInv, QuietKept, RowKept, SagaKept
<1> QED BY <1>1, <1>2 DEF OutcomeInv

-----------------------------------------------------------------------------
(* The invariant, step by step. *)

\* It holds before the first payout is created.
LEMMA InitOutcome == Init => OInv
<1> SUFFICES ASSUME Init, NEW p \in Payments PROVE OutcomeInv(p)
  BY InitInv DEF OInv
<1>1. /\ commands = <<>> /\ events = <<>> /\ Elems(commands) = {} /\ Elems(events) = {}
      /\ payment[p] = "none" /\ saga[p] = "none" /\ payout[p] = "none" /\ p \notin ref
      /\ provider[p] = "none" /\ sent = {} /\ worker = Idle
  BY DEF Init, MessagingInit, SagaInit, LedgerInit, ExecutionInit, Elems
<1>2. /\ ~Holds("call", p) /\ ~Holds("record", p) /\ ~Holds("apply", p)
      /\ \A status : ~Reported(p, status)
  BY <1>1 DEF Holds, Idle, At, Reported
<1>3. RowInv(p)
  BY <1>1, <1>2 DEF RowInv
<1>4. (\A type : ~Queued(type, p) /\ ~EventQueued(type, p)) /\ \A M : ~Present(M)
  BY <1>1 DEF Queued, EventQueued, Present
<1>5. FlowInv(p)
  BY <1>1, <1>4 DEF FlowInv, FailQueued
<1>6. \A M : Once(commands, M) /\ Once(events, M)
  BY <1>1 DEF Once
<1>7. TokenInv(p)
  BY <1>1, <1>2, <1>4, <1>6 DEF TokenInv, Token
<1> QED BY <1>3, <1>5, <1>7 DEF OutcomeInv

\* What a step of the saga of p may do.
GoodMove(p, to, command) ==
  /\ saga[p] \in Down => to \in Down
  /\ saga[p] \notin Early => to \notin Early
  /\ to \notin {"releasing_ledger", "ledger_released"}
  /\ command \in {"payment.fail", "payment.fail_reserved"} => to \in Down /\ Unpaid(p)'
  /\ command = "settlement.execute" => to = "awaiting_settlement"
  /\ saga[p] = "awaiting_settlement" /\ to # "awaiting_settlement" => Answered(p)
  /\ to = "awaiting_settlement" => payment[p] \notin {"none", "created"}

\* And while nothing disturbs it: a token is passed on.
QuietMove(p, to, command) ==
  /\ Quiet /\ to # "manual_review"
  /\ command = "policy.evaluate" => saga[p] = "none" /\ to = "awaiting_policy"
  /\ command = "ledger.reserve" => saga[p] = "awaiting_policy" /\ to = "awaiting_ledger"
  /\ command = "settlement.execute" => saga[p] \in Early
  /\ saga[p] = "awaiting_policy" => ~Queued("policy.evaluate", p) /\ ~Present(Policy(p))'
  /\ saga[p] = "awaiting_ledger" => ~Queued("ledger.reserve", p) /\ ~Present(Reservation(p))'
  /\ to = "on_hold" => saga[p] # "on_hold" /\ Present(Hold(p)) /\ ~Present(Hold(p))'

\* Such a step keeps what is known of its payment.
LEMMA MoveOwn ==
  ASSUME OInv, NEW p \in Payments, NEW step, GoodStep(saga[p], step), updateAndCommand(p, step),
         GoodMove(p, step.to, step.command), Quiet' => QuietMove(p, step.to, step.command),
         EventsKept(p), audits[p] \subseteq audits'[p],
         UNCHANGED <<payment, journals, payout, ref, provider, sent, worker>>
  PROVE  OutcomeInv(p)'
<1>1. IInv /\ TypeOK /\ RowInv(p) /\ FlowInv(p) /\ (Quiet => TokenInv(p)) /\ commands \in Seq(Command)
  BY DEF OInv, OutcomeInv, IInv, TypeOK, MessagingTypeOK
<1>2. PICK to, command : to = step.to /\ command = step.command
  OBVIOUS
<1>3. /\ saga'[p] = to
      /\ Elems(commands') = IF command = NoCommand THEN Elems(commands)
                            ELSE Elems(commands) \cup {Cmd(command, p)}
      /\ commands' = commands \/ (command \in CommandTypes /\ commands' = Append(commands, Cmd(command, p)))
      /\ GoodMove(p, to, command) /\ (Quiet' => QuietMove(p, to, command))
  BY <1>1, <1>2, SagaUpdate DEF updateAndCommand, GoodStep
<1>4. \A type \in CommandTypes : Queued(type, p)' => Queued(type, p) \/ command = type
  BY <1>3 DEF Queued, Cmd
<1>5. \A c \in CommandTypes : Cmd(c, p) \in Command
  BY DEF Cmd, Command
<1>6. \A pc \in {"call", "record", "apply"} : Holds(pc, p)' <=> Holds(pc, p)
  BY <1>1, <1>3, <1>5, WorkerStays
<1>7. RowKept(p)
  BY <1>6 DEF RowKept, Reported
<1>8. RowInv(p)'
  BY <1>1, <1>7, RowStill
<1>9. (Unpaid(p) => Unpaid(p)') /\ (Answered(p)' <=> Answered(p))
  BY UnpaidStays
<1>10. FlowInv(p)'
  <2>1. /\ FailQueued(p)' => FailQueued(p) \/ command \in {"payment.fail", "payment.fail_reserved"}
        /\ Queued("settlement.execute", p)' => Queued("settlement.execute", p) \/ command = "settlement.execute"
    BY <1>4 DEF FailQueued, CommandTypes
  <2>2. /\ \A type \in ProviderTypes : EventQueued(type, p)' => EventQueued(type, p)
        /\ EventQueued("payout.provider_failed", p)' => EventQueued("payout.provider_failed", p)
        /\ EventQueued("payout.funds_reserved", p)' => EventQueued("payout.funds_reserved", p)
        /\ EventQueued("payout.failed", p)' => EventQueued("payout.failed", p)
        /\ EventQueued("payout.funds_released", p)' => EventQueued("payout.funds_released", p)
    BY DEF EventsKept, EventTypes, ProviderTypes
  <2>3. FailQueued(p)' \/ payment'[p] = "failed" => saga'[p] \in Down /\ Unpaid(p)'
    BY <1>1, <1>3, <1>9, <2>1 DEF FlowInv, GoodMove
  <2>4. "awaiting_settlement" \notin Early
    BY DEF Early
  <2>5. Queued("settlement.execute", p)' \/ payout'[p] # "none" \/ provider'[p] # "none" => saga'[p] \notin Early
    BY <1>1, <1>3, <2>1, <2>4 DEF FlowInv, GoodMove
  <2>6. Queued("settlement.execute", p)' /\ ~Answered(p)' => saga'[p] = "awaiting_settlement"
    BY <1>1, <1>3, <1>9, <2>1 DEF FlowInv, GoodMove
  <2> QED BY <1>1, <1>3, <1>9, <2>2, <2>3, <2>5, <2>6 DEF FlowInv, GoodMove
<1>11. ASSUME Quiet' PROVE TokenInv(p)'
  <2>1. Quiet /\ TokenInv(p) /\ QuietMove(p, to, command)
    BY <1>1, <1>3, <1>11 DEF QuietMove
  <2>2. ASSUME NEW type \in CommandTypes, Once(commands, {Cmd(type, p)}), command = type => ~Queued(type, p)
        PROVE  Once(commands', {Cmd(type, p)})
    <3>1. CASE commands' = commands
      BY <2>2, <3>1
    <3>2. CASE command \in CommandTypes /\ commands' = Append(commands, Cmd(command, p))
      <4>1. Cmd(command, p) \in {Cmd(type, p)} => Elems(commands) \cap {Cmd(type, p)} = {}
        BY <2>2 DEF Queued, Cmd
      <4> QED BY <1>1, <1>5, <2>2, <3>2, <4>1, OnceInTopic
    <3> QED BY <1>3, <3>1, <3>2
  <2>3. \A M \in {Policy(p), Reservation(p), Hold(p)} :
          (Present(M)' => Present(M)) /\ (Once(events, M) => Once(events', M))
    BY DEF EventsKept, Present
  <2>4. Token(p, "policy.evaluate", Policy(p), "awaiting_policy")'
    BY <1>3, <1>4, <2>1, <2>2, <2>3 DEF Token, TokenInv, QuietMove, CommandTypes
  <2>5. Token(p, "ledger.reserve", Reservation(p), "awaiting_ledger")'
    BY <1>3, <1>4, <2>1, <2>2, <2>3 DEF Token, TokenInv, QuietMove, CommandTypes
  <2>6. /\ command = "settlement.execute" => ~Queued("settlement.execute", p) /\ p \notin ref
        /\ Once(commands', {Cmd("settlement.execute", p)})
    <3>1. command = "settlement.execute" => ~Queued("settlement.execute", p) /\ payout[p] = "none"
      BY <1>1, <2>1 DEF FlowInv, QuietMove
    <3>2. payout[p] = "none" => p \notin ref
      BY <1>1 DEF RowInv, ProviderStatuses
    <3>3. Once(commands', {Cmd("settlement.execute", p)})
      BY <2>1, <2>2, <3>1 DEF TokenInv, CommandTypes
    <3> QED BY <3>1, <3>2, <3>3
  <2>7. Queued("settlement.execute", p)' /\ p \in ref' => Holds("apply", p)'
    BY <1>4, <1>6, <2>1, <2>6 DEF TokenInv, CommandTypes
  <2>8. HoldReached(p)' <=> HoldReached(p)
    BY DEF HoldReached
  <2>9. /\ Once(events', Hold(p)) /\ ~(Present(Hold(p))' /\ saga'[p] = "on_hold")
        /\ Present(Hold(p))' \/ saga'[p] = "on_hold" => HoldReached(p)'
    BY <1>3, <2>1, <2>3, <2>8 DEF TokenInv, QuietMove
  <2>10. Holds("apply", p)' /\ worker'.result = "on_hold" =>
           HoldReached(p)' /\ ~Present(Hold(p))' /\ saga'[p] # "on_hold"
    BY <1>3, <1>6, <2>1, <2>3, <2>8 DEF TokenInv, QuietMove
  <2>11. saga'[p] # "manual_review"
    BY <1>3, <2>1 DEF QuietMove
  <2> QED BY <2>4, <2>5, <2>6, <2>7, <2>9, <2>10, <2>11 DEF TokenInv
<1> QED BY <1>8, <1>10, <1>11 DEF OutcomeInv

\* For the other payments it is as if nothing happened.
LEMMA MoveOthers ==
  ASSUME OInv, NEW p \in Payments, NEW step, GoodStep(saga[p], step), updateAndCommand(p, step),
         NEW q \in Payments, q # p, EventsKept(q), Quiet' => Quiet, audits[q] \subseteq audits'[q],
         UNCHANGED <<payment, journals, payout, ref, provider, sent, worker>>
  PROVE  OutcomeInv(q)'
<1>1. IInv /\ TypeOK /\ OutcomeInv(q)
  BY DEF OInv, IInv
<1>2. /\ saga'[q] = saga[q]
      /\ UNCHANGED commands \/ \E type \in CommandTypes : commands' = Append(commands, Cmd(type, p))
  BY <1>1, SagaUpdate DEF updateAndCommand, GoodStep
<1>3. \A type \in CommandTypes : Cmd(type, p) \in Command
  BY DEF Cmd, Command
<1>4. CommandsKept(q)
  BY <1>1, <1>2, KeepCommands
<1>5. \A pc \in {"call", "record", "apply"} : Holds(pc, q)' <=> Holds(pc, q)
  BY <1>1, <1>2, <1>3, WorkerStays
<1>6. RowKept(q) /\ SagaKept(q) /\ QuietKept(q)
  BY <1>2, <1>5 DEF RowKept, SagaKept, QuietKept, Reported
<1> QED BY <1>1, <1>4, <1>6, StillInv

\* What the rows of the transition table have in common, besides being good
\* steps.
LEMMA RowMoves ==
  ASSUME NEW r \in Transitions, r.from \notin {"releasing_ledger", "ledger_released"}
  PROVE  /\ r.from \in Down => r.step.to \in Down
         /\ r.step.to \notin Early \cup {"releasing_ledger", "ledger_released", "manual_review"}
              \/ (r.from = "awaiting_policy" /\ r.step.to = "awaiting_ledger")
         /\ r.step.command \in {"payment.fail", "payment.fail_reserved"} =>
              r.step.to \in Down /\ (r.from \in Early \/ r.on = "payout.provider_failed")
         /\ r.step.command = "settlement.execute" =>
              r.step.to = "awaiting_settlement" /\ r.from = "awaiting_ledger"
         /\ r.from = "awaiting_settlement" => r.on \in ProviderTypes
         /\ r.step.to = "awaiting_settlement" => r.on = "payout.funds_reserved"
         /\ r.step.command # "policy.evaluate"
         /\ r.step.command = "ledger.reserve" => r.from = "awaiting_policy" /\ r.step.to = "awaiting_ledger"
         /\ r.from = "awaiting_policy" => r.on \in {"payout.policy.approved", "payout.policy.rejected"}
         /\ r.from = "awaiting_ledger" => r.on \in {"payout.funds_reserved", "payout.ledger_failed"}
         /\ r.step.to = "on_hold" => r.on = "payout.on_hold" /\ r.from # "on_hold"
<1> USE DEF Transitions, Row, ReasonRow, Step, NoCommand
<1>1. r.from \in Down => r.step.to \in Down
  BY DEF Down
<1>2. \/ r.step.to \notin Early \cup {"releasing_ledger", "ledger_released", "manual_review"}
      \/ (r.from = "awaiting_policy" /\ r.step.to = "awaiting_ledger")
  BY DEF Early
<1>3. r.step.command \in {"payment.fail", "payment.fail_reserved"} =>
        r.step.to \in Down /\ (r.from \in Early \/ r.on = "payout.provider_failed")
  BY DEF Down, Early
<1>4. /\ r.step.command = "settlement.execute" =>
           r.step.to = "awaiting_settlement" /\ r.from = "awaiting_ledger"
      /\ r.step.to = "awaiting_settlement" => r.on = "payout.funds_reserved"
      /\ r.step.command # "policy.evaluate"
      /\ r.step.command = "ledger.reserve" => r.from = "awaiting_policy" /\ r.step.to = "awaiting_ledger"
      /\ r.from = "awaiting_policy" => r.on \in {"payout.policy.approved", "payout.policy.rejected"}
      /\ r.from = "awaiting_ledger" => r.on \in {"payout.funds_reserved", "payout.ledger_failed"}
      /\ r.step.to = "on_hold" => r.on = "payout.on_hold" /\ r.from # "on_hold"
  OBVIOUS
<1>5. r.from = "awaiting_settlement" => r.on \in ProviderTypes
  BY DEF ProviderTypes
<1> HIDE DEF Transitions, Row, ReasonRow, Step, NoCommand
<1> QED BY <1>1, <1>2, <1>3, <1>4, <1>5

\* Before a submission the provider has nothing to pay.
LEMMA EarlyIsUnpaid ==
  ASSUME OInv, NEW p \in Payments, saga[p] \in Early
  PROVE  provider[p] = "none" /\ Unpaid(p)
BY DEF OInv, OutcomeInv, FlowInv, Unpaid

\* The coordinator handling an event of p.
LEMMA HandleOwn ==
  ASSUME OInv, NEW r \in Transitions, NEW p \in Payments, NEW e \in Event,
         events # <<>>, e = Head(events), events' = Tail(events), e.payment = p,
         r.from = saga[p], r.on = e.type, updateAndCommand(p, r.step),
         UNCHANGED <<payment, journals, payout, ref, provider, sent, worker, audits, expiries, crashes>>
  PROVE  OutcomeInv(p)'
<1>1. /\ TypeOK /\ RowInv(p) /\ FlowInv(p) /\ (Quiet => TokenInv(p)) /\ events \in Seq(Event)
      /\ e \in Elems(events)
  BY HeadEvent DEF OInv, OutcomeInv, IInv, TypeOK, MessagingTypeOK
<1>2. EventsKept(p)
  BY <1>1, KeepEvents
<1>3. EventQueued(r.on, p)
  BY <1>1 DEF EventQueued
<1>4. r.from \notin {"releasing_ledger", "ledger_released"}
  BY <1>1 DEF FlowInv
<1>5. PICK from, on, to, command :
        from = r.from /\ on = r.on /\ to = r.step.to /\ command = r.step.command
  OBVIOUS
<1>6. /\ from \in Down => to \in Down
      /\ to \notin Early \cup {"releasing_ledger", "ledger_released", "manual_review"}
           \/ (from = "awaiting_policy" /\ to = "awaiting_ledger")
      /\ command \in {"payment.fail", "payment.fail_reserved"} =>
           to \in Down /\ (from \in Early \/ on = "payout.provider_failed")
      /\ command = "settlement.execute" => to = "awaiting_settlement" /\ from = "awaiting_ledger"
      /\ from = "awaiting_settlement" => on \in ProviderTypes
      /\ to = "awaiting_settlement" => on = "payout.funds_reserved"
      /\ command # "policy.evaluate"
      /\ command = "ledger.reserve" => from = "awaiting_policy" /\ to = "awaiting_ledger"
      /\ from = "awaiting_policy" => on \in {"payout.policy.approved", "payout.policy.rejected"}
      /\ from = "awaiting_ledger" => on \in {"payout.funds_reserved", "payout.ledger_failed"}
      /\ to = "on_hold" => on = "payout.on_hold" /\ from # "on_hold"
  BY <1>4, <1>5, RowMoves
<1>7. GoodMove(p, to, command)
  <2>1. command \in {"payment.fail", "payment.fail_reserved"} => Unpaid(p)
    BY <1>1, <1>3, <1>5, <1>6, EarlyIsUnpaid DEF FlowInv
  <2>2. Unpaid(p) => Unpaid(p)'
    BY DEF Unpaid
  <2>3. from = "awaiting_settlement" => Answered(p)
    BY <1>1, <1>3, <1>5, <1>6 DEF FlowInv
  <2>4. to = "awaiting_settlement" => payment[p] \notin {"none", "created"}
    BY <1>1, <1>3, <1>5, <1>6 DEF FlowInv
  <2>5. from \notin Early => to \notin Early
    BY <1>6 DEF Early
  <2>6. to \notin {"releasing_ledger", "ledger_released"}
    BY <1>6
  <2> QED BY <1>5, <1>6, <2>1, <2>2, <2>3, <2>4, <2>5, <2>6 DEF GoodMove
<1>8. ASSUME Quiet' PROVE QuietMove(p, to, command)
  <2>1. Quiet /\ TokenInv(p)
    BY <1>1, <1>8 DEF Quiet
  <2>2. \A M : Once(events, M) /\ e \in M => Present(M) /\ ~Present(M)'
    BY <1>1, OnceInTopic DEF Present
  <2>3. from = "awaiting_policy" => ~Queued("policy.evaluate", p) /\ ~Present(Policy(p))'
    <3>1. from = "awaiting_policy" => e \in Policy(p)
      BY <1>5, <1>6 DEF Policy, EventsOf
    <3> QED BY <2>1, <2>2, <3>1 DEF TokenInv, Token
  <2>4. from = "awaiting_ledger" => ~Queued("ledger.reserve", p) /\ ~Present(Reservation(p))'
    <3>1. from = "awaiting_ledger" => e \in Reservation(p)
      BY <1>5, <1>6 DEF Reservation, EventsOf
    <3> QED BY <2>1, <2>2, <3>1 DEF TokenInv, Token
  <2>5. to = "on_hold" => Present(Hold(p)) /\ ~Present(Hold(p))'
    <3>1. to = "on_hold" => e \in Hold(p)
      BY <1>5, <1>6 DEF Hold, EventsOf
    <3> QED BY <2>1, <2>2, <3>1 DEF TokenInv
  <2>6. to # "manual_review" /\ (command = "settlement.execute" => from \in Early)
    BY <1>6 DEF Early
  <2> QED BY <1>5, <1>6, <2>1, <2>3, <2>4, <2>5, <2>6 DEF QuietMove
<1>9. GoodStep(saga[p], r.step)
  BY TransitionRows
<1> QED BY <1>2, <1>5, <1>7, <1>8, <1>9, MoveOwn

\* The coordinator starting the saga of p.
LEMMA StartOwn ==
  ASSUME OInv, NEW p \in Payments, saga[p] = "none",
         events # <<>>, events' = Tail(events),
         updateAndCommand(p, Step("awaiting_policy", "policy.evaluate", TRUE)),
         UNCHANGED <<payment, journals, payout, ref, provider, sent, worker, audits, expiries, crashes>>
  PROVE  OutcomeInv(p)'
<1>1. TypeOK
  BY DEF OInv, IInv
<1>2. EventsKept(p)
  BY <1>1, KeepEvents
<1>3. PICK step : step = Step("awaiting_policy", "policy.evaluate", TRUE)
  OBVIOUS
<1>4. step.to = "awaiting_policy" /\ step.command = "policy.evaluate" /\ GoodStep(saga[p], step)
  BY <1>3, StartStep DEF Step
<1>5. GoodMove(p, step.to, step.command)
  BY <1>4 DEF GoodMove, Down, Early
<1>6. Quiet' => QuietMove(p, step.to, step.command)
  BY <1>4 DEF QuietMove, Quiet
<1> QED BY <1>2, <1>3, <1>4, <1>5, <1>6, MoveOwn

\* The coordinator.
LEMMA SagaStepOutcome == ASSUME OInv, SagaStep, NEW q \in Payments PROVE OutcomeInv(q)'
<1>1. IInv /\ TypeOK /\ OutcomeInv(q)
  BY DEF OInv, IInv
<1>2. /\ Handle /\ events # <<>> /\ events' = Tail(events)
      /\ UNCHANGED <<payment, journals, payout, ref, provider, sent, worker, audits, expiries, crashes>>
  BY DEF SagaStep, Handle, ledgerVars, executionVars
<1>3. PICK e \in Event : e = Head(events) /\ e.payment \in Payments
  BY <1>1, <1>2, HeadEvent
<1>4. EventsKept(q)
  BY <1>1, <1>2, KeepEvents
<1>5. Quiet' => Quiet
  BY <1>2 DEF Quiet
<1>6. CASE UNCHANGED <<saga, deadline, commands>>
  <2>1. CommandsKept(q)
    BY <1>1, <1>6, KeepCommands
  <2>2. \A pc \in {"call", "record", "apply"} : Holds(pc, q)' <=> Holds(pc, q)
    BY <1>1, <1>2, <1>6, WorkerStays
  <2>3. RowKept(q) /\ SagaKept(q) /\ QuietKept(q)
    BY <1>2, <1>5, <1>6, <2>2 DEF RowKept, SagaKept, QuietKept, Reported
  <2> QED BY <1>1, <1>4, <2>1, <2>3, StillInv
<1>7. CASE saga[e.payment] = "none" /\ updateAndCommand(e.payment, Step("awaiting_policy", "policy.evaluate", TRUE))
  <2>1. CASE q = e.payment
    BY <1>2, <1>3, <1>7, <2>1, StartOwn
  <2>2. CASE q # e.payment
    <3>1. PICK step : step = Step("awaiting_policy", "policy.evaluate", TRUE) /\ GoodStep(saga[e.payment], step)
      BY <1>7, StartStep
    <3> QED BY <1>2, <1>3, <1>4, <1>5, <1>7, <2>2, <3>1, MoveOthers
  <2> QED BY <2>1, <2>2
<1>8. ASSUME NEW r \in Transitions, r.from = saga[e.payment], r.on = e.type, updateAndCommand(e.payment, r.step)
      PROVE  OutcomeInv(q)'
  <2>1. CASE q = e.payment
    BY <1>2, <1>3, <1>8, <2>1, HandleOwn
  <2>2. CASE q # e.payment
    <3>1. GoodStep(saga[e.payment], r.step)
      BY <1>8, TransitionRows
    <3> QED BY <1>2, <1>3, <1>4, <1>5, <1>8, <2>2, <3>1, MoveOthers
  <2> QED BY <2>1, <2>2
<1>9. \/ UNCHANGED <<saga, deadline, commands>>
      \/ saga[e.payment] = "none" /\ updateAndCommand(e.payment, Step("awaiting_policy", "policy.evaluate", TRUE))
      \/ \E r \in Transitions : /\ r.from = saga[e.payment] /\ r.on = e.type
                                /\ updateAndCommand(e.payment, r.step)
  <2>1. \/ UNCHANGED <<saga, deadline, commands>>
        \/ start(e.payment)
        \/ \E step \in transition(saga[e.payment], e) : updateAndCommand(e.payment, step)
    BY <1>2, <1>3 DEF Handle
  <2> QED BY <2>1 DEF start, transition
<1> QED BY <1>6, <1>7, <1>8, <1>9

\* The timeout worker.
LEMMA SagaExpiryOutcome ==
  ASSUME OInv, NEW p \in Payments, SagaExpiry(p), NEW q \in Payments PROVE OutcomeInv(q)'
<1>1. IInv /\ TypeOK /\ FlowInv(p)
  BY DEF OInv, IInv, OutcomeInv
<1>2. /\ saga[p] \in Expirable /\ updateAndCommand(p, ExpiryStep(saga[p])) /\ expiries' = expiries + 1
      /\ UNCHANGED <<payment, journals, payout, ref, provider, sent, worker, audits, events>>
  BY DEF SagaExpiry, ExpireOnce, ledgerVars, executionVars
<1>3. PICK step : step = ExpiryStep(saga[p]) /\ GoodStep(saga[p], step)
  BY <1>2, ExpirySteps
<1>4. ~Quiet'
  BY <1>1, <1>2 DEF Quiet, TypeOK, SagaTypeOK
<1>5. EventsKept(q)
  BY <1>1, <1>2, KeepEvents
<1>6. GoodMove(p, step.to, step.command)
  <2>1. CASE saga[p] \in {"awaiting_policy", "awaiting_ledger"}
    <3>1. Unpaid(p)'
      BY <1>2, <2>1, EarlyIsUnpaid DEF Early, Unpaid
    <3>2. step.to = "failed" /\ step.command = "payment.fail"
      BY <1>3, <2>1 DEF ExpiryStep, Step
    <3> QED BY <2>1, <3>1, <3>2 DEF GoodMove, Down, Early
  <2>2. CASE saga[p] \in {"awaiting_settlement", "on_hold", "returning", "settling_payment"}
    <3>1. /\ step.to = IF saga[p] = "on_hold" THEN "manual_review" ELSE saga[p]
          /\ step.command \in {"settlement.execute", NoCommand, "ledger.release", "payment.settle"}
          /\ step.command = "settlement.execute" => saga[p] = "awaiting_settlement"
      BY <1>3, <2>2 DEF ExpiryStep, Step, NoCommand
    <3> QED BY <1>1, <2>2, <3>1 DEF GoodMove, Down, Early, FlowInv, NoCommand
  <2> QED BY <1>1, <1>2, <2>1, <2>2 DEF Expirable, FlowInv
<1>7. CASE q = p
  BY <1>2, <1>3, <1>4, <1>5, <1>6, <1>7, MoveOwn
<1>8. CASE q # p
  BY <1>2, <1>3, <1>4, <1>5, <1>8, MoveOthers
<1> QED BY <1>7, <1>8

\* The operator.
LEMMA SagaReviewOutcome ==
  ASSUME OInv, NEW p \in Payments, SagaReview(p), NEW q \in Payments PROVE OutcomeInv(q)'
<1>1. IInv /\ TypeOK /\ FlowInv(p) /\ (Quiet => TokenInv(p))
  BY DEF OInv, IInv, OutcomeInv
<1>2. PICK action \in ReviewActions : ResolveManualReview(p, action)
  BY DEF SagaReview
<1>3. /\ saga[p] = "manual_review" /\ updateAndCommand(p, ReviewStep(action))
      /\ audits' = [audits EXCEPT ![p] = audits[p] \cup {action}]
      /\ UNCHANGED <<payment, journals, payout, ref, provider, sent, worker, events, expiries, crashes>>
  BY <1>2 DEF SagaReview, ResolveManualReview, ledgerVars, executionVars
<1>4. PICK step : step = ReviewStep(action) /\ GoodStep(saga[p], step)
  BY <1>3, ReviewSteps
<1>5. ~Quiet /\ ~Quiet'
  BY <1>1, <1>3 DEF TokenInv, Quiet
<1>6. EventsKept(q)
  BY <1>1, <1>3, KeepEvents
<1>7. action \in audits'[p] /\ \A r \in Payments : audits[r] \subseteq audits'[r]
  BY <1>1, <1>3 DEF TypeOK, SagaTypeOK
<1>8. GoodMove(p, step.to, step.command)
  <2>1. /\ step.to \in {"on_hold", "settling_payment", "failed", "returning"}
        /\ step.command # "settlement.execute"
        /\ step.command \in {"payment.fail", "payment.fail_reserved"} => step.to = "failed" /\ action = "fail"
    BY <1>4 DEF ReviewStep, ReviewActions, Step, NoCommand
  <2>2. action = "fail" => Unpaid(p)'
    BY <1>7 DEF Unpaid
  <2> QED BY <1>3, <2>1, <2>2 DEF GoodMove, Down, Early
<1>9. CASE q = p
  BY <1>3, <1>4, <1>5, <1>6, <1>7, <1>8, <1>9, MoveOwn
<1>10. CASE q # p
  BY <1>3, <1>4, <1>5, <1>6, <1>7, <1>10, MoveOthers
<1> QED BY <1>9, <1>10

-----------------------------------------------------------------------------
(* Creation and the commands that are one transaction. *)

\* A new payout.
LEMMA CreateOutcome ==
  ASSUME OInv, NEW p \in Payments, CreatePayout(p), NEW q \in Payments PROVE OutcomeInv(q)'
<1>1. IInv /\ TypeOK /\ OutcomeInv(q)
  BY DEF OInv, IInv
<1>2. /\ payment[p] = "none" /\ payment' = [payment EXCEPT ![p] = "created"]
      /\ events' = Append(events, Evt("payout.created", p))
      /\ UNCHANGED <<commands, journals, saga, audits, expiries, payout, ref, provider, sent, worker, crashes>>
  BY DEF CreatePayout, sagaVars, executionVars
<1>3. payment'[p] = "created" /\ \A r \in Payments \ {p} : payment'[r] = payment[r]
  BY <1>1, <1>2 DEF TypeOK, LedgerTypeOK
<1>4. PICK e \in Event : e = Evt("payout.created", p) /\ e.type = "payout.created"
  <2>1. Evt("payout.created", p) \in Event
    BY EvtType DEF EventTypes
  <2>2. Evt("payout.created", p).type = "payout.created"
    BY DEF Evt
  <2> QED BY <2>1, <2>2
<1>5. CommandsKept(q) /\ EventsKept(q)
  BY <1>1, <1>2, <1>4, KeepCommands, KeepEvents
<1>6. \A pc \in {"call", "record", "apply"} : Holds(pc, q)' <=> Holds(pc, q)
  BY <1>1, <1>2, WorkerStays
<1>7. RowKept(q) /\ SagaKept(q) /\ QuietKept(q)
  BY <1>2, <1>3, <1>6 DEF RowKept, SagaKept, QuietKept, Reported, Quiet
<1> QED BY <1>1, <1>5, <1>7, StillInv

\* The head of the topic is taken and a reply to it may be appended: a token
\* becomes its answer.
LEMMA TokenTaken ==
  ASSUME TypeOK, NEW p \in Payments, NEW command, NEW M, NEW state, Token(p, command, M, state),
         saga'[p] = saga[p],
         UNCHANGED commands \/ (commands # <<>> /\ commands' = Tail(commands)),
         \/ UNCHANGED events
         \/ \E e \in Event :
              /\ events' = Append(events, e)
              /\ e \in M => /\ commands # <<>> /\ commands' = Tail(commands)
                            /\ Head(commands) = Cmd(command, p)
  PROVE  Token(p, command, M, state)'
<1>1. commands \in Seq(Command) /\ events \in Seq(Event)
  BY DEF TypeOK, MessagingTypeOK
<1>2. Once(commands', {Cmd(command, p)}) /\ Elems(commands') \subseteq Elems(commands)
  <2>1. CASE UNCHANGED commands
    BY <2>1 DEF Token
  <2>2. CASE commands # <<>> /\ commands' = Tail(commands)
    BY <1>1, <2>2, ElemsTail, OnceInTopic DEF Token
  <2> QED BY <2>1, <2>2
<1>3. Queued(command, p)' => Queued(command, p)
  BY <1>2 DEF Queued
<1>4. CASE UNCHANGED events
  BY <1>2, <1>3, <1>4 DEF Token, Present
<1>5. ASSUME NEW e \in Event, events' = Append(events, e),
             e \in M => /\ commands # <<>> /\ commands' = Tail(commands)
                        /\ Head(commands) = Cmd(command, p)
      PROVE  Token(p, command, M, state)'
  <2>1. Elems(events') = Elems(events) \cup {e}
    BY <1>1, <1>5, ElemsAppend
  <2>2. e \in M => Queued(command, p) /\ ~Queued(command, p)'
    <3>1. e \in M => Elems(commands') \cap {Cmd(command, p)} = {}
      BY <1>1, <1>5, OnceInTopic DEF Token
    <3>2. e \in M => Head(commands) \in Elems(commands)
      BY <1>5, TakeHead
    <3> QED BY <1>5, <3>1, <3>2 DEF Queued
  <2>3. e \in M => Elems(events) \cap M = {}
    BY <2>2 DEF Token, Present
  <2>4. Once(events', M)
    BY <1>1, <1>5, <2>3, OnceInTopic DEF Token
  <2>5. Present(M)' => Present(M) \/ e \in M
    BY <2>1 DEF Present
  <2> QED BY <1>2, <1>3, <2>2, <2>3, <2>4, <2>5 DEF Token
<1> QED BY <1>4, <1>5

\* A reply belongs to its command and says what the command did.
Replied(p, type, reply) ==
  /\ reply \in EventTypes \ (ProviderTypes \cup {"payout.created"})
  /\ reply \in {"payout.policy.approved", "payout.policy.rejected"} => type = "policy.evaluate"
  /\ reply \in {"payout.funds_reserved", "payout.ledger_failed"} => type = "ledger.reserve"
  /\ reply = "payout.funds_reserved" => payment'[p] \notin {"none", "created"}
  /\ reply = "payout.failed" => payment'[p] = "failed"
  /\ reply = "payout.funds_released" => "payment.released" \in journals'[p]

\* A command moves its payment forward, and to failed only when told to.
Posting(p, type) ==
  /\ journals[p] \subseteq journals'[p]
  /\ payment'[p] = "failed" => payment[p] = "failed" \/ type \in {"payment.fail", "payment.fail_reserved"}
  /\ payment[p] = "failed" => payment'[p] = "failed"
  /\ payment[p] \notin {"none", "created"} => payment'[p] \notin {"none", "created"}

Answers(p, type) ==
  \/ UNCHANGED events
  \/ \E reply \in EventTypes : events' = Append(events, Evt(reply, p)) /\ Replied(p, type, reply)

\* Every command is of this form.
LEMMA CommandForm ==
  ASSUME TypeOK, NEW p \in Payments, LedgerOrPaymentCommand(p)
  PROVE  \E type \in CommandTypes \ {"settlement.execute"} :
           Take(type, p) /\ Posting(p, type) /\ Answers(p, type)
<1> USE DEF TypeOK, LedgerTypeOK, ledgerVars, enqueueReply, EventTypes, CommandTypes, ProviderTypes
<1>1. CASE PolicyEvaluate(p)
  <2>1. Take("policy.evaluate", p) /\ UNCHANGED ledgerVars
    BY <1>1 DEF PolicyEvaluate, Reply
  <2>2. Answers(p, "policy.evaluate")
    BY <1>1 DEF PolicyEvaluate, Reply, Answers, Replied
  <2> QED BY <2>1, <2>2 DEF Posting
<1>2. CASE LedgerReserve(p)
  <2>1. CASE Posts(p, "created", "processing", TRUE)
    <3>1. Posting(p, "ledger.reserve") /\ payment'[p] = "processing"
      BY <1>2, <2>1 DEF LedgerReserve, Reserve, post, Posts, Posting
    <3>2. Answers(p, "ledger.reserve")
      BY <1>2, <2>1, <3>1 DEF LedgerReserve, Answers, Replied
    <3> QED BY <1>2, <3>1, <3>2 DEF LedgerReserve
  <2>2. CASE ~Posts(p, "created", "processing", TRUE)
    BY <1>2, <2>2 DEF LedgerReserve, Drop, Posting, Answers
  <2> QED BY <2>1, <2>2
<1>3. CASE LedgerRelease(p)
  <2>1. CASE Posts(p, "processing", "processing", FALSE)
    <3>1. Posting(p, "ledger.release") /\ "payment.released" \in journals'[p]
      BY <1>3, <2>1 DEF LedgerRelease, Release, post, Posting
    <3>2. Answers(p, "ledger.release")
      BY <1>3, <2>1, <3>1 DEF LedgerRelease, Answers, Replied
    <3> QED BY <1>3, <3>1, <3>2 DEF LedgerRelease
  <2>2. CASE ~Posts(p, "processing", "processing", FALSE)
    BY <1>3, <2>2 DEF LedgerRelease, Drop, Posting, Answers
  <2> QED BY <2>1, <2>2
<1>4. CASE PaymentSettle(p)
  <2>1. CASE Posts(p, "processing", "succeeded", TRUE)
    <3>1. Posting(p, "payment.settle")
      BY <1>4, <2>1 DEF PaymentSettle, Settle, post, Posts, Posting
    <3>2. Answers(p, "payment.settle")
      BY <1>4, <2>1, <3>1 DEF PaymentSettle, Answers, Replied
    <3> QED BY <1>4, <3>1, <3>2 DEF PaymentSettle
  <2>2. CASE ~Posts(p, "processing", "succeeded", TRUE)
    BY <1>4, <2>2 DEF PaymentSettle, Drop, Posting, Answers
  <2> QED BY <2>1, <2>2
<1>5. ASSUME NEW type \in {"payment.fail", "payment.fail_reserved"}, PaymentFail(type, p)
      PROVE  Take(type, p) /\ Posting(p, type) /\ Answers(p, type)
  <2>1. CASE Failable(p)
    <3>1. payment'[p] = "failed" /\ Posting(p, type)
      BY <1>5, <2>1 DEF PaymentFail, Posting
    <3>2. Answers(p, type)
      BY <1>5, <2>1, <3>1 DEF PaymentFail, Answers, Replied
    <3> QED BY <1>5, <3>1, <3>2 DEF PaymentFail
  <2>2. CASE ~Failable(p)
    BY <1>5, <2>2 DEF PaymentFail, Drop, Posting, Answers
  <2> QED BY <2>1, <2>2
<1>6. CASE PaymentReturn(p)
  <2>1. CASE Returnable(p)
    BY <1>6, <2>1 DEF PaymentReturn, Reply, Posting, Answers, Replied
  <2>2. CASE ~Returnable(p)
    BY <1>6, <2>2 DEF PaymentReturn, Drop, Posting, Answers
  <2> QED BY <2>1, <2>2
<1> QED BY <1>1, <1>2, <1>3, <1>4, <1>5, <1>6 DEF LedgerOrPaymentCommand

\* A command's own payment.
LEMMA CommandOutcomeOwn ==
  ASSUME OInv, NEW p \in Payments, NEW type \in CommandTypes \ {"settlement.execute"},
         Take(type, p), Posting(p, type), Answers(p, type),
         UNCHANGED <<saga, audits, expiries, payout, ref, provider, sent, worker, crashes>>
  PROVE  OutcomeInv(p)'
<1>1. /\ IInv /\ TypeOK /\ RowInv(p) /\ FlowInv(p) /\ (Quiet => TokenInv(p))
      /\ commands \in Seq(Command) /\ events \in Seq(Event)
  BY DEF OInv, IInv, OutcomeInv, TypeOK, MessagingTypeOK
<1>2. worker = Idle /\ commands # <<>> /\ Head(commands) = Cmd(type, p) /\ commands' = Tail(commands)
  BY DEF Take
<1>3. Queued(type, p)
  BY <1>1, <1>2, TakeHead DEF Queued
<1>4. \A pc \in {"call", "record", "apply"} : ~Holds(pc, p) /\ ~Holds(pc, p)'
  BY <1>2, WorkerIdle DEF Holds, Idle, At
<1>5. RowInv(p)'
  <2>1. RowKept(p)
    BY <1>4 DEF RowKept, Reported
  <2> QED BY <1>1, <2>1, RowStill
<1>6. CommandsKept(p)
  BY <1>1, <1>2, KeepCommands
<1>7. FlowKept(p)
  <2>1. (Unpaid(p) => Unpaid(p)') /\ (Answered(p)' <=> Answered(p))
    BY UnpaidStays
  <2>2. type \in {"payment.fail", "payment.fail_reserved"} => FailQueued(p)
    BY <1>3 DEF FailQueued
  <2> QED BY <2>1, <2>2 DEF FlowKept, Posting
<1>8. CASE UNCHANGED events
  <2>1. EventsKept(p)
    BY <1>1, <1>8, KeepEvents
  <2>2. NewsKept(p)
    BY <1>8 DEF NewsKept, EventQueued
  <2>3. FlowInv(p)'
    BY <1>1, <1>6, <1>7, <2>2, FlowStill
  <2>4. Quiet' => TokenInv(p)'
    BY <1>1, <1>4, <1>6, <2>1, TokenStill DEF Quiet
  <2> QED BY <1>5, <2>3, <2>4 DEF OutcomeInv
<1>9. ASSUME NEW reply \in EventTypes, events' = Append(events, Evt(reply, p)), Replied(p, type, reply)
      PROVE  OutcomeInv(p)'
  <2>1. PICK e \in Event : e = Evt(reply, p)
    BY EvtType
  <2>2. e.type = reply /\ e.payment = p
    BY <2>1 DEF Evt
  <2>3. Elems(events') = Elems(events) \cup {e} /\ events' = Append(events, e)
    BY <1>1, <1>9, <2>1, ElemsAppend
  <2>4. \A t : EventQueued(t, p)' => EventQueued(t, p) \/ t = reply
    BY <2>2, <2>3 DEF EventQueued
  <2>5. NewsKept(p)
    <3>1. /\ \A t \in ProviderTypes : EventQueued(t, p)' => EventQueued(t, p)
          /\ EventQueued("payout.provider_failed", p)' => EventQueued("payout.provider_failed", p)
      BY <1>9, <2>4 DEF Replied, ProviderTypes
    <3> QED BY <1>9, <2>4, <3>1 DEF NewsKept, Replied
  <2>6. FlowInv(p)'
    BY <1>1, <1>6, <1>7, <2>5, FlowStill
  <2>7. ASSUME Quiet' PROVE TokenInv(p)'
    <3>1. Quiet /\ TokenInv(p)
      BY <1>1, <2>7 DEF Quiet
    <3>2. Token(p, "policy.evaluate", Policy(p), "awaiting_policy")'
      <4>1. e \in Policy(p) => type = "policy.evaluate"
        BY <1>9, <2>2 DEF Policy, EventsOf, Replied
      <4>2. Token(p, "policy.evaluate", Policy(p), "awaiting_policy")
        BY <3>1 DEF TokenInv
      <4> QED BY <1>1, <1>2, <2>3, <4>1, <4>2, TokenTaken
    <3>3. Token(p, "ledger.reserve", Reservation(p), "awaiting_ledger")'
      <4>1. e \in Reservation(p) => type = "ledger.reserve"
        BY <1>9, <2>2 DEF Reservation, EventsOf, Replied
      <4>2. Token(p, "ledger.reserve", Reservation(p), "awaiting_ledger")
        BY <3>1 DEF TokenInv
      <4> QED BY <1>1, <1>2, <2>3, <4>1, <4>2, TokenTaken
    <3>4. e \notin Hold(p)
      BY <1>9, <2>2 DEF Hold, EventsOf, Replied, ProviderTypes
    <3>5. Once(events', Hold(p)) /\ (Present(Hold(p))' => Present(Hold(p)))
      BY <1>1, <2>3, <3>1, <3>4, OnceInTopic DEF TokenInv, Present
    <3>6. /\ Once(commands', {Cmd("settlement.execute", p)})
          /\ Queued("settlement.execute", p)' => Queued("settlement.execute", p)
      BY <1>6, <3>1 DEF TokenInv, CommandsKept, CommandTypes
    <3>7. HoldReached(p)' <=> HoldReached(p)
      BY DEF HoldReached
    <3> QED BY <1>4, <3>1, <3>2, <3>3, <3>5, <3>6, <3>7 DEF TokenInv
  <2> QED BY <1>5, <2>6, <2>7 DEF OutcomeInv
<1> QED BY <1>8, <1>9 DEF Answers

\* The ledger and payment commands.
LEMMA CommandOutcome ==
  ASSUME OInv, NEW p \in Payments, LedgerOrPaymentCommand(p), NEW q \in Payments PROVE OutcomeInv(q)'
<1>1. IInv /\ TypeOK /\ OutcomeInv(q)
  BY DEF OInv, IInv
<1>2. PICK type \in CommandTypes \ {"settlement.execute"} :
        Take(type, p) /\ Posting(p, type) /\ Answers(p, type)
  BY <1>1, CommandForm
<1>3. UNCHANGED <<saga, audits, expiries, payout, ref, provider, sent, worker, crashes>>
  BY DEF LedgerOrPaymentCommand, PolicyEvaluate, LedgerReserve, LedgerRelease, PaymentSettle,
         PaymentFail, PaymentReturn, sagaVars, executionVars
<1>4. CASE q = p
  BY <1>2, <1>3, <1>4, CommandOutcomeOwn
<1>5. CASE q # p
  <2>1. payment'[q] = payment[q] /\ journals'[q] = journals[q]
    BY <1>1, <1>5 DEF LedgerOrPaymentCommand, PolicyEvaluate, LedgerReserve, LedgerRelease, PaymentSettle,
           PaymentFail, PaymentReturn, Reply, Drop, Reserve, Release, Settle, post, ledgerVars,
           TypeOK, LedgerTypeOK
  <2>2. worker = Idle /\ commands # <<>> /\ commands' = Tail(commands)
    BY <1>2 DEF Take
  <2>3. EventsKept(q)
    <3>1. \A reply \in EventTypes : Evt(reply, p) \in Event /\ Evt(reply, p).payment = p
      BY EvtType DEF Evt
    <3> QED BY <1>1, <1>2, <1>5, <3>1, KeepEvents DEF Answers
  <2>4. CommandsKept(q)
    BY <1>1, <2>2, KeepCommands
  <2>5. \A pc \in {"call", "record", "apply"} : ~Holds(pc, q) /\ ~Holds(pc, q)'
    BY <1>3, <2>2, WorkerIdle DEF Holds, Idle, At
  <2>6. RowKept(q) /\ SagaKept(q) /\ QuietKept(q)
    BY <1>3, <2>1, <2>5 DEF RowKept, SagaKept, QuietKept, Reported, Quiet
  <2> QED BY <1>1, <2>3, <2>4, <2>6, StillInv
<1> QED BY <1>4, <1>5

-----------------------------------------------------------------------------
(* Execution. *)

\* A stop forgets what the worker held.
LEMMA StopOutcome ==
  ASSUME OInv, NEW q \in Payments, worker' = Idle, crashes' = crashes + 1,
         UNCHANGED <<commands, events, payment, journals, saga, audits, payout, ref, provider, sent>>
  PROVE  OutcomeInv(q)'
<1>1. IInv /\ TypeOK /\ OutcomeInv(q)
  BY DEF OInv, IInv
<1>2. ~Quiet'
  BY <1>1 DEF Quiet, TypeOK, ExecutionTypeOK
<1>3. \A pc \in {"call", "record", "apply"} : ~Holds(pc, q)'
  BY WorkerIdle
<1>4. CommandsKept(q) /\ EventsKept(q)
  BY <1>1, KeepCommands, KeepEvents
<1>5. RowKept(q) /\ SagaKept(q) /\ QuietKept(q)
  BY <1>2, <1>3 DEF RowKept, SagaKept, QuietKept, Reported
<1> QED BY <1>1, <1>4, <1>5, StillInv

\* Executing a command of p, and the request it makes, leaves the other
\* payments alone.
LEMMA ExecutionOutcomeOthers ==
  ASSUME OInv, NEW p \in Payments, ExecuteCommand(p) \/ ProviderCall(p), NEW q \in Payments, q # p
  PROVE  OutcomeInv(q)'
<1>1. IInv /\ TypeOK /\ OutcomeInv(q)
  BY DEF OInv, IInv
<1>2. Executing(p) /\ UNCHANGED <<payment, journals, saga, audits, expiries, crashes>>
  BY DEF ExecuteCommand, ProviderCall, prepare, record, ApplyResult, CallAnswered, CallLost, CallRejected,
         sagaVars, ledgerVars
<1>3. ~Executing(q)
  BY <1>2 DEF Executing, Cmd
<1>4. UNCHANGED commands \/ (worker' = Idle /\ commands # <<>> /\ commands' = Tail(commands))
  BY <1>2 DEF ExecuteCommand, ProviderCall, prepare, record, ApplyResult, CallAnswered, CallLost, CallRejected,
              Executing
<1>5. \A pc \in {"call", "record", "apply"} : ~Holds(pc, q) /\ ~Holds(pc, q)'
  <2>1. CASE UNCHANGED commands
    BY <1>3, <2>1 DEF Holds, Executing
  <2>2. CASE worker' = Idle
    BY <1>3, <2>2, WorkerIdle DEF Holds
  <2> QED BY <1>4, <2>1, <2>2
<1>6. UNCHANGED events \/ \E e \in Event : e.payment # q /\ events' = Append(events, e)
  <2>1. \/ UNCHANGED events
        \/ worker.result \in WorkerResults /\ events' = Append(events, ResultEvent(p, worker.result))
    BY <1>1 DEF ExecuteCommand, ProviderCall, prepare, record, ApplyResult, CallAnswered, CallLost, CallRejected,
                TypeOK, ExecutionTypeOK
  <2>2. ResultEvent(p, worker.result) \in Event /\ ResultEvent(p, worker.result).payment = p
    BY DEF ResultEvent, Event, EventTypes, Reasons
  <2> QED BY <2>1, <2>2
<1>7. /\ payout'[q] = payout[q] /\ provider'[q] = provider[q] /\ (q \in ref' <=> q \in ref)
      /\ \A w \in sent' : w.payment = q => w \in sent
  <2>1. CASE ExecuteCommand(p)
    BY <1>1, <2>1 DEF ExecuteCommand, prepare, record, ApplyResult, RecordStatus, TypeOK, ExecutionTypeOK
  <2>2. CASE ProviderCall(p)
    <3>1. UNCHANGED <<payout, ref>> /\ (Accept(p) \/ UNCHANGED <<provider, sent>>)
      BY <2>2 DEF ProviderCall, CallAnswered, CallLost, CallRejected
    <3> QED BY <1>1, <3>1 DEF Accept, Notify, TypeOK, ExecutionTypeOK
  <2> QED BY <2>1, <2>2
<1>8. CommandsKept(q) /\ EventsKept(q)
  BY <1>1, <1>4, <1>6, KeepCommands, KeepEvents
<1>9. RowKept(q) /\ SagaKept(q) /\ QuietKept(q)
  <2>1. \A status : Reported(q, status)' => Reported(q, status)
    BY <1>7 DEF Reported
  <2> QED BY <1>2, <1>5, <1>7, <2>1 DEF RowKept, SagaKept, QuietKept, Quiet
<1> QED BY <1>1, <1>8, <1>9, StillInv

\* A row without an answer has no reference, and its saga knows of no hold.
LEMMA UndecidedRow ==
  ASSUME OInv, NEW p \in Payments, Undecided(p) \/ payout[p] = "none"
  PROVE  /\ p \notin ref /\ payout[p] # "submission_failed" /\ ~HoldReached(p)
         /\ Quiet => ~Present(Hold(p)) /\ saga[p] # "on_hold"
<1>1. RowInv(p) /\ (Quiet => TokenInv(p))
  BY DEF OInv, OutcomeInv
<1>2. p \notin ref /\ payout[p] # "submission_failed" /\ ~HoldReached(p)
  BY <1>1 DEF RowInv, Undecided, ProviderStatuses, HoldReached
<1> QED BY <1>1, <1>2 DEF TokenInv

\* The command being executed is in the topic.
LEMMA ExecutingQueued ==
  ASSUME TypeOK, NEW p \in Payments, Executing(p) PROVE Queued("settlement.execute", p)
<1>1. commands # <<>> /\ commands \in Seq(Command) /\ Head(commands) = Cmd("settlement.execute", p)
  BY DEF Executing, TypeOK, MessagingTypeOK
<1> QED BY <1>1, ElemsTail DEF Queued

\* While the topics stay, the saga's view only needs the row not to lose what
\* it was told.
LEMMA ExecutionFlow ==
  ASSUME TypeOK, NEW p \in Payments, FlowInv(p), Executing(p),
         Answered(p) => Answered(p)',
         FailQueued(p) \/ payment[p] = "failed" \/ EventQueued("payout.provider_failed", p)
           => (Unpaid(p) => Unpaid(p)'),
         UNCHANGED <<commands, events, saga, payment, journals>>
  PROVE  FlowInv(p)'
<1>1. Queued("settlement.execute", p)
  BY ExecutingQueued
<1>2. CommandsKept(p)
  BY KeepCommands
<1>3. NewsKept(p)
  BY DEF NewsKept, EventQueued
<1>4. FlowKept(p)
  BY <1>1 DEF FlowKept
<1> QED BY <1>2, <1>3, <1>4, FlowStill

\* The same for the tokens; an answer that is held must be new.
LEMMA ExecutionTokens ==
  ASSUME OInv, Quiet, NEW p \in Payments, Undecided(p) \/ payout[p] = "none",
         Holds("apply", p)' => (worker'.result = "on_hold" => HoldReached(p)'),
         p \in ref' => Holds("apply", p)',
         UNCHANGED <<commands, events, saga>>
  PROVE  TokenInv(p)'
<1>1. TokenInv(p) /\ ~Present(Hold(p)) /\ saga[p] # "on_hold"
  BY UndecidedRow DEF OInv, OutcomeInv
<1>2. ~Present(Hold(p))'
  BY <1>1 DEF Present
<1>3. /\ Token(p, "policy.evaluate", Policy(p), "awaiting_policy")'
      /\ Token(p, "ledger.reserve", Reservation(p), "awaiting_ledger")'
  BY <1>1 DEF TokenInv, Token, Queued, Present
<1> QED BY <1>1, <1>2, <1>3 DEF TokenInv, Queued

\* prepare.
LEMMA PrepareOwn ==
  ASSUME OInv, NEW p \in Payments, prepare(p),
         UNCHANGED <<saga, audits, expiries, payment, journals>>
  PROVE  OutcomeInv(p)'
<1>1. /\ IInv /\ TypeOK /\ RowInv(p) /\ FlowInv(p) /\ (Quiet => TokenInv(p))
      /\ worker.pc = "idle" /\ Executing(p)
      /\ UNCHANGED <<commands, events, ref, provider, sent, crashes>>
  BY DEF OInv, IInv, OutcomeInv, prepare
<1>2. /\ \A status : Stands(p, status)' <=> Stands(p, status)
      /\ \A status : Reported(p, status)' <=> Reported(p, status)
      /\ Executing(p)'
  BY <1>1 DEF Stands, Reported, Executing
<1>3. CASE /\ payout[p] = "none" \/ (p \notin ref /\ payout[p] = "unknown")
           /\ payout'[p] \in {"submission_pending", "unknown"}
           /\ worker' = At("call", "none")
  <2>1. p \notin ref /\ payout[p] # "submission_failed"
    BY <1>3, UndecidedRow DEF Undecided
  <2>2. worker'.pc = "call" /\ Undecided(p)' /\ ~Holds("record", p)' /\ ~Holds("apply", p)'
    BY <1>3 DEF At, Undecided, Holds
  <2>3. RowInv(p)'
    BY <1>1, <1>2, <2>1, <2>2 DEF RowInv
  <2>4. FlowInv(p)'
    <3>1. (Answered(p) => Answered(p)') /\ (Unpaid(p) => Unpaid(p)')
      BY <1>1, <2>1 DEF Answered, Unpaid
    <3> QED BY <1>1, <3>1, ExecutionFlow
  <2>5. Quiet' => TokenInv(p)'
    BY <1>1, <1>3, <2>1, <2>2, ExecutionTokens DEF Quiet, Undecided
  <2> QED BY <2>3, <2>4, <2>5 DEF OutcomeInv
<1>4. CASE p \in ref /\ worker' = At("apply", mapPersistedResult(payout[p])) /\ UNCHANGED payout
  <2>1. worker'.pc = "apply" /\ worker'.result = mapPersistedResult(payout[p])
    BY <1>4 DEF At
  <2>2. /\ worker'.result \in Results /\ worker'.result # "rejected"
        /\ worker'.result \in {"failed", "submission_failed"} => worker'.result = payout[p]
    BY <1>1, <1>4, <2>1 DEF RowInv, mapPersistedResult, Results, ProviderStatuses
  <2>3. Stands(p, worker'.result)
    BY <1>1, <1>4, <2>2 DEF RowInv, Stands
  <2>4. Stands(p, worker.result)'
    BY <1>1, <2>3 DEF Stands
  <2>5. ~Holds("call", p)' /\ ~Holds("record", p)'
    BY <2>1 DEF Holds
  <2>6. Undecided(p)' <=> Undecided(p)
    BY <1>4 DEF Undecided
  <2>7. RowInv(p)'
    BY <1>1, <1>2, <1>4, <2>2, <2>4, <2>5, <2>6 DEF RowInv
  <2>8. FlowInv(p)'
    <3>1. (Answered(p) => Answered(p)') /\ (Unpaid(p) => Unpaid(p)')
      BY <1>1, <1>4 DEF Answered, Unpaid
    <3> QED BY <1>1, <3>1, ExecutionFlow
  <2>9. ~Quiet
    <3>1. Queued("settlement.execute", p)
      BY <1>1, ExecutingQueued
    <3> QED BY <1>1, <1>4, <3>1 DEF TokenInv, Holds
  <2>10. ~Quiet'
    BY <1>1, <2>9 DEF Quiet
  <2> QED BY <2>7, <2>8, <2>10 DEF OutcomeInv
<1> QED BY <1>1, <1>3, <1>4 DEF prepare, TypeOK, ExecutionTypeOK

\* record.
LEMMA RecordOwn ==
  ASSUME OInv, NEW p \in Payments, record(p),
         UNCHANGED <<saga, audits, expiries, payment, journals>>
  PROVE  OutcomeInv(p)'
<1>1. /\ IInv /\ TypeOK /\ RowInv(p) /\ FlowInv(p) /\ (Quiet => TokenInv(p))
      /\ worker.pc = "record" /\ Executing(p) /\ Holds("record", p)
      /\ UNCHANGED <<commands, events, provider, sent, crashes>>
  BY DEF OInv, IInv, OutcomeInv, record, Holds
<1>2. /\ \A status : Stands(p, status)' <=> Stands(p, status)
      /\ \A status : Reported(p, status)' <=> Reported(p, status)
      /\ Executing(p)'
  BY <1>1 DEF Stands, Reported, Executing
<1>3. Undecided(p) /\ p \notin ref /\ payout[p] # "submission_failed"
  BY <1>1, UndecidedRow DEF RowInv
<1>4. FlowInv(p)'
  <2>1. (Answered(p) => Answered(p)') /\ (Unpaid(p) => Unpaid(p)')
    BY <1>1, <1>3 DEF Answered, Unpaid
  <2> QED BY <1>1, <2>1, ExecutionFlow
<1>5. CASE worker.result = "unknown" /\ RecordStatus(p, "unknown") /\ worker' = Idle /\ UNCHANGED ref
  <2>1. \A pc \in {"call", "record", "apply"} : ~Holds(pc, p)'
    BY <1>5, WorkerIdle
  <2>2. RowInv(p)'
    BY <1>1, <1>2, <1>3, <1>5, <2>1 DEF RowInv
  <2>3. Quiet' => TokenInv(p)'
    BY <1>1, <1>3, <1>5, <2>1, ExecutionTokens DEF Quiet
  <2> QED BY <1>4, <2>2, <2>3 DEF OutcomeInv
<1>6. CASE /\ worker.result = "rejected" /\ RecordStatus(p, "submission_failed")
           /\ worker' = At("apply", "rejected") /\ UNCHANGED ref
  <2>1. /\ worker'.pc = "apply" /\ worker'.result = "rejected" /\ payout'[p] = "submission_failed"
    BY <1>1, <1>3, <1>6 DEF At, RecordStatus, TypeOK, ExecutionTypeOK
  <2>2. ~Holds("call", p)' /\ ~Holds("record", p)' /\ Holds("apply", p)'
    BY <1>2, <2>1 DEF Holds
  <2>3. RowInv(p)'
    BY <1>1, <1>2, <1>3, <1>6, <2>1, <2>2 DEF RowInv
  <2>4. Quiet' => TokenInv(p)'
    BY <1>1, <1>3, <1>6, <2>1, <2>2, ExecutionTokens DEF Quiet
  <2> QED BY <1>4, <2>3, <2>4 DEF OutcomeInv
<1>7. CASE /\ worker.result \in Results /\ RecordStatus(p, persistedStatus(worker.result))
           /\ ref' = (IF Undecided(p) THEN ref \cup {p} ELSE ref) /\ worker' = At("apply", worker.result)
  <2>1. /\ worker'.pc = "apply" /\ worker'.result = worker.result
        /\ payout'[p] = persistedStatus(worker.result) /\ p \in ref'
    BY <1>1, <1>3, <1>7 DEF At, RecordStatus, TypeOK, ExecutionTypeOK
  <2>2. ~Holds("call", p)' /\ ~Holds("record", p)' /\ Holds("apply", p)'
    BY <1>2, <2>1 DEF Holds
  <2>3. provider[p] # "none" /\ Stands(p, worker.result) /\ worker.result # "rejected"
    BY <1>1, <1>7 DEF RowInv, Results
  <2>4. payout'[p] \in ProviderStatuses /\ Stands(p, payout'[p])
    BY <1>7, <2>1, <2>3 DEF persistedStatus, Results, ProviderStatuses, Stands
  <2>5. Stands(p, payout[p])' /\ Stands(p, worker.result)'
    BY <1>1, <2>1, <2>3, <2>4 DEF Stands
  <2>6. RowInv(p)'
    BY <1>1, <1>2, <1>7, <2>1, <2>2, <2>3, <2>4, <2>5 DEF RowInv
  <2>7. worker'.result = "on_hold" => HoldReached(p)'
    BY <2>1 DEF HoldReached, persistedStatus
  <2>8. Quiet' => TokenInv(p)'
    BY <1>1, <1>3, <2>2, <2>7, ExecutionTokens DEF Quiet
  <2> QED BY <1>4, <2>6, <2>8 DEF OutcomeInv
<1> QED BY <1>5, <1>6, <1>7 DEF record

\* ApplyResult.
LEMMA ApplyOwn ==
  ASSUME OInv, NEW p \in Payments, ApplyResult(p),
         UNCHANGED <<saga, audits, expiries, payment, journals>>
  PROVE  OutcomeInv(p)'
<1>1. /\ IInv /\ TypeOK /\ RowInv(p) /\ FlowInv(p) /\ (Quiet => TokenInv(p))
      /\ worker.pc = "apply" /\ Executing(p) /\ Holds("apply", p) /\ worker' = Idle
      /\ commands # <<>> /\ commands' = Tail(commands) /\ Head(commands) = Cmd("settlement.execute", p)
      /\ commands \in Seq(Command) /\ events \in Seq(Event)
      /\ UNCHANGED <<payout, ref, provider, sent, crashes>>
  BY DEF OInv, IInv, OutcomeInv, ApplyResult, Holds, Executing, TypeOK, MessagingTypeOK
<1>2. \A pc \in {"call", "record", "apply"} : ~Holds(pc, p)'
  BY <1>1, WorkerIdle
<1>3. RowInv(p)'
  <2>1. RowKept(p)
    BY <1>1, <1>2 DEF RowKept, Reported
  <2> QED BY <1>1, <2>1, RowStill
<1>4. CommandsKept(p)
  BY <1>1, KeepCommands
<1>5. FlowKept(p) /\ (Unpaid(p) => Unpaid(p)') /\ (Answered(p)' <=> Answered(p))
  <2>1. (Unpaid(p) => Unpaid(p)') /\ (Answered(p)' <=> Answered(p))
    BY <1>1, UnpaidStays
  <2> QED BY <1>1, <2>1 DEF FlowKept
<1>6. PICK e : e = ResultEvent(p, worker.result)
  OBVIOUS
<1>7. /\ e \in Event /\ e.payment = p /\ e.type \in ProviderTypes
      /\ e.type = "payout.on_hold" <=> worker.result = "on_hold"
      /\ e.type = "payout.provider_failed" => worker.result \notin {"completed", "on_hold", "refunded"}
  BY <1>6 DEF ResultEvent, Event, EventTypes, Reasons, ProviderTypes
<1>8. UNCHANGED events \/ (worker.result # "pending" /\ events' = Append(events, e))
  BY <1>6 DEF ApplyResult
<1>9. Answered(p) /\ (worker.result \notin {"pending", "completed", "on_hold", "refunded"} => Unpaid(p))
  <2>1. CASE worker.result = "rejected"
    BY <1>1, <2>1 DEF RowInv, Answered, Unpaid
  <2>2. CASE worker.result # "rejected"
    <3>1. worker.result \in Results /\ p \in ref /\ Stands(p, worker.result) /\ provider[p] # "none"
      BY <1>1, <2>2 DEF RowInv
    <3> QED BY <3>1 DEF Results, Stands, Answered, Unpaid
  <2> QED BY <2>1, <2>2
<1>10. \A M : Elems(events') \cap M # {} => Elems(events) \cap M # {} \/ (e \in M /\ worker.result # "pending")
  <2>1. CASE UNCHANGED events
    BY <2>1
  <2>2. CASE worker.result # "pending" /\ events' = Append(events, e)
    <3>1. Elems(events') = Elems(events) \cup {e}
      BY <1>1, <1>7, <2>2, ElemsAppend
    <3> QED BY <2>2, <3>1
  <2> QED BY <1>8, <2>1, <2>2
<1>11. \A t : EventQueued(t, p)' => EventQueued(t, p) \/ (t = e.type /\ worker.result # "pending")
  <2>1. CASE UNCHANGED events
    BY <2>1 DEF EventQueued
  <2>2. CASE worker.result # "pending" /\ events' = Append(events, e)
    <3>1. Elems(events') = Elems(events) \cup {e}
      BY <1>1, <1>7, <2>2, ElemsAppend
    <3> QED BY <2>2, <3>1 DEF EventQueued
  <2> QED BY <1>8, <2>1, <2>2
<1>12. NewsKept(p)
  BY <1>5, <1>7, <1>9, <1>11 DEF NewsKept, ProviderTypes
<1>13. FlowInv(p)'
  BY <1>1, <1>4, <1>5, <1>12, FlowStill
<1>14. ASSUME Quiet' PROVE TokenInv(p)'
  <2>1. Quiet /\ TokenInv(p)
    BY <1>1, <1>14 DEF Quiet
  <2>2. e \notin Policy(p) /\ e \notin Reservation(p)
    BY <1>7 DEF Policy, Reservation, EventsOf, ProviderTypes
  <2>3. /\ Token(p, "policy.evaluate", Policy(p), "awaiting_policy")
        /\ Token(p, "ledger.reserve", Reservation(p), "awaiting_ledger")
    BY <2>1 DEF TokenInv
  <2>4. /\ Token(p, "policy.evaluate", Policy(p), "awaiting_policy")'
        /\ Token(p, "ledger.reserve", Reservation(p), "awaiting_ledger")'
    BY <1>1, <1>7, <1>8, <2>2, <2>3, TokenTaken
  <2>5. Once(commands', {Cmd("settlement.execute", p)}) /\ ~Queued("settlement.execute", p)'
    <3>1. Once(commands, {Cmd("settlement.execute", p)})
      BY <2>1 DEF TokenInv
    <3>2. Elems(Tail(commands)) \cap {Cmd("settlement.execute", p)} = {}
      BY <1>1, <3>1, OnceInTopic
    <3> QED BY <1>1, <3>1, <3>2, OnceInTopic DEF Queued
  <2>6. e \in Hold(p) => worker.result = "on_hold"
    BY <1>7 DEF Hold, EventsOf
  <2>7. worker.result = "on_hold" => HoldReached(p) /\ ~Present(Hold(p)) /\ saga[p] # "on_hold"
    BY <1>1, <2>1 DEF TokenInv
  <2>8. Once(events, Hold(p)) /\ (e \in Hold(p) => Elems(events) \cap Hold(p) = {})
    BY <2>1, <2>6, <2>7 DEF TokenInv, Present
  <2>9. Once(events', Hold(p))
    <3>1. CASE UNCHANGED events
      BY <2>8, <3>1
    <3>2. CASE events' = Append(events, e)
      BY <1>1, <1>7, <2>8, <3>2, OnceInTopic
    <3> QED BY <1>8, <3>1, <3>2
  <2>10. Present(Hold(p))' => Present(Hold(p)) \/ worker.result = "on_hold"
    BY <1>10, <2>6 DEF Present
  <2>11. HoldReached(p)' <=> HoldReached(p)
    BY <1>1 DEF HoldReached
  <2> QED BY <1>2, <2>1, <2>4, <2>5, <2>7, <2>9, <2>10, <2>11 DEF TokenInv
<1> QED BY <1>3, <1>13, <1>14 DEF OutcomeInv

\* settlement.execute.
LEMMA ExecuteOutcome ==
  ASSUME OInv, NEW p \in Payments, ExecuteCommand(p), NEW q \in Payments PROVE OutcomeInv(q)'
<1>1. UNCHANGED <<saga, audits, expiries, payment, journals>>
  BY DEF ExecuteCommand, sagaVars, ledgerVars
<1>2. CASE q = p
  BY <1>1, <1>2, PrepareOwn, RecordOwn, ApplyOwn DEF ExecuteCommand
<1>3. CASE q # p
  BY <1>3, ExecutionOutcomeOthers
<1> QED BY <1>2, <1>3

-----------------------------------------------------------------------------
(* The provider and its notifications. *)

\* While a request is under way and the provider has no payout, nobody can have
\* failed the payment, and the saga waits for the answer.
LEMMA CallPending ==
  ASSUME OInv, NEW p \in Payments, Holds("call", p), provider[p] = "none"
  PROVE  /\ saga[p] = "awaiting_settlement"
         /\ ~FailQueued(p) /\ payment[p] # "failed" /\ ~EventQueued("payout.provider_failed", p)
         /\ \A status \in NotifiedStatuses : ~Reported(p, status)
<1>1. TypeOK /\ RowInv(p) /\ FlowInv(p)
  BY DEF OInv, IInv, OutcomeInv
<1>2. Undecided(p) /\ Queued("settlement.execute", p)
  BY <1>1, ExecutingQueued DEF RowInv, Holds
<1>3. ~Answered(p)
  BY <1>2, UndecidedRow DEF Answered
<1>4. saga[p] = "awaiting_settlement"
  BY <1>1, <1>2, <1>3 DEF FlowInv
<1>5. ~EventQueued("payout.provider_failed", p)
  BY <1>1, <1>3 DEF FlowInv, ProviderTypes
<1>6. ~FailQueued(p) /\ payment[p] # "failed"
  BY <1>1, <1>4 DEF FlowInv, Down
<1>7. \A status \in NotifiedStatuses : ~Reported(p, status)
  BY <1>1 DEF RowInv, NotifiedStatuses
<1> QED BY <1>4, <1>5, <1>6, <1>7

\* The request creates at most the provider's record, in the status it
\* notifies of.
LEMMA AcceptOwn ==
  ASSUME TypeOK, NEW p \in Payments, Accept(p) \/ UNCHANGED <<provider, sent>>
  PROVE  /\ provider[p] # "none" => provider'[p] = provider[p]
         /\ \A status : Reported(p, status)' =>
              Reported(p, status) \/ (provider[p] = "none" /\ status = provider'[p])
<1>1. CASE UNCHANGED <<provider, sent>>
  BY <1>1 DEF Reported
<1>2. CASE Accept(p) /\ provider[p] = "none"
  <2>1. PICK status \in CreateStatuses : provider' = [provider EXCEPT ![p] = status] /\ Notify(p, status)
    BY <1>2 DEF Accept
  <2>2. provider'[p] = status
    BY <2>1 DEF TypeOK, ExecutionTypeOK
  <2>3. \A w \in sent' : w \in sent \/ w.status = status
    BY <2>1 DEF Notify
  <2> QED BY <1>2, <2>2, <2>3 DEF Reported
<1> QED BY <1>1, <1>2 DEF Accept

\* The request to the provider.
LEMMA ProviderCallOutcome ==
  ASSUME OInv, NEW p \in Payments, ProviderCall(p), NEW q \in Payments PROVE OutcomeInv(q)'
<1>1. CASE q # p
  BY <1>1, ExecutionOutcomeOthers
<1>2. CASE q = p
  <2>1. /\ IInv /\ TypeOK /\ RowInv(p) /\ FlowInv(p) /\ (Quiet => TokenInv(p))
        /\ Executing(p) /\ Holds("call", p)
        /\ Accept(p) \/ UNCHANGED <<provider, sent>>
        /\ UNCHANGED <<commands, events, payout, ref, crashes, saga, audits, expiries, payment, journals>>
    BY DEF OInv, IInv, OutcomeInv, ProviderCall, CallAnswered, CallLost, CallRejected, Holds, sagaVars, ledgerVars
  <2>2. Undecided(p) /\ p \notin ref /\ Undecided(p)'
    BY <2>1, UndecidedRow DEF RowInv, Undecided
  <2>3. /\ provider[p] # "none" => provider'[p] = provider[p]
        /\ \A status : Reported(p, status)' =>
             Reported(p, status) \/ (provider[p] = "none" /\ status = provider'[p])
    BY <2>1, AcceptOwn
  <2>4. provider[p] = "none" =>
          /\ ~FailQueued(p) /\ payment[p] # "failed" /\ ~EventQueued("payout.provider_failed", p)
          /\ \A status \in NotifiedStatuses : ~Reported(p, status)
    BY <2>1, CallPending
  <2>5. /\ worker'.pc = "record" /\ Executing(p)' /\ Holds("record", p)'
        /\ worker'.result \in {"unknown", "rejected"}
             \/ (worker'.result = mapPersistedResult(provider'[p]) /\ Accept(p))
    BY <2>1 DEF ProviderCall, CallAnswered, CallLost, CallRejected, At, Holds, Executing
  <2>6. ~Holds("call", p)' /\ ~Holds("apply", p)'
    BY <2>5 DEF Holds
  <2>7. worker'.result \in Results => provider'[p] # "none" /\ Stands(p, worker.result)'
    <3>1. Accept(p) => provider'[p] # "none"
      BY <2>1, ExecutionAssumption DEF Accept, CreateStatuses, ProviderStatuses, TypeOK, ExecutionTypeOK
    <3>2. ~({"unknown", "rejected"} \cap Results # {})
      BY DEF Results
    <3> QED BY <2>5, <3>1, <3>2 DEF mapPersistedResult, Stands
  <2>8. \A status \in NotifiedStatuses : Reported(p, status)' => provider'[p] \in NotifiedStatuses /\ Stands(p, status)'
    <3>1. \A status \in NotifiedStatuses : Reported(p, status) => provider'[p] = provider[p]
      BY <2>3, <2>4
    <3>2. \A status \in NotifiedStatuses : status = provider'[p] => Stands(p, status)'
      BY DEF Stands
    <3> QED BY <2>1, <2>3, <3>1, <3>2 DEF RowInv, Stands
  <2>9. RowInv(p)'
    BY <2>1, <2>2, <2>5, <2>6, <2>7, <2>8 DEF RowInv
  <2>10. FlowInv(p)'
    <3>1. Answered(p) => Answered(p)'
      BY <2>1, <2>2, <2>3, UndecidedRow DEF Answered
    <3>2. provider[p] # "none" => (Unpaid(p) => Unpaid(p)')
      BY <2>1, <2>3 DEF Unpaid
    <3> QED BY <2>1, <2>4, <3>1, <3>2, ExecutionFlow
  <2>11. Quiet' => TokenInv(p)'
    BY <2>1, <2>2, <2>6, ExecutionTokens DEF Quiet
  <2> QED BY <1>2, <2>9, <2>10, <2>11 DEF OutcomeInv
<1> QED BY <1>1, <1>2

\* The provider decides, or the funds come back.
LEMMA ProviderStepOutcome ==
  ASSUME OInv, NEW p \in Payments, ProviderStep(p), NEW q \in Payments PROVE OutcomeInv(q)'
<1>1. IInv /\ TypeOK /\ OutcomeInv(q) /\ RowInv(q) /\ FlowInv(q) /\ (Quiet => TokenInv(q))
  BY DEF OInv, IInv, OutcomeInv
<1>2. PICK status \in NotifiedStatuses :
        /\ provider' = [provider EXCEPT ![p] = status]
        /\ Notify(p, status)
        /\ provider[p] \in {"processing", "on_hold", "completed", "failed"}
        /\ provider[p] = "failed" => status = "refunded"
        /\ UNCHANGED <<payout, ref, worker, crashes>>
  BY DEF ProviderStep, ProviderDecides, ProviderReturns, ProviderMoves, NotifiedStatuses
<1>3. UNCHANGED <<commands, events, saga, audits, expiries, payment, journals>>
  BY DEF ProviderStep, messagingVars, sagaVars, ledgerVars
<1>4. provider'[p] = status /\ \A r \in Payments \ {p} : provider'[r] = provider[r]
  BY <1>1, <1>2 DEF TypeOK, ExecutionTypeOK
<1>5. \A w \in sent' : w \in sent \/ (w.payment = p /\ w.status = status)
  BY <1>2 DEF Notify
<1>6. \A s : Reported(q, s)' => Reported(q, s) \/ (q = p /\ s = status)
  BY <1>5 DEF Reported
<1>7. CommandsKept(q) /\ EventsKept(q)
  BY <1>1, <1>3, KeepCommands, KeepEvents
<1>8. \A pc \in {"call", "record", "apply"} : Holds(pc, q)' <=> Holds(pc, q)
  BY <1>1, <1>2, <1>3, WorkerStays
<1>9. CASE q # p
  <2>1. RowKept(q) /\ SagaKept(q) /\ QuietKept(q)
    BY <1>2, <1>3, <1>4, <1>6, <1>8, <1>9 DEF RowKept, SagaKept, QuietKept, Quiet
  <2> QED BY <1>1, <1>7, <2>1, StillInv
<1>10. CASE q = p
  <2>1. \A s : Stands(p, s) => Stands(p, s)'
    BY <1>2, <1>4 DEF Stands
  <2>2. provider'[p] \in NotifiedStatuses /\ provider'[p] # "none" /\ Stands(p, status)'
    BY <1>4 DEF NotifiedStatuses, Stands
  <2>3. RowInv(p)'
    <3>1. Undecided(p)' <=> Undecided(p)
      BY <1>2 DEF Undecided
    <3>2. Stands(p, payout[p]) => Stands(p, payout[p])'
      BY <1>2, <2>1
    <3>3. Stands(p, worker.result) => Stands(p, worker.result)'
      BY <1>2, <2>1
    <3> QED BY <1>1, <1>2, <1>6, <1>8, <1>10, <2>1, <2>2, <3>1, <3>2, <3>3 DEF RowInv
  <2>4. FlowInv(p)'
    <3>1. (Unpaid(p) => Unpaid(p)') /\ Answered(p)'
      BY <1>2, <1>3, <1>4, <2>2 DEF Unpaid, Answered
    <3>2. FlowKept(p)
      BY <1>2, <1>3, <3>1 DEF FlowKept
    <3>3. NewsKept(p)
      BY <1>3 DEF NewsKept, EventQueued
    <3> QED BY <1>1, <1>7, <1>10, <3>2, <3>3, FlowStill
  <2>5. Quiet' => TokenInv(p)'
    BY <1>1, <1>2, <1>3, <1>7, <1>8, <1>10, TokenStill DEF Quiet
  <2> QED BY <1>10, <2>3, <2>4, <2>5 DEF OutcomeInv
<1> QED BY <1>9, <1>10

\* A notification is processed: its own payment.
LEMMA ProcessOwn ==
  ASSUME OInv, NEW w \in Webhook, w \in sent, Process(w), UNCHANGED <<worker, crashes>>,
         NEW p \in Payments, p = w.payment
  PROVE  OutcomeInv(p)'
<1>1. /\ IInv /\ TypeOK /\ RowInv(p) /\ FlowInv(p) /\ (Quiet => TokenInv(p))
      /\ events \in Seq(Event)
      /\ UNCHANGED <<commands, saga, audits, expiries, ref, provider, sent, payment>>
  BY DEF OInv, IInv, OutcomeInv, TypeOK, MessagingTypeOK, Process, ProcessIdle, ProcessAdvance, ProcessReturn,
         RecordReturn, sagaVars, ledgerVars
<1>2. PICK status \in NotifiedStatuses : status = w.status
  BY DEF Webhook
<1>3. Reported(p, status) /\ provider[p] \in NotifiedStatuses /\ Stands(p, status)
  BY <1>1, <1>2 DEF Reported, RowInv
<1>4. provider[p] # "none" /\ Answered(p) /\ Answered(p)'
  BY <1>1, <1>3 DEF NotifiedStatuses, Answered
<1>5. journals[p] \subseteq journals'[p]
  BY <1>1 DEF Process, ProcessIdle, ProcessAdvance, ProcessReturn, RecordReturn, ledgerVars, TypeOK, LedgerTypeOK
<1>6. payout'[p] = payout[p] \/ (p \in ref /\ payout'[p] = status /\ payoutStatusCanAdvance(payout[p], status))
  BY <1>1, <1>2 DEF Process, ProcessIdle, ProcessAdvance, ProcessReturn, PostSuccessReturn, Advances, Matched,
                    TypeOK, ExecutionTypeOK
<1>7. p \in ref => payout[p] \in ProviderStatuses /\ payout[p] # "submission_failed" /\ ~Undecided(p)
  BY <1>1, <1>3 DEF RowInv, Stands, NotifiedStatuses, Undecided, ProviderStatuses
<1>8. PICK e : e = Evt(SagaEventType(status), p)
  OBVIOUS
<1>9. /\ e \in Event /\ e.type = SagaEventType(status) /\ e.type \in ProviderTypes /\ e.payment = p
      /\ e.type = "payout.provider_failed" => status = "failed"
      /\ e.type = "payout.on_hold" => status = "on_hold"
  <2>1. /\ SagaEventType(status) \in EventTypes \cap ProviderTypes
        /\ SagaEventType(status) = "payout.provider_failed" => status = "failed"
        /\ SagaEventType(status) = "payout.on_hold" => status = "on_hold"
    BY DEF SagaEventType, EventTypes, ProviderTypes, NotifiedStatuses
  <2>2. e.type = SagaEventType(status) /\ e.payment = p
    BY <1>8 DEF Evt
  <2>3. e \in Event
    BY <1>8, <2>1, EvtType
  <2> QED BY <2>1, <2>2, <2>3
<1>10. \/ UNCHANGED events
       \/ /\ events' = Append(events, e) /\ p \in ref
          /\ payoutStatusCanAdvance(payout[p], status) \/ Terminal(status)
          /\ status = "on_hold" => payout'[p] = status /\ payoutStatusCanAdvance(payout[p], status)
  <2>1. CASE ProcessIdle(w)
    BY <1>2, <1>8, <2>1 DEF ProcessIdle, enqueueSagaResult, Matched, Terminal
  <2>2. CASE ProcessAdvance(w)
    BY <1>1, <1>2, <1>8, <2>2 DEF ProcessAdvance, enqueueSagaResult, Advances, Matched, TypeOK, ExecutionTypeOK
  <2>3. CASE ProcessReturn(w)
    BY <2>3 DEF ProcessReturn
  <2> QED BY <2>1, <2>2, <2>3 DEF Process
<1>11. \A pc \in {"call", "record", "apply"} : Holds(pc, p)' <=> Holds(pc, p)
  BY <1>1, WorkerStays
<1>12. RowInv(p)'
  <2>1. /\ \A s : Stands(p, s)' <=> Stands(p, s)
        /\ \A s : Reported(p, s)' <=> Reported(p, s)
    BY <1>1 DEF Stands, Reported
  <2>2. p \in ref => payout'[p] \in ProviderStatuses /\ Stands(p, payout[p])'
    <3>1. CASE payout'[p] = payout[p]
      BY <1>1, <3>1 DEF RowInv, Stands
    <3>2. CASE payout'[p] = status
      BY <1>1, <1>3, <3>2 DEF NotifiedStatuses, ProviderStatuses, Stands
    <3> QED BY <1>6, <3>1, <3>2
  <2>3. Undecided(p) => Undecided(p)'
    BY <1>6, <1>7 DEF Undecided
  <2>4. payout[p] = "submission_failed" /\ p \notin ref => payout'[p] = "submission_failed"
    BY <1>6
  <2>5. worker' = worker /\ (p \in ref' <=> p \in ref) /\ provider'[p] = provider[p]
    BY <1>1
  <2>6. Stands(p, worker.result)' <=> Stands(p, worker.result)
    BY <1>1 DEF Stands
  <2>7. p \in ref' => payout'[p] \in ProviderStatuses /\ provider'[p] # "none" /\ Stands(p, payout[p])'
    BY <1>4, <2>2, <2>5
  <2>8. /\ Holds("call", p)' \/ Holds("record", p)' => Undecided(p)'
        /\ Holds("record", p)' /\ worker'.result \in Results => provider'[p] # "none" /\ Stands(p, worker.result)'
    BY <1>1, <1>11, <2>3, <2>5, <2>6 DEF RowInv
  <2>9. Holds("apply", p)' =>
          IF worker'.result = "rejected" THEN payout'[p] = "submission_failed" /\ p \notin ref'
          ELSE worker'.result \in Results /\ p \in ref' /\ Stands(p, worker.result)'
    BY <1>1, <1>11, <2>4, <2>5, <2>6 DEF RowInv
  <2> QED BY <1>1, <2>1, <2>5, <2>7, <2>8, <2>9 DEF RowInv
<1>13. \A t : EventQueued(t, p)' => EventQueued(t, p) \/ (t = e.type /\ p \in ref)
  <2>1. CASE UNCHANGED events
    BY <2>1 DEF EventQueued
  <2>2. CASE events' = Append(events, e) /\ p \in ref
    <3>1. Elems(events') = Elems(events) \cup {e}
      BY <1>1, <1>9, <2>2, ElemsAppend
    <3> QED BY <2>2, <3>1 DEF EventQueued
  <2> QED BY <1>10, <2>1, <2>2
<1>14. FlowInv(p)'
  <2>1. Unpaid(p) => Unpaid(p)'
    BY <1>1, <1>6 DEF Unpaid
  <2>2. status = "failed" => Unpaid(p)'
    BY <1>1, <1>3 DEF Stands, Unpaid
  <2>3. FlowKept(p)
    BY <1>1, <1>4, <1>5, <2>1 DEF FlowKept
  <2>4. NewsKept(p)
    BY <1>4, <1>9, <1>13, <2>2 DEF NewsKept, ProviderTypes
  <2>5. CommandsKept(p)
    BY <1>1, KeepCommands
  <2> QED BY <1>1, <2>3, <2>4, <2>5, FlowStill
<1>15. ASSUME Quiet' PROVE TokenInv(p)'
  <2>1. Quiet /\ TokenInv(p)
    BY <1>1, <1>15 DEF Quiet
  <2>2. e \notin Policy(p) /\ e \notin Reservation(p)
    BY <1>9 DEF Policy, Reservation, EventsOf, ProviderTypes
  <2>3. /\ Token(p, "policy.evaluate", Policy(p), "awaiting_policy")
        /\ Token(p, "ledger.reserve", Reservation(p), "awaiting_ledger")
    BY <2>1 DEF TokenInv
  <2>4. /\ Token(p, "policy.evaluate", Policy(p), "awaiting_policy")'
        /\ Token(p, "ledger.reserve", Reservation(p), "awaiting_ledger")'
    BY <1>1, <1>9, <1>10, <2>2, <2>3, TokenTaken
  <2>5. /\ Once(commands', {Cmd("settlement.execute", p)})
        /\ Queued("settlement.execute", p)' => Queued("settlement.execute", p)
    BY <1>1, <2>1 DEF TokenInv, Queued
  <2>6. HoldReached(p) => HoldReached(p)'
    BY <1>2, <1>6 DEF HoldReached, NotifiedStatuses
  <2>7. status = "on_hold" /\ p \in ref /\ payoutStatusCanAdvance(payout[p], status) => ~HoldReached(p)
    BY <1>7 DEF payoutStatusCanAdvance, payoutStatusRank, Terminal, HoldReached, ProviderStatuses
  <2>8. CASE UNCHANGED events \/ (events' = Append(events, e) /\ status # "on_hold")
    <3>1. e \in Hold(p) => status = "on_hold"
      BY <1>9 DEF Hold, EventsOf
    <3>2. Once(events', Hold(p)) /\ (Present(Hold(p))' => Present(Hold(p)))
      <4>1. CASE UNCHANGED events
        BY <2>1, <4>1 DEF TokenInv, Present
      <4>2. CASE events' = Append(events, e) /\ status # "on_hold"
        <5>1. Elems(events') = Elems(events) \cup {e} /\ e \notin Hold(p)
          BY <1>1, <1>9, <3>1, <4>2, ElemsAppend
        <5>2. Once(events, Hold(p))
          BY <2>1 DEF TokenInv
        <5>3. Once(events', Hold(p))
          BY <1>1, <1>9, <4>2, <5>1, <5>2, OnceInTopic
        <5> QED BY <5>1, <5>3 DEF Present
      <4> QED BY <2>8, <4>1, <4>2
    <3> QED BY <1>1, <1>11, <2>1, <2>4, <2>5, <2>6, <3>2 DEF TokenInv
  <2>9. CASE /\ events' = Append(events, e) /\ status = "on_hold"
             /\ p \in ref /\ payout'[p] = status /\ payoutStatusCanAdvance(payout[p], status)
    <3>1. ~HoldReached(p) /\ HoldReached(p)'
      BY <2>7, <2>9 DEF HoldReached
    <3>2. Once(events, Hold(p)) /\ Elems(events) \cap Hold(p) = {} /\ saga[p] # "on_hold"
      BY <2>1, <3>1 DEF TokenInv, Present
    <3>3. Once(events', Hold(p))
      BY <1>1, <1>9, <2>9, <3>2, OnceInTopic
    <3>4. ~(Holds("apply", p)' /\ worker'.result = "on_hold")
      BY <1>11, <2>1, <3>1 DEF TokenInv
    <3> QED BY <1>1, <1>11, <2>1, <2>4, <2>5, <3>1, <3>2, <3>3, <3>4 DEF TokenInv
  <2> QED BY <1>10, <2>8, <2>9
<1> QED BY <1>12, <1>14, <1>15 DEF OutcomeInv

\* A delivered or reconciled notification, or one that stops the process.
LEMMA WebhookOutcome ==
  ASSUME OInv, NEW w \in Webhook, WebhookStep(w), NEW q \in Payments PROVE OutcomeInv(q)'
<1>1. IInv /\ TypeOK /\ OutcomeInv(q) /\ batch \subseteq sent
  BY DEF OInv, IInv
<1>2. CASE ReconcileFails(w)
  BY <1>2, StopOutcome DEF ReconcileFails, messagingVars, sagaVars, ledgerVars
<1>3. CASE w \in sent /\ Process(w) /\ UNCHANGED <<worker, crashes>>
  <2>1. PICK p \in Payments : p = w.payment
    BY DEF Webhook
  <2>2. CASE q = p
    BY <1>3, <2>1, <2>2, ProcessOwn
  <2>3. CASE q # p
    <3>1. UNCHANGED <<commands, saga, audits, expiries, ref, provider, sent, payment>>
      BY <1>3 DEF Process, ProcessIdle, ProcessAdvance, ProcessReturn, RecordReturn, sagaVars, ledgerVars
    <3>2. payout'[q] = payout[q] /\ journals'[q] = journals[q]
      BY <1>1, <1>3, <2>1, <2>3 DEF Process, ProcessIdle, ProcessAdvance, ProcessReturn, RecordReturn, ledgerVars,
                                   TypeOK, ExecutionTypeOK, LedgerTypeOK
    <3>3. UNCHANGED events \/ \E e \in Event : e.payment # q /\ events' = Append(events, e)
      <4>1. UNCHANGED events \/ events' = Append(events, Evt(SagaEventType(w.status), p))
        BY <1>3, <2>1 DEF Process, ProcessIdle, ProcessAdvance, ProcessReturn, enqueueSagaResult
      <4>2. Evt(SagaEventType(w.status), p) \in Event
        BY EvtType DEF SagaEventType, EventTypes
      <4>3. Evt(SagaEventType(w.status), p).payment = p
        BY DEF Evt
      <4> QED BY <2>3, <4>1, <4>2, <4>3
    <3>4. CommandsKept(q) /\ EventsKept(q)
      BY <1>1, <3>1, <3>3, KeepCommands, KeepEvents
    <3>5. \A pc \in {"call", "record", "apply"} : Holds(pc, q)' <=> Holds(pc, q)
      BY <1>1, <1>3, <3>1, WorkerStays
    <3>6. RowKept(q) /\ SagaKept(q) /\ QuietKept(q)
      BY <1>3, <3>1, <3>2, <3>5 DEF RowKept, SagaKept, QuietKept, Reported, Quiet
    <3> QED BY <1>1, <3>4, <3>6, StillInv
  <2> QED BY <2>2, <2>3
<1> QED BY <1>1, <1>2, <1>3 DEF WebhookStep, DeliverWebhook, ReconcileNext

-----------------------------------------------------------------------------
(* The theorems. *)

\* OInv is inductive: one case per disjunct of Next.
LEMMA NextOutcome == OInv /\ [Next]_vars => OInv'
<1> SUFFICES ASSUME OInv, [Next]_vars PROVE OInv'
  OBVIOUS
<1>1. IInv'
  BY NextInv DEF OInv
<1>2. ASSUME NEW q \in Payments PROVE OutcomeInv(q)'
  <2>1. CASE LoadBatch \/ UNCHANGED vars
    <3>1. IInv /\ TypeOK /\ OutcomeInv(q)
      BY DEF OInv, IInv
    <3>2. UNCHANGED <<commands, events, saga, audits, expiries, payment, journals, payout, ref, provider, sent,
                      worker, crashes>>
      BY <2>1 DEF LoadBatch, vars, messagingVars, sagaVars, ledgerVars, executionVars
    <3>3. CommandsKept(q) /\ EventsKept(q)
      BY <3>1, <3>2, KeepCommands, KeepEvents
    <3>4. \A pc \in {"call", "record", "apply"} : Holds(pc, q)' <=> Holds(pc, q)
      BY <3>1, <3>2, WorkerStays
    <3>5. RowKept(q) /\ SagaKept(q) /\ QuietKept(q)
      BY <3>2, <3>4 DEF RowKept, SagaKept, QuietKept, Reported, Quiet
    <3> QED BY <3>1, <3>3, <3>5, StillInv
  <2>2. CASE Restart
    BY <2>2, StopOutcome DEF Restart, Crash, sagaVars, ledgerVars
  <2>3. CASE Next
    BY <2>1, <2>2, <2>3, CreateOutcome, SagaStepOutcome, SagaExpiryOutcome, SagaReviewOutcome, CommandOutcome,
       ExecuteOutcome, ProviderCallOutcome, ProviderStepOutcome, WebhookOutcome DEF Next
  <2> QED BY <2>1, <2>3
<1> QED BY <1>1, <1>2 DEF OInv

\* The row, the worker, the notifications and the saga follow the provider's
\* record in every reachable state.
THEOREM OutcomeInvariant == Spec => []OInv
<1>1. Init => OInv
  BY InitOutcome
<1> QED BY <1>1, NextOutcome, PTL DEF Spec

\* A payment fails while the provider still processes or has paid its payout
\* only by an operator's decision or after a refused repetition of the request.
THEOREM FailedIsUnpaid == Spec => []PaidPayoutIsNotFailed
<1>1. OInv => PaidPayoutIsNotFailed
  BY DEF OInv, OutcomeInv, FlowInv, Unpaid, PaidPayoutIsNotFailed
<1> QED BY <1>1, OutcomeInvariant, PTL

\* The provider is made to create a payout only for a processing payment whose
\* reservation is posted and neither settled nor released.
THEOREM CreatedWhileReserved == Spec => CreatedOnlyWhileReserved
<1> DEFINE Reserved ==
      \A p \in Payments :
        provider[p] = "none" /\ provider'[p] # "none" => payment[p] = "processing" /\ Payable(p) = 1
<1>1. ASSUME OInv, [Next]_vars PROVE Reserved
  <2> SUFFICES ASSUME NEW p \in Payments, provider[p] = "none", provider'[p] # "none"
               PROVE  payment[p] = "processing" /\ Payable(p) = 1
    OBVIOUS
  <2>1. IInv /\ TypeOK /\ LedgerInv(p) /\ SagaInv(p) /\ FlowInv(p)
    BY <1>1 DEF OInv, IInv, OutcomeInv
  <2>2. Holds("call", p)
    <3>1. provider' # provider
      OBVIOUS
    <3>2. PICK r \in Payments : ProviderCall(r) \/ ProviderStep(r)
      BY <1>1, <3>1 DEF Next, vars, executionVars, CreatePayout, SagaStep, SagaExpiry, SagaReview,
         LedgerOrPaymentCommand, PolicyEvaluate, LedgerReserve, LedgerRelease, PaymentSettle, PaymentFail,
         PaymentReturn, ExecuteCommand, prepare, record, ApplyResult, Restart, Crash, LoadBatch, WebhookStep,
         DeliverWebhook, ReconcileNext, ReconcileFails, Process
    <3>3. CASE ProviderStep(r)
      BY <2>1, <3>3 DEF ProviderStep, ProviderDecides, ProviderReturns, ProviderMoves, TypeOK, ExecutionTypeOK
    <3>4. CASE ProviderCall(r)
      <4>1. Holds("call", r) /\ (Accept(r) \/ UNCHANGED provider)
        BY <3>4 DEF ProviderCall, CallAnswered, CallLost, CallRejected, Holds
      <4>2. r = p
        BY <2>1, <3>1, <4>1 DEF Accept, TypeOK, ExecutionTypeOK
      <4> QED BY <4>1, <4>2
    <3> QED BY <3>2, <3>3, <3>4
  <2>3. saga[p] = "awaiting_settlement" /\ payment[p] # "failed"
    BY <1>1, <2>2, CallPending
  <2>4. payment[p] = "processing" /\ "payment.released" \notin journals[p]
    BY <2>1, <2>3 DEF FlowInv, SagaInv, Success, Return, TypeOK, LedgerTypeOK, PaymentStatuses
  <2>5. /\ "payment.processing" \in journals[p] /\ "payment.succeeded" \notin journals[p]
        /\ "payment.return.succeeded" \notin journals[p]
    BY <2>1, <2>4 DEF LedgerInv
  <2>6. Payable(p) = 1
    BY <2>4, <2>5 DEF Payable, Posted
  <2> QED BY <2>4, <2>6
<1>2. Spec => [][Reserved]_vars
  BY <1>1, OutcomeInvariant, PTL DEF Spec
<1> QED BY <1>2 DEF CreatedOnlyWhileReserved

\* The rows of the transition table the argument below needs.
LEMMA AcceptedEvents ==
  ASSUME NEW e \in Event, NEW state,
         \/ state = "awaiting_policy" /\ e.type \in {"payout.policy.approved", "payout.policy.rejected"}
         \/ state = "awaiting_ledger" /\ e.type \in {"payout.funds_reserved", "payout.ledger_failed"}
         \/ state = "awaiting_settlement" /\ e.type \in ProviderTypes
         \/ state = "on_hold" /\ e.type \in ProviderTypes \ {"payout.on_hold"}
  PROVE  transition(state, e) # {}
<1>1. PICK type \in EventTypes, reason \in Reasons : type = e.type /\ reason = e.reason
  BY DEF Event
<1>2. SUFFICES \E r \in Transitions : r.from = state /\ r.on = type /\ reason \in r.reasons
  BY <1>1 DEF transition
<1>3. CASE state = "awaiting_policy" /\ type \in {"payout.policy.approved", "payout.policy.rejected"}
  BY <1>3 DEF Transitions, Row
<1>4. CASE state = "awaiting_ledger" /\ type \in {"payout.funds_reserved", "payout.ledger_failed"}
  BY <1>4 DEF Transitions, Row
<1>5. CASE state = "awaiting_settlement" /\ type = "payout.provider_failed"
  <2>1. CASE reason = "submission_failed"
    BY <1>5, <2>1 DEF Transitions, ReasonRow
  <2>2. CASE reason = "other"
    BY <1>5, <2>2 DEF Transitions, ReasonRow
  <2> QED BY <2>1, <2>2 DEF Reasons
<1>6. CASE state = "awaiting_settlement" /\ type \in ProviderTypes \ {"payout.provider_failed"}
  BY <1>6 DEF Transitions, Row, ProviderTypes
<1>7. CASE state = "on_hold" /\ type \in ProviderTypes \ {"payout.on_hold"}
  BY <1>7 DEF Transitions, Row, ProviderTypes
<1> QED BY <1>1, <1>3, <1>4, <1>5, <1>6, <1>7

\* As long as no deadline passed and no process stopped, the coordinator is
\* stuck only on an event whose saga is past waiting for the provider.
THEOREM BlockedAfterOutcome == Spec => []BlockedOnlyAfterOutcome
<1>1. ASSUME OInv PROVE BlockedOnlyAfterOutcome
  <2>1. SUFFICES ASSUME Blocked, Quiet
                 PROVE  saga[Head(events).payment] \in
                          {"settling_payment", "completed", "failed", "returning", "returned"}
    BY DEF BlockedOnlyAfterOutcome, Quiet
  <2>2. TypeOK /\ events # <<>>
    BY <1>1, <2>1 DEF OInv, IInv, Blocked
  <2>3. PICK e \in Event : e = Head(events) /\ e.payment \in Payments /\ e \in Elems(events)
    BY <2>2, HeadEvent
  <2>4. PICK p \in Payments, state \in SagaStates : p = e.payment /\ state = saga[p]
    BY <2>2, <2>3 DEF TypeOK, SagaTypeOK
  <2>5. transition(state, e) = {} /\ e.type \notin {"payout.created", "payout.funds_returned"}
    BY <2>1, <2>3, <2>4 DEF Blocked, Consumed
  <2>6. SagaInv(p) /\ FlowInv(p) /\ TokenInv(p) /\ EventQueued(e.type, p)
    BY <1>1, <2>1, <2>3, <2>4 DEF OInv, IInv, OutcomeInv, EventQueued
  <2>7. state \notin {"manual_review", "releasing_ledger", "ledger_released"}
    BY <2>4, <2>6 DEF FlowInv, TokenInv
  <2>8. CASE e.type \in {"payout.policy.approved", "payout.policy.rejected"}
    <3>1. Present(Policy(p))
      BY <2>3, <2>4, <2>8 DEF Present, Policy, EventsOf
    <3>2. state = "awaiting_policy"
      BY <2>4, <2>6, <3>1 DEF TokenInv, Token
    <3> QED BY <2>5, <2>8, <3>2, AcceptedEvents
  <2>9. CASE e.type \in {"payout.funds_reserved", "payout.ledger_failed"}
    <3>1. Present(Reservation(p))
      BY <2>3, <2>4, <2>9 DEF Present, Reservation, EventsOf
    <3>2. state = "awaiting_ledger"
      BY <2>4, <2>6, <3>1 DEF TokenInv, Token
    <3> QED BY <2>5, <2>9, <3>2, AcceptedEvents
  <2>10. CASE e.type \in ProviderTypes
    <3>1. Answered(p)
      BY <2>6, <2>10 DEF FlowInv
    <3>2. state \notin Early
      BY <2>4, <2>6, <3>1 DEF FlowInv, Answered
    <3>3. state # "awaiting_settlement"
      BY <2>5, <2>10, AcceptedEvents
    <3>4. state = "on_hold" => e.type # "payout.on_hold"
      <4>1. e.type = "payout.on_hold" => Present(Hold(p))
        BY <2>3, <2>4 DEF Present, Hold, EventsOf
      <4> QED BY <2>4, <2>6, <4>1 DEF TokenInv
    <3>5. state # "on_hold"
      BY <2>5, <2>10, <3>4, AcceptedEvents
    <3> QED BY <2>3, <2>4, <2>7, <3>2, <3>3, <3>5 DEF SagaStates, Early
  <2>11. CASE e.type \in {"payout.completed", "payout.failed", "payout.funds_released"}
    <3>1. e.type = "payout.completed" => state \in Success
      BY <2>4, <2>6 DEF SagaInv
    <3>2. e.type = "payout.failed" => state \in Down
      BY <2>4, <2>6 DEF FlowInv
    <3>3. e.type = "payout.funds_released" => state \in Return
      BY <2>4, <2>6 DEF FlowInv, SagaInv
    <3> QED BY <2>3, <2>4, <2>7, <2>11, <3>1, <3>2, <3>3 DEF Success, Down, Return
  <2>12. e.type \in EventTypes
    BY DEF Event
  <2> QED BY <2>5, <2>8, <2>9, <2>10, <2>11, <2>12 DEF EventTypes, ProviderTypes
<1> QED BY <1>1, OutcomeInvariant, PTL
-----------------------------------------------------------------------------
(* What a stop may leave behind, and what a release rests on. *)

\* The coordinator, the timeout worker and the operator only append commands.
LEMMA SagaAppends ==
  ASSUME TypeOK, SagaStep \/ \E q \in Payments : SagaExpiry(q) \/ SagaReview(q)
  PROVE  /\ commands # <<>> => commands' # <<>> /\ Head(commands') = Head(commands)
         /\ UNCHANGED <<payout, worker, ref>>
<1> USE DEF executionVars
<1>1. CASE SagaStep
  <2>1. Handle /\ UNCHANGED <<payout, worker, ref>>
    BY <1>1 DEF SagaStep
  <2> QED BY <2>1, HandleSteps, SagaUpdate
<1>2. ASSUME NEW q \in Payments, SagaExpiry(q)
      PROVE  (commands # <<>> => commands' # <<>> /\ Head(commands') = Head(commands)) /\ UNCHANGED <<payout, worker, ref>>
  BY <1>2, ExpirySteps, SagaUpdate DEF SagaExpiry, ExpireOnce
<1>3. ASSUME NEW q \in Payments, SagaReview(q)
      PROVE  (commands # <<>> => commands' # <<>> /\ Head(commands') = Head(commands)) /\ UNCHANGED <<payout, worker, ref>>
  BY <1>3, ReviewSteps, SagaUpdate DEF SagaReview, ResolveManualReview
<1> QED BY <1>1, <1>2, <1>3

\* An attempt whose answer was lost in a stop stays submission_pending, with its
\* command at the head of settlement-commands and the worker idle, whatever
\* happens.
THEOREM LostSubmissionIsStuck == Spec => LostSubmissionStaysPending
<1> DEFINE Stuck ==
      \A p \in Payments :
        Executing(p) /\ worker = Idle /\ payout[p] = "submission_pending"
          => payout'[p] = "submission_pending" /\ Executing(p)' /\ worker' = Idle
<1>1. ASSUME OInv, [Next]_vars PROVE Stuck
  <2> SUFFICES ASSUME NEW p \in Payments, Executing(p), worker = Idle, payout[p] = "submission_pending"
               PROVE  payout'[p] = "submission_pending" /\ Executing(p)' /\ worker' = Idle
    OBVIOUS
  <2>1. TypeOK /\ p \notin ref
    BY <1>1, UndecidedRow DEF OInv, IInv, Undecided
  <2>2. worker.pc = "idle" /\ commands # <<>> /\ Head(commands) = Cmd("settlement.execute", p)
    BY DEF Idle, At, Executing
  <2>3. CASE UNCHANGED commands /\ payout'[p] = payout[p] /\ worker' = Idle
    BY <2>3 DEF Executing
  <2>4. ASSUME NEW q \in Payments, LedgerOrPaymentCommand(q) PROVE FALSE
    <3>1. PICK type \in CommandTypes \ {"settlement.execute"} : Take(type, q)
      BY <2>1, <2>4, CommandForm
    <3> QED BY <2>2, <3>1 DEF Take, Cmd
  <2>5. ASSUME NEW q \in Payments, ExecuteCommand(q) PROVE FALSE
    <3>1. prepare(q) /\ q = p
      BY <2>2, <2>5 DEF ExecuteCommand, record, ApplyResult, prepare, Executing, Cmd
    <3> QED BY <2>1, <3>1 DEF prepare
  <2>6. ASSUME NEW q \in Payments, ProviderCall(q) PROVE FALSE
    BY <2>2, <2>6 DEF ProviderCall, CallAnswered, CallLost, CallRejected
  <2>7. ASSUME NEW w \in Webhook, WebhookStep(w) PROVE UNCHANGED commands /\ payout'[p] = payout[p] /\ worker' = Idle
    <3>1. CASE ReconcileFails(w)
      BY <3>1 DEF ReconcileFails, messagingVars
    <3>2. ASSUME Process(w) PROVE UNCHANGED commands /\ payout'[p] = payout[p]
      BY <2>1, <3>2 DEF Process, ProcessIdle, ProcessAdvance, ProcessReturn, PostSuccessReturn, Advances, Matched,
                        TypeOK, ExecutionTypeOK
    <3> QED BY <2>7, <3>1, <3>2 DEF WebhookStep, DeliverWebhook, ReconcileNext
  <2>8. CASE SagaStep \/ \E q \in Payments : SagaExpiry(q) \/ SagaReview(q)
    BY <2>1, <2>2, <2>8, SagaAppends DEF Executing
  <2>9. CASE \/ \E q \in Payments : CreatePayout(q) \/ ProviderStep(q)
             \/ Restart \/ LoadBatch \/ UNCHANGED vars
    <3>1. UNCHANGED <<commands, payout>> /\ worker' = Idle
      BY <2>9 DEF CreatePayout, ProviderStep, ProviderDecides, ProviderReturns, ProviderMoves, Restart, Crash,
                  LoadBatch, vars, messagingVars, executionVars
    <3> QED BY <2>3, <3>1
  <2> QED BY <1>1, <2>3, <2>4, <2>5, <2>6, <2>7, <2>8, <2>9 DEF Next
<1>2. Spec => [][Stuck]_vars
  BY <1>1, OutcomeInvariant, PTL DEF Spec
<1> QED BY <1>2 DEF LostSubmissionStaysPending

\* What the workflow knows of a return is in the payouts row, or an operator
\* said so.
ReturnInv(p) ==
  /\ EventQueued("payout.provider_returned", p) => payout[p] = "refunded"
  /\ Holds("apply", p) /\ worker.result = "refunded" => payout[p] = "refunded"
  /\ saga[p] \in Return => payout[p] = "refunded" \/ "return" \in audits[p]

\* Nothing changes a row that is refunded.
LEMMA RefundedStays ==
  ASSUME OInv, [Next]_vars, NEW p \in Payments, payout[p] = "refunded"
  PROVE  payout'[p] = "refunded"
<1>1. TypeOK
  BY DEF OInv, IInv
<1>2. ASSUME NEW q \in Payments, ExecuteCommand(q) PROVE payout'[p] = payout[p]
  BY <1>1, <1>2 DEF ExecuteCommand, prepare, record, RecordStatus, Undecided, ApplyResult, TypeOK, ExecutionTypeOK
<1>3. ASSUME NEW w \in Webhook, WebhookStep(w) PROVE payout'[p] = payout[p]
  <2>1. CASE ReconcileFails(w)
    BY <2>1 DEF ReconcileFails
  <2>2. CASE Process(w)
    BY <1>1, <2>2 DEF Process, ProcessIdle, ProcessAdvance, ProcessReturn, PostSuccessReturn, Advances,
                      payoutStatusCanAdvance, TypeOK, ExecutionTypeOK
  <2> QED BY <1>3, <2>1, <2>2 DEF WebhookStep, DeliverWebhook, ReconcileNext
<1>4. CASE SagaStep \/ \E q \in Payments : SagaExpiry(q) \/ SagaReview(q)
  BY <1>1, <1>4, SagaAppends
<1>5. CASE \/ \E q \in Payments : \/ CreatePayout(q) \/ ProviderStep(q) \/ ProviderCall(q)
                                  \/ LedgerOrPaymentCommand(q)
           \/ Restart \/ LoadBatch \/ UNCHANGED vars
  <2>1. payout' = payout
    BY <1>5 DEF CreatePayout, ProviderStep, ProviderDecides, ProviderReturns, ProviderMoves, ProviderCall,
         CallAnswered, CallLost, CallRejected, LedgerOrPaymentCommand, PolicyEvaluate, LedgerReserve,
         LedgerRelease, PaymentSettle, PaymentFail, PaymentReturn, Restart, Crash, LoadBatch, vars, executionVars
  <2> QED BY <2>1
<1> QED BY <1>2, <1>3, <1>4, <1>5 DEF Next

\* The worker holds the answer refunded only once it is in the row.
LEMMA ReturnRecorded ==
  ASSUME OInv, [Next]_vars, NEW p \in Payments, Holds("apply", p)', worker'.result = "refunded"
  PROVE  \/ Holds("apply", p) /\ worker.result = "refunded"
         \/ payout'[p] = "refunded"
<1>1. IInv /\ TypeOK /\ RowInv(p)
  BY DEF OInv, IInv, OutcomeInv
<1>2. CASE worker' = worker /\ commands' = commands
  BY <1>2 DEF Holds, Executing
<1>3. CASE SagaStep \/ \E q \in Payments : SagaExpiry(q) \/ SagaReview(q)
  BY <1>1, <1>3, SagaAppends DEF Holds, Executing, IInv
<1>4. ASSUME NEW q \in Payments, LedgerOrPaymentCommand(q) PROVE FALSE
  <2>1. PICK type \in CommandTypes : Take(type, q)
    BY <1>1, <1>4, CommandForm
  <2>2. worker' = worker
    BY <1>4 DEF LedgerOrPaymentCommand, PolicyEvaluate, LedgerReserve, LedgerRelease, PaymentSettle, PaymentFail,
         PaymentReturn, executionVars
  <2> QED BY <2>1, <2>2 DEF Take, Holds, Idle, At
<1>5. ASSUME NEW q \in Payments, prepare(q) PROVE payout'[p] = "refunded"
  <2>1. q = p
    BY <1>5 DEF prepare, Holds, Executing, Cmd
  <2>2. worker' = At("apply", mapPersistedResult(payout[p])) /\ payout' = payout
    BY <1>5, <2>1 DEF prepare, Holds, At
  <2> QED BY <2>2 DEF At, mapPersistedResult
<1>6. ASSUME NEW q \in Payments, record(q) PROVE payout'[p] = "refunded"
  <2>1. q = p /\ Holds("record", p)
    BY <1>6 DEF record, Holds, Executing, Cmd
  <2>2. Undecided(p) /\ p \in DOMAIN payout
    BY <1>1, <2>1 DEF RowInv, TypeOK, ExecutionTypeOK
  <2>3. RecordStatus(p, "refunded")
    BY <1>6, <2>1 DEF record, Holds, Idle, At, persistedStatus, Results
  <2> QED BY <2>2, <2>3 DEF RecordStatus
<1>7. ASSUME worker' = Idle PROVE FALSE
  BY <1>7, WorkerIdle
<1>8. ASSUME NEW q \in Payments, ProviderCall(q) PROVE FALSE
  BY <1>8 DEF ProviderCall, CallAnswered, CallLost, CallRejected, Holds, At
<1>9. ASSUME NEW w \in Webhook, WebhookStep(w)
      PROVE  worker' = Idle \/ (worker' = worker /\ commands' = commands)
  BY <1>9 DEF WebhookStep, DeliverWebhook, ReconcileNext, ReconcileFails, Process
<1>10. CASE \/ \E q \in Payments : CreatePayout(q) \/ ProviderStep(q)
            \/ LoadBatch \/ UNCHANGED vars
  BY <1>2, <1>10 DEF CreatePayout, ProviderStep, ProviderDecides, ProviderReturns, ProviderMoves,
                     LoadBatch, vars, messagingVars, executionVars
<1> QED BY <1>2, <1>3, <1>4, <1>5, <1>6, <1>7, <1>8, <1>9, <1>10
    DEF Next, ExecuteCommand, ApplyResult, Restart, Crash

\* A provider_returned event is published only once the row is refunded.
LEMMA ReturnPublished ==
  ASSUME OInv, \A q \in Payments : ReturnInv(q), [Next]_vars,
         NEW p \in Payments, EventQueued("payout.provider_returned", p)'
  PROVE  EventQueued("payout.provider_returned", p) \/ payout'[p] = "refunded"
<1>1. TypeOK
  BY DEF OInv, IInv
<1>2. CASE Elems(events') \subseteq Elems(events)
  BY <1>2 DEF EventQueued
<1>3. ASSUME NEW e \in Event, events' = Append(events, e),
             e.type # "payout.provider_returned" \/ (e.payment \in Payments /\ payout'[e.payment] = "refunded")
      PROVE  EventQueued("payout.provider_returned", p) \/ payout'[p] = "refunded"
  BY <1>1, <1>3, PublishEvent DEF EventQueued
<1>4. ASSUME NEW q \in Payments, LedgerOrPaymentCommand(q)
      PROVE  EventQueued("payout.provider_returned", p) \/ payout'[p] = "refunded"
  <2>1. PICK type \in CommandTypes : Answers(q, type)
    BY <1>1, <1>4, CommandForm
  <2>2. ASSUME NEW reply \in EventTypes, events' = Append(events, Evt(reply, q)), Replied(q, type, reply)
        PROVE  EventQueued("payout.provider_returned", p) \/ payout'[p] = "refunded"
    BY <1>3, <2>2, EvtType DEF Replied, ProviderTypes
  <2> QED BY <1>2, <2>1, <2>2 DEF Answers
<1>5. ASSUME NEW q \in Payments, ApplyResult(q)
      PROVE  EventQueued("payout.provider_returned", p) \/ payout'[p] = "refunded"
  <2>1. PICK e \in Event : e = ResultEvent(q, worker.result)
    <3>1. ResultEvent(q, worker.result) \in Event
      BY DEF ResultEvent, Event, EventTypes, Reasons
    <3> QED BY <3>1
  <2>2. e.payment = q /\ (e.type = "payout.provider_returned" => worker.result = "refunded")
    BY <2>1 DEF ResultEvent
  <2>3. worker.result = "refunded" => payout'[q] = "refunded"
    BY <1>5 DEF ApplyResult, ReturnInv, Holds
  <2>4. events' = events \/ events' = Append(events, e)
    BY <1>5, <2>1 DEF ApplyResult
  <2> QED BY <1>2, <1>3, <2>2, <2>3, <2>4
<1>6. ASSUME NEW w \in Webhook, WebhookStep(w)
      PROVE  EventQueued("payout.provider_returned", p) \/ payout'[p] = "refunded"
  <2>1. PICK q \in Payments, e \in Event :
          /\ q = w.payment /\ e = Evt(SagaEventType(w.status), q)
          /\ e.payment = q /\ e.type = SagaEventType(w.status)
    <3>1. w.payment \in Payments /\ SagaEventType(w.status) \in EventTypes
      BY DEF Webhook, SagaEventType, EventTypes
    <3> QED BY <3>1, EvtType
  <2>2. e.type = "payout.provider_returned" => w.status = "refunded"
    BY <2>1 DEF SagaEventType
  <2>3. CASE UNCHANGED events
    BY <1>2, <2>3
  <2>4. CASE Process(w) /\ events' = Append(events, e)
    <3>1. w.status = "refunded" => payout'[q] = "refunded"
      BY <1>1, <2>1, <2>4 DEF Process, ProcessIdle, ProcessAdvance, ProcessReturn, TypeOK, ExecutionTypeOK
    <3> QED BY <1>3, <2>1, <2>2, <2>4, <3>1
  <2>5. Process(w) => events' = events \/ events' = Append(events, e)
    BY <2>1 DEF Process, ProcessIdle, ProcessAdvance, ProcessReturn, enqueueSagaResult
  <2> QED BY <1>6, <2>3, <2>4, <2>5 DEF WebhookStep, DeliverWebhook, ReconcileNext, ReconcileFails, messagingVars
<1>7. ASSUME NEW q \in Payments, CreatePayout(q)
      PROVE  EventQueued("payout.provider_returned", p) \/ payout'[p] = "refunded"
  <2>1. Evt("payout.created", q) \in Event /\ Evt("payout.created", q).type = "payout.created"
    BY EvtType DEF EventTypes
  <2> QED BY <1>3, <1>7, <2>1 DEF CreatePayout
<1>8. ASSUME SagaStep PROVE Elems(events') \subseteq Elems(events)
  BY <1>1, <1>8, HeadEvent DEF SagaStep, Handle
<1>9. CASE \/ \E q \in Payments : \/ SagaExpiry(q) \/ SagaReview(q) \/ ProviderStep(q) \/ ProviderCall(q)
                                  \/ prepare(q) \/ record(q)
           \/ Restart \/ LoadBatch \/ UNCHANGED vars
  <2>1. events' = events
    BY <1>9 DEF SagaExpiry, SagaReview, ExpireOnce, ResolveManualReview, ProviderStep, ProviderCall, CallAnswered,
         CallLost, CallRejected, prepare, record, Restart, Crash, LoadBatch, vars, messagingVars
  <2> QED BY <1>2, <2>1
<1> QED BY <1>2, <1>4, <1>5, <1>6, <1>7, <1>8, <1>9 DEF Next, ExecuteCommand

\* A saga is on its way to returned only after a provider_returned event or an
\* operator's decision.
LEMMA ReturnDecided ==
  ASSUME OInv, [Next]_vars, NEW p \in Payments, saga'[p] \in Return
  PROVE  \/ saga[p] \in Return /\ audits[p] \subseteq audits'[p]
         \/ EventQueued("payout.provider_returned", p)
         \/ "return" \in audits'[p]
<1>1. TypeOK
  BY DEF OInv, IInv
<1>2. CASE saga' = saga /\ audits' = audits
  BY <1>2
<1>3. CASE SagaStep
  <2>1. Handle /\ audits' = audits /\ events # <<>>
    BY <1>3 DEF SagaStep, Handle
  <2>2. CASE UNCHANGED saga
    BY <2>1, <2>2
  <2>3. ASSUME NEW q \in Payments, NEW step,
               GoodStep(saga[q], step), updateAndCommand(q, step), q = Head(events).payment,
               step.to = "returning" => Head(events).type = "payout.provider_returned",
               step.to = "returned" => saga[q] = "returning"
        PROVE  saga[p] \in Return \/ EventQueued("payout.provider_returned", p)
    <3>1. saga'[q] = step.to /\ \A r \in Payments \ {q} : saga'[r] = saga[r]
      BY <1>1, <2>3, SagaUpdate
    <3>2. Head(events) \in Elems(events)
      BY <1>1, <2>1, HeadEvent
    <3> QED BY <2>3, <3>1, <3>2 DEF Return, EventQueued
  <2> QED BY <1>1, <2>1, <2>2, <2>3, HandleSteps
<1>4. ASSUME NEW q \in Payments, SagaExpiry(q) PROVE saga[p] \in Return /\ audits' = audits
  <2> DEFINE step == ExpiryStep(saga[q])
  <2>1. /\ GoodStep(saga[q], step) /\ updateAndCommand(q, step) /\ audits' = audits
        /\ step.to = "returning" => saga[q] = "returning"
        /\ step.to # "returned"
    BY <1>4, ExpirySteps DEF SagaExpiry, ExpireOnce
  <2> HIDE DEF step
  <2>2. saga'[q] = step.to /\ \A r \in Payments \ {q} : saga'[r] = saga[r]
    BY <1>1, <2>1, SagaUpdate
  <2> QED BY <2>1, <2>2 DEF Return
<1>5. ASSUME NEW q \in Payments, SagaReview(q)
      PROVE  (saga[p] \in Return /\ audits[p] \subseteq audits'[p]) \/ "return" \in audits'[p]
  <2>1. PICK action \in ReviewActions : ResolveManualReview(q, action)
    BY <1>5 DEF SagaReview
  <2> DEFINE step == ReviewStep(action)
  <2>2. /\ GoodStep(saga[q], step) /\ updateAndCommand(q, step)
        /\ audits' = [audits EXCEPT ![q] = @ \cup {action}]
        /\ step.to = "returning" => action = "return"
        /\ step.to # "returned"
    BY <2>1, ReviewSteps DEF ResolveManualReview
  <2> HIDE DEF step
  <2>3. saga'[q] = step.to /\ \A r \in Payments \ {q} : saga'[r] = saga[r]
    BY <1>1, <2>2, SagaUpdate
  <2> QED BY <1>1, <2>2, <2>3 DEF Return, TypeOK, SagaTypeOK
<1>6. CASE \/ \E q \in Payments : \/ CreatePayout(q) \/ LedgerOrPaymentCommand(q) \/ ExecuteCommand(q)
                                  \/ ProviderStep(q) \/ ProviderCall(q)
           \/ \E w \in Webhook : WebhookStep(w)
           \/ Restart \/ LoadBatch \/ UNCHANGED vars
  BY <1>2, <1>6 DEF CreatePayout, LedgerOrPaymentCommand, PolicyEvaluate, LedgerReserve, LedgerRelease,
       PaymentSettle, PaymentFail, PaymentReturn, ExecuteCommand, ProviderStep, ProviderCall, WebhookStep,
       DeliverWebhook, ReconcileNext, ReconcileFails, Process, Restart, LoadBatch, vars, sagaVars
<1> QED BY <1>3, <1>4, <1>5, <1>6 DEF Next

\* A reservation is released only when the payouts row says that the funds came
\* back, or an operator did.
THEOREM ReleaseIsConfirmed == Spec => []ReleasedOnlyWhenReturned
<1> DEFINE Inv == OInv /\ \A p \in Payments : ReturnInv(p)
<1>1. Init => Inv
  <2> SUFFICES ASSUME Init, NEW p \in Payments PROVE ReturnInv(p)
    BY InitOutcome
  <2>1. /\ Elems(events) = {} /\ saga[p] = "none" /\ worker.pc = "idle"
    BY DEF Init, MessagingInit, SagaInit, ExecutionInit, Idle, At, Elems
  <2> QED BY <2>1 DEF ReturnInv, EventQueued, Holds, Return
<1>2. Inv /\ [Next]_vars => Inv'
  <2> SUFFICES ASSUME Inv, [Next]_vars PROVE Inv'
    OBVIOUS
  <2>1. OInv'
    BY NextOutcome
  <2>2. ASSUME NEW p \in Payments PROVE ReturnInv(p)'
    <3>1. ReturnInv(p)
      OBVIOUS
    <3>2. payout[p] = "refunded" => payout'[p] = "refunded"
      BY RefundedStays
    <3>3. EventQueued("payout.provider_returned", p)' => payout'[p] = "refunded"
      BY <3>1, <3>2, ReturnPublished DEF ReturnInv
    <3>4. Holds("apply", p)' /\ worker'.result = "refunded" => payout'[p] = "refunded"
      BY <3>1, <3>2, ReturnRecorded DEF ReturnInv
    <3>5. saga'[p] \in Return => payout'[p] = "refunded" \/ "return" \in audits'[p]
      BY <3>1, <3>2, ReturnDecided DEF ReturnInv
    <3> QED BY <3>3, <3>4, <3>5 DEF ReturnInv
  <2> QED BY <2>1, <2>2
<1>3. Inv => ReleasedOnlyWhenReturned
  BY DEF OInv, IInv, SagaInv, ReturnInv, ReleasedOnlyWhenReturned
<1> QED BY <1>1, <1>2, <1>3, PTL DEF Spec
=============================================================================
