----------------------------- MODULE PayinSaga -----------------------------
(***************************************************************************)
(* The pay-in saga coordinator (paymentcore/payin/coordinator.go) with its *)
(* timeout worker, between the payin-events and settlement-commands        *)
(* topics.  As in Messaging.tla a topic is a FIFO sequence whose consumer  *)
(* applies each event once; a retryable error leaves the consumer on its   *)
(* event.                                                                  *)
(*                                                                         *)
(* Time is left out: an active saga may expire at any moment.  Every       *)
(* active state has a deadline and no other state has one                  *)
(* (coordinator.go deadline), so deadline_at is not a variable.            *)
(***************************************************************************)
EXTENDS Naturals, Sequences

CONSTANTS
  Payins,
  MaxExpiries          \* bound: deadlines that pass in one behaviour

ASSUME PayinSagaAssumption == MaxExpiries \in Nat

VARIABLES
  commands,            \* the pay-in commands of settlement-commands
  events,              \* payin-events
  saga,                \* settlement_sagas.state, "none" before the row exists
  expiries             \* deadlines that have passed (bounded by MaxExpiries)

sagaVars == <<saga, expiries>>

CommandTypes ==
  {"payin.policy.evaluate", "payin.execute", "payin.ledger.record", "payin.fail"}

EventTypes ==
  {"payin.created", "payin.policy.approved", "payin.processing", "payin.on_hold",
   "payin.received", "payin.succeeded", "payin.failed", "payin.refunded"}

Message(types) == [type : types, payin : Payins]

Msg(type, p) == [type |-> type, payin |-> p]

SagaStates ==
  {"none", "awaiting_policy", "awaiting_execution", "processing", "on_hold",
   "awaiting_ledger", "completed", "failed", "refunded"}

Executing == {"awaiting_execution", "processing", "on_hold"}
Active == Executing \cup {"awaiting_policy", "awaiting_ledger"}
Closed == {"completed", "failed", "refunded"}

SagaTypeOK ==
  /\ commands \in Seq(Message(CommandTypes))
  /\ events \in Seq(Message(EventTypes))
  /\ saga \in [Payins -> SagaStates]
  /\ expiries \in 0..MaxExpiries

SagaInit ==
  /\ commands = <<>>
  /\ events = <<>>
  /\ saga = [p \in Payins |-> "none"]
  /\ expiries = 0

-----------------------------------------------------------------------------
\* The switch of Handle: from these states, on this event.
Row(from, on, to, command) == [from |-> from, on |-> on, to |-> to, command |-> command]

NoCommand == "none"

Transitions ==
  {Row({"awaiting_policy"}, "payin.policy.approved", "awaiting_execution", "payin.execute"),
   Row(Executing, "payin.processing", "processing", NoCommand),
   Row(Executing \ {"on_hold"}, "payin.on_hold", "on_hold", NoCommand),
   Row(Executing, "payin.received", "awaiting_ledger", "payin.ledger.record"),
   Row({"awaiting_ledger"}, "payin.succeeded", "completed", NoCommand),
   Row(SagaStates \ {"none", "completed", "refunded"}, "payin.failed", "failed", NoCommand),
   Row(SagaStates \ {"none", "failed", "refunded"}, "payin.refunded", "refunded", NoCommand)}

\* A switch that takes late provider events in any active state.
MutantMatching(state, type) ==
  {r \in Transitions : r.on = type /\ (state \in r.from \/ state \in Active)}

Matching(state, type) == {r \in Transitions : r.on = type /\ state \in r.from}

enqueueCommand(p, command) ==
  commands' = IF command = NoCommand THEN commands ELSE Append(commands, Msg(command, p))

\* start: INSERT ... ON CONFLICT (payment_id) DO NOTHING, then the first command.
start(p) ==
  IF saga[p] = "none"
  THEN /\ saga' = [saga EXCEPT ![p] = "awaiting_policy"]
       /\ enqueueCommand(p, "payin.policy.evaluate")
  ELSE UNCHANGED <<saga, commands>>

\* Handle, for the event at the head of payin-events: a closed saga ignores what
\* it does not match, an active one refuses it with a retryable error.
Handle ==
  /\ events # <<>>
  /\ LET p == Head(events).payin
         rows == Matching(saga[p], Head(events).type)
     IN IF Head(events).type = "payin.created" THEN start(p)
        ELSE \/ \E row \in rows : /\ saga' = [saga EXCEPT ![p] = row.to]
                                  /\ enqueueCommand(p, row.command)
             \/ rows = {} /\ saga[p] \in Closed /\ UNCHANGED <<saga, commands>>
  /\ events' = Tail(events)
  /\ UNCHANGED expiries

\* A timeout that fails every wait.
MutantExpiryCommand(state) == "payin.fail"

ExpiryCommand(state) ==
  CASE state \in {"awaiting_policy", "on_hold"} -> "payin.fail"
    [] state = "awaiting_ledger"                -> "payin.ledger.record"
    [] OTHER                                    -> "payin.execute"

\* ExpireOnce: the state stays, the command is repeated or the pay-in failed.
ExpireOnce(p) ==
  /\ expiries < MaxExpiries
  /\ saga[p] \in Active
  /\ enqueueCommand(p, ExpiryCommand(saga[p]))
  /\ expiries' = expiries + 1
  /\ UNCHANGED <<saga, events>>
=============================================================================
