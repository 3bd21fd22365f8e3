----------------------------- MODULE Messaging -----------------------------
(***************************************************************************)
(* The three Kafka topics the payout workflow uses, as its handlers see    *)
(* them: every event row committed to the outbox reaches its topic, and    *)
(* each consumer applies it once, in order.  Outbox.tla models how the     *)
(* relay, Kafka, the consumer loop and the inbox provide that, with        *)
(* crashes, duplicates and dead letters.                                   *)
(*                                                                         *)
(* settlement-commands and payout-events are FIFO sequences (the quick     *)
(* start creates every topic with one partition); the merchant-facing      *)
(* payment-events are kept as the set of event types announced for a       *)
(* payment.  Payloads are left out except for the failure reason, which    *)
(* the saga compares with "submission_failed".                             *)
(***************************************************************************)
EXTENDS Naturals, Sequences

CONSTANT Payments      \* the payout payments of the instance

VARIABLES
  commands,            \* settlement-commands: Seq(Command)
  events,              \* payout-events: Seq(Event)
  announced            \* payment-events: [Payments -> SUBSET PublicTypes]

messagingVars == <<commands, events, announced>>

CommandTypes ==
  {"policy.evaluate", "ledger.reserve", "settlement.execute",
   "ledger.release", "payment.settle", "payment.fail",
   "payment.fail_reserved", "payment.return"}

EventTypes ==
  {"payout.created", "payout.policy.approved", "payout.policy.rejected",
   "payout.funds_reserved", "payout.ledger_failed", "payout.funds_released",
   "payout.provider_completed", "payout.provider_failed",
   "payout.provider_returned", "payout.on_hold", "payout.completed",
   "payout.failed", "payout.funds_returned"}

PublicTypes ==
  {"payment.created", "payment.processing", "payment.succeeded",
   "payment.failed", "payment.return.succeeded"}

Reasons == {"submission_failed", "other"}

Command == [type : CommandTypes, payment : Payments]
Event   == [type : EventTypes, payment : Payments, reason : Reasons]

Cmd(type, p) == [type |-> type, payment |-> p]
Evt(type, p) == [type |-> type, payment |-> p, reason |-> "other"]

\* The messages still in a topic.
Elems(q) == {q[i] : i \in 1..Len(q)}

MessagingTypeOK ==
  /\ commands \in Seq(Command)
  /\ events \in Seq(Event)
  /\ announced \in [Payments -> SUBSET PublicTypes]

MessagingInit ==
  /\ commands = <<>>
  /\ events = <<>>
  /\ announced = [p \in Payments |-> {}]

Announce(p, types) == announced' = [announced EXCEPT ![p] = @ \cup types]

\* workers/handlers.go enqueueReply: the workflow event, and the public event
\* merchants see for three of the replies.
PublicType(reply) ==
  CASE reply = "payout.funds_reserved" -> {"payment.processing"}
    [] reply = "payout.completed"      -> {"payment.succeeded"}
    [] reply = "payout.failed"         -> {"payment.failed"}
    [] OTHER                           -> {}

enqueueReply(p, reply) ==
  /\ events' = Append(events, Evt(reply, p))
  /\ Announce(p, PublicType(reply))
=============================================================================
