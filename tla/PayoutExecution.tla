--------------------------- MODULE PayoutExecution ---------------------------
(***************************************************************************)
(* Handling of settlement.execute (paymentcore/payout/execute.go and       *)
(* result.go) against the BlindPay adapter, which is the one step of the   *)
(* workflow that is not a single transaction:                              *)
(*                                                                         *)
(*   prepare  commits the submission attempt,                              *)
(*   call     is the HTTP request to the provider,                         *)
(*   record   commits the provider's answer on the payouts row,            *)
(*   apply    commits the result with the command's inbox row.             *)
(*                                                                         *)
(* The process may stop between any two of them; the command then is       *)
(* delivered again.  The one consumer of settlement-commands runs one      *)
(* command at a time, so there is one worker.                              *)
(***************************************************************************)
EXTENDS Messaging

CONSTANTS
  Unrouted,      \* payments without an accepted quote (refunds made without one)
  UsedStatuses,  \* bound: the statuses the provider gives to payouts
  Copies,        \* the notifications the provider sends of one status change
  MaxCrashes     \* bound: process stops in one behaviour

\* The provider keeps one payout per idempotency key; "processing" covers
\* every status the adapter maps to a pending result.
ProviderStatuses ==
  {"processing", "on_hold", "completed", "failed", "refunded", "submission_failed"}

ASSUME ExecutionAssumption ==
  /\ Unrouted \subseteq Payments
  /\ UsedStatuses \subseteq ProviderStatuses
  /\ Copies # {}
  /\ MaxCrashes \in Nat

VARIABLES
  payout,        \* payouts.settlement_status, "none" before the row exists
  ref,           \* payments whose payouts row has a provider_payout_id
  submitted,     \* payments with a settlement_submissions row naming that reference
  worker,        \* where the handler is, and the result it holds
  provider,      \* the provider's own record, by idempotency key
  sent,          \* notifications the provider has sent
  crashes        \* process stops so far (bounded by MaxCrashes)

executionVars == <<payout, ref, submitted, worker, provider, sent, crashes>>

\* A payout is created in one of these.
CreateStatuses == UsedStatuses \ {"refunded"}

PayoutStatuses == ProviderStatuses \cup {"none", "submission_pending", "unknown"}

\* "rejected" is a non-retryable provider error, "unknown" any other error.
Results ==
  {"pending", "on_hold", "completed", "failed", "refunded", "submission_failed"}

WorkerResults == Results \cup {"none", "rejected", "unknown"}

\* The statuses a notification may carry to any effect: processing never
\* advances a row that has a reference, submission_failed is refused as invalid.
NotifiedStatuses == {"on_hold", "completed", "failed", "refunded"}

Webhook == [payment : Payments, status : NotifiedStatuses, copy : Copies]

At(pc, result) == [pc |-> pc, result |-> result]
Idle == At("idle", "none")

ExecutionTypeOK ==
  /\ payout \in [Payments -> PayoutStatuses]
  /\ ref \subseteq Payments
  /\ submitted \subseteq Payments
  /\ worker \in [pc : {"idle", "call", "record", "apply"}, result : WorkerResults]
  /\ provider \in [Payments -> ProviderStatuses \cup {"none"}]
  /\ sent \subseteq Webhook
  /\ crashes \in 0..MaxCrashes

ExecutionInit ==
  /\ payout = [p \in Payments |-> "none"]
  /\ ref = {}
  /\ submitted = {}
  /\ worker = Idle
  /\ provider = [p \in Payments |-> "none"]
  /\ sent = {}
  /\ crashes = 0

-----------------------------------------------------------------------------
\* The provider.

Notify(p, status) ==
  sent' = sent \cup {[payment |-> p, status |-> status, copy |-> c] : c \in
                       IF status \in NotifiedStatuses THEN Copies ELSE {}}

ProviderMoves(p, statuses) ==
  \E status \in (statuses \cap UsedStatuses) \ {provider[p]} :
     /\ provider' = [provider EXCEPT ![p] = status]
     /\ Notify(p, status)
     /\ UNCHANGED <<payout, ref, submitted, worker, crashes>>

\* A payout that is processing or held is decided, or put on hold first.
ProviderDecides(p) ==
  \/ provider[p] = "processing" /\ ProviderMoves(p, NotifiedStatuses)
  \/ provider[p] = "on_hold" /\ ProviderMoves(p, NotifiedStatuses)

\* The funds come back after the payout had an outcome.
ProviderReturns(p) ==
  /\ provider[p] \in {"completed", "failed"}
  /\ ProviderMoves(p, {"refunded"})

\* A request creates the payout unless the idempotency key is known.
Accept(p) ==
  IF provider[p] = "none"
  THEN \E status \in CreateStatuses :
         provider' = [provider EXCEPT ![p] = status] /\ Notify(p, status)
  ELSE UNCHANGED <<provider, sent>>

-----------------------------------------------------------------------------
\* settlement/blindpay/provider.go and mapPersistedResult translate a status
\* to a normalized result the same way; persistedStatus translates back.
mapPersistedResult(status) ==
  IF status \in {"processing", "submission_pending", "unknown"} THEN "pending" ELSE status

\* The normalized result stored as if it were a settlement status.
MutantPersistedStatus(result) == result

persistedStatus(result) == IF result = "pending" THEN "processing" ELSE result

Executing(p) ==
  commands # <<>> /\ Head(commands) = Cmd("settlement.execute", p)

\* A redelivered command that submits a pending attempt again.
MutantPrepareAgain(p) ==
  /\ worker.pc = "idle" /\ Executing(p) /\ p \notin Unrouted
  /\ \/ /\ p \notin ref /\ payout[p] \in {"none", "submission_pending", "unknown"}
        /\ payout' = [payout EXCEPT ![p] = "submission_pending"]
        /\ worker' = At("call", "none")
     \/ /\ p \in ref
        /\ worker' = At("apply", mapPersistedResult(payout[p]))
        /\ UNCHANGED payout
  /\ UNCHANGED <<commands, events, announced, ref, submitted, provider, sent, crashes>>

\* prepare, and the return of executePayout for an attempt that already has a
\* reference.  An attempt without one is only repeated from "unknown": from
\* submission_pending and submission_failed the handler returns
\* ErrSubmissionUnknown, a retryable error, and the consumer stays on the command.
prepare(p) ==
  /\ worker.pc = "idle" /\ Executing(p) /\ p \notin Unrouted
  /\ \/ /\ payout[p] = "none"
        /\ payout' = [payout EXCEPT ![p] = "submission_pending"]
        /\ worker' = At("call", "none")
     \/ /\ p \in ref
        /\ worker' = At("apply", mapPersistedResult(payout[p]))
        /\ UNCHANGED payout
     \/ /\ p \notin ref /\ payout[p] = "unknown"
        /\ worker' = At("call", "none")
        /\ UNCHANGED payout
  /\ UNCHANGED <<commands, events, announced, ref, submitted, provider, sent, crashes>>

\* The provider answers the request.
CallAnswered(p) ==
  /\ worker.pc = "call" /\ Executing(p)
  /\ Accept(p)
  /\ worker' = At("record", mapPersistedResult(provider'[p]))
  /\ UNCHANGED <<commands, events, announced, payout, ref, submitted, crashes>>

\* The request or its answer is lost, or the provider asks to retry.
CallLost(p) ==
  /\ worker.pc = "call" /\ Executing(p)
  /\ Accept(p) \/ UNCHANGED <<provider, sent>>
  /\ worker' = At("record", "unknown")
  /\ UNCHANGED <<commands, events, announced, payout, ref, submitted, crashes>>

\* The provider refuses the request for good.
CallRejected(p) ==
  /\ worker.pc = "call" /\ Executing(p)
  /\ worker' = At("record", "rejected")
  /\ UNCHANGED <<commands, events, announced, payout, ref, submitted, provider, sent, crashes>>

\* recordError and the UPDATE of the provider's answer: both only change a row
\* that is still submission_pending or unknown.
Undecided(p) == payout[p] \in {"submission_pending", "unknown"}

RecordStatus(p, status) ==
  payout' = IF Undecided(p) THEN [payout EXCEPT ![p] = status] ELSE payout

record(p) ==
  /\ worker.pc = "record" /\ Executing(p)
  /\ \/ /\ worker.result = "unknown"
        /\ RecordStatus(p, "unknown")
        /\ worker' = Idle
        /\ UNCHANGED ref
     \/ /\ worker.result = "rejected"
        /\ RecordStatus(p, "submission_failed")
        /\ worker' = At("apply", "rejected")
        /\ UNCHANGED ref
     \/ /\ worker.result \in Results
        /\ RecordStatus(p, persistedStatus(worker.result))
        /\ ref' = IF Undecided(p) THEN ref \cup {p} ELSE ref
        /\ worker' = At("apply", worker.result)
  /\ UNCHANGED <<commands, events, announced, submitted, provider, sent, crashes>>

\* A provider that says completed for every answer that is not a failure.
MutantResultEvent(p, result) ==
  Evt(IF result \in {"completed", "on_hold"} THEN "payout.provider_completed"
      ELSE IF result = "refunded" THEN "payout.provider_returned"
      ELSE "payout.provider_failed", p)

\* The workflow event for a result.  The reason of a rejected submission is the
\* provider's message; only a payout the provider itself reports as
\* submission_failed carries that word.
ResultEvent(p, result) ==
  [type |-> CASE result = "completed" -> "payout.provider_completed"
              [] result = "on_hold"   -> "payout.on_hold"
              [] result = "refunded"  -> "payout.provider_returned"
              [] OTHER                -> "payout.provider_failed",
   payment |-> p,
   reason |-> IF result = "submission_failed" THEN result ELSE "other"]

\* ApplyResult.  settlement_submissions.provider_reference is UNIQUE, so a
\* second command for the same provider payout violates it: the insert fails
\* with a retryable error and the consumer stays on the command.
ApplyResult(p) ==
  /\ worker.pc = "apply" /\ Executing(p)
  /\ \/ worker.result = "rejected" /\ UNCHANGED submitted
     \/ worker.result # "rejected" /\ p \notin submitted /\ submitted' = submitted \cup {p}
  /\ events' = IF worker.result = "pending"
               THEN events ELSE Append(events, ResultEvent(p, worker.result))
  /\ commands' = Tail(commands)
  /\ worker' = Idle
  /\ UNCHANGED <<announced, payout, ref, provider, sent, crashes>>

\* The process stops and starts again: the command being executed is lost.
Crash ==
  /\ crashes < MaxCrashes
  /\ worker' = Idle
  /\ crashes' = crashes + 1
  /\ UNCHANGED <<commands, events, announced, payout, ref, submitted, provider, sent>>
=============================================================================
