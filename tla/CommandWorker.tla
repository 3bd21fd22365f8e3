---------------------------- MODULE CommandWorker ----------------------------
(***************************************************************************)
(* The payout commands of the settlement-commands consumer that run in one *)
(* transaction (workers/handlers.go); settlement.execute is in             *)
(* PayoutExecution.  A refused command is a permanent error: the consumer  *)
(* logs it and moves on, so nothing but the topic changes.                 *)
(***************************************************************************)
EXTENDS PayoutSaga, PayoutExecution, Ledger

\* The command at the head of the topic, taken when the worker is free.
Take(type, p) ==
  /\ worker = Idle
  /\ commands # <<>> /\ Head(commands) = Cmd(type, p)
  /\ commands' = Tail(commands)

Reply(p, reply) == enqueueReply(p, reply) /\ UNCHANGED ledgerVars

Drop == UNCHANGED <<events, announced, ledgerVars>>

\* policy/evaluator.go decides on amount and currency, which are not modelled.
PolicyEvaluate(p) ==
  /\ Take("policy.evaluate", p)
  /\ \/ Reply(p, "payout.policy.approved")
     \/ Reply(p, "payout.policy.rejected")
  /\ UNCHANGED <<sagaVars, executionVars>>

LedgerReserve(p) ==
  /\ Take("ledger.reserve", p)
  /\ IF Posts(p, "created", "processing", TRUE)
     THEN Reserve(p) /\ enqueueReply(p, "payout.funds_reserved")
     ELSE Drop
  /\ UNCHANGED <<sagaVars, executionVars>>

LedgerRelease(p) ==
  /\ Take("ledger.release", p)
  /\ IF Posts(p, "processing", "processing", FALSE)
     THEN Release(p) /\ enqueueReply(p, "payout.funds_released")
     ELSE Drop
  /\ UNCHANGED <<sagaVars, executionVars>>

PaymentSettle(p) ==
  /\ Take("payment.settle", p)
  /\ IF Posts(p, "processing", "succeeded", TRUE)
     THEN Settle(p) /\ enqueueReply(p, "payout.completed")
     ELSE Drop
  /\ UNCHANGED <<sagaVars, executionVars>>

\* A predicate that forgets payments rejected before their reservation.
MutantFailable(p) == payment[p] = "processing"

\* The UPDATE's predicate; no row means a permanent error.
Failable(p) == payment[p] \notin {"succeeded", "failed"}

PaymentFail(type, p) ==
  /\ Take(type, p)
  /\ IF Failable(p)
     THEN /\ payment' = [payment EXCEPT ![p] = "failed"]
          /\ UNCHANGED journals
          /\ enqueueReply(p, "payout.failed")
     ELSE Drop
  /\ UNCHANGED <<sagaVars, executionVars>>

\* payment.return rewrites a failed payment whose release is posted to failed.
Returnable(p) == payment[p] = "failed" /\ "payment.released" \in journals[p]

PaymentReturn(p) ==
  /\ Take("payment.return", p)
  /\ IF Returnable(p) THEN Reply(p, "payout.funds_returned") ELSE Drop
  /\ UNCHANGED <<sagaVars, executionVars>>
=============================================================================
