------------------------------- MODULE Ledger -------------------------------
(***************************************************************************)
(* Payment status and the journals posted for a payment                    *)
(* (ledger/service.go).  Each operation runs in its caller's transaction,  *)
(* locks the payment row and either takes effect or is refused with        *)
(* ErrInvalidPaymentStatus.  Amounts are left out: every journal of a      *)
(* payment moves the payment's own amount between cash:operating and       *)
(* settlement:payable, so a journal is one unit on settlement:payable.     *)
(***************************************************************************)
EXTENDS Integers, Messaging

VARIABLES
  payment,     \* payments.payment_status, "none" before the row exists
  journals     \* ledger_journals: the event types posted for the payment

ledgerVars == <<payment, journals>>

PaymentStatuses == {"none", "created", "processing", "succeeded", "failed"}
JournalTypes ==
  {"payment.processing", "payment.released", "payment.succeeded",
   "payment.return.succeeded"}

LedgerTypeOK ==
  /\ payment \in [Payments -> PaymentStatuses]
  /\ journals \in [Payments -> SUBSET JournalTypes]

LedgerInit ==
  /\ payment = [p \in Payments |-> "none"]
  /\ journals = [p \in Payments |-> {}]

\* postFrom: the no-op when the payment is already in the target status comes
\* before the check of the source status.
Posts(p, from, to, updateState) ==
  payment[p] = from \/ (updateState /\ payment[p] = to)

\* The journal insert is ON CONFLICT (payment_id, event_type) DO NOTHING: a
\* repeated journal leaves the set as it is.
post(p, from, to, journal, updateState) ==
  /\ Posts(p, from, to, updateState)
  /\ IF updateState /\ payment[p] = to
     THEN UNCHANGED ledgerVars
     ELSE /\ payment' = IF updateState THEN [payment EXCEPT ![p] = to] ELSE payment
          /\ journals' = [journals EXCEPT ![p] = @ \cup {journal}]

Reserve(p) == post(p, "created", "processing", "payment.processing", TRUE)
Release(p) == post(p, "processing", "processing", "payment.released", FALSE)
Settle(p)  == post(p, "processing", "succeeded", "payment.succeeded", TRUE)

\* RecordReturn: the payment row is not rewritten.
ReturnAllowed(p) ==
  payment[p] = "succeeded" /\ "payment.succeeded" \in journals[p]

\* A return that rewrites the outcome of the payment.
MutantRecordReturn(p) ==
  /\ ReturnAllowed(p)
  /\ journals' = [journals EXCEPT ![p] = @ \cup {"payment.return.succeeded"}]
  /\ payment' = [payment EXCEPT ![p] = "failed"]

RecordReturn(p) ==
  /\ ReturnAllowed(p)
  /\ journals' = [journals EXCEPT ![p] = @ \cup {"payment.return.succeeded"}]
  /\ UNCHANGED payment

\* What the payment's posted entries leave on settlement:payable: the
\* reservation and a post-success return credit it, the release and the
\* settlement debit it.
Posted(p, journal) == IF journal \in journals[p] THEN 1 ELSE 0

Payable(p) ==
  Posted(p, "payment.processing") + Posted(p, "payment.return.succeeded")
    - Posted(p, "payment.released") - Posted(p, "payment.succeeded")
=============================================================================
