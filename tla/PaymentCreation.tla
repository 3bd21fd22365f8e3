-------------------------- MODULE PaymentCreation --------------------------
(***************************************************************************)
(* What a merchant's requests do to the tables: quotes, payouts, pay-ins   *)
(* and refunds (quote.go, create.go and refund.go of paymentcore/payout    *)
(* and paymentcore/payin, called by paymentapi/handler.go).                *)
(*                                                                         *)
(* A creation is one transaction that locks its quote, a refund one that   *)
(* locks the original payment; each is one action, and the transactions of *)
(* concurrent requests interleave.  A request without a quote looks one up *)
(* by its key, asks the provider and stores the answer before its payment  *)
(* is created: rows keep their key and terms for ever and the table has a  *)
(* unique index on the key, so the lookup tells nothing that the insertion *)
(* and the creation do not check again, and only those two are actions.    *)
(* The request may fail between them and be repeated.                      *)
(*                                                                         *)
(* A request that fails a check, and one that the provider or the database *)
(* answers with an error, leaves the tables alone and is a step that is    *)
(* not taken.  Tables are sequences and a row's index is its id.           *)
(* Currencies, fees and resource ids are left out: the amount stands for   *)
(* everything a quote locks.                                               *)
(***************************************************************************)
EXTENDS Integers, Sequences, FiniteSetsExt

CONSTANTS
  Tenants,
  Keys,            \* values of the Idempotency-Key header of payments and refunds
  QuoteHeaders,    \* and of quotes
  Amounts,
  Refs,            \* external references of payments, reasons of refunds
  MaxQuotes,       \* bound: rows of payment_quotes
  MaxPayments,     \* bound: rows of payments
  MaxRows          \* bound: rows of both

ASSUME CreationAssumption ==
  /\ Amounts \subseteq Nat \ {0}
  /\ MaxQuotes \in Nat
  /\ MaxPayments \in Nat
  /\ MaxRows \in Nat

\* No merchant's reference has the form that the code gives a refund's.
ASSUME RefAssumption == \A p \in 1..MaxPayments : <<"refund", p>> \notin Refs

VARIABLES
  quotes,          \* payment_quotes
  payments,        \* payments, with the columns of payins and payment_refunds
  answer           \* the request just answered with a payout or refund, and
                   \* which; or None

vars == <<quotes, payments, answer>>

Directions == {"payout", "payin"}

\* A quote's key: the request's own, or the one derived for a direct payment.
QuoteKeys == ({"explicit"} \X QuoteHeaders) \cup ({"implicit"} \X Keys)

Quote ==
  [dir : Directions, tenant : Tenants, key : QuoteKeys, requested : Amounts,
   amount : Amounts, status : {"open", "accepted", "expired"},
   lapsed : BOOLEAN, payment : 0..MaxPayments]

\* A payment's quote is 0 when it has none, its original 0 unless it is a refund.
Payment ==
  [dir : Directions, tenant : Tenants, key : Keys, amount : Amounts,
   ref : Refs, quote : 0..MaxQuotes, original : 0..MaxPayments,
   status : {"created", "succeeded", "failed"}]

\* Requests.  A quote of 0 is a direct payment, or a refund without a quote; a
\* pay-in created from a quote names no amount of its own.
PayoutRequest ==
  [op : {"payout"}, tenant : Tenants, key : Keys, amount : Amounts,
   ref : Refs, quote : 0..MaxQuotes, original : {0}]
PayinRequest ==
  [op : {"payin"}, tenant : Tenants, key : Keys, amount : Amounts,
   ref : Refs, quote : {0}, original : {0}]
  \cup [op : {"payin"}, tenant : Tenants, key : Keys, amount : {0},
        ref : Refs, quote : 1..MaxQuotes, original : {0}]
RefundRequest ==
  [op : {"refund"}, tenant : Tenants, key : Keys, amount : Amounts,
   ref : Refs, quote : 0..MaxQuotes, original : 1..MaxPayments]
PaymentRequest == PayoutRequest \cup PayinRequest

\* POST /v1/payment-quotes, or the quote made for a direct payment.
PayoutQuoteRequest == [dir : {"payout"}, tenant : Tenants, key : QuoteKeys, amount : Amounts]
PayinQuoteRequest == [dir : {"payin"}, tenant : Tenants, key : QuoteKeys, amount : Amounts]
QuoteRequest == PayoutQuoteRequest \cup PayinQuoteRequest

Answers == [request : PayoutRequest \cup RefundRequest, payment : 1..MaxPayments]
None == [payment |-> 0]

TypeOK ==
  /\ quotes \in Seq(Quote) /\ Len(quotes) <= MaxQuotes
  /\ payments \in Seq(Payment) /\ Len(payments) <= MaxPayments
  /\ answer \in Answers \cup {None}

Init ==
  /\ quotes = <<>>
  /\ payments = <<>>
  /\ answer = None

-----------------------------------------------------------------------------
\* Lookups.

\* A key of a failed payment taken for unused.
MutantWithKey(key) ==
  {p \in DOMAIN payments : payments[p].key = key /\ payments[p].status # "failed"}

\* payments.idempotency_key is UNIQUE over all tenants and directions.
WithKey(key) == {p \in DOMAIN payments : payments[p].key = key}

\* loadRefundByIdempotencyKey.
RefundsWithKey(tenant, key) ==
  {p \in WithKey(key) : payments[p].tenant = tenant /\ payments[p].original # 0}

\* The payins row with a key, and the one of a quote.
PayinsWithKey(tenant, key) ==
  {p \in WithKey(key) : payments[p].tenant = tenant /\ payments[p].dir = "payin"}
PayinsOfQuote(q) ==
  {p \in DOMAIN payments : payments[p].dir = "payin" /\ payments[p].quote = q}

\* The quotes of a tenant's key, in either direction.
QuotesWithKey(tenant, key) ==
  {q \in DOMAIN quotes : quotes[q].tenant = tenant /\ quotes[q].key = key}

-----------------------------------------------------------------------------
\* The bound on rows.
RowsLeft == Len(quotes) + Len(payments) < MaxRows

NoAnswer == answer' = None
Answer(r, p) == IF r.op = "payin" THEN NoAnswer ELSE answer' = [request |-> r, payment |-> p]

\* A quote is stored when its key is new: the provider prices the request, so
\* the sender's amount may differ from the requested one.
StoreQuote(r, lapsed) ==
  /\ Len(quotes) < MaxQuotes /\ RowsLeft
  /\ QuotesWithKey(r.tenant, r.key) = {}
  /\ \E amount \in Amounts :
       quotes' = Append(quotes,
         [dir |-> r.dir, tenant |-> r.tenant, key |-> r.key, requested |-> r.amount,
          amount |-> amount, status |-> "open", lapsed |-> lapsed, payment |-> 0])
  /\ NoAnswer
  /\ UNCHANGED payments

\* A payout quote that has lapsed already is refused, a pay-in quote is not.
CreatePayoutQuote(r) == StoreQuote(r, FALSE)
CreatePayinQuote(r) == \E lapsed \in BOOLEAN : StoreQuote(r, lapsed)

CreateQuote(r) == IF r.dir = "payout" THEN CreatePayoutQuote(r) ELSE CreatePayinQuote(r)

\* expires_at passes, which only matters to an open quote.
Lapse(q) ==
  /\ quotes[q].status = "open" /\ ~quotes[q].lapsed
  /\ quotes' = [quotes EXCEPT ![q].lapsed = TRUE]
  /\ NoAnswer
  /\ UNCHANGED payments

-----------------------------------------------------------------------------
\* Creation.

\* A quote that has been accepted taken for open.
MutantOpen(q) == ~quotes[q].lapsed

Open(q) == quotes[q].status = "open" /\ ~quotes[q].lapsed

\* The requested amount compared instead of the sender's.
MutantTermsMatch(q, r) == quotes[q].tenant = r.tenant /\ quotes[q].requested = r.amount

TermsMatch(q, r) == quotes[q].tenant = r.tenant /\ quotes[q].amount = r.amount

\* The payment row, the acceptance of the quote and the first event commit
\* together.
Insert(r, dir, amount, q) ==
  /\ Len(payments) < MaxPayments /\ RowsLeft
  /\ payments' = Append(payments,
       [dir |-> dir, tenant |-> r.tenant, key |-> r.key, amount |-> amount, ref |-> r.ref,
        quote |-> q, original |-> r.original, status |-> "created"])
  /\ quotes' = IF q = 0 THEN quotes
               ELSE [quotes EXCEPT ![q].status = "accepted", ![q].payment = Len(payments) + 1]
  /\ Answer(r, Len(payments) + 1)

\* payments.external_reference.  A refund's is made from its original's and its
\* own new id, and that id tells it from every other.
ExternalReference(p) == IF payments[p].original = 0 THEN payments[p].ref ELSE <<"refund", p>>

paymentRequestMatches(p, r, q) ==
  /\ ExternalReference(p) = r.ref
  /\ payments[p].amount = r.amount /\ payments[p].tenant = r.tenant /\ payments[p].quote = q

\* createPayout.  The INSERT is ON CONFLICT DO NOTHING, and a payment that has
\* the key already cannot match: the quote is still open, so it has another.
createPayout(r, q) ==
  /\ q \in DOMAIN quotes /\ quotes[q].dir = "payout"
  /\ \/ /\ quotes[q].status = "accepted"
        /\ \E p \in WithKey(r.key) : paymentRequestMatches(p, r, q) /\ Answer(r, p)
        /\ UNCHANGED <<quotes, payments>>
     \/ /\ quotes[q].status = "open" /\ quotes[q].lapsed
        /\ quotes' = [quotes EXCEPT ![q].status = "expired"]
        /\ NoAnswer
        /\ UNCHANGED payments
     \/ /\ Open(q) /\ TermsMatch(q, r) /\ WithKey(r.key) = {}
        /\ Insert(r, "payout", r.amount, q)

\* A pay-in for the amount of the request, which names none.
MutantCreatePayin(r, q) ==
  /\ q \in DOMAIN quotes /\ quotes[q].dir = "payin" /\ quotes[q].tenant = r.tenant
  /\ Open(q) /\ WithKey(r.key) = {}
  /\ Insert(r, "payin", r.amount, q)

\* createPayin.  The quote's pay-in is returned whatever the key.
createPayin(r, q) ==
  /\ \A p \in PayinsWithKey(r.tenant, r.key) : payments[p].quote = q /\ payments[p].ref = r.ref
  /\ q \in DOMAIN quotes /\ quotes[q].dir = "payin" /\ quotes[q].tenant = r.tenant
  /\ \/ /\ \E p \in PayinsOfQuote(q) : Answer(r, p)
        /\ UNCHANGED <<quotes, payments>>
     \/ /\ PayinsOfQuote(q) = {}
        /\ Open(q) /\ WithKey(r.key) = {}
        /\ Insert(r, "payin", quotes[q].amount, q)

\* The quote a request names or, when it names none, the one stored under the
\* key derived from its own, whatever became of that.
QuotesFor(r) ==
  IF r.quote # 0 THEN {r.quote}
  ELSE {q \in QuotesWithKey(r.tenant, <<"implicit", r.key>>) :
          quotes[q].dir = r.op /\ quotes[q].requested = r.amount}

CreatePayoutPayment(r) == \E q \in QuotesFor(r) : createPayout(r, q)
CreatePayinPayment(r) == \E q \in QuotesFor(r) : createPayin(r, q)

\* POST /v1/payments.
CreatePayment(r) ==
  IF r.op = "payout" THEN CreatePayoutPayment(r) ELSE CreatePayinPayment(r)

-----------------------------------------------------------------------------
\* CreateRefund.

\* Only refunds already paid out counted.
MutantActive(p) == payments[p].status = "succeeded"

Active(p) == payments[p].status # "failed"

Share(p) == payments[p].amount
RefundsOf(o) == {p \in DOMAIN payments : payments[p].original = o}
Refunded(o) == MapThenSumSet(Share, {p \in RefundsOf(o) : Active(p)})

\* A pay-in posts payin.succeeded, so only a payout has the settlement journal
\* that the code looks for.
Refundable(o) == payments[o].status = "succeeded" /\ payments[o].dir = "payout"

refundMatches(p, r) ==
  /\ payments[p].original = r.original /\ payments[p].amount = r.amount
  /\ payments[p].ref = r.ref /\ payments[p].quote = r.quote

CreateRefund(r) ==
  /\ r.original \in DOMAIN payments /\ payments[r.original].tenant = r.tenant
  /\ \/ /\ \E p \in RefundsWithKey(r.tenant, r.key) : refundMatches(p, r) /\ Answer(r, p)
        /\ UNCHANGED <<quotes, payments>>
     \/ /\ RefundsWithKey(r.tenant, r.key) = {}
        /\ Refundable(r.original)
        /\ r.amount <= payments[r.original].amount - Refunded(r.original)
        /\ r.quote # 0 => /\ r.quote \in DOMAIN quotes /\ quotes[r.quote].dir = "payout"
                          /\ Open(r.quote) /\ TermsMatch(r.quote, r)
        /\ WithKey(r.key) = {}
        /\ Insert(r, "payout", r.amount, r.quote)

\* The payment's workflow ends; its outcome is final.
Finish(p) ==
  /\ payments[p].status = "created"
  /\ \E status \in {"succeeded", "failed"} : payments' = [payments EXCEPT ![p].status = status]
  /\ NoAnswer
  /\ UNCHANGED quotes

-----------------------------------------------------------------------------
Next ==
  \/ \E r \in QuoteRequest : CreateQuote(r)
  \/ \E r \in PaymentRequest : CreatePayment(r)
  \/ \E r \in RefundRequest : CreateRefund(r)
  \/ \E q \in DOMAIN quotes : Lapse(q)
  \/ \E p \in DOMAIN payments : Finish(p)

Spec == Init /\ [][Next]_vars

-----------------------------------------------------------------------------
\* An accepted quote and its payment belong to each other and agree on tenant,
\* direction and amount, however creations, refunds, repeated requests and
\* expiry meet; no other quote is bound to a payment.
AcceptedQuoteIsHonoured ==
  /\ \A q \in DOMAIN quotes :
       IF quotes[q].status = "accepted"
       THEN /\ quotes[q].payment \in DOMAIN payments
            /\ LET p == quotes[q].payment IN
                 /\ payments[p].quote = q /\ payments[p].dir = quotes[q].dir
                 /\ payments[p].tenant = quotes[q].tenant
                 /\ payments[p].amount = quotes[q].amount
       ELSE quotes[q].payment = 0
  /\ \A p \in DOMAIN payments :
       payments[p].quote # 0 => quotes[payments[p].quote].payment = p

\* A quote that was accepted or marked expired is never decided again.
QuoteIsDecidedOnce ==
  [][\A q \in DOMAIN quotes :
       quotes[q].status # "open" =>
         /\ quotes'[q].status = quotes[q].status
         /\ quotes'[q].payment = quotes[q].payment]_vars

\* The refunds of a payment that have not failed never exceed its amount, also
\* when a failed refund has freed its share and several are under way.
RefundsWithinAmount ==
  \A o \in DOMAIN payments :
    MapThenSumSet(Share, {p \in RefundsOf(o) : payments[p].status # "failed"})
      <= payments[o].amount

\* README.md: a key used again with the same request returns the original
\* payment, and with different fields none.  The payout or refund that answers
\* a request is the one payment of its key and is what the request asks for.
\* A pay-in of a quote is returned for every key, so it is left out.
PayoutKeyNamesOnePayment ==
  answer # None =>
    LET r == answer.request
        p == answer.payment
    IN /\ {q \in DOMAIN payments : payments[q].key = r.key} = {p}
       /\ payments[p].tenant = r.tenant /\ payments[p].ref = r.ref
       /\ payments[p].original = r.original /\ payments[p].amount = r.amount
=============================================================================
