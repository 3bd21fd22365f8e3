----------------------- MODULE PaymentCreation_proofs -----------------------
(***************************************************************************)
(* Proofs about PaymentCreation, for any tenants, keys and amounts and     *)
(* tables of any size.                                                     *)
(*                                                                         *)
(* That a quote and its payment belong to each other is inductive once     *)
(* every payment's quote is known to exist.  What an answer says of the    *)
(* payment it names needs the unique index on the key as an invariant.     *)
(*                                                                         *)
(* That refunds stay within the amount is about a sum over a table, which  *)
(* the model computes by recursion.  The second half of the module shows   *)
(* that this recursion is well defined on finite sets of rows and what it  *)
(* gives when a row is added or taken away.  The inductions in it are made *)
(* with sets of counterexamples, each of which would have a least element. *)
(***************************************************************************)
EXTENDS PaymentCreation, FiniteSetTheorems, WellFoundedInduction, TLAPS

\* A payment's quote is a row of the quotes.
QuoteExists ==
  \A p \in DOMAIN payments : payments[p].quote # 0 => payments[p].quote \in DOMAIN quotes

\* payments.idempotency_key is unique.
KeyIsUnique ==
  \A p, q \in DOMAIN payments : payments[p].key = payments[q].key => p = q

IInv ==
  /\ TypeOK
  /\ QuoteExists
  /\ AcceptedQuoteIsHonoured
  /\ KeyIsUnique
  /\ PayoutKeyNamesOnePayment

-----------------------------------------------------------------------------
\* A row inserted into a table: the others keep their ids and contents.
LEMMA InsertRow ==
  ASSUME NEW S, NEW s \in Seq(S), NEW e \in S
  PROVE  /\ Append(s, e) \in Seq(S) /\ Len(Append(s, e)) = Len(s) + 1
         /\ DOMAIN s = 1..Len(s) /\ DOMAIN Append(s, e) = 1..Len(s) + 1
         /\ Append(s, e)[Len(s) + 1] = e
         /\ \A i \in DOMAIN s : Append(s, e)[i] = s[i]
OBVIOUS

\* A row updated in place.
LEMMA UpdateRow ==
  ASSUME NEW S, NEW s \in Seq(S), NEW i \in DOMAIN s, NEW e \in S
  PROVE  /\ [s EXCEPT ![i] = e] \in Seq(S) /\ Len([s EXCEPT ![i] = e]) = Len(s)
         /\ DOMAIN [s EXCEPT ![i] = e] = DOMAIN s
         /\ [s EXCEPT ![i] = e][i] = e
         /\ \A j \in DOMAIN s : j # i => [s EXCEPT ![i] = e][j] = s[j]
OBVIOUS

\* Rows are records of their type.
LEMMA Rows ==
  ASSUME TypeOK
  PROVE  /\ DOMAIN quotes = 1..Len(quotes) /\ DOMAIN payments = 1..Len(payments)
         /\ Len(quotes) \in Nat /\ Len(payments) \in Nat
         /\ \A q \in DOMAIN quotes : quotes[q] \in Quote
         /\ \A p \in DOMAIN payments : payments[p] \in Payment
BY DEF TypeOK

\* The empty tables satisfy the invariant.
LEMMA InitInv == Init => IInv
<1> SUFFICES ASSUME Init PROVE IInv
  OBVIOUS
<1> USE CreationAssumption
<1>1. DOMAIN quotes = {} /\ DOMAIN payments = {}
  BY DEF Init
<1>2. TypeOK
  BY DEF Init, TypeOK
<1> QED BY <1>1, <1>2 DEF Init, IInv, QuoteExists, AcceptedQuoteIsHonoured, KeyIsUnique,
                          PayoutKeyNamesOnePayment

-----------------------------------------------------------------------------
\* An answer that repeats an earlier payment, and no answer, keep the invariant.
LEMMA ReplayInv ==
  ASSUME IInv, UNCHANGED <<quotes, payments>>,
         \/ answer' = None
         \/ \E r \in PayoutRequest \cup RefundRequest, p \in DOMAIN payments :
              /\ answer' = [request |-> r, payment |-> p]
              /\ payments[p].key = r.key
              /\ payments[p].tenant = r.tenant /\ payments[p].ref = r.ref
              /\ payments[p].original = r.original /\ payments[p].amount = r.amount
  PROVE  IInv'
<1> USE CreationAssumption
<1>1. TypeOK /\ KeyIsUnique
  BY DEF IInv
<1>2. QuoteExists' /\ AcceptedQuoteIsHonoured' /\ KeyIsUnique'
  BY DEF IInv, QuoteExists, AcceptedQuoteIsHonoured, KeyIsUnique
<1>3. CASE answer' = None
  BY <1>1, <1>2, <1>3 DEF IInv, TypeOK, PayoutKeyNamesOnePayment
<1>4. ASSUME NEW r \in PayoutRequest \cup RefundRequest, NEW p \in DOMAIN payments,
             answer' = [request |-> r, payment |-> p],
             payments[p].key = r.key,
             payments[p].tenant = r.tenant, payments[p].ref = r.ref,
             payments[p].original = r.original, payments[p].amount = r.amount
      PROVE  IInv'
  <2>1. answer'.request = r /\ answer'.payment = p /\ p \in 1..MaxPayments
    BY <1>1, <1>4, Rows DEF TypeOK
  <2>2. TypeOK'
    BY <1>1, <1>4, <2>1 DEF TypeOK, Answers
  <2>3. {q \in DOMAIN payments : payments[q].key = r.key} = {p}
    BY <1>1, <1>4 DEF KeyIsUnique
  <2>4. PayoutKeyNamesOnePayment'
    BY <1>4, <2>1, <2>3 DEF PayoutKeyNamesOnePayment
  <2> QED BY <1>2, <2>2, <2>4 DEF IInv
<1> QED BY <1>3, <1>4

\* A change of quotes that answers no payment keeps the invariant if it leaves
\* every existing quote's terms, its payment and whether it was accepted, and
\* no payment is bound to a new one.
LEMMA QuoteChangeInv ==
  ASSUME IInv, UNCHANGED payments, answer' = None,
         quotes' \in Seq(Quote), Len(quotes') <= MaxQuotes, Len(quotes) <= Len(quotes'),
         \A q \in DOMAIN quotes :
           /\ quotes'[q].dir = quotes[q].dir /\ quotes'[q].tenant = quotes[q].tenant
           /\ quotes'[q].amount = quotes[q].amount
           /\ quotes'[q].payment = quotes[q].payment
           /\ quotes'[q].status = "accepted" <=> quotes[q].status = "accepted",
         \A q \in DOMAIN quotes' \ DOMAIN quotes :
           quotes'[q].status = "open" /\ quotes'[q].payment = 0
  PROVE  IInv'
<1> USE CreationAssumption
<1>1. TypeOK /\ QuoteExists /\ AcceptedQuoteIsHonoured /\ KeyIsUnique
  BY DEF IInv
<1>2. DOMAIN quotes \subseteq DOMAIN quotes'
  BY <1>1 DEF TypeOK
<1>3. TypeOK'
  BY <1>1 DEF TypeOK
<1>4. QuoteExists'
  BY <1>1, <1>2 DEF QuoteExists
<1>5. AcceptedQuoteIsHonoured'
  <2>1. ASSUME NEW q \in DOMAIN quotes'
        PROVE  IF quotes'[q].status = "accepted"
               THEN /\ quotes'[q].payment \in DOMAIN payments
                    /\ LET p == quotes'[q].payment IN
                         /\ payments[p].quote = q /\ payments[p].dir = quotes'[q].dir
                         /\ payments[p].tenant = quotes'[q].tenant
                         /\ payments[p].amount = quotes'[q].amount
               ELSE quotes'[q].payment = 0
    <3>1. CASE q \in DOMAIN quotes
      BY <1>1, <3>1 DEF AcceptedQuoteIsHonoured
    <3>2. CASE q \notin DOMAIN quotes
      BY <3>2
    <3> QED BY <3>1, <3>2
  <2>2. ASSUME NEW p \in DOMAIN payments, payments[p].quote # 0
        PROVE  quotes'[payments[p].quote].payment = p
    BY <1>1, <2>2 DEF QuoteExists, AcceptedQuoteIsHonoured
  <2> QED BY <2>1, <2>2 DEF AcceptedQuoteIsHonoured
<1>6. KeyIsUnique' /\ PayoutKeyNamesOnePayment'
  BY <1>1 DEF KeyIsUnique, PayoutKeyNamesOnePayment
<1> QED BY <1>3, <1>4, <1>5, <1>6 DEF IInv

\* Storing a quote keeps the invariant.
LEMMA StoreQuoteInv ==
  ASSUME IInv, NEW r \in QuoteRequest, NEW lapsed \in BOOLEAN, StoreQuote(r, lapsed)
  PROVE  IInv'
<1> USE CreationAssumption
<1>1. TypeOK
  BY DEF IInv
<1>2. PICK amount \in Amounts : quotes' = Append(quotes,
         [dir |-> r.dir, tenant |-> r.tenant, key |-> r.key, requested |-> r.amount,
          amount |-> amount, status |-> "open", lapsed |-> lapsed, payment |-> 0])
  BY DEF StoreQuote
<1> DEFINE e == [dir |-> r.dir, tenant |-> r.tenant, key |-> r.key, requested |-> r.amount,
                 amount |-> amount, status |-> "open", lapsed |-> lapsed, payment |-> 0]
<1>3. /\ e \in Quote
      /\ e.status = "open" /\ e.payment = 0
  BY DEF QuoteRequest, PayoutQuoteRequest, PayinQuoteRequest, Quote, Directions
<1>4. quotes' = Append(quotes, e) /\ Len(quotes) < MaxQuotes /\ UNCHANGED payments /\ answer' = None
  BY <1>2 DEF StoreQuote, NoAnswer
<1> HIDE DEF e
<1>5. /\ quotes' \in Seq(Quote) /\ Len(quotes') = Len(quotes) + 1
      /\ DOMAIN quotes = 1..Len(quotes) /\ DOMAIN quotes' = 1..Len(quotes) + 1
      /\ quotes'[Len(quotes) + 1] = e
      /\ \A q \in DOMAIN quotes : quotes'[q] = quotes[q]
  BY <1>1, <1>3, <1>4, InsertRow DEF TypeOK
<1>6. \A q \in DOMAIN quotes' \ DOMAIN quotes : quotes'[q].status = "open" /\ quotes'[q].payment = 0
  <2>1. \A q \in DOMAIN quotes' \ DOMAIN quotes : q = Len(quotes) + 1
    BY <1>1, <1>5, Rows
  <2> QED BY <1>3, <1>5, <2>1
<1>7. Len(quotes') <= MaxQuotes /\ Len(quotes) <= Len(quotes')
  BY <1>1, <1>4, <1>5, Rows
<1> QED BY <1>4, <1>5, <1>6, <1>7, QuoteChangeInv

\* A quote that lapses, or is marked expired, keeps the invariant.
LEMMA ExpireInv ==
  ASSUME IInv, NEW q \in DOMAIN quotes, quotes[q].status = "open",
         \/ quotes' = [quotes EXCEPT ![q].lapsed = TRUE]
         \/ quotes' = [quotes EXCEPT ![q].status = "expired"],
         UNCHANGED payments, answer' = None
  PROVE  IInv'
<1>1. TypeOK
  BY DEF IInv
<1>2. PICK e \in Quote :
        /\ quotes' = [quotes EXCEPT ![q] = e]
        /\ e.dir = quotes[q].dir /\ e.tenant = quotes[q].tenant /\ e.amount = quotes[q].amount
        /\ e.payment = quotes[q].payment /\ e.status # "accepted"
  <2>1. quotes[q] \in Quote
    BY <1>1, Rows
  <2>2. CASE quotes' = [quotes EXCEPT ![q].lapsed = TRUE]
    <3> DEFINE e == [quotes[q] EXCEPT !.lapsed = TRUE]
    <3>1. e \in Quote /\ e.dir = quotes[q].dir /\ e.tenant = quotes[q].tenant
          /\ e.amount = quotes[q].amount /\ e.payment = quotes[q].payment /\ e.status # "accepted"
      BY <2>1 DEF Quote
    <3> QED BY <2>2, <3>1
  <2>3. CASE quotes' = [quotes EXCEPT ![q].status = "expired"]
    <3> DEFINE e == [quotes[q] EXCEPT !.status = "expired"]
    <3>1. e \in Quote /\ e.dir = quotes[q].dir /\ e.tenant = quotes[q].tenant
          /\ e.amount = quotes[q].amount /\ e.payment = quotes[q].payment /\ e.status # "accepted"
      BY <2>1 DEF Quote
    <3> QED BY <2>3, <3>1
  <2> QED BY <2>2, <2>3
<1>3. /\ quotes' \in Seq(Quote) /\ Len(quotes') = Len(quotes)
      /\ DOMAIN quotes' = DOMAIN quotes
      /\ quotes'[q] = e
      /\ \A j \in DOMAIN quotes : j # q => quotes'[j] = quotes[j]
  BY <1>1, <1>2, UpdateRow DEF TypeOK
<1>4. \A j \in DOMAIN quotes :
        /\ quotes'[j].dir = quotes[j].dir /\ quotes'[j].tenant = quotes[j].tenant
        /\ quotes'[j].amount = quotes[j].amount
        /\ quotes'[j].payment = quotes[j].payment
        /\ quotes'[j].status = "accepted" <=> quotes[j].status = "accepted"
  BY <1>2, <1>3
<1> QED BY <1>1, <1>3, <1>4, Rows, QuoteChangeInv DEF TypeOK

-----------------------------------------------------------------------------
\* A payment inserted under a new key, for an open quote whose terms it takes
\* over or for none, keeps the invariant.
LEMMA InsertInv ==
  ASSUME IInv,
         NEW r \in PayoutRequest \cup PayinRequest \cup RefundRequest,
         NEW dir \in Directions, NEW amount \in Amounts, NEW q \in 0..MaxQuotes,
         q # 0 => /\ q \in DOMAIN quotes /\ Open(q)
                  /\ quotes[q].dir = dir /\ quotes[q].tenant = r.tenant
                  /\ quotes[q].amount = amount,
         r.op # "payin" => amount = r.amount,
         WithKey(r.key) = {},
         Insert(r, dir, amount, q)
  PROVE  IInv'
<1> USE CreationAssumption
<1>1. TypeOK /\ QuoteExists /\ AcceptedQuoteIsHonoured /\ KeyIsUnique
  BY DEF IInv
<1> DEFINE n == Len(payments) + 1
           e == [dir |-> dir, tenant |-> r.tenant, key |-> r.key, amount |-> amount, ref |-> r.ref,
                 quote |-> q, original |-> r.original, status |-> "created"]
           f == [quotes[q] EXCEPT !.status = "accepted", !.payment = n]
<1>2. /\ r.tenant \in Tenants /\ r.key \in Keys /\ r.ref \in Refs
      /\ r.original \in 0..MaxPayments
      /\ r.op # "payin" => r \in PayoutRequest \cup RefundRequest
  BY DEF PayoutRequest, PayinRequest, RefundRequest
<1>3. /\ e \in Payment
      /\ e.dir = dir /\ e.tenant = r.tenant /\ e.key = r.key /\ e.amount = amount /\ e.ref = r.ref
      /\ e.quote = q /\ e.original = r.original
  BY <1>2 DEF Payment
<1>4. /\ payments' = Append(payments, e) /\ n <= MaxPayments /\ n \in 1..MaxPayments
      /\ n \notin DOMAIN payments
  BY <1>1, Rows DEF Insert
<1>5. q # 0 => /\ f \in Quote /\ quotes' = [quotes EXCEPT ![q] = f]
               /\ f.dir = quotes[q].dir /\ f.tenant = quotes[q].tenant
               /\ f.amount = quotes[q].amount
               /\ f.status = "accepted" /\ f.payment = n
  <2> SUFFICES ASSUME q # 0
               PROVE  /\ f \in Quote /\ quotes' = [quotes EXCEPT ![q] = f]
                      /\ f.dir = quotes[q].dir /\ f.tenant = quotes[q].tenant
                      /\ f.amount = quotes[q].amount
                      /\ f.status = "accepted" /\ f.payment = n
    OBVIOUS
  <2>1. quotes[q] \in Quote /\ n \in 0..MaxPayments
    BY <1>1, <1>4, Rows
  <2>2. /\ f \in Quote /\ f.dir = quotes[q].dir /\ f.tenant = quotes[q].tenant
        /\ f.amount = quotes[q].amount /\ f.status = "accepted" /\ f.payment = n
    <3> HIDE DEF n
    <3> QED BY <2>1 DEF Quote
  <2>3. quotes' = [quotes EXCEPT ![q] = f]
    <3>1. quotes' = [quotes EXCEPT ![q].status = "accepted", ![q].payment = n]
      BY DEF Insert
    <3> HIDE DEF n
    <3> QED BY <1>1, <3>1, Rows DEF TypeOK
  <2> QED BY <2>2, <2>3
<1>6. q = 0 => quotes' = quotes
  BY DEF Insert
<1>7. \/ answer' = None
      \/ /\ answer' = [request |-> r, payment |-> n]
         /\ r \in PayoutRequest \cup RefundRequest /\ r.amount = amount
  BY <1>2 DEF Insert, Answer, NoAnswer
<1> HIDE DEF e, f, n
<1>8. /\ payments' \in Seq(Payment) /\ Len(payments') = n
      /\ DOMAIN payments = 1..Len(payments) /\ DOMAIN payments' = 1..n
      /\ payments'[n] = e
      /\ \A p \in DOMAIN payments : payments'[p] = payments[p]
  BY <1>1, <1>3, <1>4, InsertRow DEF TypeOK, n
<1>9. /\ DOMAIN payments' = DOMAIN payments \cup {n}
      /\ payments'[n] = e
      /\ \A p \in DOMAIN payments : payments'[p] = payments[p]
      /\ 0 \notin DOMAIN payments'
  <2>1. DOMAIN payments' = DOMAIN payments \cup {n} /\ 0 \notin DOMAIN payments'
    BY <1>1, <1>8, Rows DEF n
  <2> QED BY <1>8, <2>1
<1>10. /\ quotes' \in Seq(Quote) /\ Len(quotes') = Len(quotes) /\ DOMAIN quotes' = DOMAIN quotes
       /\ q # 0 => quotes'[q] = f
       /\ \A j \in DOMAIN quotes : j # q => quotes'[j] = quotes[j]
  <2>1. CASE q = 0
    BY <1>1, <1>6, <2>1 DEF TypeOK
  <2>2. CASE q # 0
    BY <1>1, <1>5, <2>2, UpdateRow DEF TypeOK
  <2> QED BY <2>1, <2>2
<1>11. TypeOK'
  <2>1. answer' \in Answers \cup {None}
    BY <1>4, <1>7 DEF Answers
  <2> QED BY <1>1, <1>4, <1>8, <1>10, <2>1 DEF TypeOK
<1>12. QuoteExists'
  BY <1>1, <1>3, <1>9, <1>10 DEF QuoteExists
<1>13. AcceptedQuoteIsHonoured'
  <2>1. ASSUME NEW j \in DOMAIN quotes
        PROVE  IF quotes'[j].status = "accepted"
               THEN /\ quotes'[j].payment \in DOMAIN payments'
                    /\ LET p == quotes'[j].payment IN
                         /\ payments'[p].quote = j /\ payments'[p].dir = quotes'[j].dir
                         /\ payments'[p].tenant = quotes'[j].tenant
                         /\ payments'[p].amount = quotes'[j].amount
               ELSE quotes'[j].payment = 0
    <3>1. CASE j = q
      <4>1. q # 0
        BY <1>1, <3>1, Rows
      <4>2. quotes'[j] = f /\ f.payment = n /\ f.status = "accepted"
        BY <1>5, <1>10, <3>1, <4>1
      <4>3. /\ f.dir = dir /\ f.tenant = r.tenant /\ f.amount = amount
        BY <1>5, <3>1, <4>1
      <4> QED BY <1>3, <1>9, <3>1, <4>2, <4>3
    <3>2. CASE j # q
      <4>1. quotes'[j] = quotes[j]
        BY <1>10, <3>2
      <4>2. CASE quotes[j].status = "accepted"
        <5>1. /\ quotes[j].payment \in DOMAIN payments
              /\ payments'[quotes[j].payment] = payments[quotes[j].payment]
          BY <1>1, <1>9, <4>2 DEF AcceptedQuoteIsHonoured
        <5> QED BY <1>1, <1>9, <4>1, <4>2, <5>1 DEF AcceptedQuoteIsHonoured
      <4>3. CASE quotes[j].status # "accepted"
        BY <1>1, <4>1, <4>3 DEF AcceptedQuoteIsHonoured
      <4> QED BY <4>2, <4>3
    <3> QED BY <3>1, <3>2
  <2>2. ASSUME NEW p \in DOMAIN payments', payments'[p].quote # 0
        PROVE  quotes'[payments'[p].quote].payment = p
    <3>1. CASE p = n
      BY <1>3, <1>5, <1>9, <1>10, <2>2, <3>1
    <3>2. CASE p # n
      <4>1. p \in DOMAIN payments /\ payments'[p] = payments[p] /\ p # 0
        BY <1>9, <2>2, <3>2
      <4>2. quotes[payments[p].quote].payment = p /\ payments[p].quote \in DOMAIN quotes
        BY <1>1, <2>2, <4>1 DEF AcceptedQuoteIsHonoured, QuoteExists
      <4>3. payments[p].quote # q
        <5>1. q # 0 => quotes[q].payment = 0
          BY <1>1 DEF Open, AcceptedQuoteIsHonoured
        <5> QED BY <2>2, <4>1, <4>2, <5>1
      <4> QED BY <1>10, <4>1, <4>2, <4>3
    <3> QED BY <3>1, <3>2
  <2> QED BY <1>10, <2>1, <2>2 DEF AcceptedQuoteIsHonoured
<1>14. \A p \in DOMAIN payments : payments[p].key # r.key
  BY DEF WithKey
<1>15. KeyIsUnique'
  BY <1>1, <1>3, <1>9, <1>14 DEF KeyIsUnique
<1>16. PayoutKeyNamesOnePayment'
  <2>1. {p \in DOMAIN payments' : payments'[p].key = r.key} = {n}
    BY <1>3, <1>9, <1>14
  <2>2. CASE answer' = None
    BY <2>2 DEF PayoutKeyNamesOnePayment
  <2>3. CASE answer' = [request |-> r, payment |-> n] /\ r.amount = amount
    <3>1. answer'.request = r /\ answer'.payment = n
      BY <2>3
    <3> QED BY <1>3, <1>9, <2>1, <2>3, <3>1 DEF PayoutKeyNamesOnePayment
  <2> QED BY <1>7, <2>2, <2>3
<1> QED BY <1>11, <1>12, <1>13, <1>15, <1>16 DEF IInv

\* A payment that ends keeps the invariant, which says nothing of its status.
LEMMA FinishInv == ASSUME IInv, NEW p \in DOMAIN payments, Finish(p) PROVE IInv'
<1> USE CreationAssumption
<1>1. TypeOK /\ QuoteExists /\ AcceptedQuoteIsHonoured /\ KeyIsUnique
  BY DEF IInv
<1>2. answer' = None /\ UNCHANGED quotes
  BY DEF Finish, NoAnswer
<1>3. PICK status \in {"succeeded", "failed"} : payments' = [payments EXCEPT ![p].status = status]
  BY DEF Finish
<1>4. /\ payments' \in Seq(Payment) /\ Len(payments') = Len(payments)
      /\ DOMAIN payments' = DOMAIN payments
      /\ \A j \in DOMAIN payments :
           /\ payments'[j].quote = payments[j].quote /\ payments'[j].dir = payments[j].dir
           /\ payments'[j].tenant = payments[j].tenant /\ payments'[j].amount = payments[j].amount
           /\ payments'[j].key = payments[j].key
  <2> DEFINE e == [payments[p] EXCEPT !.status = status]
  <2>1. /\ e \in Payment /\ e.quote = payments[p].quote /\ e.dir = payments[p].dir
        /\ e.tenant = payments[p].tenant /\ e.amount = payments[p].amount /\ e.key = payments[p].key
    <3>1. payments[p] \in Payment
      BY <1>1, Rows
    <3> QED BY <3>1 DEF Payment
  <2>2. payments' = [payments EXCEPT ![p] = e]
    BY <1>3
  <2> HIDE DEF e
  <2>3. /\ payments' \in Seq(Payment) /\ Len(payments') = Len(payments)
        /\ DOMAIN payments' = DOMAIN payments /\ payments'[p] = e
        /\ \A j \in DOMAIN payments : j # p => payments'[j] = payments[j]
    BY <1>1, <2>1, <2>2, UpdateRow DEF TypeOK
  <2> QED BY <2>1, <2>3
<1>5. TypeOK'
  BY <1>1, <1>2, <1>4 DEF TypeOK
<1>6. QuoteExists' /\ KeyIsUnique' /\ PayoutKeyNamesOnePayment'
  BY <1>1, <1>2, <1>4 DEF QuoteExists, KeyIsUnique, PayoutKeyNamesOnePayment
<1>7. AcceptedQuoteIsHonoured'
  BY <1>1, <1>2, <1>4 DEF AcceptedQuoteIsHonoured
<1> QED BY <1>5, <1>6, <1>7 DEF IInv

-----------------------------------------------------------------------------
\* createPayout: the repetition of an earlier request, an expired quote, or a
\* new payment.
LEMMA CreatePayoutInv ==
  ASSUME IInv, NEW r \in PayoutRequest, NEW q, createPayout(r, q)
  PROVE  IInv'
<1>1. TypeOK /\ q \in DOMAIN quotes /\ q \in 0..MaxQuotes /\ r.op = "payout"
  <2>1. TypeOK /\ q \in DOMAIN quotes /\ r.op = "payout"
    BY DEF IInv, createPayout, PayoutRequest
  <2> QED BY <2>1, Rows, CreationAssumption DEF TypeOK
<1>2. CASE /\ \E p \in WithKey(r.key) : paymentRequestMatches(p, r, q) /\ Answer(r, p)
           /\ UNCHANGED <<quotes, payments>>
  <2>1. PICK p \in WithKey(r.key) : paymentRequestMatches(p, r, q) /\ Answer(r, p)
    BY <1>2
  <2>2. /\ p \in DOMAIN payments /\ payments[p].key = r.key
        /\ answer' = [request |-> r, payment |-> p]
        /\ payments[p].tenant = r.tenant /\ payments[p].ref = r.ref
        /\ payments[p].original = r.original /\ payments[p].amount = r.amount
    <3>1. p \in DOMAIN payments /\ payments[p].key = r.key /\ p \in 1..MaxPayments
      BY <1>1, <2>1, CreationAssumption DEF WithKey, TypeOK
    <3>2. r.ref \in Refs /\ r.original = 0
      BY DEF PayoutRequest
    <3>3. ExternalReference(p) = r.ref
      BY <2>1 DEF paymentRequestMatches
    <3>4. ExternalReference(p) # <<"refund", p>>
      BY <3>1, <3>2, <3>3, RefAssumption
    <3>5. payments[p].original = 0 /\ payments[p].ref = r.ref
      BY <3>3, <3>4 DEF ExternalReference
    <3> QED BY <1>1, <2>1, <3>1, <3>2, <3>5 DEF paymentRequestMatches, Answer
  <2> QED BY <1>2, <2>2, ReplayInv
<1>3. CASE /\ quotes[q].status = "open" /\ quotes[q].lapsed
           /\ quotes' = [quotes EXCEPT ![q].status = "expired"]
           /\ NoAnswer
           /\ UNCHANGED payments
  BY <1>1, <1>3, ExpireInv DEF NoAnswer
<1>4. CASE /\ Open(q) /\ TermsMatch(q, r) /\ WithKey(r.key) = {}
           /\ Insert(r, "payout", r.amount, q)
  <2>1. /\ quotes[q].dir = "payout" /\ quotes[q].tenant = r.tenant /\ quotes[q].amount = r.amount
        /\ r.amount \in Amounts /\ "payout" \in Directions
        /\ r \in PayoutRequest \cup PayinRequest \cup RefundRequest
    BY <1>4 DEF createPayout, TermsMatch, PayoutRequest, Directions
  <2> QED BY <1>1, <1>4, <2>1, InsertInv
<1> QED BY <1>2, <1>3, <1>4 DEF createPayout

\* createPayin: the quote's pay-in, which is answered without saying which, or
\* a new one for the quoted amount.
LEMMA CreatePayinInv ==
  ASSUME IInv, NEW r \in PayinRequest, NEW q, createPayin(r, q)
  PROVE  IInv'
<1>1. /\ TypeOK /\ q \in DOMAIN quotes /\ q \in 0..MaxQuotes /\ r.op = "payin"
      /\ quotes[q] \in Quote
  <2>1. TypeOK /\ q \in DOMAIN quotes /\ r.op = "payin"
    BY DEF IInv, createPayin, PayinRequest
  <2> QED BY <2>1, Rows, CreationAssumption DEF TypeOK
<1>2. CASE (\E p \in PayinsOfQuote(q) : Answer(r, p)) /\ UNCHANGED <<quotes, payments>>
  BY <1>1, <1>2, ReplayInv DEF Answer, NoAnswer
<1>3. CASE Open(q) /\ WithKey(r.key) = {} /\ Insert(r, "payin", quotes[q].amount, q)
  <2>1. /\ quotes[q].dir = "payin" /\ quotes[q].tenant = r.tenant
        /\ quotes[q].amount \in Amounts /\ "payin" \in Directions
        /\ r \in PayoutRequest \cup PayinRequest \cup RefundRequest
    BY <1>1 DEF createPayin, Quote, Directions
  <2> QED BY <1>1, <1>3, <2>1, InsertInv
<1> QED BY <1>2, <1>3 DEF createPayin

\* CreateRefund: the repetition of an earlier one, or a new payment.
LEMMA CreateRefundInv ==
  ASSUME IInv, NEW r \in RefundRequest, CreateRefund(r)
  PROVE  IInv'
<1>1. TypeOK /\ r.op = "refund" /\ r.quote \in 0..MaxQuotes
  BY DEF IInv, RefundRequest
<1>2. CASE /\ \E p \in RefundsWithKey(r.tenant, r.key) : refundMatches(p, r) /\ Answer(r, p)
           /\ UNCHANGED <<quotes, payments>>
  <2>1. PICK p \in RefundsWithKey(r.tenant, r.key) : refundMatches(p, r) /\ Answer(r, p)
    BY <1>2
  <2>2. /\ p \in DOMAIN payments /\ payments[p].key = r.key
        /\ answer' = [request |-> r, payment |-> p]
        /\ payments[p].tenant = r.tenant /\ payments[p].ref = r.ref
        /\ payments[p].original = r.original /\ payments[p].amount = r.amount
    BY <1>1, <2>1 DEF RefundsWithKey, WithKey, refundMatches, Answer
  <2> QED BY <1>2, <2>2, ReplayInv
<1>3. CASE /\ r.quote # 0 => /\ r.quote \in DOMAIN quotes /\ quotes[r.quote].dir = "payout"
                             /\ Open(r.quote) /\ TermsMatch(r.quote, r)
           /\ WithKey(r.key) = {}
           /\ Insert(r, "payout", r.amount, r.quote)
  <2>1. /\ r.amount \in Amounts /\ "payout" \in Directions
        /\ r \in PayoutRequest \cup PayinRequest \cup RefundRequest
    BY DEF RefundRequest, Directions
  <2>2. r.quote # 0 => quotes[r.quote].tenant = r.tenant /\ quotes[r.quote].amount = r.amount
    BY <1>3 DEF TermsMatch
  <2> QED BY <1>1, <1>3, <2>1, <2>2, InsertInv
<1> QED BY <1>2, <1>3 DEF CreateRefund

\* The invariant is inductive.
LEMMA NextInv == IInv /\ [Next]_vars => IInv'
<1> SUFFICES ASSUME IInv, [Next]_vars PROVE IInv'
  OBVIOUS
<1>1. ASSUME NEW r \in QuoteRequest, CreateQuote(r) PROVE IInv'
  <2>1. PICK lapsed \in BOOLEAN : StoreQuote(r, lapsed)
    BY <1>1 DEF CreateQuote, CreatePayoutQuote, CreatePayinQuote
  <2> QED BY <2>1, StoreQuoteInv
<1>2. ASSUME NEW r \in PaymentRequest, CreatePayment(r) PROVE IInv'
  <2>1. CASE r.op = "payout"
    <3>1. r \in PayoutRequest
      BY <2>1 DEF PaymentRequest, PayinRequest
    <3> QED BY <1>2, <2>1, <3>1, CreatePayoutInv DEF CreatePayment, CreatePayoutPayment
  <2>2. CASE r.op # "payout"
    <3>1. r \in PayinRequest
      BY <2>2 DEF PaymentRequest, PayoutRequest
    <3> QED BY <1>2, <2>2, <3>1, CreatePayinInv DEF CreatePayment, CreatePayinPayment
  <2> QED BY <2>1, <2>2
<1>3. ASSUME NEW r \in RefundRequest, CreateRefund(r) PROVE IInv'
  BY <1>3, CreateRefundInv
<1>4. ASSUME NEW q \in DOMAIN quotes, Lapse(q) PROVE IInv'
  BY <1>4, ExpireInv DEF Lapse, NoAnswer
<1>5. ASSUME NEW p \in DOMAIN payments, Finish(p) PROVE IInv'
  BY <1>5, FinishInv
<1>6. CASE UNCHANGED vars
  BY <1>6 DEF vars, IInv, TypeOK, QuoteExists, AcceptedQuoteIsHonoured, KeyIsUnique,
              PayoutKeyNamesOnePayment
<1> QED BY <1>1, <1>2, <1>3, <1>4, <1>5, <1>6 DEF Next

-----------------------------------------------------------------------------
\* The invariant holds in every reachable state.
THEOREM Invariant == Spec => []IInv
<1> QED BY InitInv, NextInv, PTL DEF Spec

\* The tables and the answers keep their types.
THEOREM TypeCorrect == Spec => []TypeOK
<1>1. IInv => TypeOK
  BY DEF IInv
<1> QED BY Invariant, <1>1, PTL

\* An accepted quote and its payment name each other and agree on tenant,
\* direction and amount, whatever creations, refunds, repetitions and expiries
\* come before: the acceptance commits with the payment.
THEOREM QuoteHonoured == Spec => []AcceptedQuoteIsHonoured
<1>1. IInv => AcceptedQuoteIsHonoured
  BY DEF IInv
<1> QED BY Invariant, <1>1, PTL

\* The payout or refund that answers a request is the only payment of its key
\* and has the request's tenant, reference, original and amount.
THEOREM KeyNamesOnePayment == Spec => []PayoutKeyNamesOnePayment
<1>1. IInv => PayoutKeyNamesOnePayment
  BY DEF IInv
<1> QED BY Invariant, <1>1, PTL

\* No step changes the status or the payment of a quote that is accepted or
\* expired, although payouts, pay-ins, refunds and lapses all write quotes.
THEOREM DecidedOnce == Spec => QuoteIsDecidedOnce
<1> DEFINE Kept == \A q \in DOMAIN quotes :
                     quotes[q].status # "open" =>
                       /\ quotes'[q].status = quotes[q].status
                       /\ quotes'[q].payment = quotes[q].payment
<1>1. IInv /\ [Next]_vars => [Kept]_vars
  <2> SUFFICES ASSUME IInv, Next, NEW q \in DOMAIN quotes, quotes[q].status # "open"
               PROVE  quotes'[q] = quotes[q]
    OBVIOUS
  <2> USE CreationAssumption
  <2>1. TypeOK /\ DOMAIN quotes = 1..Len(quotes)
    BY Rows DEF IInv
  <2>2. ASSUME NEW r, NEW dir, NEW amount, NEW j, Insert(r, dir, amount, j),
               j # 0 => Open(j)
        PROVE  quotes'[q] = quotes[q]
    <3>1. j # q
      BY <2>1, <2>2 DEF Open
    <3> QED BY <2>1, <2>2, <3>1 DEF Insert, TypeOK
  <2>3. ASSUME NEW r \in QuoteRequest, CreateQuote(r) PROVE quotes'[q] = quotes[q]
    <3>1. PICK lapsed \in BOOLEAN : StoreQuote(r, lapsed)
      BY <2>3 DEF CreateQuote, CreatePayoutQuote, CreatePayinQuote
    <3>2. PICK e : quotes' = Append(quotes, e)
      BY <3>1 DEF StoreQuote
    <3> QED BY <2>1, <3>2 DEF TypeOK
  <2>4. ASSUME NEW r, NEW j, createPayout(r, j) PROVE quotes'[q] = quotes[q]
    <3>1. CASE quotes[j].status = "open" /\ quotes' = [quotes EXCEPT ![j].status = "expired"]
      BY <2>1, <3>1 DEF TypeOK
    <3> QED BY <2>2, <2>4, <3>1 DEF createPayout
  <2>5. ASSUME NEW r, NEW j, createPayin(r, j) PROVE quotes'[q] = quotes[q]
    BY <2>2, <2>5 DEF createPayin
  <2>6. ASSUME NEW r \in PaymentRequest, CreatePayment(r) PROVE quotes'[q] = quotes[q]
    BY <2>4, <2>5, <2>6 DEF CreatePayment, CreatePayoutPayment, CreatePayinPayment
  <2>7. ASSUME NEW r \in RefundRequest, CreateRefund(r) PROVE quotes'[q] = quotes[q]
    <3>1. \/ quotes' = quotes
          \/ Insert(r, "payout", r.amount, r.quote) /\ (r.quote # 0 => Open(r.quote))
      BY <2>7 DEF CreateRefund
    <3> QED BY <2>2, <3>1
  <2>8. ASSUME NEW j \in DOMAIN quotes, Lapse(j) PROVE quotes'[q] = quotes[q]
    BY <2>1, <2>8 DEF Lapse, TypeOK
  <2>9. ASSUME NEW p \in DOMAIN payments, Finish(p) PROVE quotes'[q] = quotes[q]
    BY <2>9 DEF Finish
  <2> QED BY <2>3, <2>6, <2>7, <2>8, <2>9 DEF Next
<1>2. [][Kept]_vars => QuoteIsDecidedOnce
  BY DEF QuoteIsDecidedOnce
<1> QED BY Invariant, <1>1, <1>2, PTL DEF Spec

-----------------------------------------------------------------------------
\* The element that MapThenSumSet takes out of a set first.
Pick(s) == CHOOSE x \in s : TRUE

\* g gives the total amount of every subset of the rows S of a table t, by the
\* recursion of MapThenSumSet.
IsTotals(g, t, S) ==
  g = [s \in SUBSET S |-> IF s = {} THEN 0 ELSE t[Pick(s)].amount + g[s \ {Pick(s)}]]

Total(t, S) == (CHOOSE g : IsTotals(g, t, S))[S]

\* Every element may be split off a total.
Additive(g, t, S) ==
  /\ g[{}] = 0
  /\ \A s \in SUBSET S :
       g[s] \in Nat /\ \A x \in s : g[s] = t[x].amount + g[s \ {x}]

\* The least number principle, which stands for induction below: a property that
\* fails for some number fails for a least one.
LEMMA LeastNumber ==
  ASSUME NEW T, T \subseteq Nat, T # {}
  PROVE  \E n \in T : \A m \in T : n <= m
<1>1. PICK n \in T : \A m \in T : ~(<<m, n>> \in OpToRel(<, Nat))
  BY NatLessThanWellFounded, WFMin
<1>2. \A m \in T : ~(m < n)
  BY <1>1 DEF OpToRel
<1>3. \A m \in T : m \in Nat
  OBVIOUS
<1> QED BY <1>2, <1>3

\* The sum that CreateRefund computes is such a total of the payments table.
LEMMA Folded ==
  ASSUME NEW S
  PROVE  MapThenSumSet(Share, S) = Total(payments, S)
BY DEF MapThenSumSet, MapThenFoldSet, Share, Pick, Total, IsTotals

\* The element a fold takes out of a set, and the size of what is left.
LEMMA Picked ==
  ASSUME NEW s, IsFiniteSet(s), s # {}
  PROVE  /\ Pick(s) \in s /\ IsFiniteSet(s \ {Pick(s)})
         /\ Cardinality(s) \in Nat /\ Cardinality(s \ {Pick(s)}) \in Nat
         /\ Cardinality(s \ {Pick(s)}) = Cardinality(s) - 1
<1>1. Pick(s) \in s
  BY DEF Pick
<1> QED BY <1>1, FS_RemoveElement, FS_CardinalityType

\* The recursion of the fold defines a function on the subsets of a finite set:
\* the one for subsets of at most k elements extends to those of k + 1.
LEMMA TotalsExist ==
  ASSUME NEW t, NEW S, IsFiniteSet(S)
  PROVE  \E g : IsTotals(g, t, S)
<1> DEFINE Small(k) == {s \in SUBSET S : Cardinality(s) <= k}
           Rule(g, s) == IF s = {} THEN 0 ELSE t[Pick(s)].amount + g[s \ {Pick(s)}]
           Upto(g, k) == g = [s \in Small(k) |-> Rule(g, s)]
           Bad == {k \in Nat : ~\E g : Upto(g, k)}
<1>1. \A s \in SUBSET S : IsFiniteSet(s) /\ Cardinality(s) \in Nat
  BY FS_Subset, FS_CardinalityType
<1>2. Bad = {}
  <2> SUFFICES ASSUME Bad # {} PROVE FALSE
    OBVIOUS
  <2>1. PICK k \in Bad : \A m \in Bad : k <= m
    <3>1. Bad \subseteq Nat
      OBVIOUS
    <3> HIDE DEF Bad
    <3> QED BY <3>1, LeastNumber
  <2>2. k \in Nat /\ ~\E g : Upto(g, k)
    OBVIOUS
  <2>3. CASE k = 0
    <3> DEFINE g == [s \in Small(0) |-> 0]
    <3>1. \A s \in Small(0) : s = {}
      BY <1>1, FS_EmptySet
    <3>2. \A s \in Small(0) : Rule(g, s) = 0
      BY <3>1
    <3>3. g = [s \in Small(0) |-> Rule(g, s)]
      <4> HIDE DEF Rule, Small
      <4> QED BY <3>2
    <3> QED BY <2>2, <2>3, <3>3
  <2>4. CASE k # 0
    <3>1. k - 1 \in Nat /\ k - 1 \notin Bad
      <4> HIDE DEF Bad
      <4> QED BY <2>1, <2>2, <2>4
    <3>2. PICK g : Upto(g, k - 1)
      BY <3>1
    <3> DEFINE h == [s \in Small(k) |-> Rule(g, s)]
    <3>3. ASSUME NEW s \in Small(k) PROVE Rule(g, s) = Rule(h, s)
      <4>1. CASE s = {}
        BY <4>1
      <4>2. CASE s # {}
        <5> DEFINE r == s \ {Pick(s)}
        <5>1. r \in Small(k - 1) /\ r \in Small(k)
          BY <1>1, <2>2, <4>2, Picked
        <5>2. g[r] = Rule(g, r)
          <6> HIDE DEF Rule, r, Small
          <6> QED BY <3>2, <5>1
        <5>3. h[r] = Rule(g, r)
          <6> HIDE DEF Rule, r, Small
          <6> QED BY <5>1
        <5>4. h[r] = g[r]
          BY <5>2, <5>3
        <5> HIDE DEF h
        <5> QED BY <4>2, <5>4
      <4> QED BY <4>1, <4>2
    <3>4. Upto(h, k)
      <4> HIDE DEF Rule, Small
      <4> QED BY <3>3
    <3> QED BY <2>2, <3>4
  <2> QED BY <2>3, <2>4
<1>3. PICK g : Upto(g, Cardinality(S))
  BY <1>1, <1>2
<1>4. Small(Cardinality(S)) = SUBSET S
  BY <1>1, FS_Subset
<1>5. IsTotals(g, t, S)
  BY <1>3, <1>4 DEF IsTotals
<1> QED BY <1>5

\* A total does not depend on the order in which the fold takes the elements.
LEMMA TotalsRule ==
  ASSUME NEW t, NEW S, IsFiniteSet(S), \A x \in S : t[x].amount \in Nat,
         NEW g, IsTotals(g, t, S)
  PROVE  Additive(g, t, S)
<1>1. /\ \A s \in SUBSET S : IsFiniteSet(s) /\ Cardinality(s) \in Nat
      /\ \A s \in SUBSET S : \A x \in s : Cardinality(s \ {x}) = Cardinality(s) - 1
  BY FS_Subset, FS_CardinalityType, FS_RemoveElement
<1>2. /\ g[{}] = 0
      /\ \A s \in SUBSET S : s # {} => g[s] = t[Pick(s)].amount + g[s \ {Pick(s)}]
  BY DEF IsTotals
<1> DEFINE Good(s) == g[s] \in Nat /\ \A x \in s : g[s] = t[x].amount + g[s \ {x}]
           Bad == {k \in Nat : \E s \in SUBSET S : Cardinality(s) = k /\ ~Good(s)}
<1>3. Bad = {}
  <2> SUFFICES ASSUME Bad # {} PROVE FALSE
    OBVIOUS
  <2>1. PICK k \in Bad : \A m \in Bad : k <= m
    <3>1. Bad \subseteq Nat
      OBVIOUS
    <3> HIDE DEF Bad
    <3> QED BY <3>1, LeastNumber
  <2>2. PICK s \in SUBSET S : Cardinality(s) = k /\ ~Good(s)
    OBVIOUS
  <2>3. ASSUME NEW r \in SUBSET S, Cardinality(r) = k - 1 PROVE Good(r)
    <3>1. k \in Nat /\ k - 1 \in Nat /\ k - 1 \notin Bad
      <4>1. k \in Nat /\ Cardinality(r) \in Nat
        BY <1>1
      <4> HIDE DEF Bad
      <4> QED BY <2>1, <2>3, <4>1
    <3> HIDE DEF Good
    <3> QED BY <2>3, <3>1
  <2>4. s # {}
    <3>1. Good({})
      BY <1>2
    <3> HIDE DEF Good
    <3> QED BY <2>2, <3>1
  <2> DEFINE c == Pick(s)
  <2>5. c \in s
    BY <2>4 DEF Pick
  <2>6. g[s] = t[c].amount + g[s \ {c}]
    BY <1>2, <2>4
  <2> HIDE DEF c
  <2>7. Good(s \ {c})
    <3> HIDE DEF Good
    <3> QED BY <1>1, <2>2, <2>3, <2>5
  <2>8. g[s] \in Nat
    BY <2>5, <2>6, <2>7
  <2>9. ASSUME NEW x \in s PROVE g[s] = t[x].amount + g[s \ {x}]
    <3>1. CASE x = c
      BY <2>6, <3>1
    <3>2. CASE x # c
      <4>1. Good(s \ {x})
        <5> HIDE DEF Good
        <5> QED BY <1>1, <2>2, <2>3
      <4>2. g[s \ {c}] = t[x].amount + g[(s \ {c}) \ {x}]
        BY <2>7, <3>2
      <4>3. g[s \ {x}] = t[c].amount + g[(s \ {x}) \ {c}]
        BY <2>5, <3>2, <4>1
      <4>4. (s \ {c}) \ {x} = (s \ {x}) \ {c}
        OBVIOUS
      <4>5. g[(s \ {x}) \ {c}] \in Nat
        <5>1. Good((s \ {x}) \ {c})
          <6> DEFINE r == s \ {x}
          <6>1. r \in SUBSET S /\ c \in r /\ Cardinality(r) = k - 1
            BY <1>1, <2>2, <2>5, <3>2
          <6>2. Cardinality(r \ {c}) = k - 2 /\ r \ {c} \in SUBSET S /\ k - 2 \in Nat /\ k \in Nat
            <7>1. k \in Nat /\ r \ {c} \in SUBSET S
              BY <1>1, <2>2, <6>1
            <7> HIDE DEF r
            <7>2. Cardinality(r \ {c}) = Cardinality(r) - 1 /\ Cardinality(r \ {c}) \in Nat
              BY <1>1, <6>1, <7>1
            <7> QED BY <6>1, <7>1, <7>2
          <6>3. k - 2 \notin Bad
            <7> HIDE DEF Bad
            <7> QED BY <2>1, <6>2
          <6> HIDE DEF Good, r
          <6>4. Good(r \ {c})
            BY <6>2, <6>3
          <6> QED BY <6>4 DEF r
        <5> QED BY <5>1
      <4>6. t[c].amount \in Nat /\ t[x].amount \in Nat
        BY <2>5
      <4> DEFINE v == g[(s \ {x}) \ {c}]
      <4>7. g[s \ {c}] = t[x].amount + v /\ g[s \ {x}] = t[c].amount + v /\ v \in Nat
        BY <4>2, <4>3, <4>4, <4>5
      <4> HIDE DEF v
      <4>8. g[s] = t[c].amount + (t[x].amount + v)
        BY <2>6, <4>7
      <4>9. t[x].amount + g[s \ {x}] = t[x].amount + (t[c].amount + v)
        BY <4>7
      <4> QED BY <4>6, <4>7, <4>8, <4>9
    <3> QED BY <3>1, <3>2
  <2> QED BY <2>2, <2>8, <2>9
<1>4. ASSUME NEW s \in SUBSET S PROVE Good(s)
  <2>1. Cardinality(s) \in Nat /\ Cardinality(s) \notin Bad
    BY <1>1, <1>3
  <2> HIDE DEF Good
  <2> QED BY <2>1
<1> QED BY <1>2, <1>4 DEF Additive

\* A total depends only on the rows that are summed.
LEMMA TotalsAgree ==
  ASSUME NEW t, NEW u, NEW S, NEW U, IsFiniteSet(S), IsFiniteSet(U), S \subseteq U,
         \A x \in S : t[x].amount = u[x].amount,
         NEW g, IsTotals(g, t, S), NEW h, IsTotals(h, u, U)
  PROVE  \A s \in SUBSET S : g[s] = h[s]
<1>1. /\ \A s \in SUBSET S : IsFiniteSet(s) /\ Cardinality(s) \in Nat
      /\ \A s \in SUBSET S : \A x \in s : Cardinality(s \ {x}) = Cardinality(s) - 1
  BY FS_Subset, FS_CardinalityType, FS_RemoveElement
<1>2. /\ g[{}] = 0 /\ h[{}] = 0
      /\ \A s \in SUBSET S : s # {} =>
           /\ g[s] = t[Pick(s)].amount + g[s \ {Pick(s)}]
           /\ h[s] = u[Pick(s)].amount + h[s \ {Pick(s)}]
  BY DEF IsTotals
<1> DEFINE Bad == {k \in Nat : \E s \in SUBSET S : Cardinality(s) = k /\ g[s] # h[s]}
<1>3. Bad = {}
  <2> SUFFICES ASSUME Bad # {} PROVE FALSE
    OBVIOUS
  <2>1. PICK k \in Bad : \A m \in Bad : k <= m
    <3>1. Bad \subseteq Nat
      OBVIOUS
    <3> HIDE DEF Bad
    <3> QED BY <3>1, LeastNumber
  <2>2. PICK s \in SUBSET S : Cardinality(s) = k /\ g[s] # h[s]
    OBVIOUS
  <2>3. s # {}
    BY <1>2, <2>2
  <2> DEFINE r == s \ {Pick(s)}
  <2>4. Pick(s) \in s /\ r \in SUBSET S
    BY <2>3 DEF Pick
  <2>5. Cardinality(r) = k - 1 /\ k - 1 \in Nat /\ k \in Nat
    BY <1>1, <2>2, <2>4
  <2>6. g[r] = h[r]
    <3>1. k - 1 \notin Bad
      <4> HIDE DEF Bad
      <4> QED BY <2>1, <2>5
    <3> HIDE DEF r
    <3> QED BY <2>4, <2>5, <3>1
  <2> QED BY <1>2, <2>2, <2>3, <2>4, <2>6
<1> QED BY <1>1, <1>3

\* What the total of a finite set of rows is, without recursion.
LEMMA TotalRules ==
  ASSUME NEW t, NEW S, IsFiniteSet(S), \A x \in S : t[x].amount \in Nat
  PROVE  /\ Total(t, S) \in Nat
         /\ S = {} => Total(t, S) = 0
         /\ \A x \in S : Total(t, S) = t[x].amount + Total(t, S \ {x})
<1> DEFINE g == CHOOSE f : IsTotals(f, t, S)
<1>1. IsTotals(g, t, S)
  BY TotalsExist
<1>2. Total(t, S) = g[S]
  BY DEF Total
<1> HIDE DEF g
<1>3. g[S] \in Nat /\ g[{}] = 0 /\ \A x \in S : g[S] = t[x].amount + g[S \ {x}]
  <2>1. Additive(g, t, S)
    BY <1>1, TotalsRule
  <2>2. S \in SUBSET S
    OBVIOUS
  <2> QED BY <2>1, <2>2 DEF Additive
<1>4. ASSUME NEW x \in S PROVE Total(t, S \ {x}) = g[S \ {x}]
  <2> DEFINE h == CHOOSE f : IsTotals(f, t, S \ {x})
  <2>1. IsFiniteSet(S \ {x}) /\ S \ {x} \subseteq S
    BY FS_Subset
  <2>2. IsTotals(h, t, S \ {x})
    BY <2>1, TotalsExist
  <2>3. Total(t, S \ {x}) = h[S \ {x}]
    BY DEF Total
  <2> HIDE DEF h
  <2>4. \A s \in SUBSET (S \ {x}) : h[s] = g[s]
    BY <1>1, <2>1, <2>2, TotalsAgree
  <2> QED BY <2>3, <2>4
<1> QED BY <1>2, <1>3, <1>4

\* The total of rows that keep their amounts stays.
LEMMA TotalFrame ==
  ASSUME NEW t, NEW u, NEW S, IsFiniteSet(S), \A x \in S : t[x].amount = u[x].amount
  PROVE  Total(t, S) = Total(u, S)
<1> DEFINE g == CHOOSE f : IsTotals(f, t, S)
           h == CHOOSE f : IsTotals(f, u, S)
<1>1. IsTotals(g, t, S) /\ IsTotals(h, u, S)
  BY TotalsExist
<1>2. Total(t, S) = g[S] /\ Total(u, S) = h[S]
  BY DEF Total
<1> HIDE DEF g, h
<1> QED BY <1>1, <1>2, TotalsAgree

-----------------------------------------------------------------------------
\* The refunds of a payment that have not failed, in a table t; that they stay
\* within its amount; and that the original of every refund exists.
LiveOf(t, o) == {p \in DOMAIN t : t[p].original = o /\ t[p].status # "failed"}
WithinAmount(t) == \A o \in DOMAIN t : Total(t, LiveOf(t, o)) <= t[o].amount
OriginalExists(t) == \A p \in DOMAIN t : t[p].original # 0 => t[p].original \in DOMAIN t

\* Sets of rows are finite and their amounts are numbers.
LEMMA LiveRows ==
  ASSUME NEW t \in Seq(Payment), NEW o
  PROVE  /\ IsFiniteSet(LiveOf(t, o)) /\ LiveOf(t, o) \subseteq DOMAIN t
         /\ \A p \in DOMAIN t : t[p] \in Payment /\ t[p].amount \in Nat
<1>1. DOMAIN t = 1..Len(t) /\ Len(t) \in Nat /\ LiveOf(t, o) \subseteq DOMAIN t
  BY DEF LiveOf
<1>2. IsFiniteSet(DOMAIN t)
  BY <1>1, FS_Interval
<1>3. IsFiniteSet(LiveOf(t, o))
  BY <1>1, <1>2, FS_Subset
<1>4. \A p \in DOMAIN t : t[p] \in Payment
  OBVIOUS
<1>5. \A p \in DOMAIN t : t[p].amount \in Nat
  BY <1>4, CreationAssumption DEF Payment
<1> QED BY <1>1, <1>3, <1>4, <1>5

\* A payment that is no refund, and a refund within what its original has left,
\* keep the refunds within the amounts.
LEMMA InsertRefund ==
  ASSUME NEW t \in Seq(Payment), NEW e \in Payment, OriginalExists(t), WithinAmount(t),
         e.original # 0 =>
           /\ e.original \in DOMAIN t
           /\ e.amount <= t[e.original].amount - Total(t, LiveOf(t, e.original))
  PROVE  OriginalExists(Append(t, e)) /\ WithinAmount(Append(t, e))
<1> DEFINE n == Len(t) + 1
           u == Append(t, e)
<1>1. /\ u \in Seq(Payment) /\ DOMAIN u = DOMAIN t \cup {n} /\ n \notin DOMAIN t
      /\ u[n] = e /\ \A p \in DOMAIN t : u[p] = t[p]
      /\ n # 0 /\ 0 \notin DOMAIN t
  <2>1. /\ u \in Seq(Payment) /\ DOMAIN t = 1..Len(t) /\ DOMAIN u = 1..n
        /\ u[n] = e /\ \A p \in DOMAIN t : u[p] = t[p]
    BY InsertRow
  <2>2. Len(t) \in Nat
    OBVIOUS
  <2> HIDE DEF u
  <2> QED BY <2>1, <2>2
<1> HIDE DEF u, n
<1>2. OriginalExists(u)
  BY <1>1 DEF OriginalExists
<1>3. ASSUME NEW o \in DOMAIN u PROVE Total(u, LiveOf(u, o)) <= u[o].amount
  <2>1. CASE o = n
    <3>1. LiveOf(u, n) = {}
      BY <1>1 DEF LiveOf, OriginalExists
    <3>2. Total(u, {}) = 0
      BY FS_EmptySet, TotalRules
    <3>3. u[n].amount \in Nat
      BY <1>1, LiveRows
    <3> QED BY <2>1, <3>1, <3>2, <3>3
  <2>2. CASE o # n
    <3>1. o \in DOMAIN t /\ u[o] = t[o]
      BY <1>1, <2>2
    <3>2. /\ IsFiniteSet(LiveOf(t, o)) /\ Total(t, LiveOf(t, o)) \in Nat
          /\ \A p \in LiveOf(t, o) : u[p] = t[p]
      BY <1>1, LiveRows, TotalRules
    <3>3. Total(u, LiveOf(t, o)) = Total(t, LiveOf(t, o))
      BY <3>2, TotalFrame
    <3>4. Total(t, LiveOf(t, o)) <= t[o].amount
      BY <3>1 DEF WithinAmount
    <3>5. CASE e.original = o /\ e.status # "failed"
      <4>1. LiveOf(u, o) \ {n} = LiveOf(t, o) /\ n \in LiveOf(u, o)
        BY <1>1, <3>5 DEF LiveOf
      <4>2. IsFiniteSet(LiveOf(u, o)) /\ \A p \in LiveOf(u, o) : u[p].amount \in Nat
        BY <1>1, LiveRows
      <4>3. Total(u, LiveOf(u, o)) = e.amount + Total(u, LiveOf(t, o))
        BY <1>1, <4>1, <4>2, TotalRules
      <4>4. e.amount <= t[o].amount - Total(t, LiveOf(t, o))
        BY <1>1, <3>1, <3>5
      <4>5. e.amount \in Nat /\ t[o].amount \in Nat
        BY <1>1, <3>1, LiveRows
      <4> QED BY <3>1, <3>2, <3>3, <4>3, <4>4, <4>5
    <3>6. CASE ~(e.original = o /\ e.status # "failed")
      <4>1. LiveOf(u, o) = LiveOf(t, o)
        BY <1>1, <3>6 DEF LiveOf
      <4> QED BY <3>1, <3>3, <3>4, <4>1
    <3> QED BY <3>5, <3>6
  <2> QED BY <2>1, <2>2
<1>4. WithinAmount(u)
  BY <1>3 DEF WithinAmount
<1> QED BY <1>2, <1>4 DEF u

\* So does a payment that succeeds or fails: a refund that fails gives its share
\* back.
LEMMA FinishRefund ==
  ASSUME NEW t \in Seq(Payment), NEW q \in DOMAIN t, NEW status \in {"succeeded", "failed"},
         t[q].status = "created", OriginalExists(t), WithinAmount(t)
  PROVE  LET u == [t EXCEPT ![q].status = status] IN OriginalExists(u) /\ WithinAmount(u)
<1> DEFINE u == [t EXCEPT ![q].status = status]
<1>1. /\ u \in Seq(Payment) /\ DOMAIN u = DOMAIN t /\ u[q].status = status
      /\ \A p \in DOMAIN t : u[p].amount = t[p].amount /\ u[p].original = t[p].original
      /\ \A p \in DOMAIN t : p # q => u[p].status = t[p].status
  <2> DEFINE e == [t[q] EXCEPT !.status = status]
  <2>1. t[q] \in Payment
    OBVIOUS
  <2>2. e \in Payment /\ e.status = status /\ e.amount = t[q].amount /\ e.original = t[q].original
    BY <2>1 DEF Payment
  <2>3. u = [t EXCEPT ![q] = e]
    OBVIOUS
  <2> HIDE DEF e, u
  <2>4. /\ u \in Seq(Payment) /\ DOMAIN u = DOMAIN t /\ u[q] = e
        /\ \A p \in DOMAIN t : p # q => u[p] = t[p]
    BY <2>2, <2>3, UpdateRow
  <2> QED BY <2>2, <2>4
<1> HIDE DEF u
<1>2. OriginalExists(u)
  BY <1>1 DEF OriginalExists
<1>3. ASSUME NEW o \in DOMAIN u PROVE Total(u, LiveOf(u, o)) <= u[o].amount
  <2>1. /\ IsFiniteSet(LiveOf(t, o)) /\ LiveOf(t, o) \subseteq DOMAIN t
        /\ \A p \in LiveOf(t, o) : t[p].amount \in Nat
    BY LiveRows
  <2>2. Total(t, LiveOf(t, o)) <= t[o].amount /\ u[o].amount = t[o].amount /\ t[o].amount \in Nat
    BY <1>1, LiveRows DEF WithinAmount
  <2>3. CASE status = "failed" /\ q \in LiveOf(t, o)
    <3>1. LiveOf(u, o) = LiveOf(t, o) \ {q}
      BY <1>1, <2>3 DEF LiveOf
    <3>2. IsFiniteSet(LiveOf(u, o)) /\ \A p \in LiveOf(u, o) : t[p].amount = u[p].amount /\ t[p].amount \in Nat
      BY <1>1, <2>1, <3>1, LiveRows
    <3>3. Total(u, LiveOf(u, o)) = Total(t, LiveOf(u, o)) /\ Total(t, LiveOf(u, o)) \in Nat
      BY <3>2, TotalFrame, TotalRules
    <3>4. /\ Total(t, LiveOf(t, o)) = t[q].amount + Total(t, LiveOf(u, o))
          /\ t[q].amount \in Nat
      BY <2>1, <2>3, <3>1, TotalRules
    <3> QED BY <2>2, <3>3, <3>4
  <2>4. CASE ~(status = "failed" /\ q \in LiveOf(t, o))
    <3>1. LiveOf(u, o) = LiveOf(t, o)
      BY <1>1, <2>4 DEF LiveOf
    <3>2. \A p \in LiveOf(t, o) : u[p].amount = t[p].amount
      BY <1>1, <2>1
    <3>3. Total(u, LiveOf(t, o)) = Total(t, LiveOf(t, o))
      BY <2>1, <3>2, TotalFrame
    <3> QED BY <2>2, <3>1, <3>3
  <2> QED BY <2>3, <2>4
<1>4. WithinAmount(u)
  BY <1>3 DEF WithinAmount
<1> QED BY <1>2, <1>4 DEF u

\* Every step keeps the refunds within the amounts.
LEMMA RefundsStep ==
  ASSUME IInv, OriginalExists(payments), WithinAmount(payments), [Next]_vars
  PROVE  OriginalExists(payments') /\ WithinAmount(payments')
<1> USE CreationAssumption
<1>1. payments \in Seq(Payment)
  BY DEF IInv, TypeOK
<1>2. ASSUME NEW r, NEW dir \in Directions, NEW amount \in Amounts, NEW q \in 0..MaxQuotes,
             Insert(r, dir, amount, q),
             r \in PayoutRequest \cup PayinRequest \cup RefundRequest,
             r.original # 0 =>
               /\ r.original \in DOMAIN payments
               /\ amount <= payments[r.original].amount
                              - Total(payments, LiveOf(payments, r.original))
      PROVE  OriginalExists(payments') /\ WithinAmount(payments')
  <2> DEFINE e == [dir |-> dir, tenant |-> r.tenant, key |-> r.key, amount |-> amount,
                   ref |-> r.ref, quote |-> q, original |-> r.original, status |-> "created"]
  <2>1. e \in Payment /\ e.original = r.original /\ e.amount = amount
    BY <1>2 DEF PayoutRequest, PayinRequest, RefundRequest, Payment
  <2>2. payments' = Append(payments, e)
    BY <1>2 DEF Insert
  <2> HIDE DEF e
  <2> QED BY <1>1, <1>2, <2>1, <2>2, InsertRefund
<1>3. ASSUME NEW r \in PayoutRequest, NEW q, createPayout(r, q)
      PROVE  OriginalExists(payments') /\ WithinAmount(payments')
  <2>1. r.original = 0 /\ r.amount \in Amounts /\ "payout" \in Directions
    BY DEF PayoutRequest, Directions
  <2>2. UNCHANGED payments \/ (Insert(r, "payout", r.amount, q) /\ q \in 0..MaxQuotes)
    <3>1. q \in 0..MaxQuotes
      <4>1. TypeOK /\ q \in DOMAIN quotes
        BY <1>3 DEF IInv, createPayout
      <4> QED BY <4>1, Rows DEF TypeOK
    <3> QED BY <1>3, <3>1 DEF createPayout
  <2> QED BY <1>2, <2>1, <2>2
<1>4. ASSUME NEW r \in PayinRequest, NEW q, createPayin(r, q)
      PROVE  OriginalExists(payments') /\ WithinAmount(payments')
  <2>1. TypeOK /\ q \in DOMAIN quotes
    BY <1>4 DEF IInv, createPayin
  <2>2. q \in 0..MaxQuotes /\ quotes[q].amount \in Amounts
    BY <2>1, Rows DEF TypeOK, Quote
  <2>3. r.original = 0 /\ "payin" \in Directions
    BY DEF PayinRequest, Directions
  <2>4. UNCHANGED payments \/ Insert(r, "payin", quotes[q].amount, q)
    BY <1>4 DEF createPayin
  <2> QED BY <1>2, <2>2, <2>3, <2>4
<1>5. ASSUME NEW r \in RefundRequest, CreateRefund(r)
      PROVE  OriginalExists(payments') /\ WithinAmount(payments')
  <2>1. r.amount \in Amounts /\ "payout" \in Directions /\ r.quote \in 0..MaxQuotes
    BY DEF RefundRequest, Directions
  <2>2. r.original \in DOMAIN payments
    BY <1>5 DEF CreateRefund
  <2>3. \/ UNCHANGED payments
        \/ /\ Insert(r, "payout", r.amount, r.quote)
           /\ r.amount <= payments[r.original].amount - Refunded(r.original)
    BY <1>5 DEF CreateRefund
  <2>4. Refunded(r.original) = Total(payments, LiveOf(payments, r.original))
    <3>1. {p \in RefundsOf(r.original) : Active(p)} = LiveOf(payments, r.original)
      BY DEF RefundsOf, Active, LiveOf
    <3>2. Refunded(r.original) = Total(payments, {p \in RefundsOf(r.original) : Active(p)})
      BY Folded DEF Refunded
    <3> QED BY <3>1, <3>2
  <2> QED BY <1>2, <2>1, <2>2, <2>3, <2>4
<1>6. ASSUME NEW r \in PaymentRequest, CreatePayment(r)
      PROVE  OriginalExists(payments') /\ WithinAmount(payments')
  <2>1. CASE r.op = "payout"
    <3>1. r \in PayoutRequest
      BY <2>1 DEF PaymentRequest, PayinRequest
    <3> QED BY <1>3, <1>6, <2>1, <3>1 DEF CreatePayment, CreatePayoutPayment
  <2>2. CASE r.op # "payout"
    <3>1. r \in PayinRequest
      BY <2>2 DEF PaymentRequest, PayoutRequest
    <3> QED BY <1>4, <1>6, <2>2, <3>1 DEF CreatePayment, CreatePayinPayment
  <2> QED BY <2>1, <2>2
<1>7. ASSUME NEW p \in DOMAIN payments, Finish(p)
      PROVE  OriginalExists(payments') /\ WithinAmount(payments')
  <2>1. PICK status \in {"succeeded", "failed"} : payments' = [payments EXCEPT ![p].status = status]
    BY <1>7 DEF Finish
  <2>2. payments[p].status = "created"
    BY <1>7 DEF Finish
  <2> QED BY <1>1, <2>1, <2>2, FinishRefund
<1>8. CASE UNCHANGED payments
  BY <1>8
<1>9. \/ UNCHANGED payments
      \/ \E r \in PaymentRequest : CreatePayment(r)
      \/ \E r \in RefundRequest : CreateRefund(r)
      \/ \E p \in DOMAIN payments : Finish(p)
  BY DEF Next, vars, CreateQuote, CreatePayoutQuote, CreatePayinQuote, StoreQuote, Lapse
<1> QED BY <1>5, <1>6, <1>7, <1>8, <1>9

\* The refunds of a payment that have not failed never exceed its amount, for
\* any amounts and any number of refunds: each CreateRefund computes what is
\* left under the lock of the original, and failures only give back.
THEOREM RefundsBounded == Spec => []RefundsWithinAmount
<1>1. Init => OriginalExists(payments) /\ WithinAmount(payments)
  BY DEF Init, OriginalExists, WithinAmount
<1>2. IInv /\ OriginalExists(payments) /\ WithinAmount(payments) /\ [Next]_vars
        => (OriginalExists(payments) /\ WithinAmount(payments))'
  BY RefundsStep
<1>3. WithinAmount(payments) => RefundsWithinAmount
  <2> SUFFICES ASSUME WithinAmount(payments), NEW o \in DOMAIN payments
               PROVE  MapThenSumSet(Share, {p \in RefundsOf(o) : payments[p].status # "failed"})
                        <= payments[o].amount
    BY DEF RefundsWithinAmount
  <2>1. {p \in RefundsOf(o) : payments[p].status # "failed"} = LiveOf(payments, o)
    BY DEF RefundsOf, LiveOf
  <2>2. MapThenSumSet(Share, LiveOf(payments, o)) = Total(payments, LiveOf(payments, o))
    BY Folded
  <2> QED BY <2>1, <2>2 DEF WithinAmount
<1> QED BY Invariant, <1>1, <1>2, <1>3, PTL DEF Spec
=============================================================================
