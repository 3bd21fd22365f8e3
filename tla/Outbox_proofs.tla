--------------------------- MODULE Outbox_proofs ---------------------------
(***************************************************************************)
(* Proofs about Outbox, for any number of aggregates, topics, relay        *)
(* instances and events, and that it implements EventDelivery.             *)
(*                                                                         *)
(* The argument for the order: a row is claimed only when the rows before  *)
(* it of its aggregate are published, and a published row is in its topic; *)
(* so whatever a relay appends, the events it must follow are in the topic *)
(* already, also when an instance that has lost its session repeats what   *)
(* another one published long ago.  A consumer closes a topic's events in  *)
(* order, hence those come before it.                                      *)
(***************************************************************************)
EXTENDS Outbox, TLAPS

Row == [aggregate : Aggregates, topic : Topics, preds : SUBSET (1..MaxRows),
        state : RowStates, attempts : 0..MaxAttempts]

InLog(t, i) == \E n \in DOMAIN log[t] : log[t][n] = i

\* The events a row must follow were committed before it was inserted; a row
\* that may still be tried has an attempt left.
RowInv ==
  /\ Len(rows) <= MaxRows
  /\ \A i \in Ids :
       /\ \A j \in rows[i].preds :
            /\ j \in Ids /\ j < i /\ Written(j)
            /\ rows[j].aggregate = rows[i].aggregate /\ rows[j].topic = rows[i].topic
       /\ rows[i].state \in {"open", "pending"} => rows[i].attempts < MaxAttempts

\* Whatever a relay has yet to publish follows what is in the topic already, and
\* the marks it will commit are true.
RelayInv ==
  \A r \in Relays :
    /\ \A i \in relay[r].todo :
         Written(i) /\ \A j \in rows[i].preds : InLog(rows[i].topic, j)
    /\ relay[r].pc = "publishing" =>
         /\ \A i \in relay[r].todo : rows[i].state = "pending"
         /\ \A m \in relay[r].marks :
              /\ rows[m.row].state = "pending"
              /\ m.as = "published" => InLog(rows[m.row].topic, m.row)
              /\ m.as = "retried" => rows[m.row].attempts + 1 < MaxAttempts
              /\ m.as = "dead" => m.row \in dlq

\* A row gets one mark, and is then no longer to be published.
MarkInv ==
  \A r \in Relays : relay[r].pc = "publishing" =>
    \A m \in relay[r].marks :
      m.row \notin relay[r].todo /\ \A l \in relay[r].marks : l.row = m.row => l = m

\* No two relays that still have their session hold the same row.
ClaimsAreExclusive ==
  \A r, q \in Relays :
    r # q /\ relay[r].pc = "publishing" /\ relay[q].pc = "publishing" => Claimed(r) \cap Claimed(q) = {}

\* A topic holds committed events only, each after the ones it must follow.
LogInv ==
  \A t \in Topics : \A n \in DOMAIN log[t] :
    /\ Written(log[t][n])
    /\ \A j \in rows[log[t][n]].preds : \E m \in 1..n - 1 : log[t][m] = j

\* What a consumer has passed is closed, and the inbox holds what took effect.
ConsumerInv ==
  /\ \A t \in Topics :
       /\ offset[t] <= Len(log[t])
       /\ t \in held => offset[t] < Len(log[t])
       /\ \A n \in 1..offset[t] : log[t][n] \in closed
       /\ t \in held => log[t][offset[t] + 1] \in closed
  /\ inbox = {effects[n] : n \in DOMAIN effects}
  /\ inbox \subseteq closed

IInv ==
  /\ TypeOK
  /\ RowInv
  /\ RelayInv
  /\ MarkInv
  /\ ClaimsAreExclusive
  /\ NothingIsLost
  /\ LogInv
  /\ ConsumerInv

-----------------------------------------------------------------------------
\* A sequence over a set is one over every larger set.
LEMMA SeqMono ==
  ASSUME NEW A, NEW B, A \subseteq B, NEW s \in Seq(A)
  PROVE  s \in Seq(B)
OBVIOUS

\* What TypeOK says of the parts.
LEMMA Types ==
  ASSUME TypeOK
  PROVE  /\ rows \in Seq(Row) /\ Len(rows) \in Nat /\ DOMAIN rows = Ids
         /\ \A i \in Ids : i \in Nat /\ rows[i] \in Row
         /\ \A r \in Relays : /\ relay[r] = Busy(relay[r].pc, relay[r].todo, relay[r].marks)
                              /\ relay[r].pc \in RelayStates /\ relay[r].todo \subseteq Ids
                              /\ relay[r].marks \subseteq [row : Ids, as : Marks]
         /\ \A t \in Topics : /\ log[t] \in Seq(Ids) /\ Len(log[t]) \in Nat
                              /\ DOMAIN log[t] = 1..Len(log[t])
                              /\ \A n \in DOMAIN log[t] : log[t][n] \in Ids
                              /\ offset[t] \in Nat
<1>1. /\ rows \in Seq(Row) /\ Len(rows) \in Nat /\ DOMAIN rows = Ids
      /\ \A i \in Ids : i \in Nat /\ rows[i] \in Row
  <2>1. rows \in Seq(Row)
    BY DEF TypeOK, Row
  <2> QED BY <2>1 DEF Ids
<1>2. \A r \in Relays : /\ relay[r] = Busy(relay[r].pc, relay[r].todo, relay[r].marks)
                        /\ relay[r].pc \in RelayStates /\ relay[r].todo \subseteq Ids
                        /\ relay[r].marks \subseteq [row : Ids, as : Marks]
  <2> SUFFICES ASSUME NEW r \in Relays
               PROVE  /\ relay[r] = Busy(relay[r].pc, relay[r].todo, relay[r].marks)
                      /\ relay[r].pc \in RelayStates /\ relay[r].todo \subseteq Ids
                      /\ relay[r].marks \subseteq [row : Ids, as : Marks]
    OBVIOUS
  <2>1. relay[r] \in [pc : RelayStates, todo : SUBSET Ids, marks : SUBSET [row : Ids, as : Marks]]
    BY DEF TypeOK
  <2> QED BY <2>1 DEF Busy
<1>3. \A t \in Topics : log[t] \in Seq(Ids) /\ offset[t] \in Nat
  BY DEF TypeOK
<1>4. \A t \in Topics : /\ Len(log[t]) \in Nat /\ DOMAIN log[t] = 1..Len(log[t])
                        /\ \A n \in DOMAIN log[t] : log[t][n] \in Ids
  BY <1>3
<1> QED BY <1>1, <1>2, <1>3, <1>4

\* A step that leaves alone what was fixed when a row was inserted, and lets no
\* committed row disappear.
Grow ==
  /\ rows' \in Seq(Row)
  /\ Ids \subseteq Ids'
  /\ \A i \in Ids :
       /\ rows'[i].aggregate = rows[i].aggregate
       /\ rows'[i].topic = rows[i].topic
       /\ rows'[i].preds = rows[i].preds
       /\ Written(i) => Written(i)'

\* Such a step keeps the type when it changes nothing but rows.
LEMMA GrowType ==
  ASSUME TypeOK, Grow, UNCHANGED <<relay, log, dlq, offset, held, inbox, effects, closed>>,
         losses' \in 0..MaxLoss
  PROVE  TypeOK'
<1>1. Ids \subseteq Ids'
  BY DEF Grow
<1>2. rows' \in Seq(Row)
  BY DEF Grow
<1>3. relay' \in [Relays -> [pc : RelayStates, todo : SUBSET Ids',
                             marks : SUBSET [row : Ids', as : Marks]]]
  <2>1. SUBSET [row : Ids, as : Marks] \subseteq SUBSET [row : Ids', as : Marks]
    BY <1>1
  <2>2. relay \in [Relays -> [pc : RelayStates, todo : SUBSET Ids,
                              marks : SUBSET [row : Ids, as : Marks]]]
    BY DEF TypeOK
  <2> QED BY <1>1, <2>1, <2>2
<1>4. log' \in [Topics -> Seq(Ids')]
  <2>1. log \in [Topics -> Seq(Ids)]
    BY DEF TypeOK
  <2>2. \A t \in Topics : log[t] \in Seq(Ids')
    BY <1>1, <2>1, SeqMono
  <2> QED BY <2>1, <2>2
<1>5. effects' \in Seq(Ids')
  BY <1>1, SeqMono DEF TypeOK
<1> QED BY <1>1, <1>2, <1>3, <1>4, <1>5 DEF TypeOK, Row

\* It keeps what is known of the topics, too.
LEMMA GrowLog ==
  ASSUME TypeOK, LogInv, Grow, UNCHANGED log
  PROVE  LogInv'
<1> SUFFICES ASSUME NEW t \in Topics, NEW n \in DOMAIN log[t]
             PROVE  /\ Written(log[t][n])'
                    /\ \A j \in rows'[log[t][n]].preds : \E m \in 1..n - 1 : log[t][m] = j
  BY DEF LogInv
<1>1. log[t][n] \in Ids
  BY Types
<1>2. Written(log[t][n])' /\ rows'[log[t][n]].preds = rows[log[t][n]].preds
  BY <1>1 DEF Grow, LogInv, Written
<1> QED BY <1>2 DEF LogInv

\* Steps that leave the topics and the consumers alone.
LEMMA ConsumerFrame ==
  ASSUME ConsumerInv, UNCHANGED <<log, consumerVars>>
  PROVE  ConsumerInv'
BY DEF ConsumerInv, consumerVars

\* The empty outbox satisfies the invariant.
LEMMA InitInv == Init => IInv
<1> SUFFICES ASSUME Init PROVE IInv
  OBVIOUS
<1> USE OutboxAssumption
<1>1. Ids = {} /\ Len(rows) = 0
  BY DEF Init, Ids
<1>2. TypeOK
  <2>1. relay \in [Relays -> [pc : RelayStates, todo : SUBSET Ids,
                              marks : SUBSET [row : Ids, as : Marks]]]
    BY DEF Init, Free, Busy, RelayStates
  <2> QED BY <2>1 DEF Init, TypeOK
<1>3. RowInv /\ NothingIsLost
  BY <1>1 DEF RowInv, NothingIsLost
<1>4. RelayInv /\ MarkInv /\ ClaimsAreExclusive
  BY DEF Init, RelayInv, MarkInv, ClaimsAreExclusive, Free, Busy
<1>5. LogInv /\ ConsumerInv
  BY DEF Init, LogInv, ConsumerInv
<1> QED BY <1>2, <1>3, <1>4, <1>5 DEF IInv

-----------------------------------------------------------------------------
\* Inserting a row.
LEMMA InsertGrows ==
  ASSUME IInv, NEW a \in Aggregates, NEW t \in Topics, Insert(a, t)
  PROVE  /\ Grow /\ Len(rows') = Len(rows) + 1
         /\ \A i \in Ids : rows'[i] = rows[i]
         /\ rows'[Len(rows) + 1] =
              [aggregate |-> a, topic |-> t, state |-> "open", attempts |-> 0,
               preds |-> {j \in Ids : Written(j) /\ rows[j].aggregate = a /\ rows[j].topic = t}]
<1> DEFINE e == [aggregate |-> a, topic |-> t, state |-> "open", attempts |-> 0,
                 preds |-> {j \in Ids : Written(j) /\ rows[j].aggregate = a /\ rows[j].topic = t}]
<1> USE OutboxAssumption
<1>1. TypeOK /\ RowInv
  BY DEF IInv
<1>2. e \in Row
  <2> DEFINE P == {j \in Ids : Written(j) /\ rows[j].aggregate = a /\ rows[j].topic = t}
  <2>1. P \subseteq 1..MaxRows
    BY <1>1, Types DEF RowInv, Ids
  <2>2. P \in SUBSET (1..MaxRows)
    BY <2>1
  <2> HIDE DEF P
  <2>3. [aggregate |-> a, topic |-> t, state |-> "open", attempts |-> 0, preds |-> P] \in Row
    BY <2>2 DEF Row, RowStates
  <2> QED BY <2>3 DEF P
<1>3. rows' = Append(rows, e)
  BY DEF Insert
<1> HIDE DEF e
<1>4. /\ rows' \in Seq(Row) /\ Len(rows') = Len(rows) + 1 /\ rows'[Len(rows) + 1] = e
      /\ \A i \in Ids : rows'[i] = rows[i]
  BY <1>1, <1>2, <1>3, Types DEF Ids
<1>5. Ids \subseteq Ids'
  BY <1>1, <1>4, Types DEF Ids
<1>6. Grow
  BY <1>4, <1>5 DEF Grow, Written
<1> QED BY <1>4, <1>6 DEF e

\* The transaction of a row ends.
LEMMA EndGrows ==
  ASSUME IInv, NEW i \in Ids, EndTransaction(i)
  PROVE  /\ Grow /\ Ids' = Ids /\ rows[i].state = "open"
         /\ rows'[i].state \in {"pending", "aborted"} /\ rows'[i].attempts = rows[i].attempts
         /\ \A j \in Ids : j # i => rows'[j] = rows[j]
<1>1. TypeOK
  BY DEF IInv
<1>2. PICK state \in {"pending", "aborted"} : rows' = [rows EXCEPT ![i].state = state]
  BY DEF EndTransaction
<1> DEFINE e == [rows[i] EXCEPT !.state = state]
<1>3. /\ e \in Row /\ e.state = state /\ e.attempts = rows[i].attempts
      /\ e.aggregate = rows[i].aggregate /\ e.topic = rows[i].topic /\ e.preds = rows[i].preds
  <2>1. rows[i] \in Row
    BY <1>1, Types
  <2> QED BY <2>1 DEF Row, RowStates
<1>4. rows' = [rows EXCEPT ![i] = e]
  BY <1>2
<1> HIDE DEF e
<1>5. /\ rows' \in Seq(Row) /\ Ids' = Ids /\ rows'[i] = e
      /\ \A j \in Ids : j # i => rows'[j] = rows[j]
  BY <1>1, <1>3, <1>4, Types DEF Ids
<1>6. rows[i].state = "open"
  BY DEF EndTransaction
<1>7. Grow
  BY <1>3, <1>5, <1>6 DEF Grow, Written
<1> QED BY <1>3, <1>5, <1>6, <1>7

\* What such a step keeps: the order between a row and its predecessors,
LEMMA GrowPreds ==
  ASSUME TypeOK, RowInv, Grow, NEW i \in Ids, NEW j \in rows'[i].preds
  PROVE  /\ j \in Ids' /\ j < i /\ Written(j)'
         /\ rows'[j].aggregate = rows'[i].aggregate /\ rows'[j].topic = rows'[i].topic
<1>1. j \in rows[i].preds
  BY DEF Grow
<1>2. /\ j \in Ids /\ j < i /\ Written(j)
      /\ rows[j].aggregate = rows[i].aggregate /\ rows[j].topic = rows[i].topic
  BY <1>1 DEF RowInv
<1> QED BY <1>2 DEF Grow, Written

\* the rows themselves, when attempts are left,
LEMMA GrowRows ==
  ASSUME TypeOK, RowInv, Grow, Len(rows') = Len(rows),
         \A i \in Ids : rows'[i].state \in {"open", "pending"} => rows'[i].attempts < MaxAttempts
  PROVE  RowInv'
<1>1. Ids' = Ids /\ Len(rows') <= MaxRows
  BY DEF Ids, RowInv
<1> QED BY <1>1, GrowPreds DEF RowInv

\* what the relays hold, when no row that may be claimed changes,
LEMMA GrowRelay ==
  ASSUME TypeOK, RelayInv, MarkInv, ClaimsAreExclusive, Grow, UNCHANGED <<relay, log, dlq>>,
         \A i \in Ids : rows[i].state = "pending" => rows'[i] = rows[i]
  PROVE  RelayInv' /\ MarkInv' /\ ClaimsAreExclusive'
<1>1. ASSUME NEW r \in Relays, NEW i \in relay[r].todo
      PROVE  Written(i)' /\ \A j \in rows'[i].preds : InLog(rows[i].topic, j)'
  <2>1. i \in Ids
    BY <1>1, Types
  <2>2. Written(i)' /\ rows'[i].preds = rows[i].preds /\ rows'[i].topic = rows[i].topic
    BY <1>1, <2>1 DEF RelayInv, Grow, Written
  <2> QED BY <1>1, <2>2 DEF RelayInv, InLog
<1>2. ASSUME NEW r \in Relays, relay[r].pc = "publishing", NEW i \in relay[r].todo
      PROVE  rows'[i].state = "pending"
  BY <1>2, Types DEF RelayInv
<1>3. ASSUME NEW r \in Relays, relay[r].pc = "publishing", NEW m \in relay[r].marks
      PROVE  /\ rows'[m.row].state = "pending"
             /\ m.as = "published" => InLog(rows[m.row].topic, m.row)'
             /\ m.as = "retried" => rows'[m.row].attempts + 1 < MaxAttempts
             /\ m.as = "dead" => m.row \in dlq
  <2>1. m.row \in Ids
    BY <1>3, Types
  <2>2. rows'[m.row] = rows[m.row]
    BY <1>3, <2>1 DEF RelayInv
  <2> QED BY <1>3, <2>2 DEF RelayInv, InLog
<1>4. RelayInv'
  BY <1>1, <1>2, <1>3 DEF RelayInv
<1>5. MarkInv' /\ ClaimsAreExclusive'
  BY DEF MarkInv, ClaimsAreExclusive, Claimed
<1> QED BY <1>4, <1>5

\* and where the rows that are done with are found.
LEMMA GrowLost ==
  ASSUME TypeOK, NothingIsLost, Grow, UNCHANGED <<log, dlq>>,
         \A i \in Ids' : rows'[i].state \in {"published", "failed"} =>
                           i \in Ids /\ rows'[i].state = rows[i].state
  PROVE  NothingIsLost'
BY DEF NothingIsLost, Grow

\* Writing an event, with the end of its transaction, keeps the invariant.
LEMMA BusinessInv == ASSUME IInv, Business PROVE IInv'
<1> USE OutboxAssumption
<1>1. /\ TypeOK /\ RowInv /\ RelayInv /\ MarkInv /\ ClaimsAreExclusive
      /\ NothingIsLost /\ LogInv /\ ConsumerInv
  BY DEF IInv
<1>2. UNCHANGED <<relay, log, dlq, offset, held, inbox, effects, closed, losses>>
  BY DEF Business, Insert, EndTransaction, kafkaVars, consumerVars
<1>3. losses' \in 0..MaxLoss
  BY <1>1, <1>2 DEF TypeOK
<1>4. ConsumerInv'
  BY <1>1, <1>2, ConsumerFrame DEF consumerVars
<1>5. ASSUME NEW a \in Aggregates, NEW t \in Topics, Insert(a, t) PROVE IInv'
  <2> DEFINE n == Len(rows) + 1
  <2>1. /\ Grow /\ Len(rows') = n
        /\ \A i \in Ids : rows'[i] = rows[i]
        /\ rows'[n] = [aggregate |-> a, topic |-> t, state |-> "open", attempts |-> 0,
             preds |-> {j \in Ids : Written(j) /\ rows[j].aggregate = a /\ rows[j].topic = t}]
    BY <1>5, InsertGrows
  <2>2. /\ rows'[n].state = "open" /\ rows'[n].attempts = 0
        /\ rows'[n].aggregate = a /\ rows'[n].topic = t
    BY <2>1
  <2>3. \A j \in rows'[n].preds :
          j \in Ids /\ Written(j) /\ rows[j].aggregate = a /\ rows[j].topic = t
    BY <2>1
  <2>4. \A i \in Ids' : i \in Ids \/ i = n
    BY <1>1, <2>1, Types DEF Ids
  <2>5. \A j \in Ids : j < n
    BY <1>1, Types DEF Ids
  <2>6. Len(rows') <= MaxRows
    BY <1>1, <1>5, <2>1, Types DEF Insert
  <2> HIDE DEF n
  <2>7. \A j \in rows'[n].preds :
          j \in Ids' /\ j < n /\ Written(j)' /\ rows'[j].aggregate = a /\ rows'[j].topic = t
    BY <2>1, <2>3, <2>5 DEF Grow, Written
  <2>8. RowInv'
    <3>1. ASSUME NEW i \in Ids'
          PROVE  /\ \A j \in rows'[i].preds :
                      /\ j \in Ids' /\ j < i /\ Written(j)'
                      /\ rows'[j].aggregate = rows'[i].aggregate
                      /\ rows'[j].topic = rows'[i].topic
                 /\ rows'[i].state \in {"open", "pending"} => rows'[i].attempts < MaxAttempts
      <4>1. CASE i = n
        BY <2>2, <2>7, <4>1
      <4>2. CASE i \in Ids
        <5>1. rows'[i].state \in {"open", "pending"} => rows'[i].attempts < MaxAttempts
          BY <1>1, <2>1, <4>2 DEF RowInv
        <5> QED BY <1>1, <2>1, <4>2, <5>1, GrowPreds
      <4> QED BY <2>4, <4>1, <4>2
    <3> QED BY <2>6, <3>1 DEF RowInv
  <2>9. TypeOK' /\ LogInv'
    BY <1>1, <1>2, <1>3, <2>1, GrowType, GrowLog
  <2>10. RelayInv' /\ MarkInv' /\ ClaimsAreExclusive'
    BY <1>1, <1>2, <2>1, GrowRelay
  <2>11. NothingIsLost'
    BY <1>1, <1>2, <2>1, <2>2, <2>4, GrowLost
  <2> QED BY <1>4, <2>8, <2>9, <2>10, <2>11 DEF IInv
<1>6. ASSUME NEW i \in Ids, EndTransaction(i) PROVE IInv'
  <2>1. /\ Grow /\ Ids' = Ids /\ rows[i].state = "open"
        /\ rows'[i].state \in {"pending", "aborted"} /\ rows'[i].attempts = rows[i].attempts
        /\ \A j \in Ids : j # i => rows'[j] = rows[j]
    BY <1>6, EndGrows
  <2>2. rows[i].attempts < MaxAttempts
    BY <1>1, <2>1 DEF RowInv
  <2>3. RowInv'
    <3>1. \A k \in Ids : rows'[k].state \in {"open", "pending"} => rows'[k].attempts < MaxAttempts
      BY <1>1, <2>1, <2>2 DEF RowInv
    <3>2. Len(rows') = Len(rows)
      BY <1>6 DEF EndTransaction
    <3> QED BY <1>1, <2>1, <3>1, <3>2, GrowRows
  <2>4. TypeOK' /\ LogInv'
    BY <1>1, <1>2, <1>3, <2>1, GrowType, GrowLog
  <2>5. RelayInv' /\ MarkInv' /\ ClaimsAreExclusive'
    BY <1>1, <1>2, <2>1, GrowRelay
  <2>6. NothingIsLost'
    BY <1>1, <1>2, <2>1, GrowLost
  <2> QED BY <1>4, <2>3, <2>4, <2>5, <2>6 DEF IInv
<1> QED BY <1>5, <1>6 DEF Business

\* A row taken back from the dead-letter state is pending with every attempt left.
LEMMA RedriveGrows ==
  ASSUME IInv, NEW i \in Ids, Redrive(i)
  PROVE  /\ Grow /\ Len(rows') = Len(rows) /\ Ids' = Ids /\ rows[i].state = "failed"
         /\ rows'[i].state = "pending" /\ rows'[i].attempts = 0
         /\ \A j \in Ids : j # i => rows'[j] = rows[j]
<1> USE OutboxAssumption
<1>1. TypeOK
  BY DEF IInv
<1>3. rows[i].state = "failed" /\ rows[i] \in Row
  BY <1>1, Types DEF Redrive
<1>0. PICK e : e = [rows[i] EXCEPT !.state = "pending", !.attempts = 0]
  OBVIOUS
<1>4. /\ e \in Row /\ e.state = "pending" /\ e.attempts = 0
      /\ e.aggregate = rows[i].aggregate /\ e.topic = rows[i].topic /\ e.preds = rows[i].preds
  <2>1. "pending" \in RowStates /\ 0 \in 0..MaxAttempts
    BY DEF RowStates
  <2>2. PICK row : row = rows[i]
    OBVIOUS
  <2>3. row \in Row /\ e = [row EXCEPT !.state = "pending", !.attempts = 0]
    BY <1>0, <1>3, <2>2
  <2>4. /\ e \in Row /\ e.state = "pending" /\ e.attempts = 0
        /\ e.aggregate = row.aggregate /\ e.topic = row.topic /\ e.preds = row.preds
    BY <2>1, <2>3 DEF Row
  <2> QED BY <2>2, <2>4
<1>5. rows' = [rows EXCEPT ![i] = e]
  <2>1. rows' = [rows EXCEPT ![i].state = "pending", ![i].attempts = 0]
    BY DEF Redrive
  <2> QED BY <1>0, <1>1, <2>1, Types
<1>6. /\ rows' \in Seq(Row) /\ Len(rows') = Len(rows) /\ Ids' = Ids /\ rows'[i] = e
      /\ \A j \in Ids : j # i => rows'[j] = rows[j]
  <2>1. rows \in Seq(Row) /\ i \in 1..Len(rows)
    BY <1>1, Types DEF Ids
  <2> QED BY <1>4, <1>5, <2>1 DEF Ids
<1>7. Grow
  BY <1>3, <1>4, <1>6 DEF Grow, Written
<1> QED BY <1>3, <1>4, <1>6, <1>7

\* An operator's redrive keeps the invariant: the row is locked by no relay.
LEMMA RedriveInv == ASSUME IInv, NEW i \in Ids, Redrive(i) PROVE IInv'
<1> USE OutboxAssumption
<1>1. /\ TypeOK /\ RowInv /\ RelayInv /\ MarkInv /\ ClaimsAreExclusive
      /\ NothingIsLost /\ LogInv /\ ConsumerInv
  BY DEF IInv
<1>2. UNCHANGED <<relay, log, dlq, offset, held, inbox, effects, closed>> /\ losses' \in 0..MaxLoss
  BY <1>1 DEF Redrive, kafkaVars, consumerVars, TypeOK
<1>3. /\ Grow /\ Len(rows') = Len(rows) /\ Ids' = Ids /\ rows[i].state = "failed"
      /\ rows'[i].state = "pending" /\ rows'[i].attempts = 0
      /\ \A j \in Ids : j # i => rows'[j] = rows[j]
  BY RedriveGrows
<1>8. RowInv'
  <2>1. \A k \in Ids : rows'[k].state \in {"open", "pending"} => rows'[k].attempts < MaxAttempts
    BY <1>1, <1>3 DEF RowInv
  <2> QED BY <1>1, <1>3, <2>1, GrowRows
<1>9. TypeOK' /\ LogInv' /\ ConsumerInv'
  BY <1>1, <1>2, <1>3, GrowType, GrowLog, ConsumerFrame DEF consumerVars
<1>10. RelayInv' /\ MarkInv' /\ ClaimsAreExclusive'
  BY <1>1, <1>2, <1>3, GrowRelay
<1>11. NothingIsLost'
  BY <1>1, <1>2, <1>3, GrowLost
<1> QED BY <1>8, <1>9, <1>10, <1>11 DEF IInv

-----------------------------------------------------------------------------
\* A step of one relay that leaves the rows, the topics and the consumers alone
\* keeps what is known of them.
LEMMA RelayFrame ==
  ASSUME IInv, UNCHANGED <<rows, log, dlq, consumerVars>>, losses' \in 0..MaxLoss,
         relay' \in [Relays -> [pc : RelayStates, todo : SUBSET Ids,
                                marks : SUBSET [row : Ids, as : Marks]]],
         RelayInv', MarkInv', ClaimsAreExclusive'
  PROVE  IInv'
<1> USE DEF consumerVars
<1>1. TypeOK'
  BY DEF IInv, TypeOK, Ids
<1>2. RowInv' /\ NothingIsLost' /\ LogInv'
  BY DEF IInv, RowInv, NothingIsLost, LogInv, Written, Ids
<1>3. ConsumerInv'
  BY ConsumerFrame DEF IInv
<1> QED BY <1>1, <1>2, <1>3 DEF IInv

\* A relay claims only rows whose predecessors are published, and no other relay
\* has them locked.
LEMMA ClaimInv == ASSUME IInv, NEW r \in Relays, Claim(r) PROVE IInv'
<1>1. TypeOK /\ RowInv /\ RelayInv /\ ClaimsAreExclusive /\ NothingIsLost
  BY DEF IInv
<1>2. UNCHANGED <<rows, log, dlq, consumerVars, losses>> /\ losses' \in 0..MaxLoss
  BY <1>1 DEF Claim, kafkaVars, TypeOK
<1>3. PICK batch \in SUBSET {i \in Ids : Claimable(i)} :
        relay' = [relay EXCEPT ![r] = Busy("publishing", batch, {})]
  BY DEF Claim
<1>4. /\ relay'[r].pc = "publishing" /\ relay'[r].todo = batch /\ relay'[r].marks = {}
      /\ \A q \in Relays : q # r => relay'[q] = relay[q]
  BY <1>1, <1>3 DEF TypeOK, Busy
<1>5. relay' \in [Relays -> [pc : RelayStates, todo : SUBSET Ids,
                             marks : SUBSET [row : Ids, as : Marks]]]
  <2>1. Busy("publishing", batch, {}) \in
          [pc : RelayStates, todo : SUBSET Ids, marks : SUBSET [row : Ids, as : Marks]]
    BY DEF Busy, RelayStates
  <2> HIDE DEF Busy
  <2> QED BY <1>1, <1>3, <2>1 DEF TypeOK
<1>6. ASSUME NEW i \in batch
      PROVE  /\ i \in Ids /\ rows[i].state = "pending" /\ Written(i)
             /\ \A j \in rows[i].preds : InLog(rows[i].topic, j)
             /\ \A q \in Relays : relay[q].pc = "publishing" => i \notin Claimed(q)
  <2>1. i \in Ids /\ Claimable(i)
    OBVIOUS
  <2>2. rows[i].state = "pending" /\ Written(i)
    BY <2>1 DEF Claimable, Written
  <2>3. ASSUME NEW j \in rows[i].preds PROVE InLog(rows[i].topic, j)
    <3>1. /\ j \in Ids /\ j < i /\ Written(j)
          /\ rows[j].aggregate = rows[i].aggregate /\ rows[j].topic = rows[i].topic
      BY <1>1, <2>1 DEF RowInv
    <3>2. j \in 1..(i - 1)
      BY <1>1, <2>1, <3>1, Types DEF Ids
    <3>3. rows[j].state = "published"
      <4>1. ~Unpublished(j)
        BY <2>1, <3>1, <3>2 DEF Claimable
      <4>2. rows[j].state \in RowStates
        BY <1>1, <3>1, Types DEF Row
      <4> QED BY <3>1, <4>1, <4>2 DEF Unpublished, Written, RowStates
    <3> QED BY <1>1, <3>1, <3>3 DEF NothingIsLost, InLog
  <2>4. ASSUME NEW q \in Relays, relay[q].pc = "publishing" PROVE i \notin Claimed(q)
    <3>1. Claimed(q) \subseteq Locked
      BY <2>4 DEF Locked
    <3> QED BY <2>1, <3>1 DEF Claimable
  <2> QED BY <2>1, <2>2, <2>3, <2>4
<1>7. RelayInv'
  <2>1. ASSUME NEW q \in Relays, NEW i \in relay'[q].todo
        PROVE  Written(i)' /\ \A j \in rows'[i].preds : InLog(rows[i].topic, j)'
    <3>1. Written(i) /\ \A j \in rows[i].preds : InLog(rows[i].topic, j)
      BY <1>1, <1>4, <1>6, <2>1 DEF RelayInv
    <3> QED BY <1>2, <3>1 DEF Written, InLog
  <2>2. ASSUME NEW q \in Relays, relay'[q].pc = "publishing", NEW i \in relay'[q].todo
        PROVE  rows'[i].state = "pending"
    BY <1>1, <1>2, <1>4, <1>6, <2>2 DEF RelayInv
  <2>3. ASSUME NEW q \in Relays, relay'[q].pc = "publishing", NEW m \in relay'[q].marks
        PROVE  /\ rows'[m.row].state = "pending"
               /\ m.as = "published" => InLog(rows[m.row].topic, m.row)'
               /\ m.as = "retried" => rows'[m.row].attempts + 1 < MaxAttempts
               /\ m.as = "dead" => m.row \in dlq'
    <3>1. relay'[q] = relay[q]
      BY <1>4, <2>3
    <3> QED BY <1>1, <1>2, <2>3, <3>1 DEF RelayInv, InLog
  <2> QED BY <2>1, <2>2, <2>3 DEF RelayInv
<1>8. ClaimsAreExclusive'
  <2>1. Claimed(r)' = batch
    BY <1>4 DEF Claimed
  <2>2. \A q \in Relays : q # r => Claimed(q)' = Claimed(q)
    BY <1>4 DEF Claimed
  <2>3. \A q \in Relays : q # r /\ relay[q].pc = "publishing" => Claimed(q) \cap batch = {}
    BY <1>6
  <2> QED BY <1>1, <1>4, <2>1, <2>2, <2>3 DEF ClaimsAreExclusive
<1>9. MarkInv'
  BY <1>1, <1>4 DEF IInv, MarkInv
<1> QED BY <1>2, <1>5, <1>7, <1>8, <1>9, RelayFrame

\* A relay that stops, or loses its session, gives its locks up and keeps the
\* invariant: what it may still publish follows what is in the topic.
LEMMA StopInv ==
  ASSUME IInv, NEW r \in Relays, RelayStops(r) \/ SessionLost(r)
  PROVE  IInv'
<1>1. TypeOK /\ RelayInv /\ ClaimsAreExclusive
  BY DEF IInv
<1>2. UNCHANGED <<rows, log, dlq, consumerVars>> /\ losses' \in 0..MaxLoss
  BY <1>1, OutboxAssumption DEF RelayStops, SessionLost, kafkaVars, TypeOK
<1>3. /\ relay' \in [Relays -> [pc : RelayStates, todo : SUBSET Ids,
                                marks : SUBSET [row : Ids, as : Marks]]]
      /\ relay'[r].pc # "publishing" /\ relay'[r].todo \subseteq relay[r].todo
      /\ \A q \in Relays : q # r => relay'[q] = relay[q]
  <2>1. PICK pc \in {"idle", "orphaned"}, todo \in SUBSET relay[r].todo :
          relay' = [relay EXCEPT ![r] = Busy(pc, todo, {})]
    BY DEF RelayStops, SessionLost, Free
  <2>2. Busy(pc, todo, {}) \in
          [pc : RelayStates, todo : SUBSET Ids, marks : SUBSET [row : Ids, as : Marks]]
    BY <1>1, Types DEF Busy, RelayStates
  <2>3. Busy(pc, todo, {}).pc = pc /\ Busy(pc, todo, {}).todo = todo
    BY DEF Busy
  <2> HIDE DEF Busy
  <2> QED BY <1>1, <2>1, <2>2, <2>3 DEF TypeOK
<1>4. RelayInv'
  <2>1. ASSUME NEW q \in Relays, NEW i \in relay'[q].todo
        PROVE  Written(i)' /\ \A j \in rows'[i].preds : InLog(rows[i].topic, j)'
    <3>1. i \in relay[q].todo
      BY <1>3, <2>1
    <3> QED BY <1>1, <1>2, <3>1 DEF RelayInv, Written, InLog
  <2>2. ASSUME NEW q \in Relays, relay'[q].pc = "publishing"
        PROVE  relay'[q] = relay[q]
    BY <1>3, <2>2
  <2> QED BY <1>1, <1>2, <2>1, <2>2 DEF RelayInv, InLog
<1>5. ClaimsAreExclusive'
  BY <1>1, <1>3 DEF ClaimsAreExclusive, Claimed
<1>6. MarkInv'
  BY <1>3 DEF IInv, MarkInv
<1> QED BY <1>2, <1>3, <1>4, <1>5, <1>6, RelayFrame

-----------------------------------------------------------------------------
\* The topics only grow.
LogGrows ==
  /\ log' \in [Topics -> Seq(Ids)]
  /\ \A t \in Topics :
       /\ Len(log[t]) <= Len(log'[t])
       /\ \A n \in 1..Len(log[t]) : log'[t][n] = log[t][n]

\* They grow by the row i at most, which is in its topic once it is published.
Appended(i) ==
  /\ LogGrows
  /\ \A t \in Topics : \A n \in DOMAIN log'[t] :
       n \in DOMAIN log[t] \/ (n = Len(log[t]) + 1 /\ log'[t][n] = i /\ rows[i].topic = t)
  /\ Publish(i) => InLog(rows[i].topic, i)'

\* Publishing appends the row to its topic.
LEMMA PublishGrows ==
  ASSUME TypeOK, NEW i \in Ids, Publish(i) \/ UNCHANGED log, UNCHANGED rows
  PROVE  Appended(i)
<1>1. log \in [Topics -> Seq(Ids)]
  BY DEF TypeOK
<1>2. CASE UNCHANGED log /\ ~Publish(i)
  <2>1. LogGrows
    BY <1>1, <1>2, Types DEF LogGrows
  <2>2. \A t \in Topics : \A n \in DOMAIN log'[t] : n \in DOMAIN log[t]
    BY <1>2
  <2> QED BY <1>2, <2>1, <2>2 DEF Appended
<1>3. CASE Publish(i)
  <2> DEFINE u == rows[i].topic
  <2>1. u \in Topics
    BY Types DEF Row
  <2>2. log' = [log EXCEPT ![u] = Append(log[u], i)]
    BY <1>3 DEF Publish
  <2>3. /\ log[u] \in Seq(Ids) /\ Len(log[u]) \in Nat /\ DOMAIN log[u] = 1..Len(log[u])
    BY <2>1, Types
  <2> HIDE DEF u
  <2>4. /\ Append(log[u], i) \in Seq(Ids) /\ Len(Append(log[u], i)) = Len(log[u]) + 1
        /\ DOMAIN Append(log[u], i) = 1..Len(log[u]) + 1
        /\ Append(log[u], i)[Len(log[u]) + 1] = i
        /\ \A n \in 1..Len(log[u]) : Append(log[u], i)[n] = log[u][n]
    BY <2>3
  <2>5. /\ log' \in [Topics -> Seq(Ids)] /\ log'[u] = Append(log[u], i)
        /\ \A t \in Topics : t # u => log'[t] = log[t]
    <3> DEFINE a == Append(log[u], i)
    <3>1. a \in Seq(Ids) /\ log' = [log EXCEPT ![u] = a]
      BY <2>2, <2>4
    <3> HIDE DEF a
    <3>2. /\ log' \in [Topics -> Seq(Ids)] /\ log'[u] = a
          /\ \A t \in Topics : t # u => log'[t] = log[t]
      BY <1>1, <2>1, <3>1
    <3> QED BY <3>2 DEF a
  <2>6. LogGrows
    <3> SUFFICES ASSUME NEW t \in Topics
                 PROVE  /\ Len(log[t]) <= Len(log'[t])
                        /\ \A n \in 1..Len(log[t]) : log'[t][n] = log[t][n]
      BY <2>5 DEF LogGrows
    <3>1. CASE t = u
      BY <2>3, <2>4, <2>5, <3>1
    <3>2. CASE t # u
      BY <2>5, <3>2, Types
    <3> QED BY <3>1, <3>2
  <2>7. ASSUME NEW t \in Topics, NEW n \in DOMAIN log'[t], n \notin DOMAIN log[t]
        PROVE  n = Len(log[t]) + 1 /\ log'[t][n] = i /\ u = t
    <3>1. t = u
      BY <2>5, <2>7
    <3>2. n = Len(log[u]) + 1
      BY <2>3, <2>4, <2>5, <2>7, <3>1
    <3> QED BY <2>4, <2>5, <3>1, <3>2
  <2>8. Len(log[u]) + 1 \in DOMAIN log'[u] /\ log'[u][Len(log[u]) + 1] = i
    BY <2>3, <2>4, <2>5
  <2>9. InLog(rows[i].topic, i)'
    BY <2>8 DEF InLog, u
  <2>10. \A t \in Topics : \A n \in DOMAIN log'[t] :
           n \in DOMAIN log[t] \/ (n = Len(log[t]) + 1 /\ log'[t][n] = i /\ rows[i].topic = t)
    BY <2>7 DEF u
  <2> QED BY <2>6, <2>9, <2>10 DEF Appended
<1> QED BY <1>2, <1>3

\* Growing topics keep what is known of the rows and the consumers.
LEMMA LogGrowsInv ==
  ASSUME IInv, LogGrows, UNCHANGED <<rows, consumerVars>>
  PROVE  /\ \A t \in Topics : \A j : InLog(t, j) => InLog(t, j)'
         /\ ConsumerInv'
         /\ dlq \subseteq dlq' => NothingIsLost'
<1>1. TypeOK /\ ConsumerInv /\ NothingIsLost
  BY DEF IInv
<1>2. ASSUME NEW t \in Topics
      PROVE  /\ log'[t] \in Seq(Ids) /\ DOMAIN log[t] = 1..Len(log[t]) /\ Len(log[t]) \in Nat
             /\ DOMAIN log'[t] = 1..Len(log'[t]) /\ Len(log'[t]) \in Nat
             /\ DOMAIN log[t] \subseteq DOMAIN log'[t]
             /\ \A n \in DOMAIN log[t] : log'[t][n] = log[t][n]
  <2>1. /\ log'[t] \in Seq(Ids) /\ Len(log[t]) <= Len(log'[t])
        /\ \A n \in 1..Len(log[t]) : log'[t][n] = log[t][n]
    BY DEF LogGrows
  <2>2. DOMAIN log[t] = 1..Len(log[t]) /\ Len(log[t]) \in Nat
    BY <1>1, Types
  <2>3. DOMAIN log'[t] = 1..Len(log'[t]) /\ Len(log'[t]) \in Nat
    BY <2>1
  <2> QED BY <2>1, <2>2, <2>3
<1>3. ASSUME NEW t \in Topics, NEW j, InLog(t, j) PROVE InLog(t, j)'
  <2>1. PICK n \in DOMAIN log[t] : log[t][n] = j
    BY <1>3 DEF InLog
  <2>2. n \in DOMAIN log'[t] /\ log'[t][n] = j
    BY <1>2, <2>1
  <2> QED BY <2>2 DEF InLog
<1>4. ConsumerInv'
  <2>1. ASSUME NEW t \in Topics
        PROVE  /\ offset[t] <= Len(log'[t])
               /\ t \in held => offset[t] < Len(log'[t])
               /\ \A n \in 1..offset[t] : log'[t][n] \in closed
               /\ t \in held => log'[t][offset[t] + 1] \in closed
    <3>1. /\ offset[t] \in Nat /\ offset[t] <= Len(log[t])
          /\ t \in held => offset[t] < Len(log[t])
          /\ \A n \in 1..offset[t] : log[t][n] \in closed
          /\ t \in held => log[t][offset[t] + 1] \in closed
      BY <1>1, Types DEF ConsumerInv
    <3>2. Len(log[t]) <= Len(log'[t]) /\ Len(log[t]) \in Nat /\ Len(log'[t]) \in Nat
      BY <1>2 DEF LogGrows
    <3>3. \A n \in 1..offset[t] : n \in DOMAIN log[t]
      BY <1>2, <3>1
    <3>4. t \in held => offset[t] + 1 \in DOMAIN log[t]
      BY <1>2, <3>1
    <3> QED BY <1>2, <3>1, <3>2, <3>3, <3>4
  <2> QED BY <1>1, <2>1 DEF ConsumerInv, consumerVars
<1>5. ASSUME dlq \subseteq dlq' PROVE NothingIsLost'
  <2>1. ASSUME NEW i \in Ids
        PROVE  /\ rows[i].state = "published" => InLog(rows[i].topic, i)'
               /\ rows[i].state = "failed" => i \in dlq'
    <3>1. rows[i].topic \in Topics
      BY <1>1, Types DEF Row
    <3>2. rows[i].state = "published" => InLog(rows[i].topic, i)
      BY <1>1 DEF NothingIsLost, InLog
    <3>3. rows[i].state = "failed" => i \in dlq
      BY <1>1 DEF NothingIsLost
    <3>4. InLog(rows[i].topic, i) => InLog(rows[i].topic, i)'
      BY <1>3, <3>1 DEF InLog
    <3> QED BY <1>5, <3>2, <3>3, <3>4
  <2> QED BY <2>1 DEF NothingIsLost, InLog, Ids
<1> QED BY <1>3, <1>4, <1>5

\* A publication, with its mark, keeps the invariant, whether the message was
\* appended or not.
LEMMA PublishInv ==
  ASSUME IInv, NEW r \in Relays, NEW i \in Ids, NEW as \in Marks,
         relay[r].pc # "idle", Due(r, i), Mark(r, i, as),
         Publish(i) \/ UNCHANGED log,
         as = "published" => Publish(i),
         as = "retried" => rows[i].attempts + 1 < MaxAttempts,
         dlq' = dlq \/ dlq' = dlq \cup {i},
         as = "dead" => i \in dlq',
         UNCHANGED <<rows, consumerVars, losses>>
  PROVE  IInv'
<1>1. TypeOK /\ RowInv /\ RelayInv /\ ClaimsAreExclusive /\ LogInv
  BY DEF IInv
<1>2. Appended(i)
  BY <1>1, PublishGrows
<1>3. /\ \A t \in Topics : \A j : InLog(t, j) => InLog(t, j)'
      /\ ConsumerInv' /\ NothingIsLost'
  <2>1. dlq \subseteq dlq'
    OBVIOUS
  <2>2. LogGrows
    BY <1>2 DEF Appended
  <2> QED BY <2>1, <2>2, LogGrowsInv
<1>4. as = "published" => InLog(rows[i].topic, i)'
  BY <1>2 DEF Appended
<1>5. \A j \in Ids : rows[j].topic \in Topics
  BY <1>1, Types DEF Row
<1>6. i \in relay[r].todo
  BY DEF Due
<1>0. PICK mk : mk = [row |-> i, as |-> as]
  OBVIOUS
<1>7. /\ relay' \in [Relays -> [pc : RelayStates, todo : SUBSET Ids,
                                marks : SUBSET [row : Ids, as : Marks]]]
      /\ \A q \in Relays : q # r => relay'[q] = relay[q]
      /\ relay'[r].todo \subseteq relay[r].todo
      /\ relay'[r].pc = "publishing" =>
           /\ relay[r].pc = "publishing" /\ relay'[r].todo \subseteq relay[r].todo \ {i}
           /\ relay'[r].marks = relay[r].marks \cup {mk}
  <2>1. PICK e : /\ relay' = [relay EXCEPT ![r] = e]
                 /\ \/ relay[r].pc = "orphaned" /\ e = Free
                    \/ e = Busy(relay[r].pc, relay[r].todo \ {i},
                                relay[r].marks \cup {mk})
    BY <1>0 DEF Mark
  <2>2. /\ relay[r].pc \in RelayStates /\ relay[r].todo \subseteq Ids
        /\ relay[r].marks \subseteq [row : Ids, as : Marks]
    BY <1>1, Types
  <2>3. /\ e \in [pc : RelayStates, todo : SUBSET Ids, marks : SUBSET [row : Ids, as : Marks]]
        /\ e.todo \subseteq relay[r].todo
        /\ e.pc = "publishing" =>
             /\ relay[r].pc = "publishing" /\ e.todo \subseteq relay[r].todo \ {i}
             /\ e.marks = relay[r].marks \cup {mk}
    <3>1. CASE e = Free
      BY <3>1 DEF Free, Busy, RelayStates
    <3>2. CASE e = Busy(relay[r].pc, relay[r].todo \ {i},
                        relay[r].marks \cup {mk})
      <4>1. PICK todo, marks : /\ todo = relay[r].todo \ {i}
                               /\ marks = relay[r].marks \cup {mk}
        OBVIOUS
      <4>2. todo \in SUBSET Ids /\ marks \in SUBSET [row : Ids, as : Marks]
        <5>1. mk \in [row : Ids, as : Marks]
          BY <1>0
        <5> QED BY <2>2, <4>1, <5>1
      <4>3. e = [pc |-> relay[r].pc, todo |-> todo, marks |-> marks]
        BY <3>2, <4>1 DEF Busy
      <4>4. /\ e \in [pc : RelayStates, todo : SUBSET Ids, marks : SUBSET [row : Ids, as : Marks]]
            /\ e.pc = relay[r].pc /\ e.todo = todo /\ e.marks = marks
        BY <2>2, <4>2, <4>3
      <4> QED BY <4>1, <4>4
    <3> QED BY <2>1, <3>1, <3>2
  <2> QED BY <1>1, <2>1, <2>3 DEF TypeOK
<1>8. TypeOK'
  <2>1. dlq' \subseteq Ids /\ Ids' = Ids
    BY <1>1 DEF TypeOK, Ids
  <2>2. log' \in [Topics -> Seq(Ids)]
    BY <1>2 DEF Appended, LogGrows
  <2> QED BY <1>1, <1>7, <2>1, <2>2 DEF TypeOK, consumerVars
<1>9. RowInv'
  BY <1>1 DEF RowInv, Ids, Written
<1>10. RelayInv'
  <2>1. ASSUME NEW q \in Relays, NEW k \in relay'[q].todo
        PROVE  /\ k \in relay[q].todo
               /\ Written(k)' /\ \A j \in rows'[k].preds : InLog(rows[k].topic, j)'
    <3>1. k \in relay[q].todo /\ k \in Ids
      BY <1>1, <1>7, <2>1, Types
    <3>2. Written(k) /\ \A j \in rows[k].preds : InLog(rows[k].topic, j)
      BY <1>1, <3>1 DEF RelayInv
    <3>3. ASSUME NEW j \in rows[k].preds PROVE InLog(rows[k].topic, j)'
      BY <1>3, <1>5, <3>1, <3>2 DEF InLog
    <3> QED BY <3>1, <3>2, <3>3 DEF Written
  <2>2. ASSUME NEW q \in Relays, relay'[q].pc = "publishing"
        PROVE  /\ relay[q].pc = "publishing"
               /\ \A k \in relay'[q].todo : rows'[k].state = "pending"
    BY <1>1, <1>7, <2>1, <2>2 DEF RelayInv
  <2>3. ASSUME NEW q \in Relays, relay'[q].pc = "publishing", NEW m \in relay'[q].marks
        PROVE  /\ rows'[m.row].state = "pending"
               /\ m.as = "published" => InLog(rows[m.row].topic, m.row)'
               /\ m.as = "retried" => rows'[m.row].attempts + 1 < MaxAttempts
               /\ m.as = "dead" => m.row \in dlq'
    <3>1. relay[q].pc = "publishing"
      BY <2>2, <2>3
    <3>2. CASE m \in relay[q].marks
      <4>1. /\ rows[m.row].state = "pending"
            /\ m.as = "published" => InLog(rows[m.row].topic, m.row)
            /\ m.as = "retried" => rows[m.row].attempts + 1 < MaxAttempts
            /\ m.as = "dead" => m.row \in dlq
        BY <1>1, <3>1, <3>2 DEF RelayInv
      <4>2. m.row \in Ids
        BY <1>1, <3>2, Types
      <4>3. InLog(rows[m.row].topic, m.row) => InLog(rows[m.row].topic, m.row)'
        BY <1>3, <1>5, <4>2 DEF InLog
      <4> QED BY <4>1, <4>3
    <3>3. CASE m \notin relay[q].marks
      <4>1. q = r /\ m = mk
        BY <1>7, <2>3, <3>3
      <4>2. m.row = i /\ m.as = as
        BY <1>0, <4>1
      <4>3. rows[i].state = "pending"
        BY <1>1, <1>6, <3>1, <4>1 DEF RelayInv
      <4> QED BY <1>4, <4>2, <4>3
    <3> QED BY <3>2, <3>3
  <2> QED BY <2>1, <2>2, <2>3 DEF RelayInv
<1>11. ClaimsAreExclusive'
  <2>1. \A q \in Relays : relay'[q].pc = "publishing" =>
          relay[q].pc = "publishing" /\ Claimed(q)' \subseteq Claimed(q)
    <3>1. ASSUME relay'[r].pc = "publishing" PROVE Claimed(r)' \subseteq Claimed(r)
      <4>1. relay'[r].marks = relay[r].marks \cup {mk}
        BY <1>7, <3>1
      <4>2. \A m \in relay'[r].marks : m \in relay[r].marks \/ m.row = i
        <5>1. mk.row = i
          BY <1>0
        <5> QED BY <4>1, <5>1
      <4> QED BY <1>6, <1>7, <4>2 DEF Claimed
    <3>2. \A q \in Relays : q # r => Claimed(q)' = Claimed(q)
      BY <1>7 DEF Claimed
    <3> QED BY <1>7, <3>1, <3>2
  <2> QED BY <1>1, <2>1 DEF ClaimsAreExclusive
<1>12. LogInv'
  <2> SUFFICES ASSUME NEW t \in Topics, NEW n \in DOMAIN log'[t]
               PROVE  /\ Written(log'[t][n])
                      /\ \A j \in rows[log'[t][n]].preds : \E m \in 1..n - 1 : log'[t][m] = j
    BY DEF LogInv, Written
  <2>1. /\ DOMAIN log[t] = 1..Len(log[t]) /\ Len(log[t]) \in Nat
        /\ \A m \in 1..Len(log[t]) : log'[t][m] = log[t][m]
    BY <1>1, <1>2, Types DEF Appended, LogGrows
  <2>2. CASE n \in DOMAIN log[t]
    <3>1. /\ Written(log[t][n])
          /\ \A j \in rows[log[t][n]].preds : \E m \in 1..n - 1 : log[t][m] = j
      BY <1>1, <2>2 DEF LogInv
    <3>2. log'[t][n] = log[t][n] /\ \A m \in 1..n - 1 : log'[t][m] = log[t][m]
      BY <2>1, <2>2
    <3> QED BY <3>1, <3>2
  <2>3. CASE n \notin DOMAIN log[t]
    <3>1. n = Len(log[t]) + 1 /\ log'[t][n] = i /\ rows[i].topic = t
      BY <1>2, <2>3 DEF Appended
    <3>2. Written(i) /\ \A j \in rows[i].preds : InLog(t, j)
      BY <1>1, <1>6, <3>1 DEF RelayInv
    <3>3. ASSUME NEW j \in rows[i].preds PROVE \E m \in 1..n - 1 : log'[t][m] = j
      <4>1. PICK m \in DOMAIN log[t] : log[t][m] = j
        BY <3>2, <3>3 DEF InLog
      <4>2. m \in 1..n - 1 /\ log'[t][m] = j
        BY <2>1, <3>1, <4>1
      <4> QED BY <4>2
    <3> QED BY <3>1, <3>2, <3>3
  <2> QED BY <2>2, <2>3
<1>13. MarkInv'
  <2>1. ASSUME NEW q \in Relays, relay'[q].pc = "publishing", NEW m \in relay'[q].marks,
               NEW l \in relay'[q].marks
        PROVE  m.row \notin relay'[q].todo /\ (l.row = m.row => l = m)
    <3>1. MarkInv /\ mk.row = i
      BY <1>0 DEF IInv
    <3>2. CASE q # r
      BY <1>7, <2>1, <3>1, <3>2 DEF MarkInv
    <3>3. CASE q = r
      <4>1. /\ relay[r].pc = "publishing" /\ relay'[r].todo \subseteq relay[r].todo \ {i}
            /\ relay'[r].marks = relay[r].marks \cup {mk}
        BY <1>7, <2>1, <3>3
      <4>2. \A k \in relay[r].marks : k.row # i
        BY <1>6, <3>1, <4>1 DEF MarkInv
      <4> QED BY <2>1, <3>1, <3>3, <4>1, <4>2 DEF MarkInv
    <3> QED BY <3>2, <3>3
  <2> QED BY <2>1 DEF MarkInv
<1> QED BY <1>3, <1>8, <1>9, <1>10, <1>11, <1>12, <1>13 DEF IInv

-----------------------------------------------------------------------------
\* What COMMIT makes of a row: nothing, or what its mark says.
CommittedAs(i, r, e) ==
  /\ e \in Row
  /\ e.aggregate = rows[i].aggregate /\ e.topic = rows[i].topic /\ e.preds = rows[i].preds
  /\ \/ e = rows[i]
     \/ /\ rows[i].state = "pending" /\ i \in Claimed(r)
        /\ \/ e.state = "published" /\ InLog(rows[i].topic, i)
           \/ e.state = "pending" /\ e.attempts < MaxAttempts
           \/ e.state = "failed" /\ i \in dlq

\* The marks are true of the rows they are written to: those have been locked,
\* hence pending, since they were claimed.
LEMMA MarkedRowFacts ==
  ASSUME IInv, NEW r \in Relays, relay[r].pc = "publishing", NEW i \in Ids
  PROVE  CommittedAs(i, r, MarkedRow(i, rows[i], relay[r].marks))
<1> USE OutboxAssumption
<1>1. PICK e, row, marks : /\ e = MarkedRow(i, row, marks)
                           /\ row = rows[i] /\ marks = relay[r].marks
  OBVIOUS
<1>2. TypeOK /\ RowInv /\ RelayInv /\ MarkInv
  BY DEF IInv
<1>3. row \in Row
  BY <1>1, <1>2, Types
<1>4. ASSUME NEW as \in Marks, [row |-> i, as |-> as] \in marks
      PROVE  /\ row.state = "pending" /\ i \in Claimed(r)
             /\ row.attempts \in 0..MaxAttempts /\ row.attempts + 1 \in 0..MaxAttempts
             /\ as = "published" => InLog(rows[i].topic, i)
             /\ as = "retried" => row.attempts + 1 < MaxAttempts
             /\ as = "dead" => i \in dlq
             /\ \A other \in Marks \ {as} : [row |-> i, as |-> other] \notin marks
  <2>1. PICK m \in relay[r].marks : m.row = i /\ m.as = as
    BY <1>1, <1>4
  <2>2. /\ row.state = "pending"
        /\ as = "published" => InLog(rows[i].topic, i)
        /\ as = "retried" => row.attempts + 1 < MaxAttempts
        /\ as = "dead" => i \in dlq
    BY <1>1, <1>2, <2>1 DEF RelayInv
  <2>3. i \in Claimed(r)
    BY <2>1 DEF Claimed
  <2>4. row.attempts \in 0..MaxAttempts /\ row.attempts < MaxAttempts
    BY <1>1, <1>2, <1>3, <2>2 DEF RowInv, Row
  <2>5. ASSUME NEW other \in Marks \ {as} PROVE [row |-> i, as |-> other] \notin marks
    <3>1. PICK l : l = [row |-> i, as |-> other]
      OBVIOUS
    <3>2. l.row = i /\ l.as = other
      BY <3>1
    <3>3. l \notin relay[r].marks
      BY <1>2, <2>1, <3>2 DEF MarkInv
    <3> QED BY <1>1, <3>1, <3>3
  <2>6. row.attempts + 1 \in 0..MaxAttempts
    BY <2>4
  <2>7. \A other \in Marks \ {as} : [row |-> i, as |-> other] \notin marks
    BY <2>5
  <2> QED BY <2>2, <2>3, <2>4, <2>6, <2>7, Zenon
<1>5. CASE [row |-> i, as |-> "published"] \in marks
  <2>1. e = [row EXCEPT !.state = "published"]
    <3>1. [row |-> i, as |-> "retried"] \notin marks /\ [row |-> i, as |-> "dead"] \notin marks
      BY <1>4, <1>5 DEF Marks
    <3> QED BY <1>1, <1>5, <3>1 DEF MarkedRow
  <2>2. row.state = "pending" /\ i \in Claimed(r) /\ InLog(rows[i].topic, i)
    <3>1. "published" \in Marks
      BY DEF Marks
    <3> QED BY <1>4, <1>5, <3>1
  <2>3. /\ e \in Row /\ e.state = "published"
        /\ e.aggregate = row.aggregate /\ e.topic = row.topic /\ e.preds = row.preds
    BY <1>3, <2>1 DEF Row, RowStates
  <2>4. CommittedAs(i, r, e)
    BY <1>1, <2>2, <2>3 DEF CommittedAs
  <2> QED BY <1>1, <2>4
<1>6. CASE /\ [row |-> i, as |-> "published"] \notin marks
           /\ [row |-> i, as |-> "retried"] \in marks
  <2>1. e = [row EXCEPT !.attempts = row.attempts + 1]
    <3>1. [row |-> i, as |-> "dead"] \notin marks
      BY <1>4, <1>6 DEF Marks
    <3> QED BY <1>1, <1>6, <3>1 DEF MarkedRow
  <2>2. /\ row.state = "pending" /\ i \in Claimed(r)
        /\ row.attempts + 1 < MaxAttempts /\ row.attempts + 1 \in 0..MaxAttempts
    BY <1>4, <1>6 DEF Marks
  <2>3. /\ e \in Row /\ e.state = row.state /\ e.attempts = row.attempts + 1
        /\ e.aggregate = row.aggregate /\ e.topic = row.topic /\ e.preds = row.preds
    BY <1>3, <2>1, <2>2 DEF Row, RowStates
  <2>4. CommittedAs(i, r, e)
    BY <1>1, <2>2, <2>3 DEF CommittedAs
  <2> QED BY <1>1, <2>4
<1>7. CASE /\ [row |-> i, as |-> "published"] \notin marks
           /\ [row |-> i, as |-> "retried"] \notin marks
           /\ [row |-> i, as |-> "dead"] \in marks
  <2>1. e = [row EXCEPT !.state = "failed", !.attempts = row.attempts + 1]
    BY <1>1, <1>7 DEF MarkedRow
  <2>2. /\ row.state = "pending" /\ i \in Claimed(r) /\ i \in dlq
        /\ row.attempts + 1 \in 0..MaxAttempts
    BY <1>4, <1>7 DEF Marks
  <2>3. /\ e \in Row /\ e.state = "failed"
        /\ e.aggregate = row.aggregate /\ e.topic = row.topic /\ e.preds = row.preds
    BY <1>3, <2>1, <2>2 DEF Row, RowStates
  <2>4. CommittedAs(i, r, e)
    BY <1>1, <2>2, <2>3 DEF CommittedAs
  <2> QED BY <1>1, <2>4
<1>8. CASE /\ [row |-> i, as |-> "published"] \notin marks
           /\ [row |-> i, as |-> "retried"] \notin marks
           /\ [row |-> i, as |-> "dead"] \notin marks
  <2>1. e = row
    BY <1>1, <1>8 DEF MarkedRow
  <2>2. CommittedAs(i, r, e)
    BY <1>1, <1>3, <2>1 DEF CommittedAs
  <2> QED BY <1>1, <2>2
<1> QED BY <1>5, <1>6, <1>7, <1>8

\* COMMIT changes the rows as their marks say.
LEMMA CommitBatchGrows ==
  ASSUME IInv, NEW r \in Relays, CommitBatch(r)
  PROVE  /\ \A i \in Ids : CommittedAs(i, r, rows'[i])
         /\ rows' \in Seq(Row) /\ Len(rows') = Len(rows) /\ Ids' = Ids /\ Grow
<1>1. TypeOK
  BY DEF IInv
<1>2. relay[r].pc = "publishing"
  BY DEF CommitBatch
<1>3. rows' = [i \in Ids |-> MarkedRow(i, rows[i], relay[r].marks)]
  BY DEF CommitBatch
<1>4. \A i \in Ids : CommittedAs(i, r, rows'[i])
  BY <1>2, <1>3, MarkedRowFacts
<1>5. rows' \in Seq(Row) /\ Len(rows') = Len(rows) /\ Ids' = Ids
  <2>1. rows' \in [1..Len(rows) -> Row] /\ Len(rows) \in Nat
    BY <1>1, <1>3, <1>4, Types DEF CommittedAs, Ids
  <2>2. rows' \in Seq(Row) /\ Len(rows') = Len(rows)
    BY <2>1
  <2> QED BY <2>2 DEF Ids
<1>6. Grow
  BY <1>4, <1>5 DEF Grow, CommittedAs, Written
<1> QED BY <1>4, <1>5, <1>6

\* COMMIT keeps the invariant.
LEMMA CommitBatchInv == ASSUME IInv, NEW r \in Relays, CommitBatch(r) PROVE IInv'
<1> USE OutboxAssumption
<1>1. /\ TypeOK /\ RowInv /\ RelayInv /\ MarkInv /\ ClaimsAreExclusive
      /\ NothingIsLost /\ LogInv /\ ConsumerInv
  BY DEF IInv
<1>2. /\ UNCHANGED <<log, dlq, offset, held, inbox, effects, closed, losses>>
      /\ relay[r].pc = "publishing" /\ relay[r].todo = {}
      /\ relay' = [relay EXCEPT ![r] = Free]
  BY DEF CommitBatch, kafkaVars, consumerVars
<1>4. \A i \in Ids : CommittedAs(i, r, rows'[i])
  BY CommitBatchGrows
<1>5. rows' \in Seq(Row) /\ Len(rows') = Len(rows) /\ Ids' = Ids
  BY CommitBatchGrows
<1>6. Grow
  BY CommitBatchGrows
<1>7. RowInv'
  <2>1. \A k \in Ids : rows'[k].state \in {"open", "pending"} => rows'[k].attempts < MaxAttempts
    BY <1>1, <1>4 DEF RowInv, CommittedAs
  <2> QED BY <1>1, <1>5, <1>6, <2>1, GrowRows
<1>8. /\ relay'[r].pc = "idle" /\ relay'[r].todo = {} /\ relay'[r].marks = {}
      /\ \A q \in Relays : q # r => relay'[q] = relay[q]
      /\ relay' \in [Relays -> [pc : RelayStates, todo : SUBSET Ids,
                                marks : SUBSET [row : Ids, as : Marks]]]
  <2>1. /\ Free \in [pc : RelayStates, todo : SUBSET Ids, marks : SUBSET [row : Ids, as : Marks]]
        /\ Free.pc = "idle" /\ Free.todo = {} /\ Free.marks = {}
    BY DEF Free, Busy, RelayStates
  <2> QED BY <1>1, <1>2, <2>1 DEF TypeOK
<1>9. TypeOK' /\ LogInv' /\ ConsumerInv'
  <2>1. TypeOK'
    BY <1>1, <1>2, <1>5, <1>8 DEF TypeOK, Row
  <2>2. LogInv'
    BY <1>1, <1>2, <1>6, GrowLog
  <2>3. ConsumerInv'
    BY <1>1, <1>2, ConsumerFrame DEF consumerVars
  <2> QED BY <2>1, <2>2, <2>3
<1>10. RelayInv'
  <2>1. ASSUME NEW q \in Relays, NEW i \in relay'[q].todo
        PROVE  Written(i)' /\ \A j \in rows'[i].preds : InLog(rows[i].topic, j)'
    <3>1. i \in relay[q].todo /\ i \in Ids
      BY <1>1, <1>8, <2>1, Types
    <3>2. Written(i)' /\ rows'[i].preds = rows[i].preds /\ rows'[i].topic = rows[i].topic
      BY <1>1, <1>6, <3>1 DEF RelayInv, Grow, Written
    <3> QED BY <1>1, <1>2, <3>1, <3>2 DEF RelayInv, InLog
  <2>2. ASSUME NEW q \in Relays, relay'[q].pc = "publishing", NEW i \in Claimed(q)
        PROVE  relay'[q] = relay[q] /\ rows'[i] = rows[i]
    <3>1. q # r /\ relay'[q] = relay[q]
      BY <1>8, <2>2
    <3>2. i \in Ids
      BY <1>1, <2>2, Types DEF Claimed
    <3>3. i \notin Claimed(r)
      BY <1>1, <1>2, <2>2, <3>1 DEF ClaimsAreExclusive
    <3> QED BY <1>4, <3>1, <3>2, <3>3 DEF CommittedAs
  <2>3. ASSUME NEW q \in Relays, relay'[q].pc = "publishing"
        PROVE  /\ relay'[q] = relay[q]
               /\ \A i \in relay[q].todo : rows'[i] = rows[i]
               /\ \A m \in relay[q].marks : rows'[m.row] = rows[m.row]
    BY <1>8, <2>2, <2>3 DEF Claimed
  <2>4. ASSUME NEW q \in Relays, relay'[q].pc = "publishing", NEW i \in relay'[q].todo
        PROVE  rows'[i].state = "pending"
    BY <1>1, <2>3, <2>4 DEF RelayInv
  <2>5. ASSUME NEW q \in Relays, relay'[q].pc = "publishing", NEW m \in relay'[q].marks
        PROVE  /\ rows'[m.row].state = "pending"
               /\ m.as = "published" => InLog(rows[m.row].topic, m.row)'
               /\ m.as = "retried" => rows'[m.row].attempts + 1 < MaxAttempts
               /\ m.as = "dead" => m.row \in dlq'
    <3>1. relay'[q] = relay[q] /\ rows'[m.row] = rows[m.row]
      BY <2>3, <2>5
    <3> QED BY <1>1, <1>2, <2>5, <3>1 DEF RelayInv, InLog
  <2> QED BY <2>1, <2>4, <2>5 DEF RelayInv
<1>11. ClaimsAreExclusive'
  BY <1>1, <1>8 DEF ClaimsAreExclusive, Claimed
<1>12. NothingIsLost'
  <2>1. ASSUME NEW i \in Ids
        PROVE  /\ rows'[i].state = "published" => InLog(rows[i].topic, i)'
               /\ rows'[i].state = "failed" => i \in dlq'
    <3>1. CommittedAs(i, r, rows'[i])
      BY <1>4
    <3>2. /\ rows'[i].state = "published" => InLog(rows[i].topic, i)
          /\ rows'[i].state = "failed" => i \in dlq
      BY <1>1, <3>1 DEF CommittedAs, NothingIsLost, InLog
    <3>3. rows'[i].topic = rows[i].topic
      BY <3>1 DEF CommittedAs
    <3> QED BY <1>2, <3>2, <3>3 DEF InLog
  <2> QED BY <1>5, <2>1 DEF NothingIsLost, InLog
<1>13. MarkInv'
  BY <1>1, <1>8 DEF MarkInv
<1> QED BY <1>7, <1>9, <1>10, <1>11, <1>12, <1>13 DEF IInv

-----------------------------------------------------------------------------
\* Steps of a consumer touch nothing of the outbox or the topics.
LEMMA OutboxFrame ==
  ASSUME IInv, UNCHANGED <<rows, relay, log, dlq, losses>>
  PROVE  RowInv' /\ RelayInv' /\ MarkInv' /\ ClaimsAreExclusive' /\ NothingIsLost' /\ LogInv'
BY DEF IInv, RowInv, RelayInv, MarkInv, ClaimsAreExclusive, Claimed, NothingIsLost, LogInv, InLog,
       Ids, Written

\* The message a consumer handles next, and what came before it.
LEMMA FetchedFacts ==
  ASSUME IInv, NEW t \in Topics, NEW i \in Ids, HandleStep(t, i)
  PROVE  /\ i = log[t][offset[t] + 1] /\ offset[t] + 1 \in DOMAIN log[t]
         /\ t \notin held /\ offset[t] < Len(log[t])
         /\ Written(i) /\ rows[i].preds \subseteq closed
         /\ held' = held \cup {t} /\ UNCHANGED <<rows, relay, log, dlq, offset, losses>>
<1>1. /\ i = log[t][offset[t] + 1] /\ t \notin held /\ offset[t] < Len(log[t])
      /\ held' = held \cup {t} /\ UNCHANGED <<rows, relay, log, dlq, offset, losses>>
  BY DEF HandleStep, Fetched, kafkaVars
<1>2. TypeOK /\ LogInv /\ ConsumerInv
  BY DEF IInv
<1>3. offset[t] \in Nat /\ Len(log[t]) \in Nat /\ DOMAIN log[t] = 1..Len(log[t])
  BY <1>2, Types
<1>4. PICK n \in DOMAIN log[t] : n = offset[t] + 1 /\ n - 1 = offset[t]
  BY <1>1, <1>3
<1>5. Written(i) /\ \A j \in rows[i].preds : \E m \in 1..offset[t] : log[t][m] = j
  <2>1. log[t][n] = i
    BY <1>1, <1>4
  <2>2. Written(log[t][n]) /\ \A j \in rows[log[t][n]].preds : \E m \in 1..n - 1 : log[t][m] = j
    BY <1>2 DEF LogInv
  <2> QED BY <1>4, <2>1, <2>2
<1>6. rows[i].preds \subseteq closed
  BY <1>2, <1>5 DEF ConsumerInv
<1> QED BY <1>1, <1>4, <1>5, <1>6

\* The sequence of effects gets one event longer.
LEMMA AppendEffect ==
  ASSUME NEW S, NEW s \in Seq(S), NEW i \in S
  PROVE  /\ Append(s, i) \in Seq(S)
         /\ {Append(s, i)[n] : n \in DOMAIN Append(s, i)} = {s[n] : n \in DOMAIN s} \cup {i}
<1> DEFINE u == Append(s, i)
<1>1. /\ u \in Seq(S) /\ Len(s) \in Nat /\ Len(u) = Len(s) + 1 /\ u[Len(s) + 1] = i
      /\ \A n \in 1..Len(s) : u[n] = s[n]
      /\ DOMAIN s = 1..Len(s) /\ DOMAIN u = 1..Len(u)
  OBVIOUS
<1> HIDE DEF u
<1>2. \A n \in 1..Len(u) : n \in 1..Len(s) \/ n = Len(s) + 1
  BY <1>1
<1>3. 1..Len(s) \subseteq 1..Len(u) /\ Len(s) + 1 \in 1..Len(u)
  BY <1>1
<1>4. {u[n] : n \in DOMAIN u} = {s[n] : n \in DOMAIN s} \cup {i}
  BY <1>1, <1>2, <1>3
<1> QED BY <1>1, <1>4 DEF u

\* Handling a message, once or again, keeps the invariant.
LEMMA HandleInv ==
  ASSUME IInv, NEW t \in Topics, NEW i \in Ids, Process(t, i) \/ ProcessFails(t, i)
  PROVE  IInv'
<1>1. HandleStep(t, i)
  BY DEF Process, ProcessFails
<1>2. /\ i = log[t][offset[t] + 1] /\ t \notin held /\ offset[t] < Len(log[t])
      /\ held' = held \cup {t} /\ UNCHANGED <<rows, relay, log, dlq, offset, losses>>
  BY <1>1, FetchedFacts
<1>3. TypeOK /\ ConsumerInv
  BY DEF IInv
<1>4. /\ closed' = closed \cup {i}
      /\ \/ UNCHANGED <<inbox, effects>>
         \/ i \notin inbox /\ inbox' = inbox \cup {i} /\ effects' = Append(effects, i)
  BY <1>3 DEF Process, ProcessFails, ConsumerInv
<1>5. /\ effects' \in Seq(Ids) /\ inbox' \subseteq Ids /\ inbox' \subseteq closed'
      /\ inbox' = {effects'[n] : n \in DOMAIN effects'}
  <2>1. CASE UNCHANGED <<inbox, effects>>
    BY <1>3, <1>4, <2>1 DEF TypeOK, ConsumerInv
  <2>2. CASE inbox' = inbox \cup {i} /\ effects' = Append(effects, i)
    <3>1. effects \in Seq(Ids) /\ inbox \subseteq Ids /\ inbox \subseteq closed
          /\ inbox = {effects[n] : n \in DOMAIN effects}
      BY <1>3 DEF TypeOK, ConsumerInv
    <3>2. /\ effects' \in Seq(Ids)
          /\ {effects'[n] : n \in DOMAIN effects'} = {effects[n] : n \in DOMAIN effects} \cup {i}
      BY <2>2, <3>1, AppendEffect
    <3> QED BY <1>4, <2>2, <3>1, <3>2
  <2> QED BY <1>4, <2>1, <2>2
<1>6. Ids' = Ids
  BY <1>2 DEF Ids
<1>7. TypeOK'
  BY <1>2, <1>3, <1>4, <1>5, <1>6 DEF TypeOK
<1>8. ConsumerInv'
  <2>1. ASSUME NEW u \in Topics
        PROVE  /\ offset[u] <= Len(log[u])
               /\ u \in held' => offset[u] < Len(log[u])
               /\ \A n \in 1..offset[u] : log[u][n] \in closed'
               /\ u \in held' => log[u][offset[u] + 1] \in closed'
    BY <1>2, <1>3, <1>4 DEF ConsumerInv
  <2> QED BY <1>2, <1>5, <2>1 DEF ConsumerInv
<1> QED BY <1>2, <1>7, <1>8, OutboxFrame DEF IInv

\* A committed offset passes a message that is closed.
LEMMA CommitMessagesInv ==
  ASSUME IInv, NEW t \in Topics, CommitMessages(t)
  PROVE  IInv'
<1>1. /\ t \in held /\ held' = held \ {t} /\ offset' = [offset EXCEPT ![t] = offset[t] + 1]
      /\ UNCHANGED <<rows, relay, log, dlq, inbox, effects, closed, losses>>
  BY DEF CommitMessages, kafkaVars
<1>2. TypeOK /\ ConsumerInv
  BY DEF IInv
<1>3. Ids' = Ids
  BY <1>1 DEF Ids
<1>4. TypeOK'
  <2>1. offset' \in [Topics -> Nat] /\ held' \subseteq Topics
    BY <1>1, <1>2 DEF TypeOK
  <2> QED BY <1>1, <1>2, <1>3, <2>1 DEF TypeOK
<1>5. ConsumerInv'
  <2>1. ASSUME NEW u \in Topics
        PROVE  /\ offset'[u] <= Len(log[u])
               /\ u \in held' => offset'[u] < Len(log[u])
               /\ \A n \in 1..offset'[u] : log[u][n] \in closed
               /\ u \in held' => log[u][offset'[u] + 1] \in closed
    <3>1. CASE u # t
      BY <1>1, <1>2, <3>1 DEF ConsumerInv, TypeOK
    <3>2. CASE u = t
      <4>1. /\ offset[t] \in Nat /\ Len(log[t]) \in Nat /\ offset'[t] = offset[t] + 1
            /\ t \notin held'
        BY <1>1, <1>2, Types DEF TypeOK
      <4>2. /\ offset[t] < Len(log[t]) /\ log[t][offset[t] + 1] \in closed
            /\ \A n \in 1..offset[t] : log[t][n] \in closed
        BY <1>1, <1>2 DEF ConsumerInv
      <4>3. \A n \in 1..offset[t] + 1 : n \in 1..offset[t] \/ n = offset[t] + 1
        BY <4>1
      <4> QED BY <3>2, <4>1, <4>2, <4>3
    <3> QED BY <3>1, <3>2
  <2> QED BY <1>1, <1>2, <2>1 DEF ConsumerInv
<1> QED BY <1>1, <1>4, <1>5, OutboxFrame DEF IInv

\* A consumer that stops goes back to its committed offset.
LEMMA ConsumerStopsInv ==
  ASSUME IInv, NEW t \in Topics, ConsumerStops(t)
  PROVE  IInv'
<1>1. /\ held' = held \ {t}
      /\ UNCHANGED <<rows, relay, log, dlq, offset, inbox, effects, closed, losses>>
  BY DEF ConsumerStops, kafkaVars
<1>2. TypeOK'
  BY <1>1 DEF IInv, TypeOK, Ids
<1>3. ConsumerInv'
  BY <1>1 DEF IInv, ConsumerInv
<1> QED BY <1>1, <1>2, <1>3, OutboxFrame DEF IInv

\* Every step keeps the invariant.
LEMMA NextInv == ASSUME IInv, [Next]_vars PROVE IInv'
<1>1. CASE Business
  BY <1>1, BusinessInv
<1>2. ASSUME NEW r \in Relays, RelayStep(r) PROVE IInv'
  <2>1. CASE Claim(r)
    BY <2>1, ClaimInv
  <2>2. CASE CommitBatch(r)
    BY <2>2, CommitBatchInv
  <2>3. ASSUME NEW i \in Ids, PublishSucceeds(r, i) PROVE IInv'
    <3>1. "published" \in Marks /\ "published" # "retried" /\ "published" # "dead"
      BY DEF Marks
    <3>2. /\ relay[r].pc # "idle" /\ Due(r, i) /\ Mark(r, i, "published") /\ Publish(i)
          /\ dlq' = dlq /\ UNCHANGED <<rows, consumerVars, losses>>
      BY <2>3 DEF PublishSucceeds
    <3> QED BY <3>1, <3>2, PublishInv
  <2>4. ASSUME NEW i \in Ids, PublishFails(r, i) PROVE IInv'
    <3>1. /\ relay[r].pc # "idle" /\ Due(r, i) /\ (Publish(i) \/ UNCHANGED log)
          /\ UNCHANGED <<rows, consumerVars, losses>>
      BY <2>4 DEF PublishFails
    <3>2. CASE rows[i].attempts + 1 < MaxAttempts /\ Mark(r, i, "retried") /\ UNCHANGED dlq
      <4>1. "retried" \in Marks /\ "retried" # "published" /\ "retried" # "dead"
        BY DEF Marks
      <4>2. dlq' = dlq
        BY <3>2
      <4> QED BY <3>1, <3>2, <4>1, <4>2, PublishInv
    <3>3. CASE Mark(r, i, "dead") /\ dlq' = dlq \cup {i}
      <4>1. "dead" \in Marks /\ "dead" # "published" /\ "dead" # "retried"
        BY DEF Marks
      <4>2. i \in dlq'
        BY <3>3
      <4> QED BY <3>1, <3>3, <4>1, <4>2, PublishInv
    <3> QED BY <2>4, <3>2, <3>3 DEF PublishFails
  <2> QED BY <1>2, <2>1, <2>2, <2>3, <2>4 DEF RelayStep
<1>3. ASSUME NEW r \in Relays, RelayStops(r) \/ SessionLost(r) PROVE IInv'
  BY <1>3, StopInv
<1>4. ASSUME NEW i \in Ids, Redrive(i) PROVE IInv'
  BY <1>4, RedriveInv
<1>5. ASSUME NEW t \in Topics, ConsumerStep(t) \/ ConsumerStops(t) PROVE IInv'
  BY <1>5, HandleInv, CommitMessagesInv, ConsumerStopsInv DEF ConsumerStep
<1>6. CASE UNCHANGED vars
  <2>1. /\ UNCHANGED <<rows, log, dlq, consumerVars>> /\ losses' = losses /\ relay' = relay
    BY <1>6 DEF vars, consumerVars
  <2>2. RelayInv' /\ MarkInv' /\ ClaimsAreExclusive'
    BY <2>1, OutboxFrame, <1>6 DEF vars
  <2>3. /\ losses' \in 0..MaxLoss
        /\ relay' \in [Relays -> [pc : RelayStates, todo : SUBSET Ids,
                                  marks : SUBSET [row : Ids, as : Marks]]]
    BY <2>1 DEF IInv, TypeOK
  <2> QED BY <2>1, <2>2, <2>3, RelayFrame
<1> QED BY <1>1, <1>2, <1>3, <1>4, <1>5, <1>6 DEF Next

\* The invariant holds in every reachable state.
THEOREM Invariant == Spec => []IInv
<1>1. Init => IInv
  BY InitInv
<1>2. IInv /\ [Next]_vars => IInv'
  BY NextInv
<1> QED BY <1>1, <1>2, PTL DEF Spec

\* Every table, topic and offset keeps its type.
THEOREM TypeCorrect == Spec => []TypeOK
<1>1. IInv => TypeOK
  BY DEF IInv
<1> QED BY <1>1, Invariant, PTL

\* Rows that wait for their predecessors' publication keep a topic in order, late
\* copies of relays that lost their session included.
THEOREM TopicOrder == Spec => []TopicKeepsOrder
<1>1. IInv => TopicKeepsOrder
  BY DEF IInv, LogInv, TopicKeepsOrder
<1> QED BY <1>1, Invariant, PTL

\* The relay marks a row published only when the event is in its topic, and
\* failed only when it is in the dead-letter topic, whatever stops in between.
THEOREM NothingLost == Spec => []NothingIsLost
<1>1. IInv => NothingIsLost
  BY DEF IInv
<1> QED BY <1>1, Invariant, PTL

-----------------------------------------------------------------------------
\* The refinement.  What EventDelivery sees of a state of the outbox:
Events == [i \in Ids |-> [key |-> <<rows[i].aggregate, rows[i].topic>>, preds |-> rows[i].preds]]

WrittenIds == {i \in Ids : Written(i)}

\* Steps it does not see of the rows: none is added, committed or aborted.
SameEvents ==
  /\ Ids' = Ids
  /\ \A i \in Ids :
       /\ rows'[i].aggregate = rows[i].aggregate
       /\ rows'[i].topic = rows[i].topic
       /\ rows'[i].preds = rows[i].preds
       /\ Written(i)' <=> Written(i)

\* Such a step leaves the events and their transactions as they are.
LEMMA SameEventsStutter ==
  ASSUME SameEvents
  PROVE  Events' = Events /\ WrittenIds' = WrittenIds
<1>1. Events' = Events
  BY DEF SameEvents, Events
<1>2. WrittenIds' = WrittenIds
  BY DEF SameEvents, WrittenIds
<1> QED BY <1>1, <1>2

\* The relay's steps and a redrive are such steps.
LEMMA RelaySame ==
  ASSUME IInv,
         \/ UNCHANGED rows
         \/ \E r \in Relays : CommitBatch(r)
         \/ \E i \in Ids : Redrive(i)
  PROVE  SameEvents
<1>1. CASE UNCHANGED rows
  BY <1>1 DEF SameEvents, Ids, Written
<1>2. ASSUME NEW r \in Relays, CommitBatch(r) PROVE SameEvents
  <2>1. (\A i \in Ids : CommittedAs(i, r, rows'[i])) /\ Ids' = Ids /\ Grow
    BY <1>2, CommitBatchGrows
  <2>2. ASSUME NEW i \in Ids PROVE Written(i)' <=> Written(i)
    BY <2>1 DEF CommittedAs, Written
  <2> QED BY <2>1, <2>2 DEF SameEvents, Grow
<1>3. ASSUME NEW i \in Ids, Redrive(i) PROVE SameEvents
  <2>1. /\ Grow /\ Ids' = Ids /\ rows[i].state = "failed" /\ rows'[i].state = "pending"
        /\ \A j \in Ids : j # i => rows'[j] = rows[j]
    BY <1>3, RedriveGrows
  <2>2. ASSUME NEW j \in Ids PROVE Written(j)' <=> Written(j)
    BY <2>1 DEF Written
  <2> QED BY <2>1, <2>2 DEF SameEvents, Grow
<1> QED BY <1>1, <1>2, <1>3

\* Append, as a function.
LEMMA AppendIs ==
  ASSUME NEW S, NEW s \in Seq(S), NEW e \in S
  PROVE  Append(s, e) = [i \in 1..Len(s) + 1 |-> IF i = Len(s) + 1 THEN e ELSE s[i]]
<1> DEFINE u == Append(s, e)
<1>1. /\ u \in Seq(S) /\ Len(s) \in Nat /\ Len(u) = Len(s) + 1 /\ u[Len(s) + 1] = e
      /\ \A n \in 1..Len(s) : u[n] = s[n]
  OBVIOUS
<1> HIDE DEF u
<1>2. u \in [1..Len(s) + 1 -> S]
  BY <1>1
<1>3. \A i \in 1..Len(s) + 1 : u[i] = IF i = Len(s) + 1 THEN e ELSE s[i]
  BY <1>1
<1> QED BY <1>2, <1>3 DEF u

\* INSERT adds an event behind the committed ones of its aggregate and topic.
LEMMA InsertRefines ==
  ASSUME IInv, NEW a \in Aggregates, NEW t \in Topics, Insert(a, t)
  PROVE  Delivery!Insert(<<a, t>>)
<1> DEFINE P == {j \in Ids : Written(j) /\ rows[j].aggregate = a /\ rows[j].topic = t}
           Q == {j \in WrittenIds : Events[j].key = <<a, t>>}
<1>1. TypeOK /\ Len(rows) \in Nat
  BY Types DEF IInv
<1>2. /\ Grow /\ Len(rows') = Len(rows) + 1 /\ \A i \in Ids : rows'[i] = rows[i]
      /\ rows'[Len(rows) + 1] = [aggregate |-> a, topic |-> t, state |-> "open", attempts |-> 0,
                                 preds |-> P]
  BY InsertGrows
<1>3. P = Q
  BY DEF Events, WrittenIds
<1> HIDE DEF P, Q
<1>4. Ids' = Ids \cup {Len(rows) + 1} /\ Len(rows) + 1 \notin Ids
  BY <1>1, <1>2 DEF Ids
<1>5. WrittenIds' = WrittenIds
  <2>1. PICK n : n = Len(rows) + 1
    OBVIOUS
  <2>2. rows'[n].state = "open"
    BY <1>2, <2>1
  <2>3. ~Written(n)' /\ \A i \in Ids : Written(i)' <=> Written(i)
    BY <1>2, <2>2 DEF Written
  <2> QED BY <1>4, <2>1, <2>3 DEF WrittenIds
<1>6. Events' = Append(Events, [key |-> <<a, t>>, preds |-> Q])
  <2> DEFINE e == [key |-> <<a, t>>, preds |-> Q]
             S == {Events[i] : i \in Ids} \cup {e}
  <2>1. Events \in [1..Len(rows) -> S]
    BY DEF Events, Ids
  <2>2. Events \in Seq(S) /\ Len(Events) = Len(rows)
    BY <1>1, <2>1
  <2>3. \A i \in Ids' : Events'[i] = IF i = Len(rows) + 1 THEN e ELSE Events[i]
    BY <1>2, <1>3, <1>4 DEF Events
  <2>4. DOMAIN Events' = Ids' /\ Events' = [i \in Ids' |-> Events'[i]]
    BY DEF Events
  <2>5. Ids' = 1..Len(rows) + 1
    BY <1>2 DEF Ids
  <2> HIDE DEF e, S
  <2>6. e \in S
    BY DEF S
  <2>7. Append(Events, e) = [i \in 1..Len(rows) + 1 |-> IF i = Len(rows) + 1 THEN e ELSE Events[i]]
    BY <2>2, <2>6, AppendIs
  <2> QED BY <2>3, <2>4, <2>5, <2>7 DEF e
<1>7. UNCHANGED <<closed, effects>>
  BY DEF Insert, consumerVars
<1> QED BY <1>5, <1>6, <1>7 DEF Delivery!Insert, Events, WrittenIds, Q

\* COMMIT of the business transaction; a rollback is not seen.
LEMMA EndRefines ==
  ASSUME IInv, NEW i \in Ids, EndTransaction(i)
  PROVE  Delivery!Commit(i) \/ UNCHANGED Delivery!deliveryVars
<1>1. /\ Grow /\ Ids' = Ids /\ rows[i].state = "open"
      /\ rows'[i].state \in {"pending", "aborted"}
      /\ \A j \in Ids : j # i => rows'[j] = rows[j]
  BY EndGrows
<1>2. UNCHANGED <<closed, effects>>
  BY DEF EndTransaction, consumerVars
<1>3. CASE rows'[i].state = "aborted"
  <2>1. ASSUME NEW j \in Ids PROVE Written(j)' <=> Written(j)
    BY <1>1, <1>3 DEF Written
  <2>2. SameEvents
    BY <1>1, <2>1 DEF SameEvents, Grow
  <2>3. Events' = Events /\ WrittenIds' = WrittenIds
    BY <2>2, SameEventsStutter
  <2> QED BY <1>2, <2>3 DEF Delivery!deliveryVars, Events, WrittenIds
<1>4. CASE rows'[i].state = "pending"
  <2>1. Events' = Events
    BY <1>1 DEF Events, Grow
  <2>2. i \notin WrittenIds /\ WrittenIds' = WrittenIds \cup {i}
    BY <1>1, <1>4 DEF WrittenIds, Written
  <2>3. DOMAIN Events = Ids
    BY DEF Events
  <2>4. Delivery!Commit(i)
    BY <1>2, <2>1, <2>2, <2>3 DEF Delivery!Commit, Events, WrittenIds
  <2> QED BY <2>4
<1> QED BY <1>1, <1>3, <1>4

\* A handler first sees an event after the ones it must follow, and is not run
\* again for one that took effect.
LEMMA HandleRefines ==
  ASSUME IInv, NEW t \in Topics, NEW i \in Ids, Process(t, i) \/ ProcessFails(t, i)
  PROVE  Delivery!Apply(i) \/ Delivery!Refuse(i) \/ UNCHANGED Delivery!deliveryVars
<1>1. HandleStep(t, i)
  BY DEF Process, ProcessFails
<1>2. Written(i) /\ rows[i].preds \subseteq closed /\ UNCHANGED rows
  BY <1>1, FetchedFacts
<1>3. Events' = Events /\ WrittenIds' = WrittenIds
  BY <1>2, RelaySame, SameEventsStutter
<1>4. CASE i \in inbox
  <2>1. UNCHANGED <<closed, effects>>
    BY <1>4 DEF Process, ProcessFails
  <2> QED BY <1>3, <2>1 DEF Delivery!deliveryVars, Events, WrittenIds
<1>5. CASE i \notin inbox
  <2>1. ~Delivery!Applied(i)
    BY <1>5 DEF Delivery!Applied, IInv, ConsumerInv
  <2>2. i \in WrittenIds /\ Events[i].preds \subseteq closed
    BY <1>2 DEF WrittenIds, Events
  <2>3. Delivery!Deliverable(i)
    BY <2>1, <2>2 DEF Delivery!Deliverable, Events, WrittenIds
  <2>4. \/ closed' = closed \cup {i} /\ effects' = Append(effects, i)
        \/ closed' = closed \cup {i} /\ effects' = effects
    BY <1>5 DEF Process, ProcessFails
  <2> QED BY <1>3, <2>3, <2>4 DEF Delivery!Apply, Delivery!Refuse, Events, WrittenIds
<1> QED BY <1>4, <1>5

\* Every step of the outbox is a step of EventDelivery, or one it does not see.
LEMMA StepRefines ==
  ASSUME IInv, [Next]_vars
  PROVE  [Delivery!Next]_(Delivery!deliveryVars)
<1>1. DOMAIN Events = Ids
  BY DEF Events
<1>2. ASSUME NEW a \in Aggregates, NEW t \in Topics, Insert(a, t) PROVE Delivery!Next
  <2>1. <<a, t>> \in Aggregates \X Topics
    OBVIOUS
  <2> QED BY <1>2, <2>1, InsertRefines DEF Delivery!Next
<1>3. ASSUME NEW i \in Ids, EndTransaction(i)
      PROVE  Delivery!Next \/ UNCHANGED Delivery!deliveryVars
  BY <1>1, <1>3, EndRefines DEF Delivery!Next, Events
<1>4. ASSUME NEW t \in Topics, NEW i \in Ids, Process(t, i) \/ ProcessFails(t, i)
      PROVE  Delivery!Next \/ UNCHANGED Delivery!deliveryVars
  BY <1>1, <1>4, HandleRefines DEF Delivery!Next, Events
<1>5. ASSUME \/ \E r \in Relays : RelayStep(r) \/ RelayStops(r) \/ SessionLost(r)
             \/ \E i \in Ids : Redrive(i)
             \/ \E t \in Topics : CommitMessages(t) \/ ConsumerStops(t)
             \/ UNCHANGED vars
      PROVE  UNCHANGED Delivery!deliveryVars
  <2>1. \/ UNCHANGED rows
        \/ \E r \in Relays : CommitBatch(r)
        \/ \E i \in Ids : Redrive(i)
    BY <1>5 DEF RelayStep, Claim, PublishSucceeds, PublishFails, RelayStops, SessionLost,
                CommitMessages, ConsumerStops, vars
  <2>2. Events' = Events /\ WrittenIds' = WrittenIds
    BY <2>1, RelaySame, SameEventsStutter
  <2>3. UNCHANGED <<closed, effects>>
    BY <1>5 DEF RelayStep, Claim, CommitBatch, PublishSucceeds, PublishFails, RelayStops, SessionLost,
                Redrive, CommitMessages, ConsumerStops, consumerVars, vars
  <2> QED BY <2>2, <2>3 DEF Delivery!deliveryVars, Events, WrittenIds
<1> QED BY <1>2, <1>3, <1>4, <1>5 DEF Next, Business, ConsumerStep

\* The outbox, its relay, the topics, the consumers and the inbox together
\* implement the promise the handlers are written for: an effect at most once,
\* and no event before the ones committed ahead of it.
THEOREM DeliveryIsImplemented == Spec => ImplementsDelivery
<1>1. Init => Delivery!Init
  <2> SUFFICES ASSUME Init PROVE Delivery!Init
    OBVIOUS
  <2>1. Ids = {}
    BY DEF Init, Ids
  <2>2. Events = <<>> /\ WrittenIds = {}
    BY <2>1 DEF Events, WrittenIds
  <2> QED BY <2>2 DEF Init, Delivery!Init, Events, WrittenIds
<1>2. IInv /\ [Next]_vars => [Delivery!Next]_(Delivery!deliveryVars)
  BY StepRefines
<1> QED BY <1>1, <1>2, Invariant, PTL DEF Spec, ImplementsDelivery, Delivery!Spec
=============================================================================
