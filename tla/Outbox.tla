------------------------------- MODULE Outbox -------------------------------
(***************************************************************************)
(* How an event gets from the transaction that causes it to the handler:   *)
(* the outbox table and its relay instances (outbox/relay.go), Kafka, the  *)
(* consumer loop (consumer/consumer.go) and the inbox                      *)
(* (inbox/processor.go).  A topic has one partition and one consumer       *)
(* group, whose consumer handles one message at a time.                    *)
(*                                                                         *)
(* Left out: payloads, schema versions and time.  A row whose retry is     *)
(* scheduled becomes due, and a row exceeds the retry age, at any moment.  *)
(***************************************************************************)
EXTENDS Naturals, Sequences, FiniteSets

CONSTANTS
  Aggregates,     \* (aggregate_type, aggregate_id) pairs
  Topics,
  Relays,         \* relay instances
  BatchSize, MaxAttempts,
  Refused,        \* events whose handler never stops returning a retryable error
  MaxRows,        \* bound: events written in one behaviour
  MaxLoss         \* bound: publications repeated because a relay stopped, or redrives

ASSUME OutboxAssumption ==
  /\ BatchSize \in Nat \ {0} /\ MaxAttempts \in Nat \ {0}
  /\ MaxRows \in Nat /\ MaxLoss \in Nat

VARIABLES
  rows,       \* outbox_events, by sequence number
  relay,      \* what each relay instance holds
  log,        \* Kafka: the events of each topic, in offset order
  dlq,        \* events published to the dead-letter topic
  offset,     \* committed offset of each topic's consumer
  held,       \* topics whose consumer has handled the next message, not committed it
  inbox,      \* inbox_events
  effects,    \* history: the events whose handler committed, in that order
  closed,     \* history: events handled or refused for good at least once
  losses      \* repeated publications and redrives so far (bounded by MaxLoss)

vars == <<rows, relay, log, dlq, offset, held, inbox, effects, closed, losses>>

kafkaVars == <<log, dlq>>
consumerVars == <<offset, held, inbox, effects, closed>>

Ids == 1..Len(rows)

\* "open" is a row of a transaction that has not committed; its sequence number
\* is already taken.
RowStates == {"open", "aborted", "pending", "failed", "published"}

\* "orphaned" is a relay whose database session is gone while it still runs.
\* A busy relay holds the rows it has yet to publish and the updates it will
\* commit for the others.
RelayStates == {"idle", "publishing", "orphaned"}
Marks == {"published", "retried", "dead"}
Busy(pc, todo, marks) == [pc |-> pc, todo |-> todo, marks |-> marks]
Free == Busy("idle", {}, {})

TypeOK ==
  /\ rows \in Seq([aggregate : Aggregates, topic : Topics, preds : SUBSET (1..MaxRows),
                   state : RowStates, attempts : 0..MaxAttempts])
  /\ relay \in [Relays -> [pc : RelayStates, todo : SUBSET Ids,
                           marks : SUBSET [row : Ids, as : Marks]]]
  /\ log \in [Topics -> Seq(Ids)]
  /\ dlq \subseteq Ids
  /\ offset \in [Topics -> Nat]
  /\ held \subseteq Topics
  /\ inbox \subseteq Ids
  /\ effects \in Seq(Ids)
  /\ closed \subseteq Ids
  /\ losses \in 0..MaxLoss

Init ==
  /\ rows = <<>>
  /\ relay = [r \in Relays |-> Free]
  /\ log = [t \in Topics |-> <<>>]
  /\ dlq = {}
  /\ offset = [t \in Topics |-> 0]
  /\ held = {}
  /\ inbox = {}
  /\ effects = <<>>
  /\ closed = {}
  /\ losses = 0

-----------------------------------------------------------------------------
\* Business transactions.

Written(i) == rows[i].state \notin {"open", "aborted"}

\* INSERT INTO outbox_events.  preds is a history: the events of the same
\* aggregate and topic that this one must not overtake.
Insert(a, t) ==
  /\ Len(rows) < MaxRows
  /\ rows' = Append(rows,
       [aggregate |-> a, topic |-> t, state |-> "open", attempts |-> 0,
        preds |-> {j \in Ids : Written(j) /\ rows[j].aggregate = a /\ rows[j].topic = t}])
  /\ UNCHANGED <<relay, kafkaVars, consumerVars, losses>>

EndTransaction(i) ==
  /\ rows[i].state = "open"
  /\ \E state \in {"pending", "aborted"} : rows' = [rows EXCEPT ![i].state = state]
  /\ UNCHANGED <<relay, kafkaVars, consumerVars, losses>>

-----------------------------------------------------------------------------
\* The relay.

Claimed(r) == relay[r].todo \cup {m.row : m \in relay[r].marks}

Locked == UNION {Claimed(r) : r \in {q \in Relays : relay[q].pc = "publishing"}}

Unpublished(i) == rows[i].state \in {"pending", "failed"}

\* A claim that only waits for rows that can still be retried.
MutantClaimPastFailed(i) ==
  /\ rows[i].state = "pending" /\ i \notin Locked
  /\ ~\E j \in 1..(i - 1) : rows[j].aggregate = rows[i].aggregate /\ rows[j].state = "pending"

\* A claim that ignores the rows another relay has locked, for order as well.
MutantClaimBesideLocked(i) ==
  /\ rows[i].state = "pending" /\ i \notin Locked
  /\ ~\E j \in (1..(i - 1)) \ Locked : rows[j].aggregate = rows[i].aggregate /\ Unpublished(j)

\* A claim whose row counts as an earlier one: <= for <.
MutantClaimNever(i) ==
  /\ rows[i].state = "pending" /\ i \notin Locked
  /\ ~\E j \in 1..i : rows[j].aggregate = rows[i].aggregate /\ Unpublished(j)

\* The claim query: the earliest unpublished row of its aggregate, dead-lettered
\* rows included, unless another relay has it locked.
Claimable(i) ==
  /\ rows[i].state = "pending" /\ i \notin Locked
  /\ ~\E j \in 1..(i - 1) : rows[j].aggregate = rows[i].aggregate /\ Unpublished(j)

Claim(r) ==
  /\ relay[r].pc = "idle"
  /\ \E batch \in SUBSET {i \in Ids : Claimable(i)} \ {{}} :
       /\ Cardinality(batch) <= BatchSize
       /\ relay' = [relay EXCEPT ![r] = Busy("publishing", batch, {})]
  /\ UNCHANGED <<rows, kafkaVars, consumerVars, losses>>

\* The row a busy relay publishes next: ORDER BY sequence_number.
Due(r, i) == i \in relay[r].todo /\ \A j \in relay[r].todo : i <= j

Publish(i) == log' = [log EXCEPT ![rows[i].topic] = Append(@, i)]

\* The row's UPDATE.  An instance whose session is gone stops here.
Mark(r, i, as) ==
  relay' = [relay EXCEPT ![r] =
    IF @.pc = "orphaned" THEN Free
    ELSE Busy(@.pc, @.todo \ {i}, @.marks \cup {[row |-> i, as |-> as]})]

PublishSucceeds(r, i) ==
  /\ relay[r].pc # "idle" /\ Due(r, i)
  /\ Publish(i)
  /\ Mark(r, i, "published")
  /\ UNCHANGED <<rows, dlq, consumerVars, losses>>

\* A failure handler that allows one attempt too many.
MutantFailsLate(r, i) ==
  /\ relay[r].pc # "idle" /\ Due(r, i)
  /\ Publish(i) \/ UNCHANGED log
  /\ \/ rows[i].attempts + 1 <= MaxAttempts /\ Mark(r, i, "retried") /\ UNCHANGED dlq
     \/ Mark(r, i, "dead") /\ dlq' = dlq \cup {i}
  /\ UNCHANGED <<rows, consumerVars, losses>>

\* A failure handler that forgets the dead-letter topic.
MutantFailsSilently(r, i) ==
  /\ relay[r].pc # "idle" /\ Due(r, i)
  /\ Publish(i) \/ UNCHANGED log
  /\ \/ rows[i].attempts + 1 < MaxAttempts /\ Mark(r, i, "retried")
     \/ Mark(r, i, "dead")
  /\ UNCHANGED <<rows, dlq, consumerVars, losses>>

\* recordFailure.  The message may have been appended all the same.  attempts is
\* the count with this failure; the retry age may be exceeded at any count.
PublishFails(r, i) ==
  /\ relay[r].pc # "idle" /\ Due(r, i)
  /\ Publish(i) \/ UNCHANGED log
  /\ \/ rows[i].attempts + 1 < MaxAttempts /\ Mark(r, i, "retried") /\ UNCHANGED dlq
     \/ Mark(r, i, "dead") /\ dlq' = dlq \cup {i}
  /\ UNCHANGED <<rows, consumerVars, losses>>

\* COMMIT: the rows get their marks and their locks are gone.
MarkedRow(i, row, marks) ==
  CASE [row |-> i, as |-> "published"] \in marks -> [row EXCEPT !.state = "published"]
    [] [row |-> i, as |-> "retried"] \in marks   -> [row EXCEPT !.attempts = @ + 1]
    [] [row |-> i, as |-> "dead"] \in marks      -> [row EXCEPT !.state = "failed", !.attempts = @ + 1]
    [] OTHER                                     -> row

CommitBatch(r) ==
  /\ relay[r].pc = "publishing" /\ relay[r].todo = {}
  /\ rows' = [i \in Ids |-> MarkedRow(i, rows[i], relay[r].marks)]
  /\ relay' = [relay EXCEPT ![r] = Free]
  /\ UNCHANGED <<kafkaVars, consumerVars, losses>>

\* The process stops, or the dead-letter topic refuses the event, which makes
\* Run return: the transaction is rolled back.
RelayStops(r) ==
  /\ relay[r].pc # "idle" /\ losses < MaxLoss
  /\ relay' = [relay EXCEPT ![r] = Free]
  /\ losses' = losses + 1
  /\ UNCHANGED <<rows, kafkaVars, consumerVars>>

\* The database ends the session, and with it the locks, while the instance is
\* busy publishing.
SessionLost(r) ==
  /\ relay[r].pc = "publishing" /\ relay[r].todo # {} /\ losses < MaxLoss
  /\ relay' = [relay EXCEPT ![r] = Busy("orphaned", @.todo, {})]
  /\ losses' = losses + 1
  /\ UNCHANGED <<rows, kafkaVars, consumerVars>>

\* Redrive, an operator's action.  A row locked by a relay is not dead-lettered.
Redrive(i) ==
  /\ rows[i].state = "failed" /\ losses < MaxLoss
  /\ rows' = [rows EXCEPT ![i].state = "pending", ![i].attempts = 0]
  /\ losses' = losses + 1
  /\ UNCHANGED <<relay, kafkaVars, consumerVars>>

-----------------------------------------------------------------------------
\* The consumer loop of a topic and its inbox.

Fetched(t) == log[t][offset[t] + 1]

HandleStep(t, i) ==
  /\ t \notin held /\ offset[t] < Len(log[t]) /\ i = Fetched(t) /\ i \notin Refused
  /\ held' = held \cup {t}
  /\ UNCHANGED <<rows, relay, kafkaVars, offset, losses>>

\* Process: the inbox row and the handler's effects commit together, and a
\* recorded event is skipped.  After a retryable error nothing has changed and
\* the loop tries again, without end if the error stays.
Process(t, i) ==
  /\ HandleStep(t, i)
  /\ IF i \in inbox THEN UNCHANGED <<inbox, effects, closed>>
     ELSE /\ inbox' = inbox \cup {i}
          /\ effects' = Append(effects, i)
          /\ closed' = closed \cup {i}

\* A permanent error rolls the inbox row back; the message is committed.
ProcessFails(t, i) ==
  /\ HandleStep(t, i)
  /\ i \notin inbox
  /\ closed' = closed \cup {i}
  /\ UNCHANGED <<inbox, effects>>

CommitMessages(t) ==
  /\ t \in held
  /\ held' = held \ {t}
  /\ offset' = [offset EXCEPT ![t] = @ + 1]
  /\ UNCHANGED <<rows, relay, kafkaVars, inbox, effects, closed, losses>>

\* The consumer stops before it commits the offset and fetches the message again.
ConsumerStops(t) ==
  /\ t \in held
  /\ held' = held \ {t}
  /\ UNCHANGED <<rows, relay, kafkaVars, offset, inbox, effects, closed, losses>>

-----------------------------------------------------------------------------
Business == \/ \E a \in Aggregates, t \in Topics : Insert(a, t)
            \/ \E i \in Ids : EndTransaction(i)

RelayStep(r) == Claim(r) \/ CommitBatch(r) \/ \E i \in Ids : PublishSucceeds(r, i) \/ PublishFails(r, i)

ConsumerStep(t) == CommitMessages(t) \/ \E i \in Ids : Process(t, i) \/ ProcessFails(t, i)

Next ==
  \/ Business
  \/ \E r \in Relays : RelayStep(r) \/ RelayStops(r) \/ SessionLost(r)
  \/ \E i \in Ids : Redrive(i)
  \/ \E t \in Topics : ConsumerStep(t) \/ ConsumerStops(t)

Spec == Init /\ [][Next]_vars

\* Relay instances and consumers keep running, and a publication that is tried
\* again and again succeeds.
Fairness ==
  /\ \A i \in 1..MaxRows : WF_vars(i \in Ids /\ EndTransaction(i))
  /\ \A r \in Relays :
       /\ WF_vars(RelayStep(r))
       /\ SF_vars(\E i \in Ids : PublishSucceeds(r, i))
  /\ \A t \in Topics : WF_vars(ConsumerStep(t)) /\ SF_vars(CommitMessages(t))

FairSpec == Spec /\ Fairness

-----------------------------------------------------------------------------
\* The outbox implements the promise the handlers are written for: effects at
\* most once, and in the order of the transactions that wrote the events.
Delivery == INSTANCE EventDelivery WITH
  Keys <- Aggregates \X Topics,
  events <- [i \in Ids |-> [key |-> <<rows[i].aggregate, rows[i].topic>>, preds |-> rows[i].preds]],
  written <- {i \in Ids : Written(i)}

ImplementsDelivery == Delivery!Spec

\* In a topic an event comes after all the events it must not overtake, in every
\* copy: also in one that a relay appends late, after it lost its session and
\* another relay has published the row and its successors.
TopicKeepsOrder ==
  \A t \in Topics : \A n \in DOMAIN log[t] :
    \A j \in rows[log[t][n]].preds : \E m \in 1..n - 1 : log[t][m] = j

\* An event leaves the outbox only when it is in its topic, and is set aside
\* only when it is in the dead-letter topic.
NothingIsLost ==
  \A i \in Ids :
    /\ rows[i].state = "published" => \E n \in DOMAIN log[rows[i].topic] : log[rows[i].topic][n] = i
    /\ rows[i].state = "failed" => i \in dlq

\* An event of i's aggregate, i itself or an earlier one, is dead-lettered.
DeadLettered(i) ==
  \E j \in Ids : j <= i /\ rows[j].aggregate = rows[i].aggregate /\ rows[j].state = "failed"

\* The consumer of i's topic has reached an event whose handler never ends.
ConsumerStuck(i) ==
  LET t == rows[i].topic IN offset[t] < Len(log[t]) /\ Fetched(t) \in Refused

\* Every committed event reaches its handler unless its aggregate is blocked by a
\* dead-lettered event, or its topic by an event, of any aggregate, whose handler
\* never stops returning a retryable error.
EveryEventIsHandled ==
  \A i \in 1..MaxRows :
    (i \in Ids /\ Written(i)) ~>
      i \in closed \/ (i \in Ids /\ (DeadLettered(i) \/ ConsumerStuck(i)))
=============================================================================
