--------------------------- MODULE EventDelivery ---------------------------
(***************************************************************************)
(* What the outbox, Kafka, the consumer loop and the inbox promise         *)
(* together to the handlers (README.md, "Architecture"): an event is       *)
(* written with the business update that causes it, its effect is applied  *)
(* at most once, and a handler first sees it only after the events of the  *)
(* same aggregate and topic that were committed before it was written.     *)
(* Two events written by overlapping transactions may come in either       *)
(* order.                                                                  *)
(***************************************************************************)
EXTENDS Naturals, Sequences

CONSTANT Keys          \* aggregate and topic of an event

VARIABLES
  events,      \* every event inserted: its key and the events it must follow
  written,     \* events whose transaction committed
  closed,      \* events a handler has applied or refused for good
  effects      \* the events applied, in that order

deliveryVars == <<events, written, closed, effects>>

Init ==
  /\ events = <<>>
  /\ written = {}
  /\ closed = {}
  /\ effects = <<>>

Insert(k) ==
  /\ events' = Append(events, [key |-> k, preds |-> {j \in written : events[j].key = k}])
  /\ UNCHANGED <<written, closed, effects>>

Commit(i) ==
  /\ i \in DOMAIN events \ written
  /\ written' = written \cup {i}
  /\ UNCHANGED <<events, closed, effects>>

Applied(i) == \E n \in DOMAIN effects : effects[n] = i

Deliverable(i) == i \in written /\ ~Applied(i) /\ events[i].preds \subseteq closed

Apply(i) ==
  /\ Deliverable(i)
  /\ closed' = closed \cup {i}
  /\ effects' = Append(effects, i)
  /\ UNCHANGED <<events, written>>

\* A refusal leaves no record: an event delivered again may still be applied.
Refuse(i) ==
  /\ Deliverable(i)
  /\ closed' = closed \cup {i}
  /\ UNCHANGED <<events, written, effects>>

Next ==
  \/ \E k \in Keys : Insert(k)
  \/ \E i \in DOMAIN events : Commit(i) \/ Apply(i) \/ Refuse(i)

Spec == Init /\ [][Next]_deliveryVars
=============================================================================
