--------------------------- MODULE Notifications ---------------------------
(***************************************************************************)
(* Merchant notifications: the webhook endpoints a tenant registers        *)
(* (paymentapi/webhook_endpoints.go) and the delivery of its payment       *)
(* events to them (notification/webhook.go), for one tenant.               *)
(*                                                                         *)
(* A dispatcher reads a batch of due deliveries without locking them,      *)
(* sends them one after the other and writes each result by itself, so     *)
(* other dispatchers, redrives and the merchant's requests come between    *)
(* any two of these steps.  Its process may stop at any of them.           *)
(*                                                                         *)
(* Events are numbered by occurred_at, which is the created_at of their    *)
(* deliveries.  The inbox hands an event to EventHandler once (Outbox.tla  *)
(* models that).  Payloads, signatures and the length of the backoff are   *)
(* left out: a delivery whose retry is scheduled becomes due, and an event *)
(* exceeds MaxAge, at any moment.                                          *)
(***************************************************************************)
EXTENDS Naturals, FiniteSets, FiniteSetsExt

CONSTANTS
  URLs,
  Dispatchers,
  MaxActive,       \* maxActiveWebhookEndpoints
  BatchSize, MaxAttempts,
  MaxEndpoints,    \* bound: rows of webhook_endpoints
  MaxEvents,       \* bound: payment events of the tenant
  MaxFaults        \* bound: process stops and redrives

ASSUME NotificationsAssumption ==
  /\ MaxActive \in Nat \ {0} /\ BatchSize \in Nat \ {0} /\ MaxAttempts \in Nat \ {0}
  /\ MaxEndpoints \in Nat /\ MaxEvents \in Nat /\ MaxFaults \in Nat

VARIABLES
  active,          \* webhook_endpoints that are active: id and URL
  rows,            \* rows of webhook_endpoints; an endpoint's id is its row
  registering,     \* URLs that have passed the checks, not committed
  handled,         \* inbox of the payment-webhooks consumer
  aged,            \* events 1..aged are older than MaxAge
  delivery,        \* webhook_deliveries, by endpoint and event
  batch,           \* what each dispatcher has read and not yet sent
  inflight,        \* what it has sent and not yet recorded, with the result
  sends,           \* history: attempts made of each delivery, up to MaxAttempts
  acked,           \* history: deliveries some endpoint answered with 2xx
  faults           \* process stops and redrives so far

endpointVars == <<active, rows, registering>>
dispatchVars == <<batch, inflight, sends, acked>>
vars == <<endpointVars, handled, aged, delivery, dispatchVars, faults>>

Events == 1..MaxEvents
Endpoints == 1..MaxEndpoints
Keys == Endpoints \X Events

Absent == [status |-> "absent", attempts |-> 0, due |-> FALSE]
Deliveries ==
  [status : {"absent", "pending", "delivered", "failed"}, attempts : 0..MaxAttempts,
   due : BOOLEAN]

\* A row as a dispatcher read it, and the result of sending it.
Reads == [key : Keys, count : 0..MaxAttempts - 1]
Results == [read : Reads, ok : BOOLEAN]
Nothing == [ok |-> FALSE]

TypeOK ==
  /\ active \subseteq Endpoints \X URLs
  /\ rows \in 0..MaxEndpoints
  /\ registering \subseteq URLs
  /\ handled \subseteq Events
  /\ aged \in 0..MaxEvents
  /\ delivery \in [Keys -> Deliveries]
  /\ batch \in [Dispatchers -> SUBSET Reads]
  /\ inflight \in [Dispatchers -> Results \cup {Nothing}]
  /\ sends \in [Keys -> 0..MaxAttempts]
  /\ acked \subseteq Keys
  /\ faults \in 0..MaxFaults

Init ==
  /\ active = {}
  /\ rows = 0
  /\ registering = {}
  /\ handled = {}
  /\ aged = 0
  /\ delivery = [k \in Keys |-> Absent]
  /\ batch = [d \in Dispatchers |-> {}]
  /\ inflight = [d \in Dispatchers |-> Nothing]
  /\ sends = [k \in Keys |-> 0]
  /\ acked = {}
  /\ faults = 0

-----------------------------------------------------------------------------
\* Endpoints.

\* Registrations of one tenant that do not wait for each other.
MutantRegistrationLock == TRUE

\* pg_advisory_xact_lock on the tenant, held until the transaction ends.
RegistrationLock == registering = {}

\* Register, up to its INSERT: duplicates and the limit are checked under the
\* lock.
BeginRegister(u) ==
  /\ RegistrationLock
  /\ rows + Cardinality(registering) < MaxEndpoints
  /\ \A r \in active : r[2] # u
  /\ Cardinality(active) < MaxActive
  /\ registering' = registering \cup {u}
  /\ UNCHANGED <<active, rows, handled, aged, delivery, dispatchVars, faults>>

\* The INSERT and its commit, or an error that rolls it back.
CommitRegister(u) ==
  /\ rows' = rows + 1
  /\ active' = active \cup {<<rows + 1, u>>}
  /\ registering' = registering \ {u}
  /\ UNCHANGED <<handled, aged, delivery, dispatchVars, faults>>
RollbackRegister(u) ==
  /\ registering' = registering \ {u}
  /\ UNCHANGED <<active, rows, handled, aged, delivery, dispatchVars, faults>>

\* Disable takes no lock, and leaves the endpoint's deliveries as they are.
Disable(r) ==
  /\ active' = active \ {r}
  /\ UNCHANGED <<rows, registering, handled, aged, delivery, dispatchVars, faults>>

IsActive(e) == \E r \in active : r[1] = e

-----------------------------------------------------------------------------
\* EventHandler: one delivery, due at once, for each endpoint active now.
EventHandler(ev) ==
  /\ ev \notin handled
  /\ handled' = handled \cup {ev}
  /\ delivery' = [k \in Keys |->
       IF k[2] = ev /\ IsActive(k[1])
       THEN [status |-> "pending", attempts |-> 0, due |-> TRUE]
       ELSE delivery[k]]
  /\ UNCHANGED <<endpointVars, aged, dispatchVars, faults>>

\* next_attempt_at passes.
BecomeDue(k) ==
  /\ delivery[k].status = "pending" /\ ~delivery[k].due
  /\ delivery' = [delivery EXCEPT ![k].due = TRUE]
  /\ UNCHANGED <<endpointVars, handled, aged, dispatchVars, faults>>

\* The oldest event that has not yet exceeded MaxAge does.
Age ==
  /\ aged < MaxEvents
  /\ aged' = aged + 1
  /\ UNCHANGED <<endpointVars, handled, delivery, dispatchVars, faults>>

-----------------------------------------------------------------------------
\* DispatchOnce.

Due == {k \in Keys : delivery[k].status = "pending" /\ delivery[k].due /\ IsActive(k[1])}

\* The query: the oldest due deliveries, at most BatchSize.
IsOldest(ks) ==
  /\ Cardinality(ks) = Min({BatchSize, Cardinality(Due)})
  /\ \A k \in ks, j \in Due \ ks : k[2] <= j[2]

Claim(d) ==
  /\ batch[d] = {} /\ inflight[d] = Nothing
  /\ Due # {}
  /\ \E ks \in SUBSET Due :
       /\ IsOldest(ks)
       /\ batch' = [batch EXCEPT ![d] = {[key |-> k, count |-> delivery[k].attempts] : k \in ks}]
  /\ UNCHANGED <<endpointVars, handled, aged, delivery, inflight, sends, acked, faults>>

\* deliver, up to the answer: the oldest of the batch is sent, whatever became
\* of its row and its endpoint since, and is answered with 2xx or not.
Send(d) ==
  /\ inflight[d] = Nothing
  /\ \E v \in batch[d], ok \in BOOLEAN :
       /\ \A w \in batch[d] : v.key[2] <= w.key[2]
       /\ batch' = [batch EXCEPT ![d] = @ \ {v}]
       /\ inflight' = [inflight EXCEPT ![d] = [read |-> v, ok |-> ok]]
       /\ sends' = [sends EXCEPT ![v.key] = Min({@ + 1, MaxAttempts})]
       /\ acked' = IF ok THEN acked \cup {v.key} ELSE acked
  /\ UNCHANGED <<endpointVars, handled, aged, delivery, faults>>

\* The last attempt not recognised.
MutantTerminalLate(v) == v.count + 1 > MaxAttempts \/ v.key[2] <= aged

\* A failure counted twice.
MutantTerminal(v) == v.count + 2 >= MaxAttempts \/ v.key[2] <= aged

Terminal(v) == v.count + 1 >= MaxAttempts \/ v.key[2] <= aged

\* The UPDATE after a 2xx answer.
Delivered(row) == [row EXCEPT !.status = "delivered", !.attempts = @ + 1]

\* The count written is the one read.
MutantRecordFailure(row, v) ==
  IF Terminal(v) THEN [row EXCEPT !.status = "failed", !.attempts = v.count]
  ELSE [row EXCEPT !.attempts = v.count, !.due = FALSE]

\* recordFailure: the attempts written are one more than those read.
recordFailure(row, v) ==
  IF Terminal(v) THEN [row EXCEPT !.status = "failed", !.attempts = v.count + 1]
  ELSE [row EXCEPT !.attempts = v.count + 1, !.due = FALSE]

\* Any row that exists is updated.
MutantUpdatable(row) == row.status # "absent"

\* The updates' WHERE status='pending'.
Updatable(row) == row.status = "pending"

Record(d) ==
  /\ inflight[d] # Nothing
  /\ LET v == inflight[d].read
         row == delivery[v.key]
     IN delivery' = [delivery EXCEPT ![v.key] =
          IF ~Updatable(row) THEN row
          ELSE IF inflight[d].ok THEN Delivered(row) ELSE recordFailure(row, v)]
  /\ inflight' = [inflight EXCEPT ![d] = Nothing]
  /\ UNCHANGED <<endpointVars, handled, aged, batch, sends, acked, faults>>

\* The process stops, or a failed statement makes DispatchOnce return: what the
\* dispatcher held is forgotten.
Stop(d) ==
  /\ batch[d] # {} \/ inflight[d] # Nothing
  /\ faults < MaxFaults
  /\ faults' = faults + 1
  /\ batch' = [batch EXCEPT ![d] = {}]
  /\ inflight' = [inflight EXCEPT ![d] = Nothing]
  /\ UNCHANGED <<endpointVars, handled, aged, delivery, sends, acked>>

Redrive(k) ==
  /\ delivery[k].status = "failed"
  /\ faults < MaxFaults
  /\ faults' = faults + 1
  /\ delivery' = [delivery EXCEPT ![k] = [status |-> "pending", attempts |-> 0, due |-> TRUE]]
  /\ UNCHANGED <<endpointVars, handled, aged, dispatchVars>>

-----------------------------------------------------------------------------
Next ==
  \/ \E u \in URLs : BeginRegister(u)
  \/ \E u \in registering : CommitRegister(u) \/ RollbackRegister(u)
  \/ \E r \in active : Disable(r)
  \/ \E ev \in Events : EventHandler(ev)
  \/ \E k \in Keys : BecomeDue(k) \/ Redrive(k)
  \/ Age
  \/ \E d \in Dispatchers : Claim(d) \/ Send(d) \/ Record(d) \/ Stop(d)

Spec == Init /\ [][Next]_vars

\* Time passes; and a process runs its dispatcher in a loop that nothing but
\* its own stop ends, with a timeout on every request.
Fairness ==
  /\ \A k \in Keys : WF_vars(BecomeDue(k))
  /\ \A d \in Dispatchers : WF_vars(Claim(d) \/ Send(d) \/ Record(d))

FairSpec == Spec /\ Fairness

-----------------------------------------------------------------------------
\* Registrations that race cannot leave more than the maximum of active
\* endpoints, nor two for one URL.
EndpointsWithinLimit ==
  /\ Cardinality(active) <= MaxActive
  /\ \A r, s \in active : r[2] = s[2] => r = s

\* A delivery is recorded as delivered only after the endpoint answered 2xx,
\* and given up only after MaxAttempts attempts or when it is too old, though
\* dispatchers overwrite each other's count of attempts.
OutcomeIsEarned ==
  \A k \in Keys :
    /\ delivery[k].status = "delivered" => k \in acked
    /\ delivery[k].status = "failed" => sends[k] = MaxAttempts \/ k[2] <= aged

\* Once recorded as delivered a delivery stays so: the late failure of a slower
\* dispatcher does not reopen it or give it up.
DeliveredIsFinal ==
  [][\A k \in Keys : delivery[k].status = "delivered" => delivery'[k] = delivery[k]]_vars

\* A pending delivery is delivered or given up, unless its endpoint is disabled,
\* although stale counts set the number of attempts back.
EveryDeliveryIsSettled ==
  \A k \in Keys :
    delivery[k].status = "pending" ~>
      delivery[k].status \in {"delivered", "failed"} \/ ~IsActive(k[1])
=============================================================================
