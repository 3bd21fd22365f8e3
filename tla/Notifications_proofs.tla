------------------------ MODULE Notifications_proofs ------------------------
(***************************************************************************)
(* Proofs about Notifications: for any number of URLs, endpoints, events   *)
(* and dispatchers.                                                        *)
(*                                                                         *)
(* The limit on endpoints rests on what a registration knows while it      *)
(* holds the tenant's lock: its URL is free and the limit not reached,     *)
(* and Disable, which takes no lock, can only make both truer.  That a     *)
(* delivery is given up only after MaxAttempts attempts rests on an order  *)
(* between three counts: what the row says, what a dispatcher read of it   *)
(* and what was really sent.                                               *)
(***************************************************************************)
EXTENDS Notifications, FiniteSetTheorems, TLAPS

\* What the transaction that holds the tenant's lock has checked is still true.
RegistrationInv ==
  /\ IsFiniteSet(active)
  /\ EndpointsWithinLimit
  /\ \A u \in registering :
       /\ registering = {u}
       /\ Cardinality(active) < MaxActive
       /\ rows < MaxEndpoints
       /\ \A r \in active : r[2] # u

\* A row counts no more attempts than were made, and neither do the copies of
\* it that dispatchers hold; a delivery is created with its event only.
CountInv ==
  /\ \A k \in Keys : delivery[k].status = "pending" =>
       delivery[k].attempts < MaxAttempts /\ delivery[k].attempts <= sends[k]
  /\ \A k \in Keys : delivery[k].status # "absent" => k[2] \in handled
  /\ \A d \in Dispatchers : \A v \in batch[d] : v.count <= sends[v.key]
  /\ \A d \in Dispatchers : inflight[d] # Nothing =>
       /\ inflight[d].read.count + 1 <= sends[inflight[d].read.key]
       /\ inflight[d].ok => inflight[d].read.key \in acked

IInv ==
  /\ TypeOK
  /\ RegistrationInv
  /\ CountInv
  /\ OutcomeIsEarned

-----------------------------------------------------------------------------
\* Min of FiniteSetsExt on two numbers, which Send uses to cap the history of
\* attempts.
LEMMA MinOfTwo ==
  ASSUME NEW a \in Nat, NEW b \in Nat
  PROVE  Min({a, b}) = IF a <= b THEN a ELSE b
<1> DEFINE m == IF a <= b THEN a ELSE b
<1>1. m \in {a, b} /\ \A y \in {a, b} : m <= y
  OBVIOUS
<1>2. \A x : x \in {a, b} /\ (\A y \in {a, b} : x <= y) => x = m
  OBVIOUS
<1> HIDE DEF m
<1>3. (CHOOSE x \in {a, b} : \A y \in {a, b} : x <= y) = m
  BY <1>1, <1>2
<1> QED BY <1>3 DEF Min, m

\* The initial state satisfies the invariant.
LEMMA InitInv == Init => IInv
<1> SUFFICES ASSUME Init PROVE IInv
  OBVIOUS
<1> USE NotificationsAssumption
<1>1. TypeOK
  BY DEF Init, TypeOK, Deliveries, Absent, Results, Nothing
<1>2. RegistrationInv
  BY FS_EmptySet DEF Init, RegistrationInv, EndpointsWithinLimit
<1>3. CountInv
  BY DEF Init, CountInv, Absent
<1>4. OutcomeIsEarned
  BY DEF Init, OutcomeIsEarned, Absent
<1> QED BY <1>1, <1>2, <1>3, <1>4 DEF IInv

-----------------------------------------------------------------------------
\* The merchant's requests: Register in its two transactions, and Disable,
\* keep the invariant.
LEMMA EndpointStepsInv ==
  ASSUME IInv,
         \/ \E u \in URLs : BeginRegister(u)
         \/ \E u \in registering : CommitRegister(u) \/ RollbackRegister(u)
         \/ \E r \in active : Disable(r)
  PROVE  IInv'
<1> USE NotificationsAssumption
<1>1. /\ UNCHANGED <<handled, aged, delivery, batch, inflight, sends, acked, faults>>
      /\ CountInv' /\ OutcomeIsEarned'
  <2>1. UNCHANGED <<handled, aged, delivery, batch, inflight, sends, acked, faults>>
    BY DEF BeginRegister, CommitRegister, RollbackRegister, Disable, dispatchVars
  <2>2. CountInv'
    BY <2>1 DEF IInv, CountInv
  <2>3. OutcomeIsEarned'
    BY <2>1 DEF IInv, OutcomeIsEarned
  <2> QED BY <2>1, <2>2, <2>3
<1>2. /\ TypeOK /\ IsFiniteSet(active) /\ Cardinality(active) \in Nat
      /\ RegistrationInv
  BY FS_CardinalityType DEF IInv, RegistrationInv
<1>3. ASSUME NEW u \in URLs, BeginRegister(u) PROVE IInv'
  <2>1. /\ rows < MaxEndpoints /\ registering' = {u}
        /\ UNCHANGED <<active, rows>>
    BY <1>3, <1>2, FS_EmptySet DEF BeginRegister, RegistrationLock, TypeOK
  <2>2. TypeOK'
    BY <1>1, <1>2, <2>1 DEF TypeOK
  <2>3. RegistrationInv'
    BY <1>2, <1>3, <2>1 DEF RegistrationInv, EndpointsWithinLimit, BeginRegister
  <2> QED BY <1>1, <2>2, <2>3 DEF IInv
<1>4. ASSUME NEW u \in registering, CommitRegister(u) PROVE IInv'
  <2>1. /\ registering = {u} /\ Cardinality(active) < MaxActive
        /\ rows < MaxEndpoints /\ \A r \in active : r[2] # u
    BY <1>2, <1>4 DEF RegistrationInv
  <2>2. /\ rows' = rows + 1 /\ registering' = {}
        /\ active' = active \cup {<<rows + 1, u>>}
    BY <1>4, <2>1 DEF CommitRegister
  <2>3. TypeOK'
    BY <1>1, <1>2, <2>1, <2>2 DEF TypeOK, Endpoints
  <2>4. IsFiniteSet(active') /\ Cardinality(active') <= MaxActive
    <3>1. /\ IsFiniteSet(active')
          /\ Cardinality(active') = Cardinality(active)
               \/ Cardinality(active') = Cardinality(active) + 1
      BY <1>2, <2>2, FS_AddElement
    <3> QED BY <1>2, <2>1, <3>1
  <2>5. \A r, s \in active' : r[2] = s[2] => r = s
    <3>1. <<rows + 1, u>>[2] = u
      OBVIOUS
    <3>2. \A r \in active' : r \in active \/ r = <<rows + 1, u>>
      BY <2>2
    <3> QED BY <1>2, <2>1, <3>1, <3>2 DEF RegistrationInv, EndpointsWithinLimit
  <2>6. RegistrationInv'
    BY <2>2, <2>4, <2>5 DEF RegistrationInv, EndpointsWithinLimit
  <2> QED BY <1>1, <2>3, <2>6 DEF IInv
<1>5. ASSUME NEW u \in registering, RollbackRegister(u) PROVE IInv'
  <2>1. registering' = {} /\ UNCHANGED <<active, rows>>
    BY <1>2, <1>5 DEF RollbackRegister, RegistrationInv
  <2>2. TypeOK'
    BY <1>1, <1>2, <2>1 DEF TypeOK
  <2>3. RegistrationInv'
    BY <1>2, <2>1 DEF RegistrationInv, EndpointsWithinLimit
  <2> QED BY <1>1, <2>2, <2>3 DEF IInv
<1>6. ASSUME NEW r \in active, Disable(r) PROVE IInv'
  <2>1. active' = active \ {r} /\ UNCHANGED <<rows, registering>>
    BY <1>6 DEF Disable
  <2>2. TypeOK'
    BY <1>1, <1>2, <2>1 DEF TypeOK
  <2>3. IsFiniteSet(active') /\ Cardinality(active') = Cardinality(active) - 1
    BY <1>2, <2>1, FS_RemoveElement
  <2>4. RegistrationInv'
    BY <1>2, <2>1, <2>3 DEF RegistrationInv, EndpointsWithinLimit
  <2> QED BY <1>1, <2>2, <2>4 DEF IInv
<1> QED BY <1>3, <1>4, <1>5, <1>6

-----------------------------------------------------------------------------
\* What the other steps leave alone: the endpoints.
LEMMA RegistrationFrame ==
  ASSUME RegistrationInv, UNCHANGED endpointVars
  PROVE  RegistrationInv'
BY DEF RegistrationInv, EndpointsWithinLimit, endpointVars

\* Creating the deliveries of an event, the passing of time and a redrive keep
\* the invariant: they only start a delivery over, or make more of them old.
LEMMA RowStepsInv ==
  ASSUME IInv,
         \/ \E ev \in Events : EventHandler(ev)
         \/ \E k \in Keys : BecomeDue(k) \/ Redrive(k)
         \/ Age
  PROVE  IInv'
<1> USE NotificationsAssumption
<1>1. TypeOK /\ RegistrationInv /\ CountInv /\ OutcomeIsEarned
  BY DEF IInv
<1>2. UNCHANGED <<active, rows, registering, batch, inflight, sends, acked>>
  BY DEF EventHandler, BecomeDue, Redrive, Age, endpointVars, dispatchVars
<1>3. RegistrationInv'
  BY <1>1, <1>2, RegistrationFrame DEF endpointVars
<1>4. ASSUME NEW ev \in Events, EventHandler(ev) PROVE IInv'
  <2>1. /\ handled' = handled \cup {ev} /\ UNCHANGED <<aged, faults>>
        /\ delivery' \in [Keys -> Deliveries]
        /\ \A k \in Keys :
             \/ delivery'[k] = delivery[k]
             \/ delivery'[k] = [status |-> "pending", attempts |-> 0, due |-> TRUE] /\ k[2] = ev
    BY <1>1, <1>4 DEF EventHandler, TypeOK, Deliveries
  <2>2. TypeOK'
    BY <1>1, <1>2, <2>1 DEF TypeOK
  <2>3. CountInv'
    BY <1>1, <1>2, <2>1 DEF TypeOK, CountInv
  <2>4. OutcomeIsEarned'
    BY <1>1, <1>2, <2>1 DEF OutcomeIsEarned
  <2> QED BY <1>3, <2>2, <2>3, <2>4 DEF IInv
<1>5. ASSUME NEW k \in Keys, BecomeDue(k) PROVE IInv'
  <2>1. /\ UNCHANGED <<handled, aged, faults>>
        /\ delivery' \in [Keys -> Deliveries]
        /\ \A j \in Keys : /\ delivery'[j].status = delivery[j].status
                           /\ delivery'[j].attempts = delivery[j].attempts
    BY <1>1, <1>5 DEF BecomeDue, TypeOK, Deliveries
  <2>2. TypeOK'
    BY <1>1, <1>2, <2>1 DEF TypeOK
  <2>3. CountInv'
    BY <1>1, <1>2, <2>1 DEF CountInv
  <2>4. OutcomeIsEarned'
    BY <1>1, <1>2, <2>1 DEF OutcomeIsEarned
  <2> QED BY <1>3, <2>2, <2>3, <2>4 DEF IInv
<1>6. ASSUME NEW k \in Keys, Redrive(k) PROVE IInv'
  <2>1. /\ UNCHANGED <<handled, aged>> /\ faults' \in 0..MaxFaults
        /\ delivery' \in [Keys -> Deliveries]
        /\ \A j \in Keys :
             \/ delivery'[j] = delivery[j]
             \/ /\ delivery'[j] = [status |-> "pending", attempts |-> 0, due |-> TRUE]
                /\ delivery[j].status = "failed"
    BY <1>1, <1>6 DEF Redrive, TypeOK, Deliveries
  <2>2. TypeOK'
    BY <1>1, <1>2, <2>1 DEF TypeOK
  <2>3. CountInv'
    BY <1>1, <1>2, <2>1 DEF TypeOK, CountInv
  <2>4. OutcomeIsEarned'
    BY <1>1, <1>2, <2>1 DEF OutcomeIsEarned
  <2> QED BY <1>3, <2>2, <2>3, <2>4 DEF IInv
<1>7. ASSUME Age PROVE IInv'
  <2>1. /\ UNCHANGED <<handled, delivery, faults>> /\ aged' \in 0..MaxEvents
        /\ aged' = aged + 1
    BY <1>1, <1>7 DEF Age, TypeOK
  <2>2. TypeOK'
    BY <1>1, <1>2, <2>1 DEF TypeOK
  <2>3. CountInv'
    BY <1>1, <1>2, <2>1 DEF CountInv
  <2>4. OutcomeIsEarned'
    BY <1>1, <1>2, <2>1 DEF TypeOK, OutcomeIsEarned, Keys, Events
  <2> QED BY <1>3, <2>2, <2>3, <2>4 DEF IInv
<1> QED BY <1>4, <1>5, <1>6, <1>7

-----------------------------------------------------------------------------
\* Claim keeps the invariant: what the dispatcher reads is what the rows say.
LEMMA ClaimInv == ASSUME IInv, NEW d \in Dispatchers, Claim(d) PROVE IInv'
<1> USE NotificationsAssumption
<1>1. TypeOK /\ RegistrationInv /\ CountInv /\ OutcomeIsEarned
  BY DEF IInv
<1>2. UNCHANGED <<active, rows, registering, handled, aged, delivery, inflight, sends, acked, faults>>
  BY DEF Claim, endpointVars
<1>3. PICK ks \in SUBSET Due :
        batch' = [batch EXCEPT ![d] = {[key |-> k, count |-> delivery[k].attempts] : k \in ks}]
  BY DEF Claim
<1>4. \A k \in ks : /\ k \in Keys /\ delivery[k].status = "pending"
                    /\ delivery[k].attempts \in 0..MaxAttempts - 1
                    /\ delivery[k].attempts <= sends[k]
  BY <1>1 DEF Due, TypeOK, Deliveries, CountInv
<1>5. /\ batch'[d] \subseteq Reads
      /\ \A v \in batch'[d] : v.count <= sends[v.key]
  <2>1. batch'[d] = {[key |-> k, count |-> delivery[k].attempts] : k \in ks}
    BY <1>1, <1>3 DEF TypeOK
  <2> QED BY <1>4, <2>1 DEF Reads
<1>6. \A e \in Dispatchers : e # d => batch'[e] = batch[e]
  BY <1>1, <1>3 DEF TypeOK
<1>7. TypeOK'
  <2>1. batch' \in [Dispatchers -> SUBSET Reads]
    BY <1>1, <1>3, <1>5 DEF TypeOK
  <2> QED BY <1>1, <1>2, <2>1 DEF TypeOK
<1>8. RegistrationInv'
  BY <1>1, <1>2, RegistrationFrame DEF endpointVars
<1>9. CountInv'
  BY <1>1, <1>2, <1>5, <1>6 DEF CountInv
<1>10. OutcomeIsEarned'
  BY <1>1, <1>2 DEF OutcomeIsEarned
<1> QED BY <1>7, <1>8, <1>9, <1>10 DEF IInv

\* Send keeps the invariant: one more attempt is made of what was read.
LEMMA SendInv == ASSUME IInv, NEW d \in Dispatchers, Send(d) PROVE IInv'
<1> USE NotificationsAssumption
<1>1. TypeOK /\ RegistrationInv /\ CountInv /\ OutcomeIsEarned
  BY DEF IInv
<1>2. UNCHANGED <<active, rows, registering, handled, aged, delivery, faults>>
  BY DEF Send, endpointVars
<1>3. PICK v \in batch[d], ok \in BOOLEAN :
        /\ batch' = [batch EXCEPT ![d] = @ \ {v}]
        /\ inflight' = [inflight EXCEPT ![d] = [read |-> v, ok |-> ok]]
        /\ sends' = [sends EXCEPT ![v.key] = Min({@ + 1, MaxAttempts})]
        /\ acked' = IF ok THEN acked \cup {v.key} ELSE acked
  BY DEF Send
<1>4. v \in Reads /\ v.key \in Keys /\ v.count \in 0..MaxAttempts - 1
  BY <1>1 DEF TypeOK, Reads
<1>5. sends[v.key] \in 0..MaxAttempts /\ v.count <= sends[v.key]
  BY <1>1, <1>4 DEF TypeOK, CountInv
<1>6. /\ Min({sends[v.key] + 1, MaxAttempts}) \in 0..MaxAttempts
      /\ sends[v.key] <= Min({sends[v.key] + 1, MaxAttempts})
      /\ v.count + 1 <= Min({sends[v.key] + 1, MaxAttempts})
  <2>1. sends[v.key] + 1 \in Nat /\ MaxAttempts \in Nat
    BY <1>5
  <2>2. Min({sends[v.key] + 1, MaxAttempts})
          = IF sends[v.key] + 1 <= MaxAttempts THEN sends[v.key] + 1 ELSE MaxAttempts
    BY <2>1, MinOfTwo
  <2> QED BY <1>4, <1>5, <2>2
<1>7. /\ sends' \in [Keys -> 0..MaxAttempts]
      /\ \A k \in Keys : sends[k] <= sends'[k]
      /\ v.count + 1 <= sends'[v.key]
  <2> DEFINE m == Min({sends[v.key] + 1, MaxAttempts})
  <2>1. sends' = [sends EXCEPT ![v.key] = m]
    BY <1>3
  <2>2. m \in 0..MaxAttempts /\ sends[v.key] <= m /\ v.count + 1 <= m
    BY <1>6
  <2> HIDE DEF m
  <2>3. sends' \in [Keys -> 0..MaxAttempts] /\ sends'[v.key] = m
    BY <1>1, <1>4, <2>1, <2>2 DEF TypeOK
  <2>4. \A k \in Keys : k # v.key => sends'[k] = sends[k]
    BY <1>1, <2>1 DEF TypeOK
  <2>5. \A k \in Keys : sends[k] \in 0..MaxAttempts
    BY <1>1 DEF TypeOK
  <2> QED BY <1>4, <2>2, <2>3, <2>4, <2>5
<1>8. /\ acked \subseteq acked' /\ acked' \subseteq Keys
      /\ ok => v.key \in acked'
  BY <1>1, <1>3, <1>4 DEF TypeOK
<1>9. /\ batch' \in [Dispatchers -> SUBSET Reads]
      /\ \A e \in Dispatchers : batch'[e] \subseteq batch[e]
  BY <1>1, <1>3 DEF TypeOK
<1>10. /\ inflight' \in [Dispatchers -> Results \cup {Nothing}]
       /\ inflight'[d] = [read |-> v, ok |-> ok]
       /\ \A e \in Dispatchers : e # d => inflight'[e] = inflight[e]
  BY <1>1, <1>3, <1>4 DEF TypeOK, Results
<1>11. TypeOK'
  BY <1>1, <1>2, <1>7, <1>8, <1>9, <1>10 DEF TypeOK
<1>12. RegistrationInv'
  BY <1>1, <1>2, RegistrationFrame DEF endpointVars
<1>13. CountInv'
  <2>1. ASSUME NEW k \in Keys, delivery[k].status = "pending"
        PROVE  delivery[k].attempts < MaxAttempts /\ delivery[k].attempts <= sends'[k]
    BY <1>1, <1>7, <2>1 DEF CountInv, TypeOK, Deliveries
  <2>2. ASSUME NEW e \in Dispatchers, NEW r \in batch'[e]
        PROVE  r.count <= sends'[r.key]
    <3>1. r \in batch[e] /\ r.key \in Keys /\ r.count \in Nat
      BY <1>1, <1>9, <2>2 DEF TypeOK, Reads
    <3> QED BY <1>1, <1>7, <3>1 DEF CountInv, TypeOK
  <2>3. ASSUME NEW e \in Dispatchers, inflight'[e] # Nothing
        PROVE  /\ inflight'[e].read.count + 1 <= sends'[inflight'[e].read.key]
               /\ inflight'[e].ok => inflight'[e].read.key \in acked'
    <3>1. CASE e = d
      BY <1>7, <1>8, <1>10, <3>1
    <3>2. CASE e # d
      <4>1. inflight'[e] = inflight[e] /\ inflight[e] \in Results
        BY <1>1, <1>10, <2>3, <3>2 DEF TypeOK
      <4>2. inflight[e].read.key \in Keys /\ inflight[e].read.count \in Nat
        BY <4>1 DEF Results, Reads
      <4> QED BY <1>1, <1>7, <1>8, <2>3, <4>1, <4>2 DEF CountInv, TypeOK
    <3> QED BY <3>1, <3>2
  <2>4. \A k \in Keys : delivery[k].status # "absent" => k[2] \in handled'
    BY <1>1, <1>2 DEF CountInv
  <2> QED BY <1>2, <2>1, <2>2, <2>3, <2>4 DEF CountInv
<1>14. OutcomeIsEarned'
  BY <1>1, <1>2, <1>7, <1>8 DEF OutcomeIsEarned, TypeOK
<1> QED BY <1>11, <1>12, <1>13, <1>14 DEF IInv

\* Record keeps the invariant: the row is written from the copy read before the
\* request, and only when it is still pending.
LEMMA RecordInv == ASSUME IInv, NEW d \in Dispatchers, Record(d) PROVE IInv'
<1> USE NotificationsAssumption
<1>1. TypeOK /\ RegistrationInv /\ CountInv /\ OutcomeIsEarned
  BY DEF IInv
<1>2. UNCHANGED <<active, rows, registering, handled, aged, batch, sends, acked, faults>>
  BY DEF Record, endpointVars
<1> DEFINE v == inflight[d].read
           row == delivery[v.key]
<1>3. inflight[d] # Nothing /\ inflight[d] \in Results
  BY <1>1 DEF Record, TypeOK
<1>4. /\ v \in Reads /\ v.key \in Keys /\ v.count \in 0..MaxAttempts - 1
      /\ row \in Deliveries
  BY <1>1, <1>3 DEF Results, Reads, TypeOK
<1>5. /\ v.count + 1 <= sends[v.key] /\ sends[v.key] \in 0..MaxAttempts
      /\ inflight[d].ok => v.key \in acked
  BY <1>1, <1>3, <1>4 DEF CountInv, TypeOK
<1>6. /\ inflight' \in [Dispatchers -> Results \cup {Nothing}]
      /\ \A e \in Dispatchers : inflight'[e] # Nothing => inflight'[e] = inflight[e]
  BY <1>1 DEF Record, TypeOK
<1> DEFINE new == IF ~Updatable(row) THEN row
                  ELSE IF inflight[d].ok THEN Delivered(row) ELSE recordFailure(row, v)
<1>7. delivery' = [delivery EXCEPT ![v.key] = new]
  BY DEF Record
<1>8. \/ new = row
      \/ /\ row.status = "pending"
         /\ new \in Deliveries
         /\ \/ new.status = "delivered" /\ v.key \in acked
            \/ new.status = "failed" /\ (sends[v.key] = MaxAttempts \/ v.key[2] <= aged)
            \/ /\ new.status = "pending"
               /\ new.attempts < MaxAttempts /\ new.attempts <= sends[v.key]
  <2>1. CASE ~Updatable(row)
    BY <2>1
  <2>2. CASE Updatable(row)
    <3>1. row.status = "pending" /\ row.attempts \in 0..MaxAttempts - 1
      BY <1>1, <1>4, <2>2 DEF Updatable, CountInv, Deliveries
    <3>2. CASE inflight[d].ok
      <4>1. new = [row EXCEPT !.status = "delivered", !.attempts = row.attempts + 1]
        BY <2>2, <3>2 DEF Delivered
      <4>2. row.attempts + 1 \in 0..MaxAttempts
        BY <3>1
      <4>3. new \in Deliveries /\ new.status = "delivered"
        <5> HIDE DEF new, row, v
        <5> QED BY <1>4, <4>1, <4>2 DEF Deliveries
      <4> QED BY <1>5, <3>1, <3>2, <4>3
    <3>3. CASE ~inflight[d].ok
      <4>1. CASE Terminal(v)
        <5>1. new = [row EXCEPT !.status = "failed", !.attempts = v.count + 1]
          BY <2>2, <3>3, <4>1 DEF recordFailure
        <5>2. sends[v.key] = MaxAttempts \/ v.key[2] <= aged
          BY <1>4, <1>5, <4>1 DEF Terminal
        <5>3. v.count + 1 \in 0..MaxAttempts
          BY <1>4
        <5>4. new \in Deliveries /\ new.status = "failed"
          <6> HIDE DEF new, row, v
          <6> QED BY <1>4, <5>1, <5>3 DEF Deliveries
        <5> QED BY <3>1, <5>2, <5>4
      <4>2. CASE ~Terminal(v)
        <5>1. new = [row EXCEPT !.attempts = v.count + 1, !.due = FALSE]
          BY <2>2, <3>3, <4>2 DEF recordFailure
        <5>2. v.count + 1 < MaxAttempts
          BY <1>4, <4>2 DEF Terminal
        <5>3. v.count + 1 \in 0..MaxAttempts
          BY <1>4
        <5>4. new \in Deliveries /\ new.status = "pending" /\ new.attempts = v.count + 1
          <6> HIDE DEF new, row, v
          <6> QED BY <1>4, <3>1, <5>1, <5>3 DEF Deliveries
        <5> QED BY <1>5, <3>1, <5>2, <5>4
      <4> QED BY <4>1, <4>2
    <3> QED BY <3>2, <3>3
  <2> QED BY <2>1, <2>2
<1>9. /\ delivery' \in [Keys -> Deliveries]
      /\ delivery'[v.key] = new
      /\ \A k \in Keys : k # v.key => delivery'[k] = delivery[k]
  <2> HIDE DEF new
  <2> QED BY <1>1, <1>4, <1>7, <1>8 DEF TypeOK
<1> HIDE DEF new, v
<1>10. TypeOK'
  BY <1>1, <1>2, <1>6, <1>9 DEF TypeOK
<1>11. RegistrationInv'
  BY <1>1, <1>2, RegistrationFrame DEF endpointVars
<1>12. CountInv'
  <2>1. \A k \in Keys : delivery'[k].status = "pending" =>
          delivery'[k].attempts < MaxAttempts /\ delivery'[k].attempts <= sends[k]
    BY <1>1, <1>4, <1>8, <1>9 DEF CountInv
  <2>2. \A k \in Keys : delivery'[k].status # "absent" => k[2] \in handled
    BY <1>1, <1>4, <1>8, <1>9 DEF CountInv
  <2> QED BY <1>1, <1>2, <1>6, <2>1, <2>2 DEF CountInv
<1>13. OutcomeIsEarned'
  BY <1>1, <1>2, <1>4, <1>8, <1>9 DEF OutcomeIsEarned
<1> QED BY <1>10, <1>11, <1>12, <1>13 DEF IInv

\* A dispatcher that stops forgets what it held, which keeps the invariant.
LEMMA StopInv == ASSUME IInv, NEW d \in Dispatchers, Stop(d) PROVE IInv'
<1> USE NotificationsAssumption
<1>1. TypeOK /\ RegistrationInv /\ CountInv /\ OutcomeIsEarned
  BY DEF IInv
<1>2. UNCHANGED <<active, rows, registering, handled, aged, delivery, sends, acked>>
  BY DEF Stop, endpointVars
<1>3. /\ batch' \in [Dispatchers -> SUBSET Reads]
      /\ \A e \in Dispatchers : batch'[e] \subseteq batch[e]
      /\ inflight' \in [Dispatchers -> Results \cup {Nothing}]
      /\ \A e \in Dispatchers : inflight'[e] # Nothing => inflight'[e] = inflight[e]
      /\ faults' \in 0..MaxFaults
  BY <1>1 DEF Stop, TypeOK
<1>4. TypeOK'
  BY <1>1, <1>2, <1>3 DEF TypeOK
<1>5. RegistrationInv'
  BY <1>1, <1>2, RegistrationFrame DEF endpointVars
<1>6. CountInv'
  BY <1>1, <1>2, <1>3 DEF CountInv
<1>7. OutcomeIsEarned'
  BY <1>1, <1>2 DEF OutcomeIsEarned
<1> QED BY <1>4, <1>5, <1>6, <1>7 DEF IInv

\* The invariant is inductive.
LEMMA NextInv == IInv /\ [Next]_vars => IInv'
<1> SUFFICES ASSUME IInv, [Next]_vars PROVE IInv'
  OBVIOUS
<1>1. CASE UNCHANGED vars
  <2>1. UNCHANGED <<active, rows, registering, handled, aged, delivery, batch, inflight,
                    sends, acked, faults>>
    BY <1>1 DEF vars, endpointVars, dispatchVars
  <2> QED BY <2>1 DEF IInv, TypeOK, RegistrationInv, EndpointsWithinLimit, CountInv,
                      OutcomeIsEarned
<1>2. CASE Next
  BY <1>2, EndpointStepsInv, RowStepsInv, ClaimInv, SendInv, RecordInv, StopInv DEF Next
<1> QED BY <1>1, <1>2

-----------------------------------------------------------------------------
\* The invariant holds in every reachable state.
THEOREM Invariant == Spec => []IInv
<1> QED BY InitInv, NextInv, PTL DEF Spec

\* The state of the endpoints, the deliveries and the dispatchers keeps its
\* type; in particular no row counts more than MaxAttempts attempts.
THEOREM TypeCorrect == Spec => []TypeOK
<1>1. IInv => TypeOK
  BY DEF IInv
<1> QED BY Invariant, <1>1, PTL

\* However registrations and disables interleave, the tenant's active endpoints
\* stay within the maximum and have distinct URLs: Register's checks and its
\* INSERT are two steps, but the lock is held over both.
THEOREM EndpointLimit == Spec => []EndpointsWithinLimit
<1>1. IInv => EndpointsWithinLimit
  BY DEF IInv, RegistrationInv
<1> QED BY Invariant, <1>1, PTL

\* A delivery is marked delivered only after an endpoint answered it with 2xx,
\* and failed only after MaxAttempts attempts or past MaxAge, whatever stale
\* counts dispatchers write over each other's.
THEOREM EarnedOutcome == Spec => []OutcomeIsEarned
<1>1. IInv => OutcomeIsEarned
  BY DEF IInv
<1> QED BY Invariant, <1>1, PTL

\* No step changes a delivery that is recorded as delivered: not the failure a
\* slower dispatcher records, not a redrive, not the event handled again.
THEOREM FinalDelivery == Spec => DeliveredIsFinal
<1> DEFINE Kept == \A k \in Keys : delivery[k].status = "delivered" => delivery'[k] = delivery[k]
<1>1. IInv /\ [Next]_vars => [Kept]_vars
  <2> SUFFICES ASSUME IInv, Next, NEW k \in Keys, delivery[k].status = "delivered"
               PROVE  delivery'[k] = delivery[k]
    OBVIOUS
  <2>1. TypeOK /\ CountInv
    BY DEF IInv
  <2>2. ASSUME NEW ev \in Events, EventHandler(ev) PROVE delivery'[k] = delivery[k]
    BY <2>1, <2>2 DEF EventHandler, CountInv
  <2>3. ASSUME NEW j \in Keys, BecomeDue(j) \/ Redrive(j) PROVE delivery'[k] = delivery[k]
    <3>1. j # k
      BY <2>3 DEF BecomeDue, Redrive
    <3> QED BY <2>1, <2>3, <3>1 DEF BecomeDue, Redrive, TypeOK
  <2>4. ASSUME NEW d \in Dispatchers, Record(d) PROVE delivery'[k] = delivery[k]
    <3>1. inflight[d].read.key \in Keys
      BY <2>1, <2>4 DEF Record, TypeOK, Results, Reads
    <3> QED BY <2>1, <2>4, <3>1 DEF Record, Updatable, TypeOK
  <2>5. CASE UNCHANGED delivery
    BY <2>5
  <2>6. \/ UNCHANGED delivery
        \/ \E ev \in Events : EventHandler(ev)
        \/ \E j \in Keys : BecomeDue(j) \/ Redrive(j)
        \/ \E d \in Dispatchers : Record(d)
    BY DEF Next, BeginRegister, CommitRegister, RollbackRegister, Disable, Age, Claim, Send, Stop
  <2> QED BY <2>2, <2>3, <2>4, <2>5, <2>6
<1>2. [][Kept]_vars => DeliveredIsFinal
  BY DEF DeliveredIsFinal
<1> QED BY Invariant, <1>1, <1>2, PTL DEF Spec
=============================================================================
