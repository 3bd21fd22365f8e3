----------------------- MODULE Reconciliation_proofs -----------------------
(***************************************************************************)
(* Proofs about Reconciliation, for any set of payments, beside every      *)
(* interleaving of a run with the payout workflow.                         *)
(*                                                                         *)
(* Why a mark is true when it becomes visible although the run compared    *)
(* old rows: a payouts row that changed since makes the run fail, and what *)
(* the row is compared with never changes back, since the outcome of a     *)
(* payment is final (PayoutSafety_proofs, OutcomeStep) and journals are    *)
(* only added.                                                             *)
(***************************************************************************)
EXTENDS Reconciliation, PayoutSafety_proofs

\* What the open transaction has read.
RunInv ==
  /\ run.findings \subseteq run.rows
  /\ \A p \in run.rows : payout[p] # "none"
  /\ run.open /\ ~run.conflict => \A p \in run.rows \ run.findings : ~Mismatch(p)

\* Only payouts that exist are marked, and a run reads all of those.
MarkedInv ==
  /\ \A p \in Payments : mark[p] # "unmatched" => payout[p] # "none"
  /\ run.open => \A p \in Payments : mark[p] # "unmatched" => p \in run.rows

ReconInv ==
  /\ IInv
  /\ ReconTypeOK
  /\ RunInv
  /\ MarkedInv
  /\ OpenIsException

\* The transaction that is not open, as a record.
LEMMA NoRunIs ==
  /\ NoRun \in [open : BOOLEAN, rows : SUBSET Payments, findings : SUBSET Payments,
                conflict : BOOLEAN]
  /\ NoRun.open = FALSE /\ NoRun.rows = {} /\ NoRun.findings = {} /\ NoRun.conflict = FALSE
BY DEF NoRun

\* Nothing has been read or marked at the start.
LEMMA ReconInitInv == ReconInit => ReconInv
<1> SUFFICES ASSUME ReconInit PROVE ReconInv
  OBVIOUS
<1>1. /\ Init /\ run = NoRun /\ discrepancy = [p \in Payments |-> "none"]
      /\ mark = [p \in Payments |-> "unmatched"]
  BY DEF ReconInit
<1>2. IInv /\ TypeOK
  BY <1>1, InitInv, InitType
<1>3. ReconTypeOK
  BY <1>1, <1>2, NoRunIs DEF ReconTypeOK
<1>4. RunInv /\ MarkedInv /\ OpenIsException
  BY <1>1, NoRunIs DEF RunInv, MarkedInv, OpenIsException
<1> QED BY <1>2, <1>3, <1>4 DEF ReconInv

-----------------------------------------------------------------------------
\* A payouts row never disappears.
LEMMA PayoutStays ==
  ASSUME TypeOK, [Next]_vars, NEW p \in Payments, payout[p] # "none"
  PROVE  payout'[p] # "none"
<1> payout \in [Payments -> PayoutStatuses] /\ worker.result \in WorkerResults
  BY DEF TypeOK, ExecutionTypeOK
<1>1. CASE UNCHANGED payout
  BY <1>1
<1>2. ASSUME NEW q \in Payments, prepare(q) PROVE payout'[p] # "none"
  BY <1>2 DEF prepare
<1>3. ASSUME NEW q \in Payments, record(q) PROVE payout'[p] # "none"
  <2>1. persistedStatus(worker.result) # "none" \/ worker.result \notin Results
    BY DEF persistedStatus, Results
  <2> QED BY <1>3, <2>1 DEF record, RecordStatus
<1>4. ASSUME NEW w \in Webhook, Process(w) PROVE payout'[p] # "none"
  <2>1. w.status # "none"
    BY DEF Webhook, NotifiedStatuses
  <2> QED BY <1>4, <2>1 DEF Process, ProcessIdle, ProcessAdvance, ProcessReturn
<1>5. \/ UNCHANGED payout
      \/ \E q \in Payments : prepare(q) \/ record(q)
      \/ \E w \in Webhook : Process(w)
  BY DEF Next, CreatePayout, SagaExpiry, SagaReview, LedgerOrPaymentCommand, PolicyEvaluate, LedgerReserve,
         LedgerRelease, PaymentSettle, PaymentFail, PaymentReturn, ExecuteCommand, ApplyResult, ProviderCall,
         CallAnswered, CallLost, CallRejected, ProviderStep, ProviderDecides, ProviderReturns, ProviderMoves,
         SagaStep, Restart, Crash, LoadBatch, WebhookStep, DeliverWebhook, ReconcileNext, ReconcileFails,
         executionVars, vars
<1> QED BY <1>1, <1>2, <1>3, <1>4, <1>5

\* A journal, once posted, stays.
LEMMA JournalsGrow ==
  ASSUME TypeOK, [Next]_vars, NEW p \in Payments
  PROVE  journals[p] \subseteq journals'[p]
<1> journals \in [Payments -> SUBSET JournalTypes]
  BY DEF TypeOK, LedgerTypeOK
<1>1. CASE UNCHANGED journals
  BY <1>1
<1>2. ASSUME NEW q \in Payments, NEW j, journals' = [journals EXCEPT ![q] = journals[q] \cup {j}]
      PROVE  journals[p] \subseteq journals'[p]
  BY <1>2
<1>3. ASSUME NEW q \in Payments, LedgerOrPaymentCommand(q) PROVE journals[p] \subseteq journals'[p]
  <2>1. \/ UNCHANGED journals
        \/ \E j \in JournalTypes : journals' = [journals EXCEPT ![q] = journals[q] \cup {j}]
    BY <1>3 DEF LedgerOrPaymentCommand, PolicyEvaluate, LedgerReserve, LedgerRelease, PaymentSettle,
         PaymentFail, PaymentReturn, Reply, Drop, Reserve, Release, Settle, post, ledgerVars, JournalTypes
  <2> QED BY <1>1, <1>2, <2>1
<1>4. ASSUME NEW w \in Webhook, Process(w) PROVE journals[p] \subseteq journals'[p]
  <2>1. w.payment \in Payments
    BY DEF Webhook
  <2> QED BY <1>1, <1>2, <1>4, <2>1 DEF Process, ProcessIdle, ProcessAdvance, ProcessReturn,
             RecordReturn, ledgerVars
<1>5. \/ UNCHANGED journals
      \/ \E q \in Payments : LedgerOrPaymentCommand(q)
      \/ \E w \in Webhook : Process(w)
  BY DEF Next, CreatePayout, SagaExpiry, SagaReview, ExecuteCommand, ProviderCall, ProviderStep,
         SagaStep, Restart, LoadBatch, WebhookStep, DeliverWebhook, ReconcileNext, ReconcileFails,
         ledgerVars, vars
<1> QED BY <1>1, <1>3, <1>4, <1>5

\* Records that agree keep agreeing as long as the payouts row is not written.
LEMMA AgreementStays ==
  ASSUME IInv, [Next]_vars, NEW p \in Payments, payout'[p] = payout[p], ~Mismatch(p)
  PROVE  ~Mismatch(p)'
<1>1. TypeOK
  BY DEF IInv
<1>2. payment[p] \in {"succeeded", "failed"} => payment'[p] = payment[p]
  BY OutcomeStep
<1>3. journals[p] \subseteq journals'[p]
  BY <1>1, JournalsGrow
<1> QED BY <1>2, <1>3 DEF Mismatch

-----------------------------------------------------------------------------
\* A step of the payout workflow while a run is open.
LEMMA WorkflowInv == ASSUME ReconInv, WorkflowStep PROVE ReconInv'
<1>1. IInv /\ TypeOK /\ RunInv /\ MarkedInv /\ OpenIsException /\ ReconTypeOK
  BY DEF ReconInv, IInv
<1>2. [Next]_vars /\ UNCHANGED <<discrepancy, mark>>
  BY DEF WorkflowStep
<1>3. IInv' /\ TypeOK'
  BY <1>1, <1>2, NextInv DEF IInv
<1>4. OpenIsException'
  BY <1>1, <1>2 DEF OpenIsException
<1>5. \A p \in Payments : payout[p] # "none" => payout'[p] # "none"
  BY <1>1, <1>2, PayoutStays
<1>6. /\ run \in [open : BOOLEAN, rows : SUBSET Payments, findings : SUBSET Payments,
                  conflict : BOOLEAN]
  BY <1>1 DEF ReconTypeOK
<1>7. CASE run' = NoRun
  <2>1. ReconTypeOK'
    BY <1>1, <1>2, <1>3, <1>7, NoRunIs DEF ReconTypeOK
  <2>2. RunInv'
    BY <1>7, NoRunIs DEF RunInv
  <2>3. MarkedInv'
    BY <1>1, <1>2, <1>5, <1>7, NoRunIs DEF MarkedInv
  <2> QED BY <1>3, <1>4, <2>1, <2>2, <2>3 DEF ReconInv
<1>8. CASE run' = [run EXCEPT !.conflict = run.conflict \/ \E p \in run.rows : Writes(p)]
  <2>1. PICK conflict \in BOOLEAN : conflict = (run.conflict \/ \E p \in run.rows : Writes(p))
    BY <1>6
  <2>2. /\ run' \in [open : BOOLEAN, rows : SUBSET Payments, findings : SUBSET Payments,
                     conflict : BOOLEAN]
        /\ run'.open = run.open /\ run'.rows = run.rows /\ run'.findings = run.findings
        /\ run'.conflict = conflict
    BY <1>6, <1>8, <2>1
  <2>3. ReconTypeOK'
    BY <1>1, <1>2, <1>3, <2>2 DEF ReconTypeOK
  <2>4. ASSUME run'.open, ~run'.conflict, NEW p \in run'.rows \ run'.findings PROVE ~Mismatch(p)'
    <3>1. run.open /\ ~run.conflict /\ p \in run.rows \ run.findings /\ p \in Payments /\ ~Writes(p)
      BY <1>6, <2>1, <2>2, <2>4
    <3>2. ~Mismatch(p) /\ payout'[p] = payout[p]
      BY <1>1, <3>1 DEF RunInv, Writes
    <3> QED BY <1>1, <1>2, <3>1, <3>2, AgreementStays
  <2>5. RunInv'
    <3>1. /\ run'.findings \subseteq run'.rows /\ \A p \in run'.rows : payout'[p] # "none"
      BY <1>1, <1>5, <1>6, <2>2 DEF RunInv
    <3> QED BY <2>4, <3>1 DEF RunInv
  <2>6. MarkedInv'
    BY <1>1, <1>2, <1>5, <2>2 DEF MarkedInv
  <2> QED BY <1>3, <1>4, <2>3, <2>5, <2>6 DEF ReconInv
<1> QED BY <1>7, <1>8 DEF WorkflowStep

\* A run reads its snapshot.
LEMMA BeginInv == ASSUME ReconInv, BeginRun PROVE ReconInv'
<1>1. IInv /\ TypeOK /\ RunInv /\ MarkedInv /\ OpenIsException /\ ReconTypeOK
  BY DEF ReconInv, IInv
<1>2. UNCHANGED <<vars, discrepancy, mark>>
  BY DEF BeginRun
<1>3. /\ run'.open = TRUE /\ run'.rows = {p \in Payments : payout[p] # "none"}
      /\ run'.findings = {p \in Payments : Mismatch(p)} /\ run'.conflict = FALSE
      /\ run' \in [open : BOOLEAN, rows : SUBSET Payments, findings : SUBSET Payments,
                   conflict : BOOLEAN]
  BY DEF BeginRun
<1>4. UNCHANGED <<payout, payment, journals>>
  BY <1>2 DEF vars, executionVars, ledgerVars
<1>5. IInv' /\ TypeOK'
  BY <1>1, <1>2, NextInv DEF IInv
<1>6. ReconTypeOK'
  BY <1>1, <1>2, <1>3, <1>5 DEF ReconTypeOK
<1>7. RunInv'
  BY <1>3, <1>4 DEF RunInv, Mismatch
<1>8. MarkedInv'
  BY <1>1, <1>2, <1>3, <1>4 DEF MarkedInv
<1> QED BY <1>1, <1>2, <1>5, <1>6, <1>7, <1>8 DEF ReconInv, OpenIsException

\* A run commits its findings.
LEMMA CommitInv == ASSUME ReconInv, CommitRun PROVE ReconInv'
<1>1. IInv /\ TypeOK /\ RunInv /\ MarkedInv /\ OpenIsException /\ ReconTypeOK
  BY DEF ReconInv, IInv
<1>2. /\ UNCHANGED vars /\ run' = NoRun /\ run.open
      /\ discrepancy' = [p \in Payments |-> Recorded(p)]
      /\ mark' = [p \in Payments |-> IF p \in run.rows THEN Marked(p) ELSE mark[p]]
  BY DEF CommitRun
<1>3. IInv' /\ TypeOK'
  BY <1>1, <1>2, NextInv DEF IInv
<1>4. UNCHANGED payout
  BY <1>2 DEF vars, executionVars
<1>5. ReconTypeOK'
  <2>1. discrepancy' \in [Payments -> {"none", "open", "resolved"}]
    BY <1>1, <1>2 DEF ReconTypeOK, Recorded
  <2>2. mark' \in [Payments -> {"unmatched", "matched", "exception"}]
    BY <1>1, <1>2 DEF ReconTypeOK, Marked
  <2> QED BY <1>2, <1>3, <2>1, <2>2, NoRunIs DEF ReconTypeOK
<1>6. RunInv'
  BY <1>2, NoRunIs DEF RunInv
<1>7. MarkedInv'
  BY <1>1, <1>2, <1>4, NoRunIs DEF MarkedInv, RunInv
<1>8. OpenIsException'
  BY <1>1, <1>2 DEF OpenIsException, Recorded, Marked, RunInv
<1> QED BY <1>3, <1>5, <1>6, <1>7, <1>8 DEF ReconInv

\* A run that meets a conflict ends with the process.
LEMMA AbortInv == ASSUME ReconInv, AbortRun PROVE ReconInv'
<1>1. IInv /\ TypeOK /\ RunInv /\ MarkedInv /\ OpenIsException /\ ReconTypeOK
  BY DEF ReconInv, IInv
<1>2. /\ run' = NoRun /\ worker' = Idle /\ batch' = {}
      /\ UNCHANGED <<messagingVars, sagaVars, ledgerVars, stored, emitted, discrepancy, mark>>
      /\ UNCHANGED <<payout, ref, submitted, provider, sent>>
  BY DEF AbortRun
<1>3. crashes' \in 0..MaxCrashes
  <2>1. crashes \in 0..MaxCrashes /\ MaxCrashes \in Nat
    BY <1>1, ExecutionAssumption DEF TypeOK, ExecutionTypeOK
  <2>2. Min({crashes + 1, MaxCrashes}) \in {crashes + 1, MaxCrashes}
        /\ Min({crashes + 1, MaxCrashes}) <= MaxCrashes
    <3> DEFINE S == {crashes + 1, MaxCrashes}
    <3>1. \E m \in S : \A n \in S : m <= n
      BY <2>1
    <3>2. Min(S) \in S /\ \A n \in S : Min(S) <= n
      BY <3>1 DEF Min
    <3> QED BY <3>2
  <2>3. crashes' = crashes \/ crashes' = Min({crashes + 1, MaxCrashes})
    BY DEF AbortRun
  <2> QED BY <2>1, <2>2, <2>3
<1>4. TypeOK'
  <2>1. ExecutionTypeOK'
    BY <1>1, <1>2, <1>3 DEF TypeOK, ExecutionTypeOK, Idle, At, WorkerResults
  <2>2. MessagingTypeOK' /\ SagaTypeOK' /\ LedgerTypeOK' /\ WebhookTypeOK'
    BY <1>1, <1>2 DEF TypeOK, MessagingTypeOK, SagaTypeOK, LedgerTypeOK, WebhookTypeOK,
         messagingVars, sagaVars, ledgerVars
  <2> QED BY <2>1, <2>2 DEF TypeOK
<1>5. IInv'
  BY <1>1, <1>2, <1>4, StopInv
<1>6. ReconTypeOK'
  BY <1>1, <1>2, <1>4, NoRunIs DEF ReconTypeOK
<1>7. RunInv' /\ MarkedInv' /\ OpenIsException'
  BY <1>1, <1>2, NoRunIs DEF RunInv, MarkedInv, OpenIsException
<1> QED BY <1>5, <1>6, <1>7 DEF ReconInv

\* An operator resolves a discrepancy, which an open run will trip over.
LEMMA ResolveInv == ASSUME ReconInv, NEW p \in Payments, Resolve(p) PROVE ReconInv'
<1>1. IInv /\ TypeOK /\ RunInv /\ MarkedInv /\ OpenIsException /\ ReconTypeOK
  BY DEF ReconInv, IInv
<1>2. /\ UNCHANGED <<vars, mark>> /\ discrepancy' = [discrepancy EXCEPT ![p] = "resolved"]
      /\ run' = [run EXCEPT !.conflict = run.open]
  BY DEF Resolve
<1>3. IInv' /\ TypeOK'
  BY <1>1, <1>2, NextInv DEF IInv
<1>4. UNCHANGED payout
  BY <1>2 DEF vars, executionVars
<1>5. /\ run' \in [open : BOOLEAN, rows : SUBSET Payments, findings : SUBSET Payments,
                   conflict : BOOLEAN]
      /\ run'.open = run.open /\ run'.rows = run.rows /\ run'.findings = run.findings
      /\ run'.conflict = run.open
  BY <1>1, <1>2 DEF ReconTypeOK
<1>6. ReconTypeOK'
  BY <1>1, <1>2, <1>3, <1>5 DEF ReconTypeOK
<1>7. RunInv' /\ MarkedInv'
  BY <1>1, <1>2, <1>4, <1>5 DEF RunInv, MarkedInv
<1>8. OpenIsException'
  BY <1>1, <1>2 DEF OpenIsException, ReconTypeOK
<1> QED BY <1>3, <1>6, <1>7, <1>8 DEF ReconInv

\* Every step keeps the invariant.
LEMMA ReconNextInv == ASSUME ReconInv, [ReconNext]_allVars PROVE ReconInv'
<1>1. CASE UNCHANGED allVars
  <2>1. UNCHANGED <<vars, run, discrepancy, mark>>
    BY <1>1 DEF allVars, reconVars
  <2>2. IInv' /\ TypeOK'
    BY <2>1, NextInv DEF ReconInv, IInv
  <2>3. UNCHANGED <<payout, payment, journals>>
    BY <2>1 DEF vars, executionVars, ledgerVars
  <2> QED BY <2>1, <2>2, <2>3 DEF ReconInv, ReconTypeOK, RunInv, MarkedInv, OpenIsException, Mismatch
<1> QED BY <1>1, WorkflowInv, BeginInv, CommitInv, AbortInv, ResolveInv DEF ReconNext

-----------------------------------------------------------------------------
\* The invariant holds of reconciliation beside the workflow.
THEOREM ReconInvariant == ReconSpec => []ReconInv
<1>1. ReconInit => ReconInv
  BY ReconInitInv
<1>2. ReconInv /\ [ReconNext]_allVars => ReconInv'
  BY ReconNextInv
<1> QED BY <1>1, <1>2, PTL DEF ReconSpec

\* A payout with an open discrepancy is marked as an exception, whatever runs and
\* operators do.
THEOREM OpenDiscrepancy == ReconSpec => []OpenIsException
<1>1. ReconInv => OpenIsException
  BY DEF ReconInv
<1> QED BY <1>1, ReconInvariant, PTL

\* REPEATABLE READ suffices: when a run marks a payout as matched, its records
\* agree at that moment.
THEOREM MatchedIsTrue == ReconSpec => MatchedWhenRecordsAgree
<1> DEFINE True == CommitRun => \A p \in Payments : mark'[p] = "matched" => ~Mismatch(p)
<1>1. ASSUME ReconInv, [ReconNext]_allVars PROVE True
  <2> SUFFICES ASSUME CommitRun, NEW p \in Payments, mark'[p] = "matched" PROVE ~Mismatch(p)
    OBVIOUS
  <2>1. RunInv /\ MarkedInv
    BY <1>1 DEF ReconInv
  <2>2. /\ run.open /\ ~run.conflict
        /\ mark'[p] = IF p \in run.rows THEN Marked(p) ELSE mark[p]
    BY DEF CommitRun, UpdatesSucceed
  <2>3. p \in run.rows /\ Marked(p) = "matched"
    BY <2>1, <2>2 DEF MarkedInv
  <2>4. p \notin run.findings
    BY <2>3 DEF Marked
  <2> QED BY <2>1, <2>2, <2>3, <2>4 DEF RunInv
<1>2. ReconSpec => [][True]_allVars
  BY <1>1, ReconInvariant, PTL DEF ReconSpec
<1> QED BY <1>2 DEF MatchedWhenRecordsAgree
=============================================================================
