--------------------------- MODULE Reconciliation ---------------------------
(***************************************************************************)
(* Internal reconciliation (reconciliation/reconciler.go) beside the payout*)
(* workflow whose rows it compares.                                        *)
(*                                                                         *)
(* RunOnce is one REPEATABLE READ transaction: everything it compares is   *)
(* read as of its first statement, and it then updates every payouts row.  *)
(* A row that another transaction wrote in between makes the update fail;  *)
(* the error ends Run, and with it the process.  Rows it has updated are   *)
(* locked until it commits, so its writes are one step.                    *)
(*                                                                         *)
(* Of the three queries of find only the one on BlindPay payouts can have  *)
(* findings here: journals are posted balanced, and the one on submissions *)
(* leaves BlindPay out.                                                    *)
(***************************************************************************)
EXTENDS PayoutWorkflow, FiniteSetsExt

VARIABLES
  run,           \* the open transaction of RunOnce: what it has read
  discrepancy,   \* reconciliation_discrepancies.status of blindpay:<payment>
  mark           \* payouts.reconciliation_status

reconVars == <<run, discrepancy, mark>>
allVars == <<vars, reconVars>>

\* rows are the payouts in the snapshot, findings those that disagree with their
\* payment, conflict whether a row the transaction will update was written since.
NoRun == [open |-> FALSE, rows |-> {}, findings |-> {}, conflict |-> FALSE]

ReconTypeOK ==
  /\ TypeOK
  /\ run \in [open : BOOLEAN, rows : SUBSET Payments, findings : SUBSET Payments,
              conflict : BOOLEAN]
  /\ discrepancy \in [Payments -> {"none", "open", "resolved"}]
  /\ mark \in [Payments -> {"unmatched", "matched", "exception"}]

ReconInit ==
  /\ Init
  /\ run = NoRun
  /\ discrepancy = [p \in Payments |-> "none"]
  /\ mark = [p \in Payments |-> "unmatched"]

-----------------------------------------------------------------------------
\* The third query of find.  payment_returns has a row exactly when the journal
\* of the return is posted.
Mismatch(p) ==
  \/ payout[p] = "completed" /\ payment[p] # "succeeded"
  \/ payout[p] = "refunded" /\ "payment.return.succeeded" \notin journals[p]
  \/ payout[p] = "failed" /\ payment[p] # "failed"

BeginRun ==
  /\ ~run.open
  /\ run' = [open |-> TRUE, rows |-> {p \in Payments : payout[p] # "none"},
             findings |-> {p \in Payments : Mismatch(p)}, conflict |-> FALSE]
  /\ UNCHANGED <<vars, discrepancy, mark>>

\* The writes under READ COMMITTED.
MutantUpdatesSucceed == TRUE

UpdatesSucceed == ~run.conflict

\* A finding that was resolved before stays resolved.
MutantRecorded(p) ==
  IF p \in run.findings /\ discrepancy[p] = "none" THEN "open"
  ELSE IF p \notin run.findings /\ discrepancy[p] = "open" THEN "resolved"
  ELSE discrepancy[p]

\* Findings are opened, or opened again; what is open and was not found is
\* resolved.
Recorded(p) ==
  IF p \in run.findings THEN "open"
  ELSE IF discrepancy[p] = "open" THEN "resolved"
  ELSE discrepancy[p]

\* Every row becomes matched, then those of findings exceptions.
Marked(p) == IF p \in run.findings THEN "exception" ELSE "matched"

CommitRun ==
  /\ run.open /\ UpdatesSucceed
  /\ discrepancy' = [p \in Payments |-> Recorded(p)]
  /\ mark' = [p \in Payments |-> IF p \in run.rows THEN Marked(p) ELSE mark[p]]
  /\ run' = NoRun
  /\ UNCHANGED vars

\* The error ends the process, which loses the command being executed; crashes
\* counts that up to its bound.
AbortRun ==
  /\ run.open /\ ~UpdatesSucceed
  /\ run' = NoRun
  /\ worker' = Idle
  /\ batch' = {}
  /\ crashes' = IF worker = Idle THEN crashes ELSE Min({crashes + 1, MaxCrashes})
  /\ UNCHANGED <<messagingVars, sagaVars, ledgerVars, stored, emitted, discrepancy, mark>>
  /\ UNCHANGED <<payout, ref, submitted, provider, sent>>

\* An operator resolves a discrepancy.  The transaction of RunOnce updates every
\* discrepancy that was open when it began.
Resolve(p) ==
  /\ discrepancy[p] = "open"
  /\ discrepancy' = [discrepancy EXCEPT ![p] = "resolved"]
  /\ run' = [run EXCEPT !.conflict = run.open]
  /\ UNCHANGED <<vars, mark>>

-----------------------------------------------------------------------------
\* A step of the payout workflow writes p's payouts row, possibly with the
\* status it has.
Writes(p) == payout'[p] # payout[p] \/ (record(p) /\ Undecided(p))

\* A process that stops rolls its transaction back.
WorkflowStep ==
  /\ Next
  /\ run' = IF crashes' # crashes THEN NoRun
            ELSE [run EXCEPT !.conflict = @ \/ \E p \in run.rows : Writes(p)]
  /\ UNCHANGED <<discrepancy, mark>>

ReconNext ==
  \/ WorkflowStep
  \/ BeginRun
  \/ CommitRun
  \/ AbortRun
  \/ \E p \in Payments : Resolve(p)

ReconSpec == ReconInit /\ [][ReconNext]_allVars

\* Run repeats RunOnce, and a process that stopped is started again.
ReconFairness ==
  /\ Fairness
  /\ WF_allVars(BeginRun)
  /\ WF_allVars(CommitRun \/ AbortRun)

FairReconSpec == ReconSpec /\ ReconFairness

-----------------------------------------------------------------------------
\* A payout with an open discrepancy is marked as an exception, although a run
\* first marks every row as matched and operators resolve what it opened.
OpenIsException ==
  \A p \in Payments : discrepancy[p] = "open" => mark[p] = "exception"

\* A run marks a payout as matched only if its records agree at the moment the
\* mark becomes visible, not only when the run read them: notifications and
\* commands are applied while it is under way.
MatchedWhenRecordsAgree ==
  [][CommitRun => \A p \in Payments : mark'[p] = "matched" => ~Mismatch(p)]_allVars

\* An operator's resolution does not hide a mismatch that persists, and a
\* discrepancy that is no longer found is closed: where the two differ they
\* come to agree.
DiscrepancyFollowsRecords ==
  \A p \in Payments :
    (discrepancy[p] = "open") # Mismatch(p) ~> (discrepancy[p] = "open") = Mismatch(p)
=============================================================================
