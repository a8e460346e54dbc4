--------------------------- MODULE JobTableProofs ---------------------------
(***************************************************************************)
(* Lemmas about the rows of the job tables, proved with TLAPS: the proofs  *)
(* about the stages rest on them.                                          *)
(***************************************************************************)
EXTENDS JobTable, TLAPS

\* Every update of a row yields a row.
LEMMA RowTypes ==
  ASSUME NEW job \in JobRow
  PROVE  /\ RequeueExpired(job) \in JobRow
         /\ ClaimRow(job) \in JobRow
         /\ RenewLease(job) \in JobRow
         /\ SucceedRow(job) \in JobRow
         /\ \A transient \in BOOLEAN, max \in Nat :
              FailOrRetryRow(job, transient, max) \in JobRow
  <1> USE DEF JobRow, Statuses, Leases
  <1>1. RequeueExpired(job) \in JobRow
    BY DEF RequeueExpired
  <1>2. ClaimRow(job) \in JobRow
    BY DEF ClaimRow
  <1>3. RenewLease(job) \in JobRow
    BY DEF RenewLease
  <1>4. SucceedRow(job) \in JobRow
    BY DEF SucceedRow
  <1>5. ASSUME NEW transient \in BOOLEAN, NEW max \in Nat
        PROVE  FailOrRetryRow(job, transient, max) \in JobRow
    BY DEF FailOrRetryRow
  <1>6. QED
    BY <1>1, <1>2, <1>3, <1>4, <1>5

\* The two constant rows are rows.
LEMMA ConstantRows == AbsentJob \in JobRow /\ QueuedJob \in JobRow
  BY DEF JobRow, Statuses, Leases, AbsentJob, QueuedJob
\* The passage of time keeps the types of a row.
LEMMA ClockTypes ==
  ASSUME NEW job \in JobRow
  PROVE  [job EXCEPT !.lease = "expired"] \in JobRow /\ [job EXCEPT !.backoff = FALSE] \in JobRow
  BY DEF JobRow, Leases
=============================================================================
