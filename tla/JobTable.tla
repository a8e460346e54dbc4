------------------------------ MODULE JobTable ------------------------------
(***************************************************************************)
(* The row of a durable job and the updates that the three stages of the   *)
(* pipeline (ingestion, chunking, embedding) apply to it.  The services    *)
(* triplicate this code; the modules of the stages share it.               *)
(*                                                                         *)
(* Wall-clock times are abstracted to what the code compares them for:     *)
(* lease_expires_at is "none" (NULL), "live" (in the future) or "expired", *)
(* and next_attempt_at is whether the retry delay is still running.        *)
(***************************************************************************)
EXTENDS Naturals

Statuses == {"absent", "queued", "running", "succeeded", "failed"}
Leases   == {"none", "live", "expired"}

\* The lease and retry columns of a row; "absent" is a row not inserted yet.
JobRow == [status: Statuses, attempts: Nat, lease: Leases, backoff: BOOLEAN]

AbsentJob == [status |-> "absent", attempts |-> 0, lease |-> "none", backoff |-> FALSE]
QueuedJob == [status |-> "queued", attempts |-> 0, lease |-> "none", backoff |-> FALSE]

Active(job)   == job.status \in {"queued", "running"}
Finished(job) == job.status \in {"succeeded", "failed"}

\* Mutant of RequeueExpired: nothing recovers an expired lease.
RequeueNothing(job) == job

\* First statement of claim_next: a running job whose lease is in the past is
\* queued again, whatever its attempt count.
RequeueExpired(job) ==
  IF job.status = "running" /\ job.lease = "expired"
  THEN [job EXCEPT !.status = "queued", !.lease = "none"]
  ELSE job

\* Mutant of Claimable: the SELECT does not look at the status.
ClaimableActive(job) == Active(job) /\ ~job.backoff

\* Second statement: the rows the SELECT may return, and the claim itself.
Claimable(job) == job.status = "queued" /\ ~job.backoff

\* Mutant of ClaimRow: the claim takes no lease.
ClaimRowNoLease(job) == [job EXCEPT !.status = "running", !.attempts = @ + 1]

ClaimRow(job) == [status |-> "running", attempts |-> job.attempts + 1,
                  lease |-> "live", backoff |-> FALSE]

RenewLease(job) == [job EXCEPT !.lease = "live"]

\* _succeed and _fail_or_retry write whatever the row's status is by now.
SucceedRow(job) == [job EXCEPT !.status = "succeeded", !.lease = "none"]

\* Mutant of FailOrRetryRow: one attempt too many.
FailOrRetryRowLate(job, transient, max) ==
  IF transient /\ job.attempts <= max
  THEN [job EXCEPT !.status = "queued", !.lease = "none", !.backoff = TRUE]
  ELSE [job EXCEPT !.status = "failed", !.lease = "none"]

FailOrRetryRow(job, transient, max) ==
  IF transient /\ job.attempts < max
  THEN [job EXCEPT !.status = "queued", !.lease = "none", !.backoff = TRUE]
  ELSE [job EXCEPT !.status = "failed", !.lease = "none"]
=============================================================================
