------------------------------ MODULE JobQueue ------------------------------
(***************************************************************************)
(* What the durable queue of a pipeline stage promises, without leases,    *)
(* retries or databases: a job is in the hands of at most one runner, it   *)
(* is taken only from the queue, its holder alone settles it, a job whose  *)
(* holder is gone goes back to the queue, and a settled job stays settled  *)
(* unless the stage lets a settled job be taken up again.                  *)
(***************************************************************************)
CONSTANTS
  Runners, Jobs, Nobody,
  Volatile, \* jobs whose row can be deleted, with the snapshot they are for
  Reopenable \* jobs that can be queued or fail after they were settled

VARIABLES
  status,  \* status[j]: absent, queued, running, succeeded or failed
  owner    \* owner[j]: the runner that has job j in its hands, or Nobody

Init ==
  /\ status = [j \in Jobs |-> "absent"]
  /\ owner = [j \in Jobs |-> Nobody]

Submit(j) ==
  /\ status[j] = "absent"
  /\ status' = [status EXCEPT ![j] = "queued"]
  /\ UNCHANGED owner

Orphans == {j \in Jobs : status[j] = "running" /\ owner[j] = Nobody}

\* Some jobs that lost their holder are queued again.
Requeued(lost) == [j \in Jobs |-> IF j \in lost THEN "queued" ELSE status[j]]

Reclaim ==
  /\ \E lost \in SUBSET Orphans : status' = Requeued(lost)
  /\ UNCHANGED owner

Take(r, j) ==
  /\ owner[j] = Nobody
  /\ \A k \in Jobs : owner[k] # r
  /\ \E lost \in SUBSET Orphans :
       /\ Requeued(lost)[j] = "queued"
       /\ status' = [Requeued(lost) EXCEPT ![j] = "running"]
  /\ owner' = [owner EXCEPT ![j] = r]

Settle(r, j) ==
  /\ owner[j] = r /\ status[j] = "running"
  /\ \E s \in {"queued", "succeeded", "failed"} : status' = [status EXCEPT ![j] = s]
  /\ owner' = [owner EXCEPT ![j] = Nobody]

\* The runner is gone, and the row does not know it yet.
Abandon(r, j) ==
  /\ owner[j] = r
  /\ owner' = [owner EXCEPT ![j] = Nobody]
  /\ UNCHANGED status

\* Its last holder or a user takes a settled job up again.
Reopen(j) ==
  /\ j \in Reopenable /\ owner[j] = Nobody
  /\ status[j] \in {"succeeded", "failed"}
  /\ \E s \in {"queued", "failed"} : status' = [status EXCEPT ![j] = s]
  /\ UNCHANGED owner

\* Rows are deleted, held or not.
Discard ==
  /\ \E gone \in SUBSET Volatile :
       status' = [j \in Jobs |-> IF j \in gone THEN "absent" ELSE status[j]]
  /\ UNCHANGED owner

Next ==
  \/ Reclaim \/ Discard
  \/ \E j \in Jobs :
       \/ Submit(j) \/ Reopen(j)
       \/ \E r \in Runners : Take(r, j) \/ Settle(r, j) \/ Abandon(r, j)

Spec == Init /\ [][Next]_<<status, owner>>
=============================================================================
