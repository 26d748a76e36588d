------------------------------ MODULE BatchRow ------------------------------
(***************************************************************************)
(* A row of the batch_jobs table and what each request handler does to it  *)
(* (server/internal/store/batchjob.go and batch_server.go).  As in JobRow, *)
(* the version column is left to OptimisticStore.                          *)
(***************************************************************************)

BatchStates == {"queued", "running", "succeeded", "failed", "canceled", "deleted"}

BatchActions == {"", "creating", "canceling", "deleting"}

BatchRows == [state : BatchStates \cup {"absent"}, action : BatchActions]

NoBatch == [state |-> "absent", action |-> ""]

\* The row CreateBatchJob inserts.
NewBatch == [state |-> "queued", action |-> "creating"]

\* The conditional UPDATEs of the store.  SetBatchJobState and
\* SetNonQueuedBatchJobStateAndMessage differ in the message alone.
SetBatchJobQueuedAction(action) == [state |-> "queued", action |-> action]

SetBatchJobState(state) == [state |-> state, action |-> ""]

-----------------------------------------------------------------------------
(***************************************************************************)
(* Requests: the user API (Cancel, Delete) and the states reported with    *)
(* UpdateBatchJobState.                                                    *)
(***************************************************************************)

BatchReports == {"RUNNING", "SUCCEEDED", "CANCELED", "DELETED", "FAILED"}

BatchRequests == {"CancelBatchJob", "DeleteBatchJob"} \cup BatchReports

convertBatchJobState ==
    [RUNNING |-> "running", SUCCEEDED |-> "succeeded", CANCELED |-> "canceled",
     DELETED |-> "deleted", FAILED |-> "failed"]

\* A report of the state the job is in is answered with success.
BatchIgnores(q, b) == q \in BatchReports /\ b.state = convertBatchJobState[q]

\* SUCCEEDED is taken of running jobs; for a mutation check, of queued ones.
CanSucceedQueued(b) == b.state \in {"queued", "running"}

CanSucceed(b) == b.state = "running"

\* Whether the handler of request q goes on to write a row it read as b.  The
\* guards of three reports are conjunctions in the code ("not queued and not
\* creating" is refused), so that any queued action will do.
BatchAccepts(q, b) ==
    /\ ~BatchIgnores(q, b)
    /\ \/ /\ q = "CancelBatchJob"
          /\ \/ b.state = "running"
             \/ b.state = "queued" /\ b.action # "canceling"
       \/ /\ q = "DeleteBatchJob"
          /\ b.state # "deleted"
          /\ ~(b.state = "queued" /\ b.action = "deleting")
       \/ q = "RUNNING" /\ (b.state = "queued" \/ b.action = "creating")
       \/ q = "SUCCEEDED" /\ CanSucceed(b)
       \/ q = "CANCELED" /\ (b.state = "queued" \/ b.action = "canceling")
       \/ q = "DELETED" /\ (b.state = "queued" \/ b.action = "deleting")
       \/ q = "FAILED"

\* The row the handler of request q writes over b.
BatchApply(q, b) ==
    CASE q = "CancelBatchJob" -> SetBatchJobQueuedAction("canceling")
      [] q = "DeleteBatchJob" -> SetBatchJobQueuedAction("deleting")
      [] q \in BatchReports   -> SetBatchJobState(convertBatchJobState[q])

=============================================================================
