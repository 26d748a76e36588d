------------------------------- MODULE JobRow -------------------------------
(***************************************************************************)
(* A row of the jobs table and what each request handler of the server     *)
(* does to it (server/internal/store/job.go and fine_tuning.go).  Every    *)
(* handler reads the row, decides, and writes it back with a conditional   *)
(* UPDATE on the version column.  This module holds the decision and the   *)
(* new contents; the version is the business of OptimisticStore.           *)
(***************************************************************************)

CONSTANTS
    Models,     \* ids the model manager hands out for generated models
    NoModel     \* the empty model id

ASSUME NoModelAssumption == NoModel \notin Models

JobStates == {"queued", "running", "failed", "succeeded", "canceled"}

JobActions == {"", "creating", "canceling"}

Terminal == {"failed", "succeeded", "canceled"}

ModelIDs == Models \cup {NoModel}

\* The columns a handler changes.  fineTuned is the FineTunedModel field of
\* the serialised message; "absent" is a job that has not been created.
JobRows == [state       : JobStates \cup {"absent"},
            action      : JobActions,
            outputModel : ModelIDs,
            fineTuned   : ModelIDs]

NoJob == [state |-> "absent", action |-> "",
          outputModel |-> NoModel, fineTuned |-> NoModel]

\* The row CreateJob inserts.
NewJob == [state |-> "queued", action |-> "creating",
           outputModel |-> NoModel, fineTuned |-> NoModel]

-----------------------------------------------------------------------------
(***************************************************************************)
(* The columns written by the conditional UPDATEs of the store.            *)
(***************************************************************************)

UpdateJobState(j, state, action) ==
    [j EXCEPT !.state = state, !.action = action]

\* For a mutation check: the queued action is not cleared.
UpdateKeepsAction(j, state, fineTuned) ==
    [j EXCEPT !.state = state, !.fineTuned = fineTuned]

\* The message is replaced as a whole; its only part kept here is fineTuned.
UpdateJobStateAndMessage(j, state, fineTuned) ==
    [j EXCEPT !.state = state, !.action = "", !.fineTuned = fineTuned]

\* For a mutation check: the first model id is kept.
UpdateOutputModelIDOnce(j, model) ==
    [j EXCEPT !.outputModel = IF @ = NoModel THEN model ELSE @]

UpdateOutputModelID(j, model) ==
    [j EXCEPT !.outputModel = model]

-----------------------------------------------------------------------------
(***************************************************************************)
(* Requests: CancelJob of the user API and the phases of UpdateJobPhase.   *)
(***************************************************************************)

JobRequests == [op : {"CancelJob", "PREPROCESSED", "JOB_CREATED", "FINETUNED",
                      "CANCELED", "FAILED", "RECREATE"},
                model : ModelIDs]

\* Variants for mutation checks: RECREATE, or FINETUNED, in any state.
RecreateUnchecked(q, j) ==
    \/ /\ q.op = "CancelJob"
       /\ \/ j.state = "running"
          \/ j.state = "queued" /\ j.action # "canceling"
    \/ q.op = "PREPROCESSED" /\ j.state = "queued" /\ q.model # NoModel
    \/ q.op = "JOB_CREATED" /\ j.state = "queued"
    \/ q.op = "FINETUNED" /\ j.state = "running" /\ q.model # NoModel
    \/ q.op \in {"CANCELED", "FAILED", "RECREATE"}

FinetunedUnchecked(q, j) ==
    \/ /\ q.op = "CancelJob"
       /\ \/ j.state = "running"
          \/ j.state = "queued" /\ j.action # "canceling"
    \/ q.op = "PREPROCESSED" /\ j.state = "queued" /\ q.model # NoModel
    \/ q.op = "JOB_CREATED" /\ j.state = "queued"
    \/ q.op = "FINETUNED" /\ q.model # NoModel
    \/ q.op \in {"CANCELED", "FAILED"}
    \/ q.op = "RECREATE" /\ j.state = "running"

\* Whether the handler of request q goes on to write a row it read as j.
JobAccepts(q, j) ==
    \/ /\ q.op = "CancelJob"
       /\ \/ j.state = "running"
          \/ j.state = "queued" /\ j.action # "canceling"
    \/ q.op = "PREPROCESSED" /\ j.state = "queued" /\ q.model # NoModel
    \/ q.op = "JOB_CREATED" /\ j.state = "queued"
    \/ q.op = "FINETUNED" /\ j.state = "running" /\ q.model # NoModel
    \/ q.op \in {"CANCELED", "FAILED"}
    \/ q.op = "RECREATE" /\ j.state = "running"

\* The row the handler of request q writes over j.
JobApply(q, j) ==
    CASE q.op = "CancelJob"    -> UpdateJobState(j, "queued", "canceling")
      [] q.op = "PREPROCESSED" -> UpdateOutputModelID(j, q.model)
      [] q.op = "JOB_CREATED"  -> UpdateJobState(j, "running", "")
      [] q.op = "FINETUNED"    -> UpdateJobStateAndMessage(j, "succeeded", q.model)
      [] q.op = "CANCELED"     -> UpdateJobStateAndMessage(j, "canceled", j.fineTuned)
      [] q.op = "FAILED"       -> UpdateJobStateAndMessage(j, "failed", j.fineTuned)
      [] q.op = "RECREATE"     -> UpdateJobState(j, "queued", "creating")

=============================================================================
