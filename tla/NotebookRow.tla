----------------------------- MODULE NotebookRow -----------------------------
(***************************************************************************)
(* A row of the notebooks table and what each request handler, and the     *)
(* rescheduler, does to it (server/internal/store/notebook.go,             *)
(* notebooks.go and rescheduler.go).  As in JobRow, the version column is  *)
(* left to OptimisticStore.                                                *)
(***************************************************************************)

CONSTANT Clusters

NotebookStates == {"queued", "initializing", "running", "stopped", "deleted",
                   "requeued"}

NotebookActions == {"", "starting", "stopping", "deleting", "requeueing"}

\* The state "failed" exists in the code, but no handler sets it.
NotebookRows == [state   : NotebookStates \cup {"absent"},
                 action  : NotebookActions,
                 pulling : BOOLEAN,         \* Reason contains "Pulling"
                 cluster : Clusters]

NoNotebook(c) == [state |-> "absent", action |-> "", pulling |-> FALSE, cluster |-> c]

NewNotebook(c) == [state |-> "queued", action |-> "starting",
                   pulling |-> FALSE, cluster |-> c]

-----------------------------------------------------------------------------
(***************************************************************************)
(* The columns written by the conditional UPDATEs of the store.            *)
(***************************************************************************)

SetNotebookQueuedAction(n, action) ==
    [n EXCEPT !.state = "queued", !.action = action, !.pulling = FALSE]

\* The queued action stays as it is.
SetState(n, state) ==
    [n EXCEPT !.state = state, !.pulling = FALSE]

SetNonQueuedStateAndMessage(n, state, pulling) ==
    [n EXCEPT !.state = state, !.action = "", !.pulling = pulling]

UpdateNotebookForRescheduling(n, state, action, pulling, cluster) ==
    [n EXCEPT !.state = state, !.action = action, !.pulling = pulling,
              !.cluster = cluster]

-----------------------------------------------------------------------------
(***************************************************************************)
(* Requests: the user API (Stop, Start, Delete), the states reported with  *)
(* UpdateNotebookState, and the two loops of the rescheduler.              *)
(***************************************************************************)

Reports == {"INITIALIZING", "RUNNING", "STOPPED", "DELETED", "REQUEUED"}

NotebookRequests ==
    [op : {"StopNotebook", "StartNotebook", "DeleteNotebook", "Requeue", "Reschedule"}
          \cup Reports,
     pulling : BOOLEAN,     \* the report's reason
     cluster : Clusters]    \* what the scheduler chose

QueuedFor(n, action) == n.state = "queued" /\ n.action = action

StateReported == [INITIALIZING |-> "initializing", RUNNING |-> "running",
                  STOPPED |-> "stopped", DELETED |-> "deleted",
                  REQUEUED |-> "requeued"]

\* A report that is answered with success and not recorded: the notebook is
\* in that state, or it runs while it is being requeued.
NotebookIgnores(q, n) ==
    /\ q.op \in Reports
    /\ \/ n.state = StateReported[q.op]
       \/ q.op = "RUNNING" /\ QueuedFor(n, "requeueing")

\* StopNotebook goes on to write.  CanStopAny, for a mutation check, forgets
\* that the notebook may be about to be deleted.
CanStopAny(n) ==
    \/ n.state \in {"initializing", "running", "requeued"}
    \/ n.state = "queued" /\ n.action # "stopping"

CanStop(n) ==
    \/ n.state \in {"initializing", "running", "requeued"}
    \/ n.state = "queued" /\ n.action \notin {"stopping", "deleting"}

CanStart(n) ==
    \/ n.state = "stopped"
    \/ n.state = "queued" /\ n.action \notin {"starting", "deleting"}

\* The rescheduler takes the notebook to cluster c.  CanMoveEarly, for a
\* mutation check, does not wait for the old Deployment to be gone.
CanMoveEarly(n, c) ==
    (n.state = "requeued" \/ QueuedFor(n, "requeueing")) /\ c # n.cluster

CanMove(n, c) == n.state = "requeued" /\ c # n.cluster

\* Whether the handler of request q goes on to write a row it read as n.
NotebookAccepts(q, n) ==
    /\ ~NotebookIgnores(q, n)
    /\ \/ q.op = "StopNotebook" /\ CanStop(n)
       \/ q.op = "StartNotebook" /\ CanStart(n)
       \/ q.op = "DeleteNotebook" /\ n.action # "deleting"
       \/ q.op = "INITIALIZING" /\ QueuedFor(n, "starting")
       \/ q.op = "RUNNING" /\ n.state = "initializing"
       \/ q.op = "STOPPED" /\ QueuedFor(n, "stopping")
       \/ q.op = "DELETED" /\ QueuedFor(n, "deleting")
       \/ q.op = "REQUEUED" /\ QueuedFor(n, "requeueing")
       \/ q.op = "Requeue" /\ n.state = "initializing" /\ ~n.pulling
       \/ q.op = "Reschedule" /\ CanMove(n, q.cluster)

\* The row the handler of request q writes over n.
NotebookApply(q, n) ==
    CASE q.op = "StopNotebook"   -> SetNotebookQueuedAction(n, "stopping")
      [] q.op = "StartNotebook"  -> SetNotebookQueuedAction(n, "starting")
      [] q.op = "DeleteNotebook" -> SetNotebookQueuedAction(n, "deleting")
      [] q.op = "INITIALIZING"   -> SetNonQueuedStateAndMessage(n, "initializing", q.pulling)
      [] q.op = "RUNNING"        -> SetState(n, "running")
      [] q.op = "STOPPED"        -> SetNonQueuedStateAndMessage(n, "stopped", q.pulling)
      [] q.op = "DELETED"        -> SetNonQueuedStateAndMessage(n, "deleted", q.pulling)
      [] q.op = "REQUEUED"       -> UpdateNotebookForRescheduling(n, "requeued", n.action,
                                                                  FALSE, n.cluster)
      [] q.op = "Requeue"        -> UpdateNotebookForRescheduling(n, "queued", "requeueing",
                                                                  n.pulling, n.cluster)
      [] q.op = "Reschedule"     -> UpdateNotebookForRescheduling(n, "queued", "starting",
                                                                  FALSE, q.cluster)

=============================================================================
