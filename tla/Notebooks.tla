------------------------------ MODULE Notebooks ------------------------------
(***************************************************************************)
(* Notebooks over several clusters: the server's notebooks table and its   *)
(* rescheduler, and in every cluster the dispatcher's worker, the          *)
(* NotebookManager reconciler and the Deployments.  All notebooks here     *)
(* have the same name and project, so that CreateNotebook's check applies. *)
(*                                                                         *)
(* Each request to the server is one step (OptimisticStore implements      *)
(* AtomicStore); between two requests, or two calls to the API server of   *)
(* a cluster, everything else may happen.                                  *)
(***************************************************************************)
EXTENDS NotebookRow, Integers, FiniteSets

CONSTANTS
    Notebooks,      \* notebook ids
    MaxOps,         \* bound: Stop, Start and Delete requests
    MaxCreators,    \* bound: CreateNotebook handlers at work at once
    MaxFaults,      \* bound: failed calls
    MaxLostDeletes  \* bound: failed deletions of a Deployment

ASSUME NotebooksAssumption ==
    /\ Clusters # {}
    /\ {MaxOps, MaxCreators, MaxFaults, MaxLostDeletes} \subseteq Nat

VARIABLES
    nbs,        \* the notebooks table
    arriving,   \* notebooks whose CreateNotebook has passed the name check
    deploy,     \* cluster -> notebook -> its Deployment
    todo,       \* cluster -> notebook -> what the dispatcher's worker still
                \*   has to do: the queued action as listed, then its report
    seen,       \* cluster -> what the reconciler is about to report
    workq,      \* cluster -> the reconciler's work queue
    ops, faults, lost

vars == <<nbs, arriving, deploy, todo, seen, workq, ops, faults, lost>>
cluster == <<deploy, todo, seen, workq>>
budgets == <<ops, faults, lost>>

\* No Deployment; scaled to zero; pods not ready; the image is being pulled;
\* all replicas ready.
Deployments == {"none", "zero", "starting", "pulling", "ready"}

Live == {"starting", "pulling", "ready"}

NothingSeen == [obs |-> "none"]

TypeOK ==
    /\ nbs \in [Notebooks -> NotebookRows]
    /\ arriving \subseteq Notebooks
    /\ deploy \in [Clusters -> [Notebooks -> Deployments]]
    /\ todo \in [Clusters -> [Notebooks -> NotebookActions \cup Reports]]
    /\ seen \in [Clusters -> [nb : Notebooks, obs : {"pulling", "ready"}] \cup {NothingSeen}]
    /\ workq \in [Clusters -> SUBSET Notebooks]
    /\ ops \in 0 .. MaxOps /\ faults \in 0 .. MaxFaults /\ lost \in 0 .. MaxLostDeletes

Nothing == [n \in Notebooks |-> ""]

Init ==
    /\ nbs \in {[n \in Notebooks |-> NoNotebook(c)] : c \in Clusters}
    /\ arriving = {}
    /\ deploy = [c \in Clusters |-> [n \in Notebooks |-> "none"]]
    /\ todo = [c \in Clusters |-> Nothing]
    /\ seen = [c \in Clusters |-> NothingSeen]
    /\ workq = [c \in Clusters |-> {}]
    /\ ops = 0 /\ faults = 0 /\ lost = 0

-----------------------------------------------------------------------------
(***************************************************************************)
(* The server: user API and rescheduler.                                   *)
(***************************************************************************)

Active(n) == nbs[n].state \notin {"absent", "deleted"}

Request(op, pulling, c) == [op |-> op, pulling |-> pulling, cluster |-> c]

Serve(n, q) ==
    /\ nbs[n].state # "absent"
    /\ NotebookAccepts(q, nbs[n])
    /\ nbs' = [nbs EXCEPT ![n] = NotebookApply(q, nbs[n])]

\* CreateNotebook up to the name check, and from there to the INSERT: in
\* between it chooses a cluster and creates a Secret there.
CheckName(n) ==
    /\ nbs[n].state = "absent" /\ n \notin arriving
    /\ Cardinality(arriving) < MaxCreators
    /\ \A m \in Notebooks : ~Active(m)
    /\ arriving' = arriving \cup {n}
    /\ UNCHANGED <<nbs, cluster, budgets>>

InsertNotebook(n) ==
    /\ n \in arriving
    /\ arriving' = arriving \ {n}
    /\ \E c \in Clusters : nbs' = [nbs EXCEPT ![n] = NewNotebook(c)]
    /\ UNCHANGED <<cluster, budgets>>

UserRequest(n) ==
    /\ ops < MaxOps /\ ops' = ops + 1
    /\ \E op \in {"StopNotebook", "StartNotebook", "DeleteNotebook"} :
          Serve(n, Request(op, FALSE, nbs[n].cluster))
    /\ UNCHANGED <<arriving, cluster, faults, lost>>

\* The rescheduler finds the notebook initializing for too long.
RequeueStuck(n) ==
    /\ Serve(n, Request("Requeue", FALSE, nbs[n].cluster))
    /\ UNCHANGED <<arriving, cluster, budgets>>

\* scheduleNotebook never chooses the cluster the notebook was on.
Reschedule(n) ==
    /\ \E c \in Clusters : Serve(n, Request("Reschedule", FALSE, c))
    /\ UNCHANGED <<arriving, cluster, budgets>>

-----------------------------------------------------------------------------
(***************************************************************************)
(* The dispatcher's worker in cluster c: processNotebooks.                 *)
(***************************************************************************)

SetDeployment(c, n, d) ==
    /\ deploy' = [deploy EXCEPT ![c][n] = d]
    /\ workq' = [workq EXCEPT ![c] = @ \cup {n}]

\* processNotebooks returns an error: it is called again after a delay, or
\* the process exits (no attempt left, or another worker failed) and starts
\* afresh; its informer then lists the Deployments.
PassFails(c) ==
    /\ todo' = [todo EXCEPT ![c] = Nothing]
    /\ \/ UNCHANGED <<seen, workq>>
       \/ /\ seen' = [seen EXCEPT ![c] = NothingSeen]
          /\ workq' = [workq EXCEPT ![c] = {n \in Notebooks : deploy[c][n] # "none"}]

\* For a mutation check: notebooks to be requeued are not listed.
ListWithoutRequeueing(c) ==
    /\ todo[c] = Nothing
    /\ todo' = [todo EXCEPT ![c] =
          [n \in Notebooks |-> IF /\ nbs[n].state = "queued" /\ nbs[n].cluster = c
                                  /\ nbs[n].action # "requeueing"
                               THEN nbs[n].action ELSE ""]]
    /\ UNCHANGED <<nbs, arriving, deploy, seen, workq, budgets>>

ListQueuedInternalNotebooks(c) ==
    /\ todo[c] = Nothing
    /\ \E n \in Notebooks : nbs[n].state = "queued" /\ nbs[n].cluster = c
    /\ todo' = [todo EXCEPT ![c] =
          [n \in Notebooks |-> IF nbs[n].state = "queued" /\ nbs[n].cluster = c
                               THEN nbs[n].action ELSE ""]]
    /\ UNCHANGED <<nbs, arriving, deploy, seen, workq, budgets>>

ReportOf == [starting |-> "INITIALIZING", stopping |-> "STOPPED",
             deleting |-> "DELETED", requeueing |-> "REQUEUED"]

\* The worker takes up n: the listed notebooks come in any order, and each is
\* finished before the next.
TakesUp(c, n, actions) ==
    /\ todo[c][n] \in actions
    /\ \A m \in Notebooks : todo[c][m] \notin Reports

\* The action is carried out and will be reported.
Done(c, n) ==
    /\ todo' = [todo EXCEPT ![c][n] = ReportOf[@]]
    /\ UNCHANGED <<nbs, arriving, seen, ops, faults>>

\* The Deployment is applied with one replica.
CreateDeployment(c, n) ==
    /\ TakesUp(c, n, {"starting"})
    /\ SetDeployment(c, n, IF deploy[c][n] \in Live THEN deploy[c][n] ELSE "starting")
    /\ Done(c, n) /\ UNCHANGED lost

\* For a mutation check: only a Deployment that is ready is scaled.
StopReady(c, n) ==
    /\ TakesUp(c, n, {"stopping"})
    /\ \/ deploy[c][n] = "ready" /\ SetDeployment(c, n, "zero")
       \/ deploy[c][n] # "ready" /\ UNCHANGED <<deploy, workq>>
    /\ Done(c, n) /\ UNCHANGED lost

\* stopNotebook scales to zero a Deployment that it has to find.
StopDeployment(c, n) ==
    /\ TakesUp(c, n, {"stopping"})
    /\ \/ /\ deploy[c][n] # "none"
          /\ SetDeployment(c, n, "zero") /\ Done(c, n)
       \/ /\ deploy[c][n] = "none" /\ PassFails(c)
          /\ UNCHANGED <<nbs, arriving, deploy, ops, faults>>
    /\ UNCHANGED lost

\* For a mutation check: a Deployment scaled to zero is left there.
DeleteLive(c, n) ==
    /\ TakesUp(c, n, {"deleting", "requeueing"})
    /\ \/ deploy[c][n] \in Live /\ SetDeployment(c, n, "none")
       \/ deploy[c][n] \notin Live /\ UNCHANGED <<deploy, workq>>
    /\ Done(c, n) /\ UNCHANGED lost

\* deleteNotebook, for deleting and for requeueing.  An error of the Delete
\* call is dropped, as if the Deployment had been deleted.
DeleteDeployment(c, n) ==
    /\ TakesUp(c, n, {"deleting", "requeueing"})
    /\ \/ SetDeployment(c, n, "none") /\ UNCHANGED lost
       \/ /\ deploy[c][n] # "none" /\ lost < MaxLostDeletes
          /\ lost' = lost + 1 /\ UNCHANGED <<deploy, workq>>
    /\ Done(c, n)

Records(n, q) == Serve(n, q) \/ (NotebookIgnores(q, nbs[n]) /\ UNCHANGED nbs)

Refuses(n, q) == ~NotebookAccepts(q, nbs[n]) /\ ~NotebookIgnores(q, nbs[n])

ReportAction(c, n) ==
    LET q == Request(todo[c][n], FALSE, c) IN
    /\ todo[c][n] \in Reports
    /\ \/ /\ Records(n, q)
          /\ todo' = [todo EXCEPT ![c][n] = ""]
          /\ UNCHANGED <<seen, workq>>
       \/ Refuses(n, q) /\ PassFails(c) /\ UNCHANGED nbs
    /\ UNCHANGED <<arriving, deploy, budgets>>

-----------------------------------------------------------------------------
(***************************************************************************)
(* The reconciler of cluster c, and Kubernetes.                            *)
(***************************************************************************)

\* For a mutation check: what is not ready is reported as well.
GetAnyDeployment(c, n) ==
    /\ seen[c] = NothingSeen /\ n \in workq[c]
    /\ workq' = [workq EXCEPT ![c] = @ \ {n}]
    /\ seen' = [seen EXCEPT ![c] = [nb |-> n, obs |-> deploy[c][n]]]
    /\ UNCHANGED <<nbs, arriving, deploy, todo, budgets>>

\* Reconcile looks at the Deployment and its pods; what is gone, scaled to
\* zero or not ready is not reported.
GetDeployment(c, n) ==
    /\ seen[c] = NothingSeen /\ n \in workq[c]
    /\ workq' = [workq EXCEPT ![c] = @ \ {n}]
    /\ seen' = IF deploy[c][n] \in {"pulling", "ready"}
               THEN [seen EXCEPT ![c] = [nb |-> n, obs |-> deploy[c][n]]]
               ELSE seen
    /\ UNCHANGED <<nbs, arriving, deploy, todo, budgets>>

Observation(c) ==
    IF seen[c].obs = "pulling" THEN Request("INITIALIZING", TRUE, c)
                               ELSE Request("RUNNING", FALSE, c)

Seen(c) == seen' = [seen EXCEPT ![c] = NothingSeen]

ReportDeployment(c) ==
    LET n == seen[c].nb
        q == Observation(c)
    IN
    /\ seen[c] # NothingSeen /\ Seen(c)
    /\ \/ Records(n, q) /\ UNCHANGED workq
       \/ /\ Refuses(n, q) /\ UNCHANGED nbs
          /\ workq' = [workq EXCEPT ![c] = @ \cup {n}]
    /\ UNCHANGED <<arriving, deploy, todo, budgets>>

PodsChange(c, n) ==
    /\ deploy[c][n] \in Live
    /\ \E d \in Live \ {deploy[c][n]} : SetDeployment(c, n, d)
    /\ UNCHANGED <<nbs, arriving, todo, seen, budgets>>

Fault == faults < MaxFaults /\ faults' = faults + 1 /\ UNCHANGED <<ops, lost>>

\* A call of the worker fails; it may have had its effect in the step before.
AbortPass(c) ==
    /\ todo[c] # Nothing /\ Fault /\ PassFails(c)
    /\ UNCHANGED <<nbs, arriving, deploy>>

AbortReconcile(c) ==
    /\ seen[c] # NothingSeen /\ Fault /\ Seen(c)
    /\ workq' = [workq EXCEPT ![c] = @ \cup {seen[c].nb}]
    /\ UNCHANGED <<nbs, arriving, deploy, todo>>

-----------------------------------------------------------------------------

Worker(c) ==
    \/ ListQueuedInternalNotebooks(c)
    \/ \E n \in Notebooks : \/ CreateDeployment(c, n) \/ StopDeployment(c, n)
                            \/ DeleteDeployment(c, n) \/ ReportAction(c, n)

Next ==
    \/ \E n \in Notebooks : \/ CheckName(n) \/ InsertNotebook(n) \/ UserRequest(n)
                            \/ RequeueStuck(n) \/ Reschedule(n)
    \/ \E c \in Clusters : \/ Worker(c) \/ ReportDeployment(c)
                           \/ AbortPass(c) \/ AbortReconcile(c)
                           \/ \E n \in Notebooks : GetDeployment(c, n) \/ PodsChange(c, n)

Spec == Init /\ [][Next]_vars

(***************************************************************************)
(* Fairness: the workers poll, the rescheduler ticks.                      *)
(***************************************************************************)
Fairness ==
    /\ \A c \in Clusters : WF_vars(Worker(c))
    /\ \A n \in Notebooks : WF_vars(Reschedule(n))

FairSpec == Spec /\ Fairness

-----------------------------------------------------------------------------
(***************************************************************************)
(* Properties                                                              *)
(***************************************************************************)

\* Unless a deletion was lost, a notebook reported STOPPED has no pods in any
\* cluster, although starts, stops and reports of what was seen earlier cross
\* each other (processNotebooks, UpdateNotebookState).
StoppedHasNoPods ==
    lost = 0 =>
        \A n \in Notebooks, c \in Clusters :
            nbs[n].state = "stopped" => deploy[c][n] \notin Live

\* Unless a deletion was lost, a notebook reported DELETED has left no
\* Deployment behind, in the cluster it is on or in one it was on before
\* (deleteNotebook).
DeletedIsGone ==
    lost = 0 =>
        \A n \in Notebooks, c \in Clusters :
            nbs[n].state = "deleted" => deploy[c][n] = "none"

\* Once DeleteNotebook has been accepted the notebook goes, and stays gone: no
\* user, late report or rescheduler undoes it (StopNotebook, StartNotebook,
\* UpdateNotebookState, rescheduleNotebooks).
DeleteIsFinal ==
    [][\A n \in Notebooks :
          LET Gone(nb) == nb.state = "deleted" \/ QueuedFor(nb, "deleting") IN
          Gone(nbs[n]) => Gone(nbs'[n])]_vars

\* Unless a deletion was lost, a notebook has a Deployment in one cluster at
\* most: the old one is deleted before the rescheduler moves the notebook
\* (REQUEUED).
OneDeployment ==
    lost = 0 =>
        \A n \in Notebooks :
            \A c, d \in Clusters :
                deploy[c][n] # "none" /\ deploy[d][n] # "none" => c = d

\* stopNotebook fails for as long as there is no Deployment to scale.
CannotStop(n) ==
    QueuedFor(nbs[n], "stopping") /\ deploy[nbs[n].cluster][n] = "none"

\* What users ask for is carried out in the end, and a notebook that was
\* requeued is placed again when there is another cluster; unless a notebook
\* without a Deployment is to be stopped, which blocks the cluster's worker.
QueuedIsServed ==
    \A n \in Notebooks :
        (nbs[n].state \in {"queued", "requeued"})
          ~> (nbs[n].state \notin {"queued", "requeued"} \/ \E m \in Notebooks : CannotStop(m))

=============================================================================
