------------------------------ MODULE BatchJobs ------------------------------
(***************************************************************************)
(* Batch jobs end to end: the server's batch_jobs table, the dispatcher's  *)
(* worker, the BatchJobManager reconciler, and in the cluster the Job      *)
(* objects with the Secret and the ConfigMap their pods need.              *)
(*                                                                         *)
(* Each request to the server is one step (OptimisticStore implements      *)
(* AtomicStore).  Between two requests, or two calls to the API server,    *)
(* everything else may happen.                                             *)
(***************************************************************************)
EXTENDS BatchRow, Integers

CONSTANTS
    Jobs,       \* batch job ids
    WithFiles,  \* the jobs that have data files
    MaxOps,     \* bound: Cancel and Delete requests
    MaxFaults   \* bound: failed calls and crashes

ASSUME BatchJobsAssumption ==
    WithFiles \subseteq Jobs /\ MaxOps \in Nat /\ MaxFaults \in Nat

VARIABLES
    batch,      \* the batch_jobs table
    k8s,        \* job -> its Job object
    scripts,    \* job -> its Secret and ConfigMap
    todo,       \* job -> what the worker still has to do: the queued action as
                \*   listed, "owning" between the two halves of creating, then
                \*   the report
    seen,       \* what the reconciler has in hand
    workq,      \* the reconciler's work queue
    ops, faults

vars == <<batch, k8s, scripts, todo, seen, workq, ops, faults>>
cluster == <<k8s, scripts, todo, seen, workq>>
budgets == <<ops, faults>>

Objects == {"none", "active", "suspended", "succeeded", "failed"}

\* "free": as the server made them; "owned": by the Job object, which takes
\* them along when it goes; "empty": made by the dispatcher, without contents.
Scripts == {"none", "free", "owned", "empty"}

NothingSeen == [step |-> "idle"]

Reconciled == {NothingSeen}
    \cup [step : {"got"}, job : Jobs, object : Objects \ {"none"}]
    \cup [step : {"FAILED", "SUCCEEDED", "delete"}, job : Jobs]

TypeOK ==
    /\ batch \in [Jobs -> BatchRows]
    /\ k8s \in [Jobs -> Objects]
    /\ scripts \in [Jobs -> Scripts]
    /\ todo \in [Jobs -> BatchActions \cup {"owning"} \cup BatchReports]
    /\ seen \in Reconciled
    /\ workq \subseteq Jobs
    /\ ops \in 0 .. MaxOps /\ faults \in 0 .. MaxFaults

Nothing == [j \in Jobs |-> ""]

Init ==
    /\ batch = [j \in Jobs |-> NoBatch]
    /\ k8s = [j \in Jobs |-> "none"]
    /\ scripts = [j \in Jobs |-> "none"]
    /\ todo = Nothing /\ seen = NothingSeen /\ workq = {}
    /\ ops = 0 /\ faults = 0

-----------------------------------------------------------------------------
(***************************************************************************)
(* The server.                                                             *)
(***************************************************************************)

Serve(j, q) ==
    /\ batch[j].state # "absent"
    /\ BatchAccepts(q, batch[j])
    /\ batch' = [batch EXCEPT ![j] = BatchApply(q, batch[j])]

\* CreateBatchJob makes the Secret and the ConfigMap, then the row.
CreateScripts(j) ==
    /\ batch[j].state = "absent" /\ scripts[j] = "none"
    /\ scripts' = [scripts EXCEPT ![j] = "free"]
    /\ UNCHANGED <<batch, k8s, todo, seen, workq, budgets>>

\* For a mutation check: the row comes first.
InsertBeforeScripts(j) ==
    /\ batch[j].state = "absent" /\ scripts[j] = "none"
    /\ batch' = [batch EXCEPT ![j] = NewBatch]
    /\ UNCHANGED <<cluster, budgets>>

InsertBatchJob(j) ==
    /\ batch[j].state = "absent" /\ scripts[j] = "free"
    /\ batch' = [batch EXCEPT ![j] = NewBatch]
    /\ UNCHANGED <<cluster, budgets>>

UserRequest(j) ==
    /\ ops < MaxOps /\ ops' = ops + 1
    /\ \E q \in {"CancelBatchJob", "DeleteBatchJob"} : Serve(j, q)
    /\ UNCHANGED <<cluster, faults>>

-----------------------------------------------------------------------------
(***************************************************************************)
(* The dispatcher's worker: processBatchJobs.                              *)
(***************************************************************************)

\* A Job object that goes takes what it owns along.
SetObject(j, object) ==
    /\ k8s' = [k8s EXCEPT ![j] = object]
    /\ scripts' = IF object = "none" /\ scripts[j] \in {"owned", "empty"}
                  THEN [scripts EXCEPT ![j] = "none"] ELSE scripts
    /\ workq' = workq \cup {j}

\* processBatchJobs returns an error: it is called again after a delay, or
\* the process exits (no attempt left, or another worker failed) and starts
\* afresh; its informer then lists the Job objects.
PassFails ==
    /\ todo' = Nothing
    /\ \/ UNCHANGED <<seen, workq>>
       \/ seen' = NothingSeen /\ workq' = {j \in Jobs : k8s[j] # "none"}

ListQueuedInternalBatchJobs ==
    /\ todo = Nothing
    /\ \E j \in Jobs : batch[j].state = "queued"
    /\ todo' = [j \in Jobs |-> IF batch[j].state = "queued" THEN batch[j].action ELSE ""]
    /\ UNCHANGED <<batch, k8s, scripts, seen, workq, budgets>>

\* The worker takes up j: the listed jobs come in any order, and each is
\* finished before the next.
TakesUp(j, action) ==
    /\ todo[j] = action
    /\ \A i \in Jobs : todo[i] \in BatchActions

Goes(j, step) ==
    /\ todo' = [todo EXCEPT ![j] = step]
    /\ UNCHANGED <<batch, seen, budgets>>

\* The first half of createBatchJob, server-side apply of the Job object.  A
\* presigned URL for every data file is part of the pod template and is new
\* each time; Kubernetes lets nobody change the template of a Job.
ApplyJob(j) ==
    /\ TakesUp(j, "creating")
    /\ \/ k8s[j] = "none" /\ SetObject(j, "active") /\ Goes(j, "owning")
       \/ /\ k8s[j] # "none" /\ j \notin WithFiles
          /\ Goes(j, "owning") /\ UNCHANGED <<k8s, scripts, workq>>
       \/ /\ k8s[j] # "none" /\ j \in WithFiles
          /\ PassFails /\ UNCHANGED <<batch, k8s, scripts, budgets>>

\* The second half makes the Job object the owner of Secret and ConfigMap,
\* which apply creates when they are not there.  They are collected at once
\* when that owner is gone.
OwnScripts(j) ==
    /\ todo[j] = "owning"
    /\ scripts' = [scripts EXCEPT ![j] =
          IF k8s[j] = "none" THEN "none" ELSE IF @ = "none" THEN "empty"
          ELSE IF @ = "free" THEN "owned" ELSE @]
    /\ Goes(j, "RUNNING") /\ UNCHANGED <<k8s, workq>>

\* Variants for mutation checks: nothing is suspended; a Job object that is
\* not there is an error.
CancelNothing(j) ==
    TakesUp(j, "canceling") /\ UNCHANGED <<k8s, scripts, workq>> /\ Goes(j, "CANCELED")

CancelMustFind(j) ==
    /\ TakesUp(j, "canceling")
    /\ \/ /\ k8s[j] \in {"active", "suspended"} /\ SetObject(j, "suspended")
          /\ Goes(j, "CANCELED")
       \/ /\ k8s[j] \in {"succeeded", "failed"} /\ UNCHANGED <<k8s, scripts, workq>>
          /\ Goes(j, "CANCELED")
       \/ k8s[j] = "none" /\ PassFails /\ UNCHANGED <<batch, k8s, scripts, budgets>>

\* cancelBatchJob suspends the Job object; a finished one does not react, and
\* one that is not there counts as canceled.
CancelObject(j) ==
    /\ TakesUp(j, "canceling")
    /\ \/ k8s[j] \in {"active", "suspended"} /\ SetObject(j, "suspended")
       \/ k8s[j] \notin {"active", "suspended"} /\ UNCHANGED <<k8s, scripts, workq>>
    /\ Goes(j, "CANCELED")

DeleteObject(j) ==
    /\ TakesUp(j, "deleting")
    /\ \/ k8s[j] # "none" /\ SetObject(j, "none")
       \/ k8s[j] = "none" /\ UNCHANGED <<k8s, scripts, workq>>
    /\ Goes(j, "DELETED")

Records(j, q) == Serve(j, q) \/ (BatchIgnores(q, batch[j]) /\ UNCHANGED batch)

Refuses(j, q) == ~BatchAccepts(q, batch[j]) /\ ~BatchIgnores(q, batch[j])

ReportAction(j) ==
    /\ todo[j] \in BatchReports
    /\ \/ /\ Records(j, todo[j])
          /\ todo' = [todo EXCEPT ![j] = ""]
          /\ UNCHANGED <<seen, workq>>
       \/ Refuses(j, todo[j]) /\ PassFails /\ UNCHANGED batch
    /\ UNCHANGED <<k8s, scripts, budgets>>

-----------------------------------------------------------------------------
(***************************************************************************)
(* The reconciler.                                                         *)
(***************************************************************************)

Return == seen' = NothingSeen /\ UNCHANGED workq

Requeue == seen' = NothingSeen /\ workq' = workq \cup {seen.job}

\* For a mutation check: an object that is gone is reconciled.
GetMissingObject(j) ==
    /\ seen = NothingSeen /\ j \in workq
    /\ workq' = workq \ {j}
    /\ seen' = [step |-> "got", job |-> j, object |-> k8s[j]]
    /\ UNCHANGED <<batch, k8s, scripts, todo, budgets>>

\* An object that is gone is not followed up.
GetObject(j) ==
    /\ seen = NothingSeen /\ j \in workq
    /\ workq' = workq \ {j}
    /\ seen' = IF k8s[j] = "none" THEN NothingSeen
               ELSE [step |-> "got", job |-> j, object |-> k8s[j]]
    /\ UNCHANGED <<batch, k8s, scripts, todo, budgets>>

Proceed(step) == seen' = [step |-> step, job |-> seen.job] /\ UNCHANGED workq

Reconcilable(b) == b.state = "running" \/ (b.state = "queued" /\ b.action = "creating")

\* A canceled job is looked at again until jobTTL after its suspension, and
\* then deleted; the others are done, or the dispatcher is at work on them.
GetInternalBatchJob ==
    LET b == batch[seen.job] IN
    /\ seen.step = "got"
    /\ \/ /\ b.state = "canceled"
          /\ Requeue \/ (seen.object = "suspended" /\ Proceed("delete"))
       \/ b.state # "canceled" /\ ~Reconcilable(b) /\ Return
       \/ /\ Reconcilable(b)
          /\ CASE seen.object = "failed"    -> Proceed("FAILED")
               [] seen.object = "succeeded" -> Proceed("SUCCEEDED")
               [] OTHER                     -> Return
    /\ UNCHANGED <<batch, k8s, scripts, todo, budgets>>

Fault == faults < MaxFaults /\ faults' = faults + 1 /\ UNCHANGED ops

\* The report is done, or done and the answer is lost, or refused.
ReportObject ==
    /\ seen.step \in BatchReports
    /\ \/ Records(seen.job, seen.step) /\ Return /\ UNCHANGED budgets
       \/ Records(seen.job, seen.step) /\ Requeue /\ Fault
       \/ Refuses(seen.job, seen.step) /\ Requeue /\ UNCHANGED <<batch, budgets>>
    /\ UNCHANGED <<k8s, scripts, todo>>

DeleteCanceled ==
    /\ seen.step = "delete"
    /\ SetObject(seen.job, "none") /\ seen' = NothingSeen
    /\ UNCHANGED <<batch, todo, budgets>>

-----------------------------------------------------------------------------
(***************************************************************************)
(* Kubernetes, and what goes wrong.                                        *)
(***************************************************************************)

PodsEnd(j) ==
    /\ k8s[j] = "active"
    /\ \E s \in {"succeeded", "failed"} : SetObject(j, s)
    /\ UNCHANGED <<batch, todo, seen, budgets>>

\* TTLSecondsAfterFinished of the Job object.
Expire(j) ==
    /\ k8s[j] \in {"succeeded", "failed"}
    /\ SetObject(j, "none")
    /\ UNCHANGED <<batch, todo, seen, budgets>>

\* A call of the worker fails; it may have had its effect in the step before.
AbortPass ==
    /\ todo # Nothing /\ Fault /\ PassFails
    /\ UNCHANGED <<batch, k8s, scripts>>

AbortReconcile ==
    /\ seen # NothingSeen /\ Fault /\ Requeue
    /\ UNCHANGED <<batch, k8s, scripts, todo>>

-----------------------------------------------------------------------------

Worker ==
    \/ ListQueuedInternalBatchJobs
    \/ \E j \in Jobs : \/ ApplyJob(j) \/ OwnScripts(j) \/ CancelObject(j)
                       \/ DeleteObject(j) \/ ReportAction(j)

Reconcile == GetInternalBatchJob \/ ReportObject \/ DeleteCanceled

Next ==
    \/ \E j \in Jobs : \/ CreateScripts(j) \/ InsertBatchJob(j) \/ UserRequest(j)
                       \/ GetObject(j) \/ PodsEnd(j) \/ Expire(j)
    \/ Worker \/ Reconcile \/ AbortPass \/ AbortReconcile

Spec == Init /\ [][Next]_vars

(***************************************************************************)
(* Fairness: the worker polls, pods end, and a finished Job object is      *)
(* removed after its TTL.  The reconciler owes nothing: what is queued is  *)
(* served without it.                                                      *)
(***************************************************************************)
Fairness ==
    /\ WF_vars(Worker)
    /\ WF_vars(\E j \in Jobs : PodsEnd(j) \/ Expire(j))

FairSpec == Spec /\ Fairness

-----------------------------------------------------------------------------
(***************************************************************************)
(* Properties                                                              *)
(***************************************************************************)

\* A job reported CANCELED has no pods running, and one reported DELETED no
\* Job object, although requests overtake each other and the server takes
\* the reports of an action that is no longer the one asked for
\* (processBatchJobs, UpdateBatchJobState).
EndedIsStopped ==
    \A j \in Jobs : /\ batch[j].state = "canceled" => k8s[j] # "active"
                    /\ batch[j].state = "deleted" => k8s[j] = "none"

\* Without failed calls, running pods find the Secret and the ConfigMap that
\* the server made, although these go when their owner goes and the worker
\* applies them anew ("Secret and ConfigMap are pre-created by server, and
\* dispatcher only set the owner reference here", createBatchJob).
PodsFindScripts ==
    faults = 0 =>
        \A j \in Jobs : k8s[j] = "active" => scripts[j] \in {"free", "owned"}

\* A job gets pods while it is queued; at worst it has failed meanwhile.  One
\* that runs, has succeeded, was canceled or deleted does not get them again,
\* although the worker acts on a list it read earlier (processBatchJobs).
NeverRunsAgain ==
    [][\A j \in Jobs :
          k8s[j] # "active" /\ k8s'[j] = "active"
            => batch[j].state \in {"queued", "failed"}]_vars

\* What users ask for is carried out in the end, or the job runs into its
\* end (the retries of Start, and the TTL of a Job object that cannot be
\* applied again), whatever the reconciler does meanwhile.
QueuedIsServed ==
    \A j \in Jobs : batch[j].state = "queued" ~> batch[j].state # "queued"

\* "job state is not creating": RUNNING is refused unless the job is queued
\* for creation, so that a cancellation or deletion asked for meanwhile is
\* not forgotten.
RunningWasCreating ==
    [][\A j \in Jobs :
          batch[j].state # "running" /\ batch'[j].state = "running"
            => batch[j] = NewBatch]_vars

=============================================================================
