----------------------------- MODULE FineTuning -----------------------------
(***************************************************************************)
(* Fine-tuning jobs end to end: the server's jobs table, the dispatcher's  *)
(* polling worker, its reconciler (LifecycleManager) and the Job objects   *)
(* of the Kubernetes cluster.                                              *)
(*                                                                         *)
(* Each request to the server is one step: OptimisticStore implements      *)
(* AtomicStore, and a version conflict is one of the errors a caller may   *)
(* get (Abort below).  Between two requests, or two calls to the API       *)
(* server, everything else may happen.                                     *)
(***************************************************************************)
EXTENDS JobRow, Integers

CONSTANTS
    Jobs,           \* job ids; numbers, because they are listed in id order
    MaxAttempts,    \* retry.Attempts of the dispatcher's workers
    MaxFaults,      \* bound: failed calls and crashes
    MaxDeletes      \* bound: Job objects deleted by somebody else

ASSUME FineTuningAssumption ==
    /\ Jobs \subseteq Nat
    /\ MaxAttempts \in Nat \ {0}
    /\ MaxFaults \in Nat
    /\ MaxDeletes \in Nat

VARIABLES
    jobs,       \* the jobs table
    k8s,        \* Job objects: status, and the model their container uploads
    published,  \* job -> the model last published for it (model manager)
    dpc,        \* where the dispatcher's worker is; "down": no process runs
    todo,       \* the rest of the listed jobs: job -> queued action as listed
    tries,      \* attempts left before the worker gives up
    dmodel,     \* presult.OutputModelID
    rpc,        \* where the reconciler is
    rjob,       \* the job it reconciles
    robs,       \* the Job object it got
    rmodel,     \* ijob.OutputModelId
    workq,      \* the reconciler's work queue
    faults, deletes

dispatcher == <<dpc, todo, tries, dmodel>>
reconciler == <<rpc, rjob, robs, rmodel>>
budgets == <<faults, deletes>>
vars == <<jobs, k8s, published, dispatcher, reconciler, workq, budgets>>

Statuses == {"none", "active", "suspended", "succeeded", "failed"}

Objects == [status : Statuses, model : ModelIDs]

NoObject == [status |-> "none", model |-> NoModel]

DispatcherPCs == {"down", "idle", "work", "invalid", "preprocessed", "apply",
                  "created", "suspended"}

ReconcilerPCs == {"idle", "got", "failed", "publish", "finetuned", "recreate",
                  "delete"}

TypeOK ==
    /\ jobs \in [Jobs -> JobRows]
    /\ k8s \in [Jobs -> Objects]
    /\ published \in [Jobs -> ModelIDs]
    /\ dpc \in DispatcherPCs
    /\ todo \in [Jobs -> JobActions]
    /\ tries \in 1 .. MaxAttempts
    /\ dmodel \in ModelIDs
    /\ rpc \in ReconcilerPCs
    /\ rjob \in Jobs
    /\ robs \in Objects
    /\ rmodel \in ModelIDs
    /\ workq \subseteq Jobs
    /\ faults \in 0 .. MaxFaults
    /\ deletes \in 0 .. MaxDeletes

Init ==
    /\ jobs = [j \in Jobs |-> NoJob]
    /\ k8s = [j \in Jobs |-> NoObject]
    /\ published = [j \in Jobs |-> NoModel]
    /\ dpc = "idle" /\ tries = 1 /\ dmodel = NoModel
    /\ todo = [j \in Jobs |-> ""]
    /\ rpc = "idle" /\ rjob \in Jobs /\ robs = NoObject /\ rmodel = NoModel
    /\ workq = {}
    /\ faults = 0 /\ deletes = 0

-----------------------------------------------------------------------------
(***************************************************************************)
(* The user API.                                                           *)
(***************************************************************************)

Request(op, model) == [op |-> op, model |-> model]

\* The handler of request q on job j writes the row.
Serve(j, q) ==
    /\ jobs[j].state # "absent"
    /\ JobAccepts(q, jobs[j])
    /\ jobs' = [jobs EXCEPT ![j] = JobApply(q, jobs[j])]

\* It answers with an error (FailedPrecondition, InvalidArgument).
Rejects(j, q) == ~JobAccepts(q, jobs[j])

CreateJob(j) ==
    /\ jobs[j].state = "absent"
    /\ jobs' = [jobs EXCEPT ![j] = NewJob]
    /\ UNCHANGED <<k8s, published, dispatcher, reconciler, workq, budgets>>

CancelJob(j) ==
    /\ Serve(j, Request("CancelJob", NoModel))
    /\ UNCHANGED <<k8s, published, dispatcher, reconciler, workq, budgets>>

-----------------------------------------------------------------------------
(***************************************************************************)
(* The dispatcher's worker: processQueuedJobs, run at start and then at    *)
(* every tick with retries.                                                *)
(***************************************************************************)

\* The process ends, and with it the reconciler and the work queue.
Exit ==
    /\ dpc' = "down"
    /\ todo' = [j \in Jobs |-> ""] /\ dmodel' = NoModel /\ UNCHANGED tries
    /\ rpc' = "idle" /\ robs' = NoObject /\ rmodel' = NoModel /\ UNCHANGED rjob
    /\ workq' = {}

\* processQueuedJobs returns an error: it is called again, or the worker
\* has no attempt left and takes the process down.
PassFails ==
    \/ /\ tries > 1
       /\ dpc' = "idle" /\ tries' = tries - 1
       /\ todo' = [j \in Jobs |-> ""] /\ dmodel' = NoModel
       /\ UNCHANGED <<reconciler, workq>>
    \/ tries = 1 /\ Exit

\* The pod is restarted; the informer lists the Job objects that exist.
Restart ==
    /\ dpc = "down"
    /\ dpc' = "idle" /\ tries' = 1
    /\ workq' = {j \in Jobs : k8s[j].status # "none"}
    /\ UNCHANGED <<jobs, k8s, published, todo, dmodel, reconciler, budgets>>

\* For a mutation check: only jobs to be created are listed.
ListCreating ==
    /\ dpc = "idle"
    /\ dpc' = "work"
    /\ todo' = [j \in Jobs |-> IF jobs[j].state = "queued" /\ jobs[j].action = "creating"
                               THEN jobs[j].action ELSE ""]
    /\ UNCHANGED <<jobs, k8s, published, tries, dmodel, reconciler, workq, budgets>>

ListQueuedInternalJobs ==
    /\ dpc = "idle"
    /\ dpc' = "work"
    /\ todo' = [j \in Jobs |-> IF jobs[j].state = "queued" THEN jobs[j].action ELSE ""]
    /\ UNCHANGED <<jobs, k8s, published, tries, dmodel, reconciler, workq, budgets>>

\* The pass has gone through its list; at the next tick there are
\* MaxAttempts attempts.
PassEnds ==
    /\ dpc = "work"
    /\ \A j \in Jobs : todo[j] = ""
    /\ dpc' = "idle" /\ tries' = MaxAttempts
    /\ UNCHANGED <<jobs, k8s, published, todo, dmodel, reconciler, workq, budgets>>

\* j is the first job left on the list.
AtHand(j) ==
    /\ todo[j] # ""
    /\ \A i \in Jobs : i < j => todo[i] = ""

Finished(j) ==
    /\ dpc' = "work"
    /\ todo' = [todo EXCEPT ![j] = ""]
    /\ dmodel' = NoModel

\* RegisterModel never returns the same id twice.  An id that nothing refers
\* to any more is as good as a new one.
InUse ==
    {robs.model, rmodel, dmodel}
      \cup UNION {{jobs[j].outputModel, jobs[j].fineTuned, k8s[j].model, published[j]} :
                     j \in Jobs}

\* preProcessor.Process registers a model, or fails (a missing training
\* file, an error of the file or model manager).
PreProcess(j) ==
    /\ dpc = "work" /\ AtHand(j) /\ todo[j] = "creating"
    /\ \/ /\ Models \ InUse # {}
          /\ dpc' = "preprocessed"
          /\ dmodel' = CHOOSE m \in Models : m \notin InUse
       \/ dpc' = "invalid" /\ UNCHANGED dmodel
    /\ UNCHANGED <<jobs, k8s, published, todo, tries, reconciler, workq, budgets>>

ReportInvalid(j) ==
    /\ dpc = "invalid" /\ AtHand(j)
    /\ Serve(j, Request("FAILED", NoModel))
    /\ Finished(j)
    /\ UNCHANGED <<k8s, published, tries, reconciler, workq, budgets>>

ReportPreProcessed(j) ==
    LET q == Request("PREPROCESSED", dmodel) IN
    /\ dpc = "preprocessed" /\ AtHand(j)
    /\ \/ /\ Serve(j, q)
          /\ dpc' = "apply"
          /\ UNCHANGED <<todo, tries, dmodel, reconciler, workq>>
       \/ Rejects(j, q) /\ PassFails /\ UNCHANGED jobs
    /\ UNCHANGED <<k8s, published, budgets>>

\* The Job object changes, and the reconciler's queue with it.
SetObject(j, object) ==
    /\ k8s' = [k8s EXCEPT ![j] = object]
    /\ workq' = workq \cup {j}

\* For a mutation check: an object that exists will do.
ApplyJobOrKeep(j) ==
    /\ dpc = "apply" /\ AtHand(j)
    /\ \/ /\ k8s[j].status = "none"
          /\ SetObject(j, [status |-> "active", model |-> dmodel])
       \/ k8s[j].status # "none" /\ UNCHANGED <<k8s, workq>>
    /\ dpc' = "created"
    /\ UNCHANGED <<jobs, published, todo, tries, dmodel, reconciler, budgets>>

\* Server-side apply of the Job object.  Its pod template holds URLs that
\* are new at every pre-processing and Kubernetes lets nobody change the
\* template of a Job, so that an object that exists makes the call fail.
ApplyJob(j) ==
    /\ dpc = "apply" /\ AtHand(j)
    /\ \/ /\ k8s[j].status = "none"
          /\ SetObject(j, [status |-> "active", model |-> dmodel])
          /\ dpc' = "created"
          /\ UNCHANGED <<todo, tries, dmodel, reconciler>>
       \/ k8s[j].status # "none" /\ PassFails /\ UNCHANGED k8s
    /\ UNCHANGED <<jobs, published, budgets>>

ReportJobCreated(j) ==
    LET q == Request("JOB_CREATED", NoModel) IN
    /\ dpc = "created" /\ AtHand(j)
    /\ \/ Serve(j, q) /\ Finished(j) /\ UNCHANGED <<tries, reconciler, workq>>
       \/ Rejects(j, q) /\ PassFails /\ UNCHANGED jobs
    /\ UNCHANGED <<k8s, published, budgets>>

\* For a mutation check: nothing is suspended.
SuspendNothing(j) ==
    /\ dpc = "work" /\ AtHand(j) /\ todo[j] = "canceling"
    /\ dpc' = "suspended"
    /\ UNCHANGED <<jobs, k8s, published, todo, tries, dmodel, reconciler, workq, budgets>>

\* jobManager.cancelJob: a Job object that is gone counts as canceled, one
\* that has finished does not react.
SuspendJob(j) ==
    /\ dpc = "work" /\ AtHand(j) /\ todo[j] = "canceling"
    /\ \/ /\ k8s[j].status \in {"active", "suspended"}
          /\ SetObject(j, [k8s[j] EXCEPT !.status = "suspended"])
       \/ k8s[j].status \notin {"active", "suspended"} /\ UNCHANGED <<k8s, workq>>
    /\ dpc' = "suspended"
    /\ UNCHANGED <<jobs, published, todo, tries, dmodel, reconciler, budgets>>

ReportCanceled(j) ==
    /\ dpc = "suspended" /\ AtHand(j)
    /\ Serve(j, Request("CANCELED", NoModel))
    /\ Finished(j)
    /\ UNCHANGED <<k8s, published, tries, reconciler, workq, budgets>>

-----------------------------------------------------------------------------
(***************************************************************************)
(* The reconciler.  One worker; a request that fails is queued again.      *)
(***************************************************************************)

ReconcileDone ==
    rpc' = "idle" /\ robs' = NoObject /\ rmodel' = NoModel /\ UNCHANGED rjob

Return == ReconcileDone /\ UNCHANGED workq

Requeue == ReconcileDone /\ workq' = workq \cup {rjob}

GetObject(j) ==
    /\ dpc # "down" /\ rpc = "idle" /\ j \in workq
    /\ workq' = workq \ {j}
    /\ rpc' = "got" /\ rjob' = j /\ robs' = k8s[j] /\ UNCHANGED rmodel
    /\ UNCHANGED <<jobs, k8s, published, dispatcher, budgets>>

Proceed(pc) == rpc' = pc /\ UNCHANGED <<rjob, robs, rmodel, workq>>

\* For a mutation check: a job that runs is left as well.
ReconcileGoneIgnored(ijob) == robs.status = "none" /\ Return

\* The object is gone: a job that runs is made again, any other is left.
ReconcileGone(ijob) ==
    /\ robs.status = "none"
    /\ IF ijob.state = "running" THEN Proceed("recreate") ELSE Return

\* A canceled job is looked at again until jobTTL after its suspension, and
\* then deleted.
ReconcileCanceled(ijob) ==
    /\ robs.status # "none" /\ ijob.state = "canceled"
    /\ \/ Requeue
       \/ robs.status = "suspended" /\ Proceed("delete")

\* For a mutation check: completed jobs are not told apart.
ReconcilableIfNotCanceled(ijob) == ijob.state # "canceled"

Reconcilable(ijob) ==
    \/ ijob.state = "running"
    \/ ijob.state = "queued" /\ ijob.action = "creating"

\* Already completed, or the dispatcher is working on it.
ReconcileOther(ijob) ==
    /\ robs.status # "none"
    /\ ijob.state # "canceled" /\ ~Reconcilable(ijob)
    /\ Return

\* Post-processing of an object that succeeded wants the row's model id.
ReconcileObject(ijob) ==
    /\ robs.status # "none" /\ Reconcilable(ijob)
    /\ \/ robs.status \in {"active", "suspended"} /\ Return
       \/ robs.status = "failed" /\ Proceed("failed")
       \/ robs.status = "succeeded" /\ ijob.outputModel = NoModel /\ Requeue
       \/ /\ robs.status = "succeeded" /\ ijob.outputModel # NoModel
          /\ rpc' = "publish" /\ rmodel' = ijob.outputModel
          /\ UNCHANGED <<rjob, robs, workq>>

GetInternalJob ==
    /\ rpc = "got"
    /\ \/ ReconcileGone(jobs[rjob])
       \/ ReconcileCanceled(jobs[rjob])
       \/ ReconcileOther(jobs[rjob])
       \/ ReconcileObject(jobs[rjob])
    /\ UNCHANGED <<jobs, k8s, published, dispatcher, budgets>>

Fault == faults < MaxFaults /\ faults' = faults + 1 /\ UNCHANGED deletes

\* UpdateJobPhase as the reconciler calls it: it is done, or done and the
\* answer is lost, or refused.
Report(op, model) ==
    LET q == Request(op, model) IN
    \/ Serve(rjob, q) /\ Return /\ UNCHANGED budgets
    \/ Serve(rjob, q) /\ Requeue /\ Fault
    \/ Rejects(rjob, q) /\ Requeue /\ UNCHANGED <<jobs, budgets>>

ReportFailed ==
    /\ rpc = "failed" /\ Report("FAILED", NoModel)
    /\ UNCHANGED <<k8s, published, dispatcher>>

\* For a mutation check: the model is not published.
PublishNothing ==
    /\ rpc = "publish"
    /\ Proceed("finetuned")
    /\ UNCHANGED <<jobs, k8s, published, dispatcher, budgets>>

PublishModel ==
    /\ rpc = "publish"
    /\ published' = [published EXCEPT ![rjob] = rmodel]
    /\ Proceed("finetuned")
    /\ UNCHANGED <<jobs, k8s, dispatcher, budgets>>

ReportFinetuned ==
    /\ rpc = "finetuned" /\ Report("FINETUNED", rmodel)
    /\ UNCHANGED <<k8s, published, dispatcher>>

ReportRecreate ==
    /\ rpc = "recreate" /\ Report("RECREATE", NoModel)
    /\ UNCHANGED <<k8s, published, dispatcher>>

DeleteObject ==
    /\ rpc = "delete"
    /\ SetObject(rjob, NoObject) /\ ReconcileDone
    /\ UNCHANGED <<jobs, published, dispatcher, budgets>>

-----------------------------------------------------------------------------
(***************************************************************************)
(* Kubernetes, and what goes wrong.                                        *)
(***************************************************************************)

\* An event reaches the work queue when there is a process to watch it.
Event(j, object) ==
    \/ dpc # "down" /\ SetObject(j, object)
    \/ dpc = "down" /\ k8s' = [k8s EXCEPT ![j] = object] /\ UNCHANGED workq

PodEnds(j) ==
    /\ k8s[j].status = "active"
    /\ \E s \in {"succeeded", "failed"} : Event(j, [k8s[j] EXCEPT !.status = s])
    /\ UNCHANGED <<jobs, published, dispatcher, reconciler, budgets>>

\* TTLSecondsAfterFinished of the Job object.
Expire(j) ==
    /\ k8s[j].status \in {"succeeded", "failed"}
    /\ Event(j, NoObject)
    /\ UNCHANGED <<jobs, published, dispatcher, reconciler, budgets>>

\* Somebody deletes the Job object.
DeletedByOthers(j) ==
    /\ k8s[j].status # "none" /\ deletes < MaxDeletes
    /\ deletes' = deletes + 1
    /\ Event(j, NoObject)
    /\ UNCHANGED <<jobs, published, dispatcher, reconciler, faults>>

\* A call of the worker fails.  The call may have had its effect: that is
\* the step before this one.
AbortPass ==
    /\ dpc \notin {"down", "idle"} /\ Fault /\ PassFails
    /\ UNCHANGED <<jobs, k8s, published>>

\* A call of the reconciler fails without effect.
AbortReconcile ==
    /\ rpc # "idle" /\ Fault /\ Requeue
    /\ UNCHANGED <<jobs, k8s, published, dispatcher>>

Crash ==
    /\ dpc # "down" /\ Fault /\ Exit
    /\ UNCHANGED <<jobs, k8s, published>>

-----------------------------------------------------------------------------

User(j) == CreateJob(j) \/ CancelJob(j)

Worker ==
    \/ ListQueuedInternalJobs
    \/ PassEnds
    \/ \E j \in Jobs :
          \/ PreProcess(j) \/ ReportInvalid(j) \/ ReportPreProcessed(j)
          \/ ApplyJob(j) \/ ReportJobCreated(j)
          \/ SuspendJob(j) \/ ReportCanceled(j)

Reconcile ==
    \/ GetInternalJob \/ ReportFailed \/ PublishModel \/ ReportFinetuned
    \/ ReportRecreate \/ DeleteObject

Next ==
    \/ \E j \in Jobs : \/ User(j) \/ GetObject(j)
                       \/ PodEnds(j) \/ Expire(j) \/ DeletedByOthers(j)
    \/ Worker
    \/ Reconcile
    \/ Restart
    \/ AbortPass \/ AbortReconcile \/ Crash

Spec == Init /\ [][Next]_vars

(***************************************************************************)
(* Fairness.  The worker's loop runs on a ticker and Kubernetes restarts   *)
(* the process; the work queue is first in, first out; a pod ends and a    *)
(* finished Job object is removed after its TTL.  Users and faults owe     *)
(* nothing.                                                                *)
(***************************************************************************)
Fairness ==
    /\ WF_vars(Worker)
    /\ WF_vars(Restart)
    /\ WF_vars(Reconcile)
    /\ \A j \in Jobs : /\ SF_vars(GetObject(j))
                       /\ WF_vars(PodEnds(j))
                       /\ WF_vars(Expire(j))

FairSpec == Spec /\ Fairness

-----------------------------------------------------------------------------
(***************************************************************************)
(* Properties                                                              *)
(***************************************************************************)

\* A job that CANCELED has been reported of never has pods running: the
\* dispatcher suspends the Job object before it reports, and no step of the
\* dispatcher or the reconciler creates one afterwards (processQueuedJobs).
CanceledIsStopped ==
    \A j \in Jobs : jobs[j].state = "canceled" => k8s[j].status # "active"

\* The row of a running job names the model its Job object uploads, across
\* retries, restarts and recreations (createJob of the dispatcher registers
\* a new model every time it runs).
RunningModelIsCurrent ==
    \A j \in Jobs :
        jobs[j].state = "running" =>
            /\ jobs[j].outputModel # NoModel
            /\ k8s[j].status # "none" => k8s[j].model = jobs[j].outputModel

\* A job is reported successful after its model has been published, and
\* with the model that was (LifecycleManager.Reconcile).
SucceededIsPublished ==
    \A j \in Jobs :
        jobs[j].state = "succeeded" =>
            jobs[j].fineTuned # NoModel /\ published[j] = jobs[j].fineTuned

\* The reconciler publishes the model that the Job object it saw succeed
\* has uploaded (postProcessor.Process takes the id from the row instead).
PublishesWhatRan ==
    rpc = "publish" => robs.status = "succeeded" /\ rmodel = robs.model

Lifecycle == INSTANCE JobLifecycle WITH status <- [j \in Jobs |-> jobs[j].state]

\* Users see the job move through its states as JobLifecycle says: a job
\* that succeeded stays so, a job that ended never runs again
\* (UpdateJobPhase and CancelJob under any schedule of their callers).
FollowsLifecycle == Lifecycle!Spec

\* A queued job does not stay queued: the dispatcher creates, cancels or
\* fails it, whatever calls failed before (the retries in Start, the TTL of
\* a Job object that blocks a second attempt).
QueuedIsServed ==
    \A j \in Jobs : jobs[j].state = "queued" ~> jobs[j].state # "queued"

\* Unless a call failed or somebody deleted the Job object, a running job
\* whose Job object has finished does not stay running, although its event
\* may have come too early (LifecycleManager.Reconcile).
FinishedIsNoticed ==
    \A j \in Jobs :
        (jobs[j].state = "running" /\ k8s[j].status \in {"succeeded", "failed"})
          ~> (jobs[j].state # "running" \/ faults > 0 \/ deletes > 0)

\* "set back to the pending status if job is accidentally deleted": a
\* running job does not stay running without a Job object.
DeletedIsRecreated ==
    \A j \in Jobs :
        (jobs[j].state = "running" /\ k8s[j].status = "none")
          ~> (jobs[j].state # "running" \/ k8s[j].status # "none")

-----------------------------------------------------------------------------
(***************************************************************************)
(* Why they hold: an inductive invariant.                                  *)
(***************************************************************************)

\* Only the dispatcher ends the stay of a listed job on the queue, except
\* that the reconciler may report it failed.
ListedIsQueued ==
    \A j \in Jobs : todo[j] # "" => jobs[j].state \in {"queued", "failed"}

\* The dispatcher creates the Job object from the model the row names.
CreatesRowModel ==
    \A j \in Jobs :
        /\ dpc \in {"apply", "created"} /\ AtHand(j)
             => dmodel # NoModel /\ jobs[j].outputModel = dmodel
        /\ dpc = "created" /\ AtHand(j) /\ k8s[j].status # "none"
             => k8s[j].model = dmodel

SuspendedIsStopped ==
    \A j \in Jobs :
        dpc = "suspended" /\ AtHand(j) => k8s[j].status # "active"

\* What the reconciler is about to report, it alone could have reported.
ReconcilesUnfinished ==
    /\ rpc \in {"failed", "publish", "finetuned"}
         => jobs[rjob].state \notin {"absent", "succeeded"}
    /\ rpc \in {"publish", "finetuned"} => rmodel # NoModel
    /\ rpc = "finetuned" => published[rjob] = rmodel

DispatcherInv ==
    /\ ListedIsQueued
    /\ CreatesRowModel
    /\ SuspendedIsStopped
    /\ CanceledIsStopped
    /\ RunningModelIsCurrent

ReconcilerInv ==
    /\ ReconcilesUnfinished
    /\ SucceededIsPublished

IInv == TypeOK /\ DispatcherInv /\ ReconcilerInv

=============================================================================
