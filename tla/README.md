# job-manager in TLA+

TLA+ modules, TLC configurations and TLAPS proofs for llmariner/job-manager:
the server that keeps fine-tuning jobs, notebooks and batch jobs in a
database, the dispatchers that carry them out in Kubernetes clusters, the
scheduler that chooses the cluster, and the syncer that deploys Job and JobSet
objects to worker clusters. Paths below are relative to the
repository. `PROJECT.json` holds the same information for tools: components,
runs, mutants, the map from definitions to source lines, findings, hazards and
theorems.

## 1. The system

| Part | State | Operations | Talks to |
| --- | --- | --- | --- |
| store (`server/internal/store`) | tables jobs, notebooks, batch_jobs, clusters; rows carry `version` | reads; `UPDATE ... WHERE version = v` | database |
| user API (`server/internal/server`) | none | Create, Cancel, Stop, Start, Delete, List, Get | store, scheduler, cache, API servers of the clusters |
| worker API (same package) | none | ListQueued*, GetInternal*, UpdateJobPhase, UpdateNotebookState, UpdateBatchJobState, UpdateClusterStatus | store, cache; called by dispatchers |
| rescheduler | none | every minute: requeue notebooks initializing for more than 3 minutes, place requeued ones | store, scheduler, cache |
| scheduler, cluster cache | per tenant: clusters, their pods, assumed pods | Schedule; AddAssumedPod, AddOrUpdateCluster, lazy load | clusters table |
| dispatcher, one per cluster | none that lasts | three workers that poll every few seconds, 5 attempts at 30 s; three reconcilers driven by events; a status report at intervals | worker API, API server of the cluster, model and file manager, S3 |
| syncer service and syncer | annotations and finalizers on local objects | schedule and create Job and JobSet objects remotely, copy their status back | server, API servers |
| slurm proxy (experimental) | round-robin index | forwards requests | slurm |

Work flows through the tables. A user's request makes a row `queued` with a
queued action; the dispatcher of the row's cluster lists it, changes objects
in its cluster, and reports; the server checks the report against the row and
writes it. Independently, a reconciler sees the objects change and reports
too, and the rescheduler takes notebooks away. No two of these share a lock:
handlers are ordered by the version column alone, and a dispatcher acts on
what it read some calls earlier.

What is hard: handlers racing on a row; reports that arrive after the row has
moved on; a worker that acts on an old list; calls that take effect although
the caller sees an error; process restarts that lose the work queue; events
consumed at a moment when they cannot be used; objects that expire; retries
that register new models and URLs; copies of cache entries written back late;
a map iterated over outside its lock; an informer cache behind the API server;
pages listed while rows come and go. `PROJECT.json` lists these hazards one
by one with their lines.

What makes the parts correct: the store loses no update; a job that ended
never runs again and a canceled one has no pods; what is published is what was
trained; a stopped notebook has no pods, a deleted one leaves nothing behind
and none runs in two clusters; requests are carried out in the end; the cache
forgets what has ended and counts no job twice; an object that the syncer has
deployed is not forgotten in the worker cluster; a client that pages through a
listing gets every row once.

## 2. Modules

| Module | Models |
| --- | --- |
| `AtomicStore` | abstract: a table whose handlers run one at a time |
| `OptimisticStore` | the versioned tables under concurrent handlers, generic in the table; implements `AtomicStore` |
| `JobRow`, `NotebookRow`, `BatchRow` | a row of each table: what each handler checks and writes |
| `JobLifecycle` | abstract: the states of a job as users see them |
| `FineTuning` | server, worker, LifecycleManager, Job objects; implements `JobLifecycle` |
| `Notebooks` | server, rescheduler, and per cluster the worker, NotebookManager and Deployments |
| `BatchJobs` | server, worker, BatchJobManager, Job objects with Secret and ConfigMap |
| `ClusterCache` | scheduler, cache, clusters table, status reports |
| `Syncer` | Job and JobSet controllers, SyncerService, status syncers, local and worker API servers |
| `Listing` | ListJobs, ListNotebooks and ListBatchJobs with a client that pages; a run of its own |
| `OptimisticStoreProofs`, `RowProofs`, `FineTuningProofs`, `NotebooksProofs`, `BatchJobsProofs`, `ClusterCacheProofs`, `SyncerProofs`, `ListingProofs` | theorems |
| `MC*` | constants for TLC, and the properties of the jobs table as such (`MCJobStore`) |

In `MCJobStore` the jobs row is the parameter of `OptimisticStore`: reading and
writing are separate steps of concurrent handlers. In the end-to-end modules a
request is one step. That step is justified by two theorems:
`LinearizableHolds` says that to everyone else a handler's effect is atomic, in
any table whose handlers write well-formed rows, and `RowProofs` says that the
three tables are such. A handler that meets a version conflict answers with an
error, which the end-to-end modules have as a failed call.

Correspondence of state and steps:

- `FineTuning`. `jobs` is the table, `k8s` the Job objects, `dpc`/`todo`/
  `tries`/`dmodel` the local variables of `processQueuedJobs` and `createJob`,
  `rpc`/`rjob`/`robs`/`rmodel` those of `Reconcile`, `workq` its work queue.
  Every call to the server or the API server is an action. Jobs are listed in
  id order and an error ends the pass, as in the code. `ApplyJob` fails on an
  object that exists: the pod template contains presigned URLs and the model
  id, and Kubernetes does not let a template change. `Restart` fills the work
  queue with the objects that exist.
- `Notebooks`. `todo[c]` is the rest of the list of cluster `c`'s worker,
  first with actions and then with the report to send; `seen[c]` is what the
  reconciler is about to report. `RequeueStuck` and `Reschedule` are the two
  loops of the rescheduler, for one notebook each. All notebooks share name
  and project, so the check of CreateNotebook applies to them.
- `BatchJobs`. As `FineTuning`, with `scripts` for Secret and ConfigMap, which
  CreateBatchJob makes before the row, and whose owner becomes the Job object.
- `ClusterCache`. `h` and `u` hold the local variables of the handlers that
  schedule and of UpdateClusterStatus between two uses of the lock. `Kind`
  tells the callers apart: a job is scheduled once, under an id of its own; a
  notebook again after it has left its cluster, which it then avoids
  (`Previous`); an object of the syncer on every attempt of
  `PatchKubernetesObject`, with no cluster to avoid, and the pod stays assumed
  when the rest of the attempt fails (`Create`). `loader` tells whose map is in
  the cache, because the one who loads it goes on reading that very map. An
  assumed pod carries the number of the attempt that added it, which stands
  for `AddedAt`; `old` has the attempts of more than a minute ago, and "stale"
  are clusters beyond 30 minutes. `Begins` says which workloads' pods have
  names that begin with a workload's key: `nnHasPrefix` takes them for its own.
- `Syncer`. One namespaced name, whose object may be deleted and created again
  (`uid`). `local` is the object in the API server, `cached` the informer's
  copy, `obj` that of `Reconcile`, `at` the call it makes next, `remote` the
  copies in the worker clusters. An Update succeeds only with the latest
  version (`objCurrent`); a merge patch goes to whatever has the name. Of a
  status two fields stand for all: `active`, which comes and goes, and the
  `conditions`. A status syncer sends the fields in which the cached object
  differs from the copy (`Difference`), and the others stay as they are
  (`Patched`). Each call may fail before or after it has taken effect. `calm`
  is a history variable: no call of Reconcile has failed and every read of it
  was current.
- `Listing`. `step` is the handler's next query, `after` the row that the
  client names, `seen` what it has got. Rows become visible in any order; of
  those of the project that are deleted, notebooks reappear when their
  deletion is asked for again and batch jobs when FAILED is reported.
  `lasting` is a history variable: the rows that were listed all the time.

## 3. Runs

| Run | Shows |
| --- | --- |
| `JobStore` | three handlers on one jobs row: no lost update (`ReadIsCurrent`, `Linearizable`), an action exactly while queued (`ActionIffQueued`), an ended job stays ended (`EndedStaysEnded`) |
| `FineTuningFaults` | one job, two faults, one foreign deletion: `CanceledIsStopped`, `RunningModelIsCurrent`, `SucceededIsPublished`, the inductive invariant `IInv`, refinement of `JobLifecycle`; a queued job leaves the queue (`QueuedIsServed`); a finished object is noticed unless a fault or deletion intervened (`FinishedIsNoticed`) |
| `FineTuningQuiet` | two jobs, one foreign deletion, no faults: the published model is the one that ran (`PublishesWhatRan`) |
| `Notebooks` | one notebook, two clusters, two faults, one lost deletion: `StoppedHasNoPods`, `DeletedIsGone`, `OneDeployment`, an accepted deletion is never undone (`DeleteIsFinal`), requests are served (`QueuedIsServed`) |
| `BatchJobs` | a job with files and one without, one fault: `EndedIsStopped`, `NeverRunsAgain`, pods find their Secret and ConfigMap (`PodsFindScripts`), requests are served (`QueuedIsServed`) |
| `CacheSafety` | a notebook and an object of the syncer, two clusters, one restart: writers find the tenant's map (`WritesLoadedTenant`) |
| `CacheLive` | a job and an object of the syncer, one cluster, two handlers: assumed pods leave the cache when attempts stop (`AssumedExpires`), ended ones too (`EndedIsForgotten`), and the job's is not counted twice (`NotCountedTwice`) |
| `Syncer` | a name used twice, two clusters, one fault: an object does not go while the cluster it is annotated with has its copy (`GoneIsUndeployed`); in calm operation there is one copy, and none without its object (`CalmHasNoOrphans`) |
| `SyncerLive` | one object, one cluster, two faults: it is deployed (`DeployedInTheEnd`), a deletion reaches the worker cluster (`DeletedIsStopped`), in calm operation the end of the copy is reported for good (`EndIsReported`) |
| `Listing` | the three listings, four rows, pages of one or two: `PagesDescend`, `NothingMissed`, `TotalCoversSeen`, `RefusedOnlyIfDeleted`, and the paging ends (`PagingEnds`) |

Each property of these runs has a mutant: a plausible bug in a mapped
definition under which TLC finds the property violated. Mutated forms stand
before the definition and are marked "for a mutation check".

Runs that are meant to fail each check one statement made by a comment or an
error text of the repository, and TLC shows how the code departs from it:

| Run | Statement | Behaviour |
| --- | --- | --- |
| `FineTuningDeleted` | "set back to the pending status if job is accidentally deleted." (`lifecycle_manager.go:104`) | deleted while the row is still queued: the event is used up, the job stays running |
| `BatchCancel` | "job state is not creating" (`batch_server.go:393`) | `&&` in the guard; a cancellation is lost |

Three more comments of the repository do not describe what the code does. No
run checks them; they are notes of `hazards`: "Avoid re-schedule the pod to
another cluster." (`rescheduler.go:42-43`), where the reason of an INITIALIZING
report is not recorded because the notebook is in that state already; "ignore
the updates from dispatcher." (`notebooks.go:494-495`), where a late RUNNING of
the old cluster is taken once the notebook is initializing in the next one; and
"mu guards all fields within this cache struct." (`cache/cluster.go:21`), where
the map just loaded is read without the lock.

The models show other surprises that no sentence of the repository rules out
so plainly, or that a property has to except: a requeued notebook keeps its
queued action; a stop before the first start fails in every pass, and the pass
with it (`CannotStop` in `QueuedIsServed`); two concurrent CreateNotebook
requests, or the deletion of a deleted notebook, give two active notebooks of
one name; a late FAILED overwrites the state of a deleted batch job; a retry
after the TTL creates an empty Secret and ConfigMap; a stale copy of a cache
entry drops an assumed pod before its time; an object of the syncer that is
tried again is assumed although its pod runs, and so is a notebook that comes
back before the next report, and the GPUs count twice until the report; an
object that is tried again within every minute stays assumed although no
attempt succeeds; after a late read, a failed call or
a restart the syncer may deploy an object to a second cluster, and nothing
removes the copy that is not in the annotation; an object whose copy is already
gone keeps its finalizer, because NotFound is an error of
DeleteKubernetesObject; the status of an earlier object may be written to a
later one of the same name; a field of the status that the syncer's cache shows
as the copy has it, while the API server has another value, is left out of the
patch and stays wrong until the copy changes again. They are entries of `hazards`.

### Bounds

Faults, user requests, foreign deletions, failed Deployment deletions,
placements and restarts are counted and capped in guards; row versions are
capped in `OptimisticStore`. The caps let each hazard happen with one to
spare: a call fails in the first attempt and again in the retry; a notebook is
started, stopped, started and deleted; a row is written four or five times,
more than the longest path to an ended state. Six model ids in
`FineTuningFaults` and five in `FineTuningQuiet` are enough: an id that nothing
refers to is used again, and TLC confirmed that one is left whenever a model is
registered (not kept as a property, because it is about the bound and not about
the code).
`FineTuningQuiet` takes model ids as symmetric: they are compared for equality
alone, and which unused one a registration returns makes no difference.
`Syncer` has two objects of one name, the least in which something left over
from the first meets the second, and two clusters, which are interchangeable;
one fault is enough to leave calm operation and to make the retry meet what the
first attempt did. There the copies end without a word of their start
(`Starting = {}`): its two properties are not about the contents of a status.
In `SyncerLive` pods start, end and expire; it has one object and one cluster,
since the second copy that a second cluster would allow ends calm operation,
and two faults, so that a patch of the status fails twice or a call and its
retry do. In `CacheSafety` one of two clusters may go stale (`Slow`), and two
placements move the notebook to the other cluster; in `CacheLive` two handlers
race, with two placements: the object's first and second attempt, or one each
of job and object. `Listing` has
four rows, a default page of one, a maximum of two and limits up to three: the
default, the maximum, a full last page and three pages all occur.
`MaxAttempts` is 2 where the code has 5: what matters is that attempts can run
out or not. `MaxLostDeletes` is 1 in `Notebooks`: a deletion whose error is
dropped leaves a second Deployment, so the three invariants about pods and
Deployments are stated for behaviours in which none was lost (`lost = 0`), and
`DeleteIsFinal` and `QueuedIsServed` for all.
`FinishedIsNoticed` and `PodsFindScripts` are stated for behaviours without
faults, because one fault breaks them (the retry after the TTL above, an event
used up by a failed reconciliation). Three requests after its creation stop
a notebook, start it again and delete it; faults and the rescheduler come on
top. Deadlock is checked where the system never stops; elsewhere
(`JobStore`, notebooks, batch jobs, syncer, listing) the budgets are used up.

### Fairness

Workers poll on a ticker, so `Worker` is weakly fair, and so are `Restart`
(Kubernetes restarts the process) and the rescheduler (`Reschedule`), which
ticks. A reconciler goes on with what it has in hand (weak), and each object
in its queue gets its turn: the queue is first in, first out, and an object
that was put back may be overtaken for a while, hence strong fairness of
`GetObject`. Pods end and finished objects expire (weak). In `BatchJobs` the
reconciler is not assumed to be fair: what is queued is served without it.
Users, faults, deletions by others and changes of a Deployment owe nothing. In
`ClusterCache` a handler that has begun goes on, clusters keep reporting and
time passes. In `Syncer` informer, controller and status syncers keep running
(weak fairness of `Observe`, `Reconcile`, `ReadStatus`, `WriteStatus`); users,
faults, restarts and the copies' ends owe nothing. In `Listing` the client goes
on and the handler answers. `Reschedule` being fair assumes that another
cluster is feasible in the end; with a single cluster it is never enabled.

## 4. Proofs

`OptimisticStoreProofs`, for any table that satisfies `ApplyAssumption`
(a handler writes a well-formed row) and any number of handlers:

- `StoreTypes` (`Spec => []TypeOK`; no run checks it) and `ReadIsCurrentHolds`
  (`Spec => []ReadIsCurrent`). Versions only grow, so a handler whose version
  still matches has read the present row; the conjunct on equal versions is
  what makes it inductive.
- `LinearizableHolds`: `Spec => Linearizable`. `Write` maps to `Serve` of
  `AtomicStore` by `ReadIsCurrent`; `Read` and `Conflict` map to stutters.

`RowProofs`, for any models and clusters: `JobApplyIsRow`,
`NotebookApplyIsRow` and `BatchApplyIsRow` establish `ApplyAssumption` of the
three tables, by cases on the request. For the jobs table, in which any number
of handlers race on any number of rows, `ActionIffQueuedHolds` and
`EndedStaysEndedHolds` follow from what each request does to a row
(`JobApplyKeeps`) and from the fact that the row a `Write` was decided on is
the present one (`RowSteps`, by `ReadIsCurrent`). `JobsTableAssumption` of
`MCJobStore` says that the parameters of `OptimisticStore` are those of
`JobRow`; TLC evaluates it in the run `JobStore`.

`FineTuningProofs`, for any set of jobs, models, number of attempts, faults and
deletions (`NoModelAssumption`, `FineTuningAssumption`):

- `Invariance`: `Spec => []IInv`, and from it `TypeCorrect`,
  `CanceledIsStoppedHolds`, `RunningModelIsCurrentHolds`,
  `SucceededIsPublishedHolds`.
- `FollowsLifecycleHolds`: `Spec => FollowsLifecycle`.
- `PublishesWhatRanHolds`: `Spec => [](faults = 0 => PublishesWhatRan)`.

The safety properties are not inductive alone, because they speak of rows
while what happens next depends on where worker and reconciler are. `IInv`
adds: a listed job is still queued, or at worst failed (`ListedIsQueued`), so
an action read earlier is never applied to a canceled or succeeded job; while
the worker applies and reports a Job object, the row names the model it has in
hand (`CreatesRowModel`); between suspension and report nothing makes the
object active (`SuspendedIsStopped`); what the reconciler is about to report
has not succeeded yet and, at FINETUNED, is published
(`ReconcilesUnfinished`). Each action is a step of the proof.

`PublishesWhatRan` compares what the reconciler saw some calls ago with the row
it reads now. A failed call breaks it: the worker registers a new model for a
job whose old object is still there. Without one (`QInv`), a job that waits for
its object has none, no event of one is queued and the reconciler does not have
the job at hand, unless the worker has just created the object (`NoTrace`);
an object that the reconciler saw of a live job carries the row's model
(`SeesRowModel`); one that it found gone stays gone until the job is queued
again (`GoneIsGone`, `RecreatesGone`). A job counts as waiting although it was
canceled after the worker had listed it: JOB_CREATED is accepted of any queued
row and makes such a job run. Without that clause the invariant holds but is
not inductive. `QuietKept` states what almost every step does to rows, objects,
queue and reconciler, and each action is shown to be such a step.

`NotebooksProofs`, for any sets of notebooks and clusters and any bounds:
`NotebooksInvariance`, and from it `NotebooksTypes`, `StoppedHasNoPodsHolds`,
`DeletedIsGoneHolds`, `OneDeploymentHolds` and `DeleteIsFinalHolds`.
The properties speak of rows and Deployments, while a worker may still hold
something to do. `IInv` adds that only the worker of the row's cluster does,
and never for a row at rest; that a worker about to report STOPPED has left no
pods and, unless a deletion was lost, one about to report DELETED or REQUEUED
no Deployment (`TodoOK`); and that a Deployment is only where the row says
(`PlaceOK`).

`BatchJobsProofs`, for any sets of jobs and any bounds:
`BatchJobsInvariance`, and from it `BatchJobsTypes`, `EndedIsStoppedHolds` and
`NeverRunsAgainHolds`. `IInv` adds that only a queued row has an action
(`ActionsOK`) and what follows from the worker's list (`TodoOK`): a job about
to be created is queued or at worst failed, one about to be reported CANCELED
has no pods, and one about to be reported DELETED no object.
`PodsFindScriptsHolds` needs a second invariant, `SInv`: the worker finishes a
job before it takes up the next (`OneAtATime`), and, while no call has failed,
a job that is to be created has the server's Secret and ConfigMap and no
object, except between the creation and the report of it (`MadeOnce`).

`ClusterCacheProofs`, for any sets of clusters, handlers and workloads:
`WritesLoadedTenantHolds`. With the types, the property is inductive: a restart
takes the writers with the map. (`TypeOK` of this module is proved here and not
a property of a run; that of `FineTuning` is a conjunct of `IInv`.)
`NotCountedTwiceHolds` is about the workloads that no cluster gets twice
(`ScheduledOnce`): jobs, and notebooks if there is one cluster only. Such a
workload, when it is about to be assumed, was never placed, so neither the
reports nor any copy of an entry, in the cache, the table, a handler or a call
of `UpdateClusterStatus`, has its pod. `CInv` says this of each copy, and that
no two handlers have the same job or notebook (`OneHandlerEach`). What
was placed stays placed (`Monotone`), so a stale copy is still sound when it is
written back. `FiniteAssumption` is needed to conclude from a cardinality of
one that there is no other cluster.

`SyncerProofs`, for any number of clusters, objects and faults:
`SyncerInvariance`, and from it `SyncerTypes`, `CalmHasNoOrphansHolds` and
`GoneIsUndeployedHolds`. `IInv` adds that a copy marked as current is the
object (`CopiesOK`), that uids are not used again (`UidsOK`), that an object
has its finalizer before it has a copy (`Tagged`), that the annotated cluster
has no copy when the finalizer is about to be removed from the current object
(`Undeployed`), and where the one copy is in calm operation (`CalmOK`).

`ListingProofs`, for tables, pages and limits of any size:
`ListingInvariance`, and from it `ListingTypes`, `PagesDescendHolds`,
`NothingMissedHolds`, `TotalCoversSeenHolds` and `RefusedOnlyIfDeletedHolds`.
`IInv` says that the row named in After separates what was seen from what is
still to come (`CursorOK`, `LastingOK`). The lemmas before it are about `Top`,
the ORDER BY and LIMIT of the query: a page has at most as many rows as asked
for, what is not on it is below it, and a page that is not full is all there
is. They rest on the library's theorem that < is well-founded on the naturals.

Every safety invariant and action property of a passing run is the statement of
a theorem (`PublishesWhatRan` under `faults = 0`, which is what its run has).
Only model-checked is liveness: `QueuedIsServed`, `FinishedIsNoticed`,
`EndedIsForgotten`, `AssumedExpires`, `DeployedInTheEnd`, `DeletedIsStopped`,
`EndIsReported` and `PagingEnds`, because the prover handles neither fairness
nor ENABLED.

## 5. Assumptions and what is left out

- One dispatcher process per cluster (`replicaCount: 1`, no leader election in
  `deployments/dispatcher/values.yaml`); its handlers do not outlive it. A
  server handler does not outlive its caller.
- Informer caches are as old as the step in which they are read, except in
  `Syncer`, where the controllers' cache lags.
- One syncer process. In `Syncer` the scheduler may return any cluster. What
  `PatchKubernetesObject` does to the cache of clusters is in `ClusterCache`,
  as one of the callers that schedule; the two modules are not composed.
- The validation of a status by the API server is not modelled. Of a Job it may
  refuse one that is finished and has active pods, and the status syncer would
  then try again with what its cache has by that time.
- A TTL or an expiry is a step that may come at any time after its cause.
- Kueue, which may hold a Job object suspended, is not modelled.
- In `Notebooks` and `BatchJobs` a failed pass is retried or ends the process
  by choice; attempts are not counted.
- One tenant; authentication, validation of requests, reads of one row and
  summaries change no state and are left out.
- Not modelled: the end of the server process on an error of the rescheduler;
  the loop over S3 objects in the pre-processor; data keys; the slurm proxy;
  Service, Ingress and Secret of notebooks; the Service of multi-node batch
  jobs; the contents of the objects that the syncer deploys and their GPU
  counts; configuration and wiring. Two servers that start on an empty
  database may each create a data key, and the index of the slurm proxy is used
  without a lock; neither code nor docs promise that two requests are not given
  the same last GPU. These are not entries of `hazards`.
- Generated code is not modelled. It is most of the repository: about 51,000 of
  its 61,000 lines of Go without tests are API stubs, gateways and the slurm
  client.

## 6. Plan

Order: most important behaviour first.

1. Done: `AtomicStore`, `OptimisticStore`, `JobRow`, `FineTuning`,
   `JobLifecycle`; `NotebookRow`, `Notebooks`; `BatchRow`, `BatchJobs`;
   `ClusterCache`; `Syncer`; `Listing`; each with proofs.
2. The server process: rescheduler, its end on an error, restart.
3. Pure algorithms with reference definitions: the S3 listing loop,
   `calcMinJobSetGPUs` with its 32-bit casts, `Schedule`.
4. `Syncer` composed with `ClusterCache`: how often the attempts that fail come.
5. Liveness with two jobs and with two notebooks that share a worker.
