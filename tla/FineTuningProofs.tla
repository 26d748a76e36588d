-------------------------- MODULE FineTuningProofs --------------------------
(***************************************************************************)
(* The safety properties of FineTuning, for any set of jobs, any number of *)
(* retries, failed calls, crashes and deletions.                           *)
(***************************************************************************)
EXTENDS FineTuning, TLAPS

(***************************************************************************)
(* What each request does to the table, with the row written out.          *)
(***************************************************************************)

Written(j, state, outputModel, fineTuned) ==
    /\ jobs' \in [Jobs -> JobRows]
    /\ jobs'[j].state = state
    /\ jobs'[j].outputModel = outputModel
    /\ jobs'[j].fineTuned = fineTuned
    /\ \A i \in Jobs : i # j => jobs'[i] = jobs[i]

LEMMA ServeCancelJob ==
  ASSUME TypeOK, NEW j \in Jobs, Serve(j, Request("CancelJob", NoModel))
  PROVE  /\ jobs[j].state \in {"queued", "running"}
         /\ Written(j, "queued", jobs[j].outputModel, jobs[j].fineTuned)
  BY Zenon
  DEF TypeOK, JobRows, JobStates, JobActions, Serve, Request, JobAccepts, JobApply, UpdateJobState, Written

LEMMA ServePreProcessed ==
  ASSUME TypeOK, NEW j \in Jobs, NEW m \in ModelIDs, Serve(j, Request("PREPROCESSED", m))
  PROVE  /\ jobs[j].state = "queued" /\ m # NoModel
         /\ Written(j, "queued", m, jobs[j].fineTuned)
  BY Zenon
  DEF TypeOK, JobRows, JobStates, JobActions, Serve, Request, JobAccepts, JobApply, UpdateOutputModelID, Written

LEMMA ServeJobCreated ==
  ASSUME TypeOK, NEW j \in Jobs, Serve(j, Request("JOB_CREATED", NoModel))
  PROVE  /\ jobs[j].state = "queued"
         /\ Written(j, "running", jobs[j].outputModel, jobs[j].fineTuned)
  BY Zenon
  DEF TypeOK, JobRows, JobStates, JobActions, Serve, Request, JobAccepts, JobApply, UpdateJobState, Written

LEMMA ServeFinetuned ==
  ASSUME TypeOK, NEW j \in Jobs, NEW m \in ModelIDs, Serve(j, Request("FINETUNED", m))
  PROVE  /\ jobs[j].state = "running" /\ m # NoModel
         /\ Written(j, "succeeded", jobs[j].outputModel, m)
  BY Zenon DEF TypeOK, JobRows, JobStates, JobActions, Serve, Request, JobAccepts, JobApply,
         UpdateJobStateAndMessage, Written

LEMMA ServeCanceled ==
  ASSUME TypeOK, NEW j \in Jobs, Serve(j, Request("CANCELED", NoModel))
  PROVE  Written(j, "canceled", jobs[j].outputModel, jobs[j].fineTuned)
  BY Zenon DEF TypeOK, JobRows, JobStates, JobActions, Serve, Request, JobAccepts, JobApply,
         UpdateJobStateAndMessage, Written

LEMMA ServeFailed ==
  ASSUME TypeOK, NEW j \in Jobs, Serve(j, Request("FAILED", NoModel))
  PROVE  /\ jobs[j].state # "absent"
         /\ Written(j, "failed", jobs[j].outputModel, jobs[j].fineTuned)
  BY Zenon DEF TypeOK, JobRows, JobStates, JobActions, Serve, Request, JobAccepts, JobApply,
         UpdateJobStateAndMessage, Written

LEMMA ServeRecreate ==
  ASSUME TypeOK, NEW j \in Jobs, Serve(j, Request("RECREATE", NoModel))
  PROVE  /\ jobs[j].state = "running"
         /\ Written(j, "queued", jobs[j].outputModel, jobs[j].fineTuned)
  BY Zenon
  DEF TypeOK, JobRows, JobStates, JobActions, Serve, Request, JobAccepts, JobApply, UpdateJobState, Written

-----------------------------------------------------------------------------
(***************************************************************************)
(* Helpers for the induction step.                                         *)
(***************************************************************************)

LEMMA AtHandUnique ==
  ASSUME NEW i \in Jobs, NEW j \in Jobs, AtHand(i), AtHand(j)
  PROVE  i = j
<1>1. i \in Nat /\ j \in Nat
  BY FineTuningAssumption
<1>2. ~(i < j) /\ ~(j < i)
  BY Zenon DEF AtHand
<1> QED BY <1>1, <1>2

LEMMA ObjectSet ==
  ASSUME TypeOK, NEW j \in Jobs, NEW o \in Objects, k8s' = [k8s EXCEPT ![j] = o]
  PROVE  /\ k8s' \in [Jobs -> Objects]
         /\ k8s'[j] = o
         /\ \A i \in Jobs : i # j => k8s'[i] = k8s[i]
  BY DEF TypeOK

LEMMA NoObjectType == NoObject \in Objects /\ NoObject.status = "none"
  BY DEF NoObject, Objects, Statuses, ModelIDs

\* Steps that leave what a part of the invariant speaks of alone.
LEMMA DispatcherFrame ==
  ASSUME DispatcherInv, UNCHANGED <<jobs, k8s, dpc, todo, dmodel>>
  PROVE  DispatcherInv'
  BY Zenon DEF DispatcherInv, ListedIsQueued, CreatesRowModel, SuspendedIsStopped,
         CanceledIsStopped, RunningModelIsCurrent, AtHand

LEMMA ReconcilerFrame ==
  ASSUME ReconcilerInv, UNCHANGED <<jobs, published, rpc, rjob, rmodel>>
  PROVE  ReconcilerInv'
  BY DEF ReconcilerInv, ReconcilesUnfinished, SucceededIsPublished

\* Steps that empty the list, or end a reconciliation.
LEMMA DispatcherStops ==
  ASSUME DispatcherInv, UNCHANGED <<jobs, k8s>>, todo' = [j \in Jobs |-> ""]
  PROVE  DispatcherInv'
  BY Zenon DEF DispatcherInv, ListedIsQueued, CreatesRowModel, SuspendedIsStopped,
         CanceledIsStopped, RunningModelIsCurrent, AtHand

LEMMA ReconcilerStops ==
  ASSUME ReconcilerInv, UNCHANGED <<jobs, published>>, rpc' = "idle"
  PROVE  ReconcilerInv'
  BY DEF ReconcilerInv, ReconcilesUnfinished, SucceededIsPublished

\* A request that does not report success disturbs no reconciliation.
LEMMA ReconcilerServe ==
  ASSUME TypeOK, ReconcilerInv, NEW j \in Jobs, NEW s, NEW om, NEW ft,
         Written(j, s, om, ft), s \notin {"absent", "succeeded"},
         UNCHANGED published,
         UNCHANGED <<rpc, rjob, rmodel>> \/ rpc' = "idle"
  PROVE  ReconcilerInv'
  BY DEF TypeOK, ReconcilerInv, ReconcilesUnfinished, SucceededIsPublished, Written

LEMMA Bounds ==
    /\ MaxAttempts \in Nat /\ MaxAttempts >= 1
    /\ MaxFaults \in Nat /\ MaxDeletes \in Nat
  BY FineTuningAssumption

\* The process of the dispatcher gives up a pass, or everything.
LEMMA PassFailsInv ==
  ASSUME IInv, PassFails, UNCHANGED <<jobs, k8s, published>>
  PROVE  /\ DispatcherInv' /\ ReconcilerInv'
         /\ dpc' \in DispatcherPCs /\ todo' \in [Jobs -> JobActions]
         /\ tries' \in 1 .. MaxAttempts /\ dmodel' \in ModelIDs
         /\ rpc' \in ReconcilerPCs /\ rjob' \in Jobs /\ robs' \in Objects
         /\ rmodel' \in ModelIDs /\ workq' \subseteq Jobs
<1>1. CASE tries = 1 /\ Exit
  <2>1. DispatcherInv'
    BY <1>1, DispatcherStops, Zenon DEF IInv, Exit
  <2>2. ReconcilerInv'
    BY <1>1, ReconcilerStops, Zenon DEF IInv, Exit
  <2> QED BY <1>1, <2>1, <2>2, NoObjectType, Zenon
          DEF IInv, TypeOK, Exit, DispatcherPCs, ReconcilerPCs, JobActions, ModelIDs
<1>2. CASE tries > 1 /\ ~(tries = 1 /\ Exit)
  <2>1. /\ dpc' = "idle" /\ tries' = tries - 1 /\ dmodel' = NoModel
        /\ todo' = [j \in Jobs |-> ""] /\ UNCHANGED <<reconciler, workq>>
    BY <1>2, Zenon DEF PassFails
  <2>2. DispatcherInv'
    BY <2>1, DispatcherStops, Zenon DEF IInv
  <2>3. ReconcilerInv'
    BY <2>1, ReconcilerFrame, Zenon DEF IInv, reconciler
  <2>4. tries' \in 1 .. MaxAttempts
    <3>1. tries \in 1 .. MaxAttempts
      BY DEF IInv, TypeOK
    <3>2. tries > 1 /\ tries' = tries - 1
      BY <1>2, <2>1, Zenon
    <3> QED BY <3>1, <3>2, Bounds
  <2> QED BY <2>1, <2>2, <2>3, <2>4, Zenon
          DEF IInv, TypeOK, reconciler, DispatcherPCs, JobActions, ModelIDs
<1> QED BY <1>1, <1>2, Zenon DEF PassFails

-----------------------------------------------------------------------------

LEMMA InitIInv == Init => IInv
<1> SUFFICES ASSUME Init PROVE IInv
  OBVIOUS
<1>1. NoJob \in JobRows /\ NoModel \in ModelIDs /\ "" \in JobActions
  BY DEF NoJob, JobRows, ModelIDs, JobActions
<1>2. TypeOK
  <2>1. 1 \in 1 .. MaxAttempts /\ 0 \in 0 .. MaxFaults /\ 0 \in 0 .. MaxDeletes
    BY Bounds
  <2> QED BY <1>1, <2>1, NoObjectType, Zenon DEF Init, TypeOK, DispatcherPCs, ReconcilerPCs
<1>3. DispatcherInv
  BY NoObjectType, Zenon
  DEF Init, DispatcherInv, ListedIsQueued, CreatesRowModel, SuspendedIsStopped,
      CanceledIsStopped, RunningModelIsCurrent, NoJob, AtHand
<1>4. ReconcilerInv
  BY Zenon DEF Init, ReconcilerInv, ReconcilesUnfinished, SucceededIsPublished, NoJob
<1> QED BY <1>2, <1>3, <1>4 DEF IInv

LEMMA UserStep ==
  ASSUME IInv, NEW j \in Jobs, User(j)
  PROVE  IInv'
<1> USE DEF IInv, dispatcher, reconciler, budgets
<1>1. CASE CreateJob(j)
  <2>1. /\ jobs' = [jobs EXCEPT ![j] = NewJob] /\ jobs[j].state = "absent"
        /\ UNCHANGED <<k8s, published, dispatcher, reconciler, workq, budgets>>
    BY <1>1 DEF CreateJob
  <2>2. Written(j, "queued", NoModel, NoModel)
    BY <2>1, Zenon DEF TypeOK, Written, NewJob, JobRows, JobStates, JobActions, ModelIDs
  <2>3. TypeOK'
    BY <2>1, <2>2 DEF TypeOK, Written
  <2>4. DispatcherInv'
    BY <2>1, <2>2, Zenon
    DEF TypeOK, Written, DispatcherInv, ListedIsQueued, CreatesRowModel,
        SuspendedIsStopped, CanceledIsStopped, RunningModelIsCurrent, AtHand
  <2>5. ReconcilerInv'
    BY <2>1, <2>2, ReconcilerServe
  <2> QED BY <2>3, <2>4, <2>5
<1>2. CASE CancelJob(j)
  <2>1. /\ jobs[j].state \in {"queued", "running"}
        /\ Written(j, "queued", jobs[j].outputModel, jobs[j].fineTuned)
        /\ UNCHANGED <<k8s, published, dispatcher, reconciler, workq, budgets>>
    BY <1>2, ServeCancelJob DEF CancelJob
  <2>2. TypeOK'
    BY <2>1 DEF TypeOK, Written
  <2>3. DispatcherInv'
    <3> USE DEF DispatcherInv, Written
    <3>1. ListedIsQueued'
      BY <2>1, Zenon DEF ListedIsQueued
    <3>2. CreatesRowModel'
      BY <2>1, Zenon DEF CreatesRowModel, AtHand
    <3>3. SuspendedIsStopped'
      BY <2>1, Zenon DEF SuspendedIsStopped, AtHand
    <3>4. CanceledIsStopped'
      BY <2>1 DEF CanceledIsStopped
    <3>5. RunningModelIsCurrent'
      BY <2>1 DEF RunningModelIsCurrent
    <3> QED BY <3>1, <3>2, <3>3, <3>4, <3>5
  <2>4. ReconcilerInv'
    BY <2>1, ReconcilerServe
  <2> QED BY <2>2, <2>3, <2>4
<1> QED BY <1>1, <1>2 DEF User

\* Kubernetes, on its own or by the reconciler's hand, removes an object or
\* ends its pods.
LEMMA ObjectEnds ==
  ASSUME IInv, NEW j \in Jobs, NEW o \in Objects, k8s' = [k8s EXCEPT ![j] = o],
         o.status # "active", o.status = "none" \/ o.model = k8s[j].model,
         k8s[j].status # "none",
         UNCHANGED <<jobs, dpc, todo, dmodel>>
  PROVE  DispatcherInv'
<1>1. /\ k8s'[j] = o
      /\ \A i \in Jobs : i # j => k8s'[i] = k8s[i]
  BY ObjectSet, Zenon DEF IInv
<1> USE <1>1 DEF IInv, DispatcherInv
<1>2. ListedIsQueued'
  BY Zenon DEF ListedIsQueued
<1>3. CreatesRowModel'
  BY Zenon DEF CreatesRowModel, AtHand
<1>4. SuspendedIsStopped'
  BY Zenon DEF SuspendedIsStopped, AtHand
<1>5. CanceledIsStopped'
  BY DEF CanceledIsStopped
<1>6. RunningModelIsCurrent'
  BY DEF RunningModelIsCurrent
<1> QED BY <1>2, <1>3, <1>4, <1>5, <1>6

LEMMA KubernetesStep ==
  ASSUME IInv, NEW j \in Jobs, PodEnds(j) \/ Expire(j) \/ DeletedByOthers(j)
  PROVE  IInv'
<1>1. PICK o \in Objects :
        /\ k8s' = [k8s EXCEPT ![j] = o]
        /\ o.status # "active" /\ (o.status = "none" \/ o.model = k8s[j].model)
        /\ k8s[j].status # "none"
  <2>1. CASE PodEnds(j)
    <3>1. PICK s \in {"succeeded", "failed"} : Event(j, [k8s[j] EXCEPT !.status = s])
      BY <2>1 DEF PodEnds
    <3>2. /\ [k8s[j] EXCEPT !.status = s] \in Objects
          /\ [k8s[j] EXCEPT !.status = s].status = s
          /\ [k8s[j] EXCEPT !.status = s].model = k8s[j].model
      BY DEF IInv, TypeOK, Objects, Statuses
    <3> QED BY <2>1, <3>1, <3>2, Zenon DEF PodEnds, Event, SetObject
  <2>2. CASE Expire(j) \/ DeletedByOthers(j)
    BY <2>2, NoObjectType DEF Expire, DeletedByOthers, Event, SetObject
  <2> QED BY <2>1, <2>2
<1>2. UNCHANGED <<jobs, published, dispatcher, reconciler>>
  BY DEF PodEnds, Expire, DeletedByOthers
<1>3. workq' \subseteq Jobs
  BY DEF PodEnds, Expire, DeletedByOthers, Event, SetObject, IInv, TypeOK
<1>4. faults' \in 0 .. MaxFaults /\ deletes' \in 0 .. MaxDeletes
  BY FineTuningAssumption DEF PodEnds, Expire, DeletedByOthers, budgets, IInv, TypeOK
<1>5. k8s' \in [Jobs -> Objects]
  BY <1>1, ObjectSet, Zenon DEF IInv
<1>6. TypeOK'
  BY <1>2, <1>3, <1>4, <1>5 DEF IInv, TypeOK, dispatcher, reconciler
<1>7. DispatcherInv'
  BY <1>1, <1>2, ObjectEnds, Zenon DEF dispatcher
<1>8. ReconcilerInv'
  BY <1>2, ReconcilerFrame DEF IInv, reconciler
<1> QED BY <1>6, <1>7, <1>8 DEF IInv

(***************************************************************************)
(* The dispatcher's worker.                                                *)
(***************************************************************************)

LEMMA ListStep ==
  ASSUME IInv, ListQueuedInternalJobs
  PROVE  IInv'
<1> USE DEF IInv, dispatcher, reconciler, budgets
<1>1. /\ dpc' = "work"
      /\ todo' = [j \in Jobs |-> IF jobs[j].state = "queued" THEN jobs[j].action ELSE ""]
      /\ UNCHANGED <<jobs, k8s, published, tries, dmodel, reconciler, workq, budgets>>
  BY Zenon DEF ListQueuedInternalJobs
<1>2. todo' \in [Jobs -> JobActions]
  BY <1>1, Zenon DEF TypeOK, JobRows, JobActions
<1>3. TypeOK'
  BY <1>1, <1>2, Zenon DEF TypeOK, DispatcherPCs
<1>4. DispatcherInv'
  <2> USE DEF DispatcherInv, Written
  <2>1. ListedIsQueued'
    BY <1>1, <1>2, Zenon DEF ListedIsQueued
  <2>2. CreatesRowModel'
    BY <1>1, Zenon DEF CreatesRowModel, AtHand
  <2>3. SuspendedIsStopped'
    BY <1>1, Zenon DEF SuspendedIsStopped, AtHand
  <2>4. CanceledIsStopped'
    BY <1>1, Zenon DEF CanceledIsStopped
  <2>5. RunningModelIsCurrent'
    BY <1>1, Zenon DEF RunningModelIsCurrent
  <2> QED BY <2>1, <2>2, <2>3, <2>4, <2>5
<1>5. ReconcilerInv'
  BY <1>1, ReconcilerFrame, Zenon
<1> QED BY <1>3, <1>4, <1>5

LEMMA PassEndsStep ==
  ASSUME IInv, PassEnds \/ Restart
  PROVE  IInv'
<1> USE DEF IInv, dispatcher, reconciler, budgets
<1>1. /\ dpc' = "idle" /\ tries' \in {1, MaxAttempts}
      /\ workq' \in {workq, {j \in Jobs : k8s[j].status # "none"}}
      /\ UNCHANGED <<jobs, k8s, published, todo, dmodel, reconciler, budgets>>
  BY Zenon DEF PassEnds, Restart
<1>2. tries' \in 1 .. MaxAttempts
  BY <1>1, Bounds
<1>3. TypeOK'
  BY <1>1, <1>2 DEF TypeOK, DispatcherPCs
<1>4. DispatcherInv'
  <2> USE DEF DispatcherInv, Written
  <2>1. ListedIsQueued'
    BY <1>1, Zenon DEF ListedIsQueued
  <2>2. CreatesRowModel'
    BY <1>1, Zenon DEF CreatesRowModel, AtHand
  <2>3. SuspendedIsStopped'
    BY <1>1, Zenon DEF SuspendedIsStopped, AtHand
  <2>4. CanceledIsStopped'
    BY <1>1 DEF CanceledIsStopped
  <2>5. RunningModelIsCurrent'
    BY <1>1 DEF RunningModelIsCurrent
  <2> QED BY <2>1, <2>2, <2>3, <2>4, <2>5
<1>5. ReconcilerInv'
  BY <1>1, ReconcilerFrame
<1> QED BY <1>3, <1>4, <1>5

LEMMA PreProcessStep ==
  ASSUME IInv, NEW j \in Jobs, PreProcess(j)
  PROVE  IInv'
<1> USE DEF IInv, dispatcher, reconciler, budgets
<1>1. /\ dpc' \in {"preprocessed", "invalid"}
      /\ UNCHANGED <<jobs, k8s, published, todo, tries, reconciler, workq, budgets>>
  BY DEF PreProcess
<1>2. dmodel' \in ModelIDs
  <2>1. CASE UNCHANGED dmodel
    BY <2>1 DEF TypeOK
  <2>2. CASE Models \ InUse # {} /\ dmodel' = CHOOSE m \in Models : m \notin InUse
    BY <2>2 DEF ModelIDs
  <2> QED BY <2>1, <2>2 DEF PreProcess
<1>3. TypeOK'
  BY <1>1, <1>2 DEF TypeOK, DispatcherPCs
<1>4. DispatcherInv'
  <2> USE DEF DispatcherInv, Written
  <2>1. ListedIsQueued'
    BY <1>1, Zenon DEF ListedIsQueued
  <2>2. CreatesRowModel'
    BY <1>1, Zenon DEF CreatesRowModel, AtHand
  <2>3. SuspendedIsStopped'
    BY <1>1, Zenon DEF SuspendedIsStopped, AtHand
  <2>4. CanceledIsStopped'
    BY <1>1 DEF CanceledIsStopped
  <2>5. RunningModelIsCurrent'
    BY <1>1 DEF RunningModelIsCurrent
  <2> QED BY <2>1, <2>2, <2>3, <2>4, <2>5
<1>5. ReconcilerInv'
  BY <1>1, ReconcilerFrame
<1> QED BY <1>3, <1>4, <1>5

\* The dispatcher is done with the job at hand.
LEMMA FinishedTodo ==
  ASSUME TypeOK, NEW j \in Jobs, Finished(j)
  PROVE  /\ dpc' = "work" /\ dmodel' = NoModel
         /\ todo' \in [Jobs -> JobActions]
         /\ \A i \in Jobs : todo'[i] # "" => i # j /\ todo[i] # ""
  BY Zenon DEF Finished, TypeOK, JobActions

LEMMA ReportInvalidStep ==
  ASSUME IInv, NEW j \in Jobs, ReportInvalid(j)
  PROVE  IInv'
<1> USE DEF IInv, dispatcher, reconciler, budgets
<1>1. Written(j, "failed", jobs[j].outputModel, jobs[j].fineTuned)
  BY ServeFailed DEF ReportInvalid
<1>2. /\ dpc' = "work" /\ dmodel' = NoModel
      /\ todo' \in [Jobs -> JobActions]
      /\ \A i \in Jobs : todo'[i] # "" => i # j /\ todo[i] # ""
  BY FinishedTodo, Zenon DEF ReportInvalid
<1>3. UNCHANGED <<k8s, published, tries, reconciler, workq, budgets>>
  BY DEF ReportInvalid
<1>4. TypeOK'
  BY <1>1, <1>2, <1>3, Zenon DEF TypeOK, Written, DispatcherPCs, ModelIDs
<1>5. DispatcherInv'
  <2> USE DEF DispatcherInv, Written
  <2>1. ListedIsQueued'
    BY <1>1, <1>2, <1>3, Zenon DEF ListedIsQueued
  <2>2. CreatesRowModel'
    BY <1>1, <1>2, <1>3, Zenon DEF CreatesRowModel, AtHand
  <2>3. SuspendedIsStopped'
    BY <1>1, <1>2, <1>3, Zenon DEF SuspendedIsStopped, AtHand
  <2>4. CanceledIsStopped'
    BY <1>1, <1>2, <1>3, Zenon DEF CanceledIsStopped
  <2>5. RunningModelIsCurrent'
    BY <1>1, <1>2, <1>3, Zenon DEF RunningModelIsCurrent
  <2> QED BY <2>1, <2>2, <2>3, <2>4, <2>5
<1>6. ReconcilerInv'
  BY <1>1, <1>3, ReconcilerServe
<1> QED BY <1>4, <1>5, <1>6

LEMMA ReportPreProcessedStep ==
  ASSUME IInv, NEW j \in Jobs, ReportPreProcessed(j)
  PROVE  IInv'
<1> USE DEF IInv, dispatcher, reconciler, budgets
<1> DEFINE q == Request("PREPROCESSED", dmodel)
<1>1. UNCHANGED <<k8s, published, budgets>> /\ AtHand(j)
  BY DEF ReportPreProcessed
<1>2. CASE /\ Serve(j, q) /\ dpc' = "apply"
           /\ UNCHANGED <<todo, tries, dmodel, reconciler, workq>>
  <2>1. dmodel \in ModelIDs
    BY DEF TypeOK
  <2>2. /\ jobs[j].state = "queued" /\ dmodel # NoModel
        /\ Written(j, "queued", dmodel, jobs[j].fineTuned)
    BY <1>2, <2>1, ServePreProcessed
  <2>3. TypeOK'
    BY <1>1, <1>2, <2>2 DEF TypeOK, Written, DispatcherPCs
  <2>4. \A i \in Jobs : AtHand(i)' => i = j
    BY <1>1, <1>2, AtHandUnique, Zenon DEF AtHand
  <2>5. DispatcherInv'
    <3> USE DEF DispatcherInv, Written
    <3>1. ListedIsQueued'
      BY <1>1, <1>2, <2>2, Zenon DEF ListedIsQueued
    <3>2. CreatesRowModel'
      BY <1>1, <1>2, <2>2, <2>4, Zenon DEF CreatesRowModel, AtHand
    <3>3. SuspendedIsStopped'
      BY <1>1, <1>2, <2>2, Zenon DEF SuspendedIsStopped, AtHand
    <3>4. CanceledIsStopped'
      BY <1>1, <1>2, <2>2 DEF CanceledIsStopped
    <3>5. RunningModelIsCurrent'
      BY <1>1, <1>2, <2>2 DEF RunningModelIsCurrent
    <3> QED BY <3>1, <3>2, <3>3, <3>4, <3>5
  <2>6. ReconcilerInv'
    BY <1>1, <1>2, <2>2, ReconcilerServe
  <2> QED BY <2>3, <2>5, <2>6
<1>3. CASE PassFails /\ UNCHANGED jobs
  BY <1>1, <1>3, PassFailsInv DEF TypeOK
<1> QED BY <1>2, <1>3 DEF ReportPreProcessed

LEMMA ApplyJobStep ==
  ASSUME IInv, NEW j \in Jobs, ApplyJob(j)
  PROVE  IInv'
<1> USE DEF IInv, dispatcher, reconciler, budgets
<1> DEFINE o == [status |-> "active", model |-> dmodel]
<1>1. UNCHANGED <<jobs, published, budgets>> /\ AtHand(j) /\ dpc = "apply"
  BY DEF ApplyJob
<1>2. CASE /\ k8s[j].status = "none" /\ SetObject(j, o) /\ dpc' = "created"
           /\ UNCHANGED <<todo, tries, dmodel, reconciler>>
  <2>1. o \in Objects /\ o.status = "active" /\ o.model = dmodel
    BY DEF TypeOK, Objects, Statuses
  <2>2. /\ k8s' \in [Jobs -> Objects] /\ k8s'[j] = o
        /\ \A i \in Jobs : i # j => k8s'[i] = k8s[i]
    BY <1>2, <2>1, ObjectSet, Zenon DEF SetObject
  <2>3. TypeOK'
    BY <1>1, <1>2, <2>2 DEF TypeOK, SetObject, DispatcherPCs
  <2>4. \A i \in Jobs : AtHand(i)' => i = j
    BY <1>1, <1>2, AtHandUnique, Zenon DEF AtHand
  <2>5. /\ jobs[j].state \in {"queued", "failed"}
        /\ dmodel # NoModel /\ jobs[j].outputModel = dmodel
    BY <1>1, Zenon DEF DispatcherInv, ListedIsQueued, CreatesRowModel, AtHand
  <2>6. DispatcherInv'
    <3> USE DEF DispatcherInv, Written
    <3>1. ListedIsQueued'
      BY <1>1, <1>2, <2>1, <2>2, <2>5, Zenon DEF ListedIsQueued
    <3>2. CreatesRowModel'
      BY <1>1, <1>2, <2>1, <2>2, <2>5, <2>4, Zenon DEF CreatesRowModel, AtHand
    <3>3. SuspendedIsStopped'
      BY <1>1, <1>2, <2>1, <2>2, <2>5, Zenon DEF SuspendedIsStopped, AtHand
    <3>4. CanceledIsStopped'
      BY <1>1, <1>2, <2>1, <2>2, <2>5 DEF CanceledIsStopped
    <3>5. RunningModelIsCurrent'
      BY <1>1, <1>2, <2>1, <2>2, <2>5 DEF RunningModelIsCurrent
    <3> QED BY <3>1, <3>2, <3>3, <3>4, <3>5
  <2>7. ReconcilerInv'
    BY <1>1, <1>2, ReconcilerFrame
  <2> QED BY <2>3, <2>6, <2>7
<1>3. CASE PassFails /\ UNCHANGED k8s
  BY <1>1, <1>3, PassFailsInv DEF TypeOK
<1> QED BY <1>2, <1>3 DEF ApplyJob

LEMMA ReportJobCreatedStep ==
  ASSUME IInv, NEW j \in Jobs, ReportJobCreated(j)
  PROVE  IInv'
<1> USE DEF IInv, dispatcher, reconciler, budgets
<1>1. UNCHANGED <<k8s, published, budgets>> /\ AtHand(j) /\ dpc = "created"
  BY DEF ReportJobCreated
<1>2. CASE /\ Serve(j, Request("JOB_CREATED", NoModel)) /\ Finished(j)
           /\ UNCHANGED <<tries, reconciler, workq>>
  <2>1. Written(j, "running", jobs[j].outputModel, jobs[j].fineTuned)
    BY <1>2, ServeJobCreated
  <2>2. /\ dpc' = "work" /\ dmodel' = NoModel
        /\ todo' \in [Jobs -> JobActions]
        /\ \A i \in Jobs : todo'[i] # "" => i # j /\ todo[i] # ""
    BY <1>2, FinishedTodo, Zenon
  <2>3. TypeOK'
    BY <1>1, <1>2, <2>1, <2>2, Zenon DEF TypeOK, Written, DispatcherPCs, ModelIDs
  <2>4. /\ jobs[j].outputModel # NoModel
        /\ k8s[j].status # "none" => k8s[j].model = jobs[j].outputModel
    BY <1>1 DEF DispatcherInv, CreatesRowModel
  <2>5. DispatcherInv'
    <3> USE DEF DispatcherInv, Written
    <3>1. ListedIsQueued'
      BY <1>1, <1>2, <2>1, <2>2, <2>4, Zenon DEF ListedIsQueued
    <3>2. CreatesRowModel'
      BY <1>1, <1>2, <2>1, <2>2, <2>4, Zenon DEF CreatesRowModel, AtHand
    <3>3. SuspendedIsStopped'
      BY <1>1, <1>2, <2>1, <2>2, <2>4, Zenon DEF SuspendedIsStopped, AtHand
    <3>4. CanceledIsStopped'
      BY <1>1, <1>2, <2>1, <2>2, <2>4, Zenon DEF CanceledIsStopped
    <3>5. RunningModelIsCurrent'
      BY <1>1, <1>2, <2>1, <2>2, <2>4, Zenon DEF RunningModelIsCurrent
    <3> QED BY <3>1, <3>2, <3>3, <3>4, <3>5
  <2>6. ReconcilerInv'
    BY <1>1, <1>2, <2>1, ReconcilerServe
  <2> QED BY <2>3, <2>5, <2>6
<1>3. CASE PassFails /\ UNCHANGED jobs
  BY <1>1, <1>3, PassFailsInv DEF TypeOK
<1> QED BY <1>2, <1>3 DEF ReportJobCreated

LEMMA SuspendJobStep ==
  ASSUME IInv, NEW j \in Jobs, SuspendJob(j)
  PROVE  IInv'
<1> USE DEF IInv, dispatcher, reconciler, budgets
<1> DEFINE o == [k8s[j] EXCEPT !.status = "suspended"]
<1>1. /\ UNCHANGED <<jobs, published, todo, tries, dmodel, reconciler, budgets>>
      /\ AtHand(j) /\ dpc' = "suspended"
  BY DEF SuspendJob
<1>2. /\ k8s' \in [Jobs -> Objects]
      /\ k8s'[j].status # "active" /\ k8s'[j].model = k8s[j].model
      /\ k8s[j].status = "none" <=> k8s'[j].status = "none"
      /\ \A i \in Jobs : i # j => k8s'[i] = k8s[i]
      /\ workq' \subseteq Jobs
  <2>1. CASE k8s[j].status \in {"active", "suspended"} /\ SetObject(j, o)
    <3>1. o \in Objects /\ o.status = "suspended" /\ o.model = k8s[j].model
      BY DEF TypeOK, Objects, Statuses
    <3>2. workq' \subseteq Jobs
      BY <2>1 DEF SetObject, TypeOK
    <3> QED BY <2>1, <3>1, <3>2, ObjectSet, Zenon DEF SetObject
  <2>2. CASE k8s[j].status \notin {"active", "suspended"} /\ UNCHANGED <<k8s, workq>>
    BY <2>2 DEF TypeOK
  <2> QED BY <2>1, <2>2 DEF SuspendJob
<1>3. TypeOK'
  BY <1>1, <1>2 DEF TypeOK, DispatcherPCs
<1>4. \A i \in Jobs : AtHand(i)' => i = j
  BY <1>1, AtHandUnique, Zenon DEF AtHand
<1>5. DispatcherInv'
  <2> USE DEF DispatcherInv, Written
  <2>1. ListedIsQueued'
    BY <1>1, <1>2, Zenon DEF ListedIsQueued
  <2>2. CreatesRowModel'
    BY <1>1, <1>2, Zenon DEF CreatesRowModel, AtHand
  <2>3. SuspendedIsStopped'
    BY <1>1, <1>2, <1>4, Zenon DEF SuspendedIsStopped, AtHand
  <2>4. CanceledIsStopped'
    BY <1>1, <1>2 DEF CanceledIsStopped
  <2>5. RunningModelIsCurrent'
    BY <1>1, <1>2 DEF RunningModelIsCurrent
  <2> QED BY <2>1, <2>2, <2>3, <2>4, <2>5
<1>6. ReconcilerInv'
  BY <1>1, ReconcilerFrame
<1> QED BY <1>3, <1>5, <1>6

LEMMA ReportCanceledStep ==
  ASSUME IInv, NEW j \in Jobs, ReportCanceled(j)
  PROVE  IInv'
<1> USE DEF IInv, dispatcher, reconciler, budgets
<1>1. Written(j, "canceled", jobs[j].outputModel, jobs[j].fineTuned)
  BY ServeCanceled DEF ReportCanceled
<1>2. /\ dpc' = "work" /\ dmodel' = NoModel
      /\ todo' \in [Jobs -> JobActions]
      /\ \A i \in Jobs : todo'[i] # "" => i # j /\ todo[i] # ""
  BY FinishedTodo, Zenon DEF ReportCanceled
<1>3. UNCHANGED <<k8s, published, tries, reconciler, workq, budgets>>
  BY DEF ReportCanceled
<1>4. k8s[j].status # "active"
  BY DEF ReportCanceled, DispatcherInv, SuspendedIsStopped
<1>5. TypeOK'
  BY <1>1, <1>2, <1>3, Zenon DEF TypeOK, Written, DispatcherPCs, ModelIDs
<1>6. DispatcherInv'
  <2> USE DEF DispatcherInv, Written
  <2>1. ListedIsQueued'
    BY <1>1, <1>2, <1>3, <1>4, Zenon DEF ListedIsQueued
  <2>2. CreatesRowModel'
    BY <1>1, <1>2, <1>3, <1>4, Zenon DEF CreatesRowModel, AtHand
  <2>3. SuspendedIsStopped'
    BY <1>1, <1>2, <1>3, <1>4, Zenon DEF SuspendedIsStopped, AtHand
  <2>4. CanceledIsStopped'
    BY <1>1, <1>2, <1>3, <1>4, Zenon DEF CanceledIsStopped
  <2>5. RunningModelIsCurrent'
    BY <1>1, <1>2, <1>3, <1>4, Zenon DEF RunningModelIsCurrent
  <2> QED BY <2>1, <2>2, <2>3, <2>4, <2>5
<1>7. ReconcilerInv'
  BY <1>1, <1>3, ReconcilerServe
<1> QED BY <1>5, <1>6, <1>7

(***************************************************************************)
(* The reconciler.                                                         *)
(***************************************************************************)

LEMMA GetObjectStep ==
  ASSUME IInv, NEW j \in Jobs, GetObject(j)
  PROVE  IInv'
<1> USE DEF IInv, dispatcher, reconciler, budgets
<1>1. TypeOK'
  BY DEF GetObject, TypeOK, ReconcilerPCs
<1>2. DispatcherInv'
  BY DispatcherFrame DEF GetObject
<1>3. ReconcilerInv'
  BY DEF GetObject, ReconcilerInv, ReconcilesUnfinished, SucceededIsPublished
<1> QED BY <1>1, <1>2, <1>3

LEMMA GetInternalJobStep ==
  ASSUME IInv, GetInternalJob
  PROVE  IInv'
<1> USE DEF IInv, dispatcher, reconciler, budgets
<1>1. UNCHANGED <<jobs, k8s, published, dispatcher, budgets>>
  BY DEF GetInternalJob
<1>2. \/ Return \/ Requeue \/ Proceed("recreate") \/ Proceed("delete")
      \/ Proceed("failed") /\ Reconcilable(jobs[rjob])
      \/ /\ Reconcilable(jobs[rjob]) /\ rpc' = "publish"
         /\ rmodel' = jobs[rjob].outputModel /\ rmodel' # NoModel
         /\ UNCHANGED <<rjob, robs, workq>>
  BY DEF GetInternalJob, ReconcileGone, ReconcileCanceled, ReconcileOther, ReconcileObject
<1>3. /\ rpc' \in ReconcilerPCs /\ rjob' \in Jobs /\ robs' \in Objects
      /\ rmodel' \in ModelIDs /\ workq' \subseteq Jobs
  BY <1>2, NoObjectType
  DEF Return, Requeue, ReconcileDone, Proceed, TypeOK, ReconcilerPCs, ModelIDs, JobRows
<1>4. TypeOK'
  BY <1>1, <1>3 DEF TypeOK
<1>5. DispatcherInv'
  BY <1>1, DispatcherFrame
<1>6. ReconcilerInv'
  <2>1. SucceededIsPublished'
    BY <1>1 DEF ReconcilerInv, SucceededIsPublished
  <2>2. ReconcilesUnfinished'
    BY <1>1, <1>2
    DEF Return, Requeue, ReconcileDone, Proceed, Reconcilable, ReconcilesUnfinished
  <2> QED BY <2>1, <2>2 DEF ReconcilerInv
<1> QED BY <1>4, <1>5, <1>6

\* The end of a reconciliation, queued again or not, with or without a fault.
LEMMA ReconcileDoneType ==
  ASSUME IInv, Return \/ Requeue, Fault \/ UNCHANGED budgets
  PROVE  /\ rpc' = "idle" /\ rpc' \in ReconcilerPCs /\ rjob' \in Jobs
         /\ robs' \in Objects /\ rmodel' \in ModelIDs /\ workq' \subseteq Jobs
         /\ faults' \in 0 .. MaxFaults /\ deletes' \in 0 .. MaxDeletes
<1>1. faults \in 0 .. MaxFaults /\ deletes \in 0 .. MaxDeletes
  BY DEF IInv, TypeOK
<1>2. faults' \in 0 .. MaxFaults /\ deletes' \in 0 .. MaxDeletes
  BY <1>1, Bounds DEF Fault, budgets
<1>3. /\ rpc' = "idle" /\ rjob' = rjob /\ robs' = NoObject /\ rmodel' = NoModel
      /\ workq' \in {workq, workq \cup {rjob}}
  BY DEF Return, Requeue, ReconcileDone
<1> QED BY <1>2, <1>3, NoObjectType DEF IInv, TypeOK, ReconcilerPCs, ModelIDs

LEMMA ReportEffect ==
  ASSUME NEW op, NEW m, Report(op, m)
  PROVE  /\ Return \/ Requeue
         /\ Fault \/ UNCHANGED budgets
         /\ Serve(rjob, Request(op, m)) \/ UNCHANGED jobs
  BY DEF Report

\* A report of the reconciler that changes the row, and is not of success.
LEMMA ReconcilerWrites ==
  ASSUME IInv, NEW s \in {"failed", "queued"},
         Written(rjob, s, jobs[rjob].outputModel, jobs[rjob].fineTuned),
         s = "queued" => jobs[rjob].state = "running",
         Return \/ Requeue, Fault \/ UNCHANGED budgets,
         UNCHANGED <<k8s, published, dispatcher>>
  PROVE  IInv'
<1> USE DEF IInv, dispatcher
<1>1. rjob \in Jobs
  BY DEF TypeOK
<1>2. TypeOK'
  BY ReconcileDoneType DEF TypeOK, Written
<1>3. DispatcherInv'
  <2> USE DEF DispatcherInv, Written
  <2>1. ListedIsQueued'
    BY <1>1, Zenon DEF ListedIsQueued
  <2>2. CreatesRowModel'
    BY <1>1, Zenon DEF CreatesRowModel, AtHand
  <2>3. SuspendedIsStopped'
    BY <1>1, Zenon DEF SuspendedIsStopped, AtHand
  <2>4. CanceledIsStopped'
    BY <1>1 DEF CanceledIsStopped
  <2>5. RunningModelIsCurrent'
    BY <1>1 DEF RunningModelIsCurrent
  <2> QED BY <2>1, <2>2, <2>3, <2>4, <2>5
<1>4. ReconcilerInv'
  BY <1>1, ReconcileDoneType, ReconcilerServe
<1> QED BY <1>2, <1>3, <1>4

LEMMA ReconcilerGivesUp ==
  ASSUME IInv, Return \/ Requeue, Fault \/ UNCHANGED budgets,
         UNCHANGED <<jobs, k8s, published, dispatcher>>
  PROVE  IInv'
<1> USE DEF IInv, dispatcher
<1>1. TypeOK'
  BY ReconcileDoneType DEF TypeOK
<1>2. DispatcherInv'
  BY DispatcherFrame
<1>3. ReconcilerInv'
  BY ReconcileDoneType, ReconcilerStops
<1> QED BY <1>1, <1>2, <1>3

LEMMA ReportFailedStep ==
  ASSUME IInv, ReportFailed
  PROVE  IInv'
<1>1. /\ Return \/ Requeue
      /\ Fault \/ UNCHANGED budgets
      /\ Serve(rjob, Request("FAILED", NoModel)) \/ UNCHANGED jobs
      /\ UNCHANGED <<k8s, published, dispatcher>>
  BY ReportEffect DEF ReportFailed
<1>2. rjob \in Jobs /\ TypeOK
  BY DEF IInv, TypeOK
<1>3. CASE Serve(rjob, Request("FAILED", NoModel))
  BY <1>1, <1>2, <1>3, ServeFailed, ReconcilerWrites
<1>4. CASE UNCHANGED jobs
  BY <1>1, <1>4, ReconcilerGivesUp
<1> QED BY <1>1, <1>3, <1>4

LEMMA ReportRecreateStep ==
  ASSUME IInv, ReportRecreate
  PROVE  IInv'
<1>1. /\ Return \/ Requeue
      /\ Fault \/ UNCHANGED budgets
      /\ Serve(rjob, Request("RECREATE", NoModel)) \/ UNCHANGED jobs
      /\ UNCHANGED <<k8s, published, dispatcher>>
  BY ReportEffect DEF ReportRecreate
<1>2. rjob \in Jobs /\ TypeOK
  BY DEF IInv, TypeOK
<1>3. CASE Serve(rjob, Request("RECREATE", NoModel))
  BY <1>1, <1>2, <1>3, ServeRecreate, ReconcilerWrites
<1>4. CASE UNCHANGED jobs
  BY <1>1, <1>4, ReconcilerGivesUp
<1> QED BY <1>1, <1>3, <1>4

LEMMA ReportFinetunedStep ==
  ASSUME IInv, ReportFinetuned
  PROVE  IInv'
<1> USE DEF IInv, dispatcher
<1>1. /\ Return \/ Requeue
      /\ Fault \/ UNCHANGED budgets
      /\ Serve(rjob, Request("FINETUNED", rmodel)) \/ UNCHANGED jobs
      /\ UNCHANGED <<k8s, published, dispatcher>>
  BY ReportEffect DEF ReportFinetuned
<1>2. rjob \in Jobs /\ rmodel \in ModelIDs
  BY DEF TypeOK
<1>3. CASE Serve(rjob, Request("FINETUNED", rmodel))
  <2>1. /\ jobs[rjob].state = "running" /\ rmodel # NoModel
        /\ Written(rjob, "succeeded", jobs[rjob].outputModel, rmodel)
    BY <1>2, <1>3, ServeFinetuned
  <2>2. TypeOK'
    BY <1>1, <2>1, ReconcileDoneType DEF TypeOK, Written
  <2>3. DispatcherInv'
    <3> USE DEF DispatcherInv, Written
    <3>1. ListedIsQueued'
      BY <1>1, <1>2, <2>1, Zenon DEF ListedIsQueued
    <3>2. CreatesRowModel'
      BY <1>1, <1>2, <2>1, Zenon DEF CreatesRowModel, AtHand
    <3>3. SuspendedIsStopped'
      BY <1>1, <1>2, <2>1, Zenon DEF SuspendedIsStopped, AtHand
    <3>4. CanceledIsStopped'
      BY <1>1, <1>2, <2>1 DEF CanceledIsStopped
    <3>5. RunningModelIsCurrent'
      BY <1>1, <1>2, <2>1 DEF RunningModelIsCurrent
    <3> QED BY <3>1, <3>2, <3>3, <3>4, <3>5
  <2>4. ReconcilesUnfinished'
    BY <1>1, ReconcileDoneType DEF ReconcilesUnfinished
  <2>5. SucceededIsPublished'
    <3>1. published[rjob] = rmodel
      BY DEF ReportFinetuned, ReconcilerInv, ReconcilesUnfinished
    <3> QED BY <1>1, <2>1, <3>1 DEF Written, ReconcilerInv, SucceededIsPublished
  <2> QED BY <2>2, <2>3, <2>4, <2>5 DEF ReconcilerInv
<1>4. CASE UNCHANGED jobs
  BY <1>1, <1>4, ReconcilerGivesUp
<1> QED BY <1>1, <1>3, <1>4

LEMMA PublishModelStep ==
  ASSUME IInv, PublishModel
  PROVE  IInv'
<1> USE DEF IInv, dispatcher, budgets
<1>1. /\ rpc = "publish" /\ rpc' = "finetuned"
      /\ published' = [published EXCEPT ![rjob] = rmodel]
      /\ UNCHANGED <<jobs, k8s, dispatcher, budgets, rjob, robs, rmodel, workq>>
  BY DEF PublishModel, Proceed
<1>2. TypeOK'
  BY <1>1 DEF TypeOK, ReconcilerPCs
<1>3. DispatcherInv'
  BY <1>1, DispatcherFrame
<1>4. ReconcilerInv'
  BY <1>1 DEF TypeOK, ReconcilerInv, ReconcilesUnfinished, SucceededIsPublished
<1> QED BY <1>2, <1>3, <1>4

LEMMA DeleteObjectStep ==
  ASSUME IInv, DeleteObject
  PROVE  IInv'
<1> USE DEF IInv, dispatcher, budgets
<1>1. /\ k8s' = [k8s EXCEPT ![rjob] = NoObject] /\ workq' = workq \cup {rjob}
      /\ rpc' = "idle" /\ robs' = NoObject /\ rmodel' = NoModel
      /\ UNCHANGED <<jobs, published, dispatcher, budgets, rjob>>
  BY DEF DeleteObject, SetObject, ReconcileDone
<1>2. rjob \in Jobs
  BY DEF TypeOK
<1>3. /\ k8s' \in [Jobs -> Objects] /\ k8s'[rjob] = NoObject
      /\ \A i \in Jobs : i # rjob => k8s'[i] = k8s[i]
  BY <1>1, <1>2, NoObjectType, ObjectSet, Zenon
<1>4. TypeOK'
  BY <1>1, <1>2, <1>3, NoObjectType DEF TypeOK, ReconcilerPCs, ModelIDs
<1>5. DispatcherInv'
  <2> USE DEF DispatcherInv, Written
  <2>1. ListedIsQueued'
    BY <1>1, <1>3, NoObjectType, Zenon DEF ListedIsQueued
  <2>2. CreatesRowModel'
    BY <1>1, <1>3, NoObjectType, Zenon DEF CreatesRowModel, AtHand
  <2>3. SuspendedIsStopped'
    BY <1>1, <1>3, NoObjectType, Zenon DEF SuspendedIsStopped, AtHand
  <2>4. CanceledIsStopped'
    BY <1>1, <1>3, NoObjectType DEF CanceledIsStopped
  <2>5. RunningModelIsCurrent'
    BY <1>1, <1>3, NoObjectType DEF RunningModelIsCurrent
  <2> QED BY <2>1, <2>2, <2>3, <2>4, <2>5
<1>6. ReconcilerInv'
  BY <1>1, ReconcilerStops
<1> QED BY <1>4, <1>5, <1>6

LEMMA FaultStep ==
  ASSUME IInv, AbortPass \/ AbortReconcile \/ Crash
  PROVE  IInv'
<1>1. faults' \in 0 .. MaxFaults /\ deletes' \in 0 .. MaxDeletes
  <2>1. faults \in 0 .. MaxFaults /\ deletes \in 0 .. MaxDeletes
    BY DEF IInv, TypeOK
  <2> QED BY <2>1, Bounds DEF AbortPass, AbortReconcile, Crash, Fault
<1>2. CASE AbortPass
  BY <1>1, <1>2, PassFailsInv DEF AbortPass, IInv, TypeOK
<1>3. CASE AbortReconcile
  BY <1>3, ReconcilerGivesUp DEF AbortReconcile
<1>4. CASE Crash
  <2>1. Exit /\ UNCHANGED <<jobs, k8s, published>>
    BY <1>4 DEF Crash
  <2>2. DispatcherInv'
    BY <2>1, DispatcherStops, Zenon DEF IInv, Exit
  <2>3. ReconcilerInv'
    BY <2>1, ReconcilerStops, Zenon DEF IInv, Exit
  <2>4. TypeOK'
    BY <1>1, <2>1, NoObjectType, Zenon
    DEF IInv, TypeOK, Exit, DispatcherPCs, ReconcilerPCs, JobActions, ModelIDs
  <2> QED BY <2>2, <2>3, <2>4 DEF IInv
<1> QED BY <1>2, <1>3, <1>4

-----------------------------------------------------------------------------

LEMMA StepIInv == IInv /\ [Next]_vars => IInv'
<1> SUFFICES ASSUME IInv, [Next]_vars PROVE IInv'
  OBVIOUS
<1>1. CASE \E j \in Jobs : \/ User(j) \/ GetObject(j)
                           \/ PodEnds(j) \/ Expire(j) \/ DeletedByOthers(j)
  BY <1>1, UserStep, GetObjectStep, KubernetesStep
<1>2. CASE Worker
  BY <1>2, ListStep, PassEndsStep, PreProcessStep, ReportInvalidStep,
     ReportPreProcessedStep, ApplyJobStep, ReportJobCreatedStep, SuspendJobStep,
     ReportCanceledStep
  DEF Worker
<1>3. CASE Reconcile
  BY <1>3, GetInternalJobStep, ReportFailedStep, PublishModelStep,
     ReportFinetunedStep, ReportRecreateStep, DeleteObjectStep
  DEF Reconcile
<1>4. CASE Restart
  BY <1>4, PassEndsStep
<1>5. CASE AbortPass \/ AbortReconcile \/ Crash
  BY <1>5, FaultStep
<1>6. CASE UNCHANGED vars
  <2>1. TypeOK'
    BY <1>6 DEF vars, dispatcher, reconciler, budgets, IInv, TypeOK
  <2> QED BY <1>6, <2>1, DispatcherFrame, ReconcilerFrame
          DEF vars, dispatcher, reconciler, IInv
<1> QED BY <1>1, <1>2, <1>3, <1>4, <1>5, <1>6 DEF Next

\* The inductive invariant holds of every reachable state.
THEOREM Invariance == Spec => []IInv
  BY InitIInv, StepIInv, PTL DEF Spec

\* Type correctness of the whole system.
THEOREM TypeCorrect == Spec => []TypeOK
  BY Invariance, PTL DEF IInv

\* A canceled job has no pods running, whatever calls fail and whenever the
\* dispatcher crashes.
THEOREM CanceledIsStoppedHolds == Spec => []CanceledIsStopped
  BY Invariance, PTL DEF IInv, DispatcherInv

\* The row of a running job names the model that its Job object uploads.
THEOREM RunningModelIsCurrentHolds == Spec => []RunningModelIsCurrent
  BY Invariance, PTL DEF IInv, DispatcherInv

\* Success is reported only of a published model.
THEOREM SucceededIsPublishedHolds == Spec => []SucceededIsPublished
  BY Invariance, PTL DEF IInv, ReconcilerInv

-----------------------------------------------------------------------------
(***************************************************************************)
(* FineTuning implements JobLifecycle.                                     *)
(***************************************************************************)

States == [j \in Jobs |-> jobs[j].state]

LEMMA WrittenStates ==
  ASSUME TypeOK, NEW j \in Jobs, NEW s, NEW om, NEW ft, Written(j, s, om, ft)
  PROVE  States' = [States EXCEPT ![j] = s] /\ States[j] = jobs[j].state
  BY Zenon DEF TypeOK, Written, States

LEMMA EndStep ==
  ASSUME TypeOK, NEW j \in Jobs, NEW s \in {"failed", "canceled"}, NEW om, NEW ft,
         Written(j, s, om, ft), jobs[j].state \notin {"absent", "succeeded"}
  PROVE  Lifecycle!Next
<1>1. States' = [States EXCEPT ![j] = s] /\ States[j] = jobs[j].state
  BY WrittenStates
<1>2. jobs[j].state \in {"queued", "running", "failed", "canceled"}
  BY DEF TypeOK, JobRows, JobStates
<1> QED BY <1>1, <1>2, Zenon DEF Lifecycle!Next, Lifecycle!End, Lifecycle!Become, States

LEMMA InitLifecycle == Init => Lifecycle!Init
<1> SUFFICES ASSUME Init PROVE Lifecycle!Init
  OBVIOUS
<1>1. \A j \in Jobs : jobs[j].state = "absent"
  BY Zenon DEF Init, NoJob
<1> QED BY <1>1 DEF Lifecycle!Init

LEMMA StepLifecycle == IInv /\ [Next]_vars => [Lifecycle!Next]_States
<1> SUFFICES ASSUME IInv, [Next]_vars PROVE Lifecycle!Next \/ UNCHANGED States
  OBVIOUS
<1> USE DEF IInv
<1>0. ASSUME UNCHANGED jobs PROVE UNCHANGED States
  BY <1>0 DEF States
<1>1. ASSUME NEW j \in Jobs, CreateJob(j) PROVE Lifecycle!Next
  <2>1. States' = [States EXCEPT ![j] = "queued"] /\ States[j] = "absent"
    BY <1>1, Zenon DEF CreateJob, NewJob, States, TypeOK
  <2> QED BY <2>1, Zenon DEF Lifecycle!Next, Lifecycle!Create, Lifecycle!Become, States
<1>2. ASSUME NEW j \in Jobs, CancelJob(j) PROVE Lifecycle!Next \/ UNCHANGED States
  <2>1. /\ jobs[j].state \in {"queued", "running"}
        /\ Written(j, "queued", jobs[j].outputModel, jobs[j].fineTuned)
    BY <1>2, ServeCancelJob DEF CancelJob
  <2>2. States' = [States EXCEPT ![j] = "queued"] /\ States[j] = jobs[j].state
    BY <2>1, WrittenStates
  <2>3. CASE jobs[j].state = "queued"
    BY <2>2, <2>3, Zenon DEF States
  <2>4. CASE jobs[j].state = "running"
    BY <2>2, <2>4, Zenon DEF Lifecycle!Next, Lifecycle!Requeue, Lifecycle!Become, States
  <2> QED BY <2>1, <2>3, <2>4
<1>3. ASSUME NEW j \in Jobs, ReportInvalid(j) PROVE Lifecycle!Next
  <2>1. Written(j, "failed", jobs[j].outputModel, jobs[j].fineTuned)
    BY <1>3, ServeFailed DEF ReportInvalid
  <2>2. jobs[j].state \in {"queued", "failed"}
    BY <1>3, Zenon DEF ReportInvalid, AtHand, DispatcherInv, ListedIsQueued
  <2> QED BY <2>1, <2>2, EndStep
<1>4. ASSUME NEW j \in Jobs, ReportPreProcessed(j) PROVE UNCHANGED States
  <2>1. CASE Serve(j, Request("PREPROCESSED", dmodel))
    <3>1. dmodel \in ModelIDs
      BY DEF TypeOK
    <3>2. /\ jobs[j].state = "queued"
          /\ Written(j, "queued", dmodel, jobs[j].fineTuned)
      BY <2>1, <3>1, ServePreProcessed
    <3> QED BY <3>2, WrittenStates, Zenon DEF States
  <2>2. CASE UNCHANGED jobs
    BY <1>0, <2>2
  <2> QED BY <1>4, <2>1, <2>2 DEF ReportPreProcessed
<1>5. ASSUME NEW j \in Jobs, ReportJobCreated(j)
      PROVE  Lifecycle!Next \/ UNCHANGED States
  <2>1. CASE Serve(j, Request("JOB_CREATED", NoModel))
    <3>1. /\ jobs[j].state = "queued"
          /\ Written(j, "running", jobs[j].outputModel, jobs[j].fineTuned)
      BY <2>1, ServeJobCreated
    <3>2. States' = [States EXCEPT ![j] = "running"] /\ States[j] = "queued"
      BY <3>1, WrittenStates
    <3> QED BY <3>2, Zenon DEF Lifecycle!Next, Lifecycle!Start, Lifecycle!Become, States
  <2>2. CASE UNCHANGED jobs
    BY <1>0, <2>2
  <2> QED BY <1>5, <2>1, <2>2 DEF ReportJobCreated
<1>6. ASSUME NEW j \in Jobs, ReportCanceled(j) PROVE Lifecycle!Next
  <2>1. Written(j, "canceled", jobs[j].outputModel, jobs[j].fineTuned)
    BY <1>6, ServeCanceled DEF ReportCanceled
  <2>2. jobs[j].state \in {"queued", "failed"}
    BY <1>6, Zenon DEF ReportCanceled, AtHand, DispatcherInv, ListedIsQueued
  <2> QED BY <2>1, <2>2, EndStep
<1>7. rjob \in Jobs /\ rmodel \in ModelIDs
  BY DEF TypeOK
<1>8. ASSUME ReportFailed PROVE Lifecycle!Next \/ UNCHANGED States
  <2>1. CASE Serve(rjob, Request("FAILED", NoModel))
    <3>1. Written(rjob, "failed", jobs[rjob].outputModel, jobs[rjob].fineTuned)
      BY <1>7, <2>1, ServeFailed
    <3>2. jobs[rjob].state \notin {"absent", "succeeded"}
      BY <1>8 DEF ReportFailed, ReconcilerInv, ReconcilesUnfinished
    <3> QED BY <1>7, <3>1, <3>2, EndStep
  <2>2. CASE UNCHANGED jobs
    BY <1>0, <2>2
  <2> QED BY <1>8, <2>1, <2>2, ReportEffect DEF ReportFailed
<1>9. ASSUME ReportFinetuned PROVE Lifecycle!Next \/ UNCHANGED States
  <2>1. CASE Serve(rjob, Request("FINETUNED", rmodel))
    <3>1. /\ jobs[rjob].state = "running"
          /\ Written(rjob, "succeeded", jobs[rjob].outputModel, rmodel)
      BY <1>7, <2>1, ServeFinetuned
    <3>2. States' = [States EXCEPT ![rjob] = "succeeded"] /\ States[rjob] = "running"
      BY <1>7, <3>1, WrittenStates
    <3> QED BY <1>7, <3>2, Zenon DEF Lifecycle!Next, Lifecycle!Succeed, Lifecycle!Become, States
  <2>2. CASE UNCHANGED jobs
    BY <1>0, <2>2
  <2> QED BY <1>9, <2>1, <2>2, ReportEffect DEF ReportFinetuned
<1>10. ASSUME ReportRecreate PROVE Lifecycle!Next \/ UNCHANGED States
  <2>1. CASE Serve(rjob, Request("RECREATE", NoModel))
    <3>1. /\ jobs[rjob].state = "running"
          /\ Written(rjob, "queued", jobs[rjob].outputModel, jobs[rjob].fineTuned)
      BY <1>7, <2>1, ServeRecreate
    <3>2. States' = [States EXCEPT ![rjob] = "queued"] /\ States[rjob] = "running"
      BY <1>7, <3>1, WrittenStates
    <3> QED BY <1>7, <3>2, Zenon DEF Lifecycle!Next, Lifecycle!Requeue, Lifecycle!Become, States
  <2>2. CASE UNCHANGED jobs
    BY <1>0, <2>2
  <2> QED BY <1>10, <2>1, <2>2, ReportEffect DEF ReportRecreate
<1>11. CASE \/ \E j \in Jobs : \/ GetObject(j) \/ PodEnds(j) \/ Expire(j)
                               \/ DeletedByOthers(j) \/ PreProcess(j)
                               \/ ApplyJob(j) \/ SuspendJob(j)
            \/ ListQueuedInternalJobs \/ PassEnds \/ Restart \/ GetInternalJob
            \/ PublishModel \/ DeleteObject \/ AbortPass \/ AbortReconcile \/ Crash
            \/ UNCHANGED vars
  <2>1. UNCHANGED jobs
    BY <1>11, Zenon
    DEF GetObject, PodEnds, Expire, DeletedByOthers, PreProcess, ApplyJob, SuspendJob,
        ListQueuedInternalJobs, PassEnds, Restart, GetInternalJob, PublishModel,
        DeleteObject, AbortPass, AbortReconcile, Crash, vars
  <2> QED BY <1>0, <2>1
<1> QED BY <1>1, <1>2, <1>3, <1>4, <1>5, <1>6, <1>8, <1>9, <1>10, <1>11
    DEF Next, User, Worker, Reconcile

\* Whatever the schedule, the failures and the crashes, users see a job move
\* through its states as JobLifecycle says; in particular a job that
\* succeeded stays so, and a job that ended is never queued or run again.
THEOREM FollowsLifecycleHolds == Spec => FollowsLifecycle
<1>1. Init => Lifecycle!Init
  BY InitLifecycle
<1>2. IInv /\ [Next]_vars => [Lifecycle!Next]_States
  BY StepLifecycle
<1> QED BY <1>1, <1>2, Invariance, PTL
    DEF Spec, FollowsLifecycle, Lifecycle!Spec, States

-----------------------------------------------------------------------------
(***************************************************************************)
(* While no call has failed, the reconciler publishes what ran.  A failed  *)
(* call may leave a Job object of an earlier attempt behind (or an event   *)
(* of one), whose model is not the row's any more; without one, a job that *)
(* waits for its Job object has neither an object nor a trace of one.      *)
(***************************************************************************)

\* The job waits for the dispatcher to create its object; a cancellation
\* that comes after it was listed does not count yet.
Fresh(j) ==
    \/ jobs[j].state = "absent"
    \/ jobs[j].state = "queued" /\ (jobs[j].action = "creating" \/ todo[j] = "creating")

Live(j) == jobs[j].state = "running" \/ (jobs[j].state # "absent" /\ Fresh(j))

\* The dispatcher has created the object and has not reported it.
Made(j) == dpc = "created" /\ AtHand(j)

\* The reconciler has the job at hand.
Holds(j) == rpc # "idle" /\ rjob = j

CreatesListed ==
    \A j \in Jobs :
        dpc \in {"preprocessed", "apply", "created"} /\ AtHand(j) => todo[j] = "creating"

NoTrace ==
    \A j \in Jobs :
        Fresh(j) /\ ~Made(j) => k8s[j].status = "none" /\ j \notin workq /\ ~Holds(j)

GoneIsGone ==
    rpc \in {"got", "recreate"} /\ robs.status = "none" /\ Live(rjob)
        => k8s[rjob].status = "none" /\ rjob \notin workq

RecreatesGone == rpc = "recreate" => robs.status = "none"

SeesRowModel ==
    rpc = "got" /\ robs.status # "none" /\ Live(rjob) => robs.model = jobs[rjob].outputModel

QInv == NoTrace /\ GoneIsGone /\ RecreatesGone /\ SeesRowModel /\ PublishesWhatRan

\* What almost every step does: no job becomes fresh, or one that has no
\* trace of an object; ...
FreshKept ==
    \A i \in Jobs : Fresh(i)' =>
        \/ Fresh(i) /\ (Made(i) => Made(i)')
        \/ k8s'[i].status = "none" /\ i \notin workq' /\ ~Holds(i)'

\* ... the job that the reconciler has at hand does not come to life, and
\* keeps its model; ...
HeldKept ==
    \A i \in Jobs : Holds(i) /\ Live(i)' =>
        Live(i) /\ jobs'[i].outputModel = jobs[i].outputModel

\* ... objects come from the dispatcher, and events from objects or the
\* reconciler; ...
ObjectsKept ==
    \A i \in Jobs :
        k8s[i].status = "none" /\ i \notin workq /\ ~(Holds(i) /\ rpc' = "idle") =>
            \/ k8s'[i].status = "none" /\ i \notin workq'
            \/ Made(i)' /\ (Holds(i) => ~Live(i)')

\* ... and the reconciler stays where it is, or goes on to something else.
ReconcilerKept ==
    \/ UNCHANGED reconciler
    \/ rpc' = "idle"
    \/ rpc # "idle" /\ rpc' \in {"failed", "finetuned", "delete"} /\ rjob' = rjob

\* Such a step keeps the invariant.
LEMMA QuietKept ==
  ASSUME TypeOK, QInv, FreshKept, HeldKept, ObjectsKept, ReconcilerKept
  PROVE  QInv'
<1>0. rjob \in Jobs
  BY DEF TypeOK
<1>1. \A i \in Jobs : Holds(i)' => Holds(i)
  BY DEF ReconcilerKept, reconciler, Holds
<1>2. rpc' \in {"got", "recreate", "publish"} =>
        /\ rpc' = rpc /\ rjob' = rjob /\ robs' = robs /\ rmodel' = rmodel
        /\ Holds(rjob) /\ Holds(rjob)' /\ rpc' # "idle"
  BY DEF ReconcilerKept, reconciler, Holds
<1>3. NoTrace'
  <2> SUFFICES ASSUME NEW i \in Jobs, Fresh(i)', ~Made(i)'
               PROVE  k8s'[i].status = "none" /\ i \notin workq' /\ ~Holds(i)'
    BY DEF NoTrace
  <2>1. CASE Fresh(i) /\ ~Made(i)
    <3>1. k8s[i].status = "none" /\ i \notin workq /\ ~Holds(i)
      BY <2>1 DEF QInv, NoTrace
    <3> QED BY <1>1, <3>1 DEF ObjectsKept
  <2> QED BY <2>1 DEF FreshKept
<1>4. GoneIsGone'
  <2> SUFFICES ASSUME rpc' \in {"got", "recreate"}, robs'.status = "none", Live(rjob)'
               PROVE  k8s'[rjob'].status = "none" /\ rjob' \notin workq'
    BY DEF GoneIsGone
  <2>1. Live(rjob)
    BY <1>0, <1>2 DEF HeldKept, Live, Fresh
  <2>2. k8s[rjob].status = "none" /\ rjob \notin workq
    BY <1>2, <2>1 DEF QInv, GoneIsGone
  <2> QED BY <1>0, <1>2, <2>2 DEF ObjectsKept, Live, Fresh
<1>5. RecreatesGone'
  BY <1>2 DEF QInv, RecreatesGone
<1>6. SeesRowModel'
  <2> SUFFICES ASSUME rpc' = "got", robs'.status # "none", Live(rjob)'
               PROVE  robs'.model = jobs'[rjob'].outputModel
    BY DEF SeesRowModel
  <2>1. Live(rjob) /\ jobs'[rjob].outputModel = jobs[rjob].outputModel
    BY <1>0, <1>2 DEF HeldKept, Live, Fresh
  <2> QED BY <1>2, <2>1 DEF QInv, SeesRowModel
<1>7. PublishesWhatRan'
  BY <1>2 DEF QInv, PublishesWhatRan
<1> QED BY <1>3, <1>4, <1>5, <1>6, <1>7 DEF QInv

\* A job at hand, or on the list, is neither absent nor running.
LEMMA ListedFacts ==
  ASSUME IInv, NEW i \in Jobs, jobs[i].state \notin {"queued", "failed"}
  PROVE  ~AtHand(i) /\ ~Made(i) /\ todo[i] # "creating"
<1>1. todo[i] = ""
  BY Zenon DEF IInv, DispatcherInv, ListedIsQueued
<1> QED BY <1>1, Zenon DEF AtHand, Made

\* Steps that leave the rows and the list alone.
LEMMA RowsFrame ==
  ASSUME UNCHANGED <<jobs, todo>>
  PROVE  \A i \in Jobs : (Fresh(i)' <=> Fresh(i)) /\ (Live(i)' <=> Live(i))
BY DEF Fresh, Live

LEMMA MadeFrame ==
  ASSUME UNCHANGED <<dpc, todo>>
  PROVE  \A i \in Jobs : Made(i)' <=> Made(i)
BY DEF Made, AtHand

\* Kubernetes.
LEMMA KubernetesQuiet ==
  ASSUME IInv, QInv, NEW j \in Jobs, PodEnds(j) \/ Expire(j) \/ DeletedByOthers(j)
  PROVE  QInv'
<1>1. /\ jobs' = jobs /\ todo' = todo /\ dpc' = dpc
      /\ UNCHANGED reconciler /\ rpc' = rpc
      /\ k8s[j].status # "none" /\ workq' \subseteq workq \cup {j}
  BY DEF PodEnds, Expire, DeletedByOthers, Event, SetObject, dispatcher, reconciler
<1>2. \A i \in Jobs : i # j => k8s'[i] = k8s[i]
  BY DEF PodEnds, Expire, DeletedByOthers, Event, SetObject, IInv, TypeOK
<1>3. FreshKept /\ HeldKept
  BY <1>1, RowsFrame, MadeFrame DEF FreshKept, HeldKept
<1>4. ObjectsKept /\ ReconcilerKept
  BY <1>1, <1>2 DEF ObjectsKept, ReconcilerKept
<1> QED BY <1>3, <1>4, QuietKept DEF IInv

\* Users.
LEMMA UserQuiet ==
  ASSUME IInv, QInv, NEW j \in Jobs, User(j)
  PROVE  QInv'
<1>1. /\ todo' = todo /\ dpc' = dpc /\ UNCHANGED reconciler /\ rpc' = rpc
      /\ k8s' = k8s /\ workq' = workq
      /\ \A i \in Jobs : i # j => jobs'[i] = jobs[i]
  BY DEF User, CreateJob, CancelJob, Serve, dispatcher, reconciler, IInv, TypeOK
<1>2. ObjectsKept /\ ReconcilerKept
  BY <1>1 DEF ObjectsKept, ReconcilerKept
<1>3. \A i \in Jobs : (Made(i)' <=> Made(i)) /\ (Holds(i)' <=> Holds(i))
  BY <1>1, MadeFrame DEF Holds, reconciler
<1>4. \A i \in Jobs : i # j => (Fresh(i)' <=> Fresh(i)) /\ (Live(i)' <=> Live(i))
  BY <1>1 DEF Fresh, Live
<1>5. CASE CreateJob(j)
  <2>1. jobs[j].state = "absent"
    BY <1>5 DEF CreateJob
  <2>2. Fresh(j) /\ ~Made(j)
    BY <2>1, ListedFacts DEF Fresh
  <2>3. ~Holds(j)
    BY <2>2 DEF QInv, NoTrace
  <2>4. FreshKept /\ HeldKept
    BY <1>1, <1>3, <1>4, <2>2, <2>3 DEF FreshKept, HeldKept
  <2> QED BY <1>2, <2>4, QuietKept DEF IInv
<1>6. CASE CancelJob(j)
  <2>1. /\ jobs[j].state \in {"queued", "running"} /\ jobs'[j].outputModel = jobs[j].outputModel
        /\ jobs'[j].state = "queued"
    BY <1>6, ServeCancelJob DEF CancelJob, Written, IInv
  <2>2. jobs'[j].action = "canceling"
    BY <1>6 DEF CancelJob, Serve, Request, JobApply, UpdateJobState, IInv, TypeOK, JobRows
  <2>3. jobs[j].state = "running" => todo[j] # "creating"
    BY ListedFacts
  <2>4. (Fresh(j)' => Fresh(j)) /\ (Live(j)' => Live(j))
    BY <1>1, <2>1, <2>2, <2>3 DEF Fresh, Live
  <2>5. FreshKept /\ HeldKept
    BY <1>1, <1>3, <1>4, <2>1, <2>4, Zenon DEF FreshKept, HeldKept
  <2> QED BY <1>2, <2>5, QuietKept DEF IInv
<1> QED BY <1>5, <1>6 DEF User

\* The worker gives up a pass.
LEMMA PassFailsQuiet ==
  ASSUME IInv, QInv, PassFails, UNCHANGED <<jobs, k8s>>,
         \A i \in Jobs : Made(i) => ~Fresh(i)
  PROVE  QInv'
<1>0. /\ todo' = [j \in Jobs |-> ""]
      /\ UNCHANGED <<reconciler, workq>> \/ (rpc' = "idle" /\ workq' = {})
  BY Zenon DEF PassFails, Exit
<1>1. (UNCHANGED reconciler /\ workq' = workq) \/ (rpc' = "idle" /\ workq' = {})
  BY <1>0, Zenon
<1>2. \A i \in Jobs : todo'[i] # "creating"
  BY <1>0, Zenon
<1>3. \A i \in Jobs : (Fresh(i)' => Fresh(i)) /\ (Live(i)' => Live(i))
  BY <1>2 DEF Fresh, Live
<1>4. FreshKept /\ HeldKept
  BY <1>3, Zenon DEF FreshKept, HeldKept
<1>5. ObjectsKept /\ ReconcilerKept
  BY <1>1 DEF ObjectsKept, ReconcilerKept
<1> QED BY <1>4, <1>5, QuietKept DEF IInv

\* The worker, and the restart of its process, where they change no object.
LEMMA ListQuiet ==
  ASSUME IInv, QInv, ListQueuedInternalJobs \/ PassEnds \/ Restart
  PROVE  QInv'
<1>1. /\ jobs' = jobs /\ k8s' = k8s /\ UNCHANGED reconciler /\ dpc # "created"
      /\ workq' = workq \/ workq' = {j \in Jobs : k8s[j].status # "none"}
  BY Zenon DEF ListQueuedInternalJobs, PassEnds, Restart
<1>2. \A i \in Jobs : todo'[i] = "creating" =>
        todo[i] = "creating" \/ (jobs[i].state = "queued" /\ jobs[i].action = "creating")
  <2>1. CASE ListQueuedInternalJobs
    BY <2>1, Zenon DEF ListQueuedInternalJobs
  <2>2. CASE PassEnds \/ Restart
    BY <2>2, Zenon DEF PassEnds, Restart
  <2> QED BY <2>1, <2>2
<1>3. \A i \in Jobs : (Fresh(i)' => Fresh(i)) /\ (Live(i)' => Live(i)) /\ ~Made(i)
  BY <1>1, <1>2 DEF Fresh, Live, Made
<1>4. FreshKept /\ HeldKept
  BY <1>1, <1>3 DEF FreshKept, HeldKept
<1>5. ObjectsKept /\ ReconcilerKept
  BY <1>1 DEF ObjectsKept, ReconcilerKept
<1> QED BY <1>4, <1>5, QuietKept DEF IInv

LEMMA PreProcessQuiet ==
  ASSUME IInv, QInv, NEW j \in Jobs, PreProcess(j)
  PROVE  QInv'
<1>1. /\ jobs' = jobs /\ k8s' = k8s /\ UNCHANGED reconciler /\ dpc # "created"
      /\ todo' = todo /\ workq' = workq
  BY DEF PreProcess
<1>2. \A i \in Jobs : ~Made(i)
  BY <1>1 DEF Made
<1>3. FreshKept /\ HeldKept
  BY <1>1, <1>2, RowsFrame DEF FreshKept, HeldKept
<1>4. ObjectsKept /\ ReconcilerKept
  BY <1>1 DEF ObjectsKept, ReconcilerKept
<1> QED BY <1>3, <1>4, QuietKept DEF IInv

\* What is left on the list when the worker is done with j.
LEMMA FinishedRest ==
  ASSUME TypeOK, NEW j \in Jobs, Finished(j)
  PROVE  \A i \in Jobs : todo'[i] = "creating" => i # j /\ todo[i] = "creating"
<1>1. todo' = [todo EXCEPT ![j] = ""]
  BY Zenon DEF Finished
<1>2. todo'[j] # "creating" /\ \A i \in Jobs : i # j => todo'[i] = todo[i]
  BY <1>1, Zenon DEF TypeOK
<1> QED BY <1>2

\* The worker reports the job at hand invalid, created or canceled.
LEMMA FinishQuiet ==
  ASSUME IInv, QInv, NEW j \in Jobs, AtHand(j), Finished(j),
         UNCHANGED <<k8s, reconciler, workq>>,
         NEW s, Written(j, s, jobs[j].outputModel, jobs[j].fineTuned),
         s \in {"failed", "canceled"} \/ (s = "running" /\ Live(j))
  PROVE  QInv'
<1>1. \A i \in Jobs : todo'[i] = "creating" => i # j /\ todo[i] = "creating"
  BY FinishedRest DEF IInv
<1>2. /\ jobs'[j].state = s /\ jobs'[j].outputModel = jobs[j].outputModel
      /\ \A i \in Jobs : i # j => jobs'[i] = jobs[i]
  BY DEF Written
<1>3. ~Fresh(j)' /\ (Live(j)' => Live(j))
  BY <1>2 DEF Fresh, Live
<1>4. \A i \in Jobs : i # j => (Fresh(i)' => Fresh(i)) /\ (Live(i)' => Live(i)) /\ ~Made(i)
  BY <1>1, <1>2, AtHandUnique DEF Fresh, Live, Made
<1>5. FreshKept /\ HeldKept
  BY <1>2, <1>3, <1>4, Zenon DEF FreshKept, HeldKept
<1>6. ObjectsKept /\ ReconcilerKept
  BY Zenon DEF ObjectsKept, ReconcilerKept
<1> QED BY <1>5, <1>6, QuietKept DEF IInv

LEMMA EndQuiet ==
  ASSUME IInv, QInv, NEW j \in Jobs, ReportInvalid(j) \/ ReportCanceled(j)
  PROVE  QInv'
<1>1. AtHand(j) /\ Finished(j) /\ UNCHANGED <<k8s, reconciler, workq>>
  BY Zenon DEF ReportInvalid, ReportCanceled
<1>2. \E s \in {"failed", "canceled"} : Written(j, s, jobs[j].outputModel, jobs[j].fineTuned)
  BY ServeFailed, ServeCanceled DEF ReportInvalid, ReportCanceled, IInv
<1> QED BY <1>1, <1>2, FinishQuiet

LEMMA ReportJobCreatedQuiet ==
  ASSUME IInv, CreatesListed, QInv, NEW j \in Jobs, ReportJobCreated(j)
  PROVE  QInv'
<1> DEFINE q == Request("JOB_CREATED", NoModel)
<1>1. /\ AtHand(j) /\ dpc = "created" /\ k8s' = k8s
      /\ \/ Serve(j, q) /\ Finished(j) /\ UNCHANGED <<reconciler, workq>>
         \/ Rejects(j, q) /\ PassFails /\ UNCHANGED jobs
  BY DEF ReportJobCreated
<1>2. CASE Serve(j, q) /\ Finished(j) /\ UNCHANGED <<reconciler, workq>>
  <2>1. /\ jobs[j].state = "queued"
        /\ Written(j, "running", jobs[j].outputModel, jobs[j].fineTuned)
    BY <1>2, ServeJobCreated DEF IInv
  <2>2. Live(j)
    BY <1>1, <2>1 DEF CreatesListed, Live, Fresh
  <2> QED BY <1>1, <1>2, <2>1, <2>2, FinishQuiet, Zenon
<1>3. CASE Rejects(j, q) /\ PassFails /\ UNCHANGED jobs
  <2>1. jobs[j].state # "queued"
    BY <1>3 DEF Rejects, Request, JobAccepts
  <2>2. jobs[j].state # "absent"
    BY <1>1, ListedFacts
  <2>3. \A i \in Jobs : Made(i) => ~Fresh(i)
    BY <1>1, <2>1, <2>2, AtHandUnique DEF Made, Fresh
  <2> QED BY <1>1, <1>3, <2>3, PassFailsQuiet
<1> QED BY <1>1, <1>2, <1>3

LEMMA ReportPreProcessedQuiet ==
  ASSUME IInv, CreatesListed, QInv, NEW j \in Jobs, ReportPreProcessed(j)
  PROVE  QInv'
<1> DEFINE q == Request("PREPROCESSED", dmodel)
<1>1. /\ AtHand(j) /\ dpc = "preprocessed" /\ k8s' = k8s
      /\ \/ Serve(j, q) /\ UNCHANGED <<todo, reconciler, workq>>
         \/ PassFails /\ UNCHANGED jobs
  BY DEF ReportPreProcessed
<1>2. \A i \in Jobs : ~Made(i)
  BY <1>1 DEF Made
<1>3. CASE Serve(j, q) /\ UNCHANGED <<todo, reconciler, workq>>
  <2>1. dmodel \in ModelIDs
    BY DEF IInv, TypeOK
  <2>2. /\ jobs[j].state = "queued" /\ Written(j, "queued", dmodel, jobs[j].fineTuned)
    BY <1>3, <2>1, ServePreProcessed DEF IInv
  <2>3. jobs'[j].action = jobs[j].action
    BY <1>3 DEF Serve, Request, JobApply, UpdateOutputModelID, IInv, TypeOK, JobRows
  <2>4. Fresh(j)
    BY <1>1, <2>2 DEF CreatesListed, Fresh
  <2>5. ~Holds(j)
    BY <1>2, <2>4 DEF QInv, NoTrace
  <2>6. \A i \in Jobs : (Fresh(i)' => Fresh(i)) /\ (i # j => (Live(i)' => Live(i)))
    BY <1>3, <2>2, <2>3, Zenon DEF Fresh, Live, Written
  <2>7. FreshKept /\ HeldKept
    BY <1>2, <2>2, <2>5, <2>6 DEF FreshKept, HeldKept, Written
  <2>8. ObjectsKept /\ ReconcilerKept
    BY <1>1, <1>3 DEF ObjectsKept, ReconcilerKept
  <2> QED BY <2>7, <2>8, QuietKept DEF IInv
<1>4. CASE PassFails /\ UNCHANGED jobs
  BY <1>1, <1>2, <1>4, PassFailsQuiet
<1> QED BY <1>1, <1>3, <1>4

\* The object of a fresh job, which the reconciler knows nothing of.
LEMMA ApplyJobQuiet ==
  ASSUME IInv, QInv, NEW j \in Jobs, ApplyJob(j)
  PROVE  QInv'
<1>1. /\ AtHand(j) /\ dpc = "apply" /\ jobs' = jobs
      /\ \/ /\ SetObject(j, [status |-> "active", model |-> dmodel]) /\ dpc' = "created"
            /\ UNCHANGED <<todo, reconciler>>
         \/ PassFails /\ UNCHANGED k8s
  BY DEF ApplyJob
<1>2. \A i \in Jobs : ~Made(i)
  BY <1>1 DEF Made
<1>3. CASE /\ SetObject(j, [status |-> "active", model |-> dmodel]) /\ dpc' = "created"
           /\ UNCHANGED <<todo, reconciler>>
  <2>1. /\ workq' = workq \cup {j} /\ \A i \in Jobs : i # j => k8s'[i] = k8s[i]
    BY <1>3 DEF SetObject, IInv, TypeOK
  <2>2. Made(j)'
    BY <1>1, <1>3, Zenon DEF Made, AtHand
  <2>3. \A i \in Jobs : (Fresh(i)' <=> Fresh(i)) /\ (Live(i)' <=> Live(i))
    BY <1>1, <1>3, RowsFrame
  <2>4. jobs[j].state # "running"
    BY <1>1, ListedFacts, Zenon
  <2>5. Holds(j) => ~Live(j)
    BY <1>2, <2>4 DEF Live, QInv, NoTrace
  <2>6. FreshKept /\ HeldKept
    BY <1>1, <1>2, <2>3, Zenon DEF FreshKept, HeldKept
  <2>7. ObjectsKept /\ ReconcilerKept
    BY <1>3, <2>1, <2>2, <2>3, <2>5, Zenon DEF ObjectsKept, ReconcilerKept
  <2> QED BY <2>6, <2>7, QuietKept DEF IInv
<1>4. CASE PassFails /\ UNCHANGED k8s
  BY <1>1, <1>2, <1>4, PassFailsQuiet
<1> QED BY <1>1, <1>3, <1>4

LEMMA SuspendJobQuiet ==
  ASSUME IInv, QInv, NEW j \in Jobs, SuspendJob(j)
  PROVE  QInv'
<1>1. /\ dpc = "work" /\ jobs' = jobs /\ todo' = todo /\ UNCHANGED reconciler
      /\ \/ /\ k8s[j].status \in {"active", "suspended"}
            /\ SetObject(j, [k8s[j] EXCEPT !.status = "suspended"])
         \/ UNCHANGED <<k8s, workq>>
  BY DEF SuspendJob
<1>2. \A i \in Jobs : ~Made(i)
  BY <1>1 DEF Made
<1>3. FreshKept /\ HeldKept
  BY <1>1, <1>2, RowsFrame DEF FreshKept, HeldKept
<1>4. \/ /\ k8s[j].status # "none" /\ workq' = workq \cup {j}
         /\ \A i \in Jobs : i # j => k8s'[i] = k8s[i]
      \/ k8s' = k8s /\ workq' = workq
  BY <1>1 DEF SetObject, IInv, TypeOK
<1>5. ObjectsKept /\ ReconcilerKept
  BY <1>1, <1>4 DEF ObjectsKept, ReconcilerKept
<1> QED BY <1>3, <1>5, QuietKept DEF IInv

\* The reconciler gets an object: a live job has the model of its row.
LEMMA GetObjectQuiet ==
  ASSUME IInv, QInv, NEW j \in Jobs, GetObject(j)
  PROVE  QInv'
<1>1. /\ j \in workq /\ workq' = workq \ {j}
      /\ rpc' = "got" /\ rjob' = j /\ robs' = k8s[j]
      /\ jobs' = jobs /\ k8s' = k8s /\ UNCHANGED dispatcher
  BY DEF GetObject
<1>2. \A i \in Jobs : /\ (Fresh(i)' <=> Fresh(i)) /\ (Live(i)' <=> Live(i))
                       /\ (Made(i)' <=> Made(i))
  BY <1>1, RowsFrame, MadeFrame DEF dispatcher
<1>3. NoTrace'
  <2> SUFFICES ASSUME NEW i \in Jobs, Fresh(i)', ~Made(i)'
               PROVE  k8s'[i].status = "none" /\ i \notin workq' /\ ~Holds(i)'
    BY DEF NoTrace
  <2>1. k8s[i].status = "none" /\ i \notin workq
    BY <1>2 DEF QInv, NoTrace
  <2> QED BY <1>1, <2>1 DEF Holds
<1>4. GoneIsGone' /\ RecreatesGone' /\ PublishesWhatRan'
  BY <1>1 DEF GoneIsGone, RecreatesGone, PublishesWhatRan
<1>5. ASSUME k8s[j].status # "none", Live(j) PROVE k8s[j].model = jobs[j].outputModel
  <2>1. CASE jobs[j].state = "running"
    BY <1>5, <2>1 DEF IInv, DispatcherInv, RunningModelIsCurrent
  <2>2. CASE Fresh(j)
    <3>1. Made(j)
      BY <1>5, <2>2 DEF QInv, NoTrace
    <3> QED BY <1>5, <3>1 DEF Made, IInv, DispatcherInv, CreatesRowModel
  <2> QED BY <1>5, <2>1, <2>2 DEF Live
<1>6. SeesRowModel'
  <2> SUFFICES ASSUME robs'.status # "none", Live(rjob)'
               PROVE  robs'.model = jobs'[rjob'].outputModel
    BY DEF SeesRowModel
  <2>1. Live(j)
    BY <1>1, <1>2 DEF Live, Fresh
  <2> QED BY <1>1, <1>5, <2>1
<1> QED BY <1>3, <1>4, <1>6 DEF QInv

\* The reconciler ends, or goes on, without a change of rows or objects.
LEMMA ReconcilerQuiet ==
  ASSUME IInv, QInv, rpc # "idle", UNCHANGED <<jobs, k8s, dispatcher>>, rjob' = rjob,
         \/ rpc' = "idle" /\ workq' \subseteq workq \cup {rjob}
         \/ rpc' \in {"failed", "finetuned", "delete"} /\ workq' = workq
  PROVE  QInv'
<1>1. FreshKept /\ HeldKept
  BY RowsFrame, MadeFrame, Zenon DEF FreshKept, HeldKept, dispatcher
<1>2. ObjectsKept /\ ReconcilerKept
  BY DEF ObjectsKept, ReconcilerKept, Holds
<1> QED BY <1>1, <1>2, QuietKept DEF IInv

LEMMA GetInternalJobQuiet ==
  ASSUME IInv, QInv, GetInternalJob
  PROVE  QInv'
<1>1. rpc = "got" /\ UNCHANGED <<jobs, k8s, dispatcher>>
  BY DEF GetInternalJob
<1>2. \/ Return \/ Requeue \/ Proceed("delete") \/ Proceed("failed")
      \/ robs.status = "none" /\ jobs[rjob].state = "running" /\ Proceed("recreate")
      \/ /\ robs.status = "succeeded" /\ Reconcilable(jobs[rjob])
         /\ rpc' = "publish" /\ rmodel' = jobs[rjob].outputModel
         /\ UNCHANGED <<rjob, robs, workq>>
  BY Zenon DEF GetInternalJob, ReconcileGone, ReconcileCanceled, ReconcileOther, ReconcileObject
<1>3. CASE Return \/ Requeue \/ Proceed("delete") \/ Proceed("failed")
  <2>1. /\ rjob' = rjob
        /\ \/ rpc' = "idle" /\ workq' \subseteq workq \cup {rjob}
           \/ rpc' \in {"failed", "finetuned", "delete"} /\ workq' = workq
    BY <1>3 DEF Return, Requeue, ReconcileDone, Proceed
  <2> QED BY <1>1, <2>1, ReconcilerQuiet
<1>4. CASE \/ robs.status = "none" /\ jobs[rjob].state = "running" /\ Proceed("recreate")
           \/ /\ robs.status = "succeeded" /\ Reconcilable(jobs[rjob])
              /\ rpc' = "publish" /\ rmodel' = jobs[rjob].outputModel
              /\ UNCHANGED <<rjob, robs, workq>>
  <2>0. rjob \in Jobs
    BY DEF IInv, TypeOK
  <2>1. /\ rjob' = rjob /\ robs' = robs /\ workq' = workq /\ rpc' \in {"recreate", "publish"}
    BY <1>4 DEF Proceed
  <2>2. \A i \in Jobs : /\ (Fresh(i)' <=> Fresh(i)) /\ (Live(i)' <=> Live(i))
                         /\ (Made(i)' <=> Made(i)) /\ (Holds(i)' <=> Holds(i))
    BY <1>1, <2>1, RowsFrame, MadeFrame DEF dispatcher, Holds
  <2>3. NoTrace'
    <3> SUFFICES ASSUME NEW i \in Jobs, Fresh(i)', ~Made(i)'
                 PROVE  k8s'[i].status = "none" /\ i \notin workq' /\ ~Holds(i)'
      BY DEF NoTrace
    <3>1. k8s[i].status = "none" /\ i \notin workq /\ ~Holds(i)
      BY <2>2 DEF QInv, NoTrace
    <3> QED BY <1>1, <2>1, <2>2, <3>1
  <2>4. rpc' = "recreate" => jobs[rjob].state = "running" /\ robs.status = "none"
    BY <1>4 DEF Proceed
  <2>5. rpc' = "recreate" => k8s[rjob].status = "none" /\ rjob \notin workq
    BY <1>1, <2>4 DEF Live, QInv, GoneIsGone
  <2>6. GoneIsGone' /\ RecreatesGone' /\ SeesRowModel'
    BY <1>1, <2>1, <2>4, <2>5 DEF GoneIsGone, RecreatesGone, SeesRowModel, Fresh
  <2>7. rpc' = "publish" =>
          /\ robs.status = "succeeded" /\ Reconcilable(jobs[rjob])
          /\ rmodel' = jobs[rjob].outputModel
    BY <1>4 DEF Proceed
  <2>8. Reconcilable(jobs[rjob]) => Live(rjob)
    BY DEF Reconcilable, Live, Fresh
  <2>9. PublishesWhatRan'
    BY <1>1, <2>1, <2>7, <2>8 DEF QInv, SeesRowModel, PublishesWhatRan
  <2> QED BY <2>3, <2>6, <2>9 DEF QInv
<1> QED BY <1>2, <1>3, <1>4, Zenon

\* A report that no call failed in.
LEMMA ReportQuietly ==
  ASSUME IInv, NEW op, NEW m, Report(op, m), faults' = 0
  PROVE  \/ Serve(rjob, Request(op, m)) /\ Return
         \/ Rejects(rjob, Request(op, m)) /\ Requeue /\ UNCHANGED jobs
<1>1. faults \in 0 .. MaxFaults
  BY DEF IInv, TypeOK
<1>2. ~Fault
  BY <1>1, Bounds DEF Fault
<1> QED BY <1>2 DEF Report

\* The job has ended.
LEMMA EndReportQuiet ==
  ASSUME IInv, QInv, rpc # "idle", UNCHANGED <<k8s, dispatcher>>, Return,
         NEW s \in {"failed", "succeeded"}, NEW ft,
         Written(rjob, s, jobs[rjob].outputModel, ft)
  PROVE  QInv'
<1>1. rpc' = "idle" /\ workq' = workq /\ todo' = todo /\ dpc' = dpc
  BY DEF Return, ReconcileDone, dispatcher
<1>2. /\ jobs'[rjob].state \in {"failed", "succeeded"}
      /\ \A i \in Jobs : i # rjob => jobs'[i] = jobs[i]
  BY DEF Written
<1>3. \A i \in Jobs : (Fresh(i)' => Fresh(i)) /\ (Live(i)' => i # rjob)
  BY <1>1, <1>2 DEF Fresh, Live
<1>4. FreshKept /\ HeldKept
  BY <1>1, <1>3, MadeFrame, Zenon DEF FreshKept, HeldKept, Holds
<1>5. ObjectsKept /\ ReconcilerKept
  BY <1>1 DEF ObjectsKept, ReconcilerKept
<1> QED BY <1>4, <1>5, QuietKept DEF IInv

LEMMA ReportFailedQuiet ==
  ASSUME IInv, QInv, ReportFailed \/ ReportFinetuned, faults' = 0
  PROVE  QInv'
<1>0. rjob \in Jobs /\ rmodel \in ModelIDs /\ TypeOK
  BY DEF IInv, TypeOK
<1>1. rpc # "idle" /\ UNCHANGED <<k8s, dispatcher>>
  BY DEF ReportFailed, ReportFinetuned
<1>2. \/ Serve(rjob, Request("FAILED", NoModel)) /\ Return
      \/ Serve(rjob, Request("FINETUNED", rmodel)) /\ Return
      \/ Requeue /\ UNCHANGED jobs
  BY ReportQuietly DEF ReportFailed, ReportFinetuned
<1>3. CASE Serve(rjob, Request("FAILED", NoModel)) /\ Return
  BY <1>0, <1>1, <1>3, ServeFailed, EndReportQuiet
<1>4. CASE Serve(rjob, Request("FINETUNED", rmodel)) /\ Return
  BY <1>0, <1>1, <1>4, ServeFinetuned, EndReportQuiet
<1>5. CASE Requeue /\ UNCHANGED jobs
  <2>1. rjob' = rjob /\ rpc' = "idle" /\ workq' \subseteq workq \cup {rjob}
    BY <1>5 DEF Requeue, ReconcileDone
  <2> QED BY <1>1, <1>5, <2>1, ReconcilerQuiet
<1> QED BY <1>2, <1>3, <1>4, <1>5

\* The job waits for a new object; there is none, and no event of one.
LEMMA ReportRecreateQuiet ==
  ASSUME IInv, QInv, ReportRecreate, faults' = 0
  PROVE  QInv'
<1>0. rjob \in Jobs /\ TypeOK
  BY DEF IInv, TypeOK
<1>1. rpc = "recreate" /\ UNCHANGED <<k8s, dispatcher>>
  BY DEF ReportRecreate
<1>2. \/ Serve(rjob, Request("RECREATE", NoModel)) /\ Return
      \/ Requeue /\ UNCHANGED jobs
  BY ReportQuietly DEF ReportRecreate
<1>3. CASE Serve(rjob, Request("RECREATE", NoModel)) /\ Return
  <2>1. /\ jobs[rjob].state = "running"
        /\ Written(rjob, "queued", jobs[rjob].outputModel, jobs[rjob].fineTuned)
    BY <1>0, <1>3, ServeRecreate
  <2>2. rpc' = "idle" /\ workq' = workq /\ todo' = todo /\ dpc' = dpc /\ k8s' = k8s
    BY <1>1, <1>3 DEF Return, ReconcileDone, dispatcher
  <2>3. k8s[rjob].status = "none" /\ rjob \notin workq
    BY <1>1, <2>1 DEF Live, QInv, GoneIsGone, RecreatesGone
  <2>4. \A i \in Jobs : i # rjob => (Fresh(i)' => Fresh(i)) /\ (Live(i)' => Live(i))
    BY <2>1, <2>2 DEF Fresh, Live, Written
  <2>5. FreshKept
    BY <2>2, <2>3, <2>4, MadeFrame DEF FreshKept, Holds
  <2>6. HeldKept
    BY <2>1 DEF HeldKept, Holds, Live, Written
  <2>7. ObjectsKept /\ ReconcilerKept
    BY <2>2 DEF ObjectsKept, ReconcilerKept
  <2> QED BY <2>5, <2>6, <2>7, QuietKept DEF IInv
<1>4. CASE Requeue /\ UNCHANGED jobs
  <2>1. rjob' = rjob /\ rpc' = "idle" /\ workq' \subseteq workq \cup {rjob}
    BY <1>4 DEF Requeue, ReconcileDone
  <2> QED BY <1>1, <1>4, <2>1, ReconcilerQuiet
<1> QED BY <1>2, <1>3, <1>4

LEMMA RestQuiet ==
  ASSUME IInv, QInv, PublishModel \/ DeleteObject
  PROVE  QInv'
<1>0. rjob \in Jobs
  BY DEF IInv, TypeOK
<1>1. CASE PublishModel
  <2>1. /\ rpc # "idle" /\ UNCHANGED <<jobs, k8s, dispatcher>> /\ rjob' = rjob
        /\ rpc' = "finetuned" /\ workq' = workq
    BY <1>1 DEF PublishModel, Proceed
  <2> QED BY <2>1, ReconcilerQuiet
<1>2. CASE DeleteObject
  <2>1. /\ rpc # "idle" /\ rpc' = "idle" /\ workq' = workq \cup {rjob}
        /\ k8s' = [k8s EXCEPT ![rjob] = NoObject]
        /\ UNCHANGED <<jobs, dispatcher>>
    BY <1>2 DEF DeleteObject, SetObject, ReconcileDone
  <2>2. \A i \in Jobs : i # rjob => k8s'[i] = k8s[i]
    BY <2>1 DEF IInv, TypeOK
  <2>3. FreshKept /\ HeldKept
    BY <2>1, RowsFrame, MadeFrame DEF FreshKept, HeldKept, dispatcher
  <2>4. ObjectsKept /\ ReconcilerKept
    BY <2>1, <2>2 DEF ObjectsKept, ReconcilerKept, Holds
  <2> QED BY <2>3, <2>4, QuietKept DEF IInv
<1> QED BY <1>1, <1>2

\* The worker creates what it has listed as to be created.
LEMMA CreatesListedStep ==
  ASSUME IInv, CreatesListed, [Next]_vars
  PROVE  CreatesListed'
<1> DEFINE at == {"preprocessed", "apply", "created"}
<1>1. ASSUME UNCHANGED todo, dpc' \in at => dpc \in at PROVE CreatesListed'
  BY <1>1, Zenon DEF CreatesListed, AtHand
<1>2. ASSUME dpc' \notin at PROVE CreatesListed'
  BY <1>2 DEF CreatesListed
<1>3. ASSUME UNCHANGED dispatcher PROVE CreatesListed'
  BY <1>1, <1>3 DEF dispatcher
<1>4. ASSUME PassFails \/ Exit PROVE CreatesListed'
  <2>1. dpc' \in {"idle", "down"}
    BY <1>4, Zenon DEF PassFails, Exit
  <2> QED BY <1>2, <2>1
<1>5. ASSUME NEW j \in Jobs, Finished(j) PROVE CreatesListed'
  BY <1>2, <1>5, Zenon DEF Finished
<1>6. ASSUME NEW j \in Jobs, PreProcess(j) PROVE CreatesListed'
  <2>1. AtHand(j) /\ todo[j] = "creating" /\ todo' = todo
    BY <1>6 DEF PreProcess
  <2> QED BY <2>1, AtHandUnique, Zenon DEF CreatesListed, AtHand
<1>7. CASE \E j \in Jobs : \/ User(j) \/ GetObject(j)
                           \/ PodEnds(j) \/ Expire(j) \/ DeletedByOthers(j)
  BY <1>3, <1>7 DEF User, CreateJob, CancelJob, GetObject, PodEnds, Expire, DeletedByOthers
<1>8. CASE Worker
  <2>1. CASE ListQueuedInternalJobs
    BY <1>2, <2>1, Zenon DEF ListQueuedInternalJobs
  <2>2. CASE PassEnds
    BY <1>2, <2>2, Zenon DEF PassEnds
  <2>3. ASSUME NEW j \in Jobs, ReportInvalid(j) \/ ReportCanceled(j) PROVE CreatesListed'
    BY <1>5, <2>3, Zenon DEF ReportInvalid, ReportCanceled
  <2>4. ASSUME NEW j \in Jobs, ReportPreProcessed(j) PROVE CreatesListed'
    BY <1>1, <1>4, <2>4 DEF ReportPreProcessed
  <2>5. ASSUME NEW j \in Jobs, ApplyJob(j) PROVE CreatesListed'
    BY <1>1, <1>4, <2>5 DEF ApplyJob
  <2>6. ASSUME NEW j \in Jobs, ReportJobCreated(j) PROVE CreatesListed'
    BY <1>4, <1>5, <2>6, Zenon DEF ReportJobCreated
  <2>7. ASSUME NEW j \in Jobs, SuspendJob(j) PROVE CreatesListed'
    <3>1. dpc' = "suspended"
      BY <2>7 DEF SuspendJob
    <3> QED BY <1>2, <3>1
  <2> QED BY <1>6, <1>8, <2>1, <2>2, <2>3, <2>4, <2>5, <2>6, <2>7, Zenon DEF Worker
<1>9. CASE Reconcile
  BY <1>3, <1>9, Zenon
  DEF Reconcile, GetInternalJob, ReportFailed, PublishModel, ReportFinetuned,
      ReportRecreate, DeleteObject
<1>10. CASE Restart
  BY <1>2, <1>10 DEF Restart
<1>11. CASE AbortPass \/ AbortReconcile \/ Crash
  BY <1>3, <1>4, <1>11, Zenon DEF AbortPass, AbortReconcile, Crash
<1>12. CASE UNCHANGED vars
  BY <1>3, <1>12 DEF vars
<1> QED BY <1>7, <1>8, <1>9, <1>10, <1>11, <1>12 DEF Next

\* No step but a failed call changes the number of failed calls.
LEMMA FaultsGrow ==
  ASSUME IInv, [Next]_vars, faults' = 0
  PROVE  faults = 0 /\ ~(AbortPass \/ AbortReconcile \/ Crash)
<1>1. faults \in 0 .. MaxFaults
  BY DEF IInv, TypeOK
<1>2. ~Fault
  BY <1>1, Bounds DEF Fault
<1>3. ~(AbortPass \/ AbortReconcile \/ Crash)
  BY <1>2, Zenon DEF AbortPass, AbortReconcile, Crash
<1>4. ASSUME UNCHANGED budgets PROVE faults = 0
  BY <1>4 DEF budgets
<1>5. CASE \E j \in Jobs : \/ User(j) \/ GetObject(j)
                           \/ PodEnds(j) \/ Expire(j) \/ DeletedByOthers(j)
  BY <1>3, <1>4, <1>5
  DEF User, CreateJob, CancelJob, GetObject, PodEnds, Expire, DeletedByOthers
<1>6. CASE Worker
  BY <1>3, <1>4, <1>6, Zenon
  DEF Worker, ListQueuedInternalJobs, PassEnds, PreProcess, ReportInvalid,
      ReportPreProcessed, ApplyJob, ReportJobCreated, SuspendJob, ReportCanceled
<1>7. CASE Reconcile
  BY <1>2, <1>3, <1>4, <1>7
  DEF Reconcile, GetInternalJob, ReportFailed, PublishModel, ReportFinetuned,
      ReportRecreate, DeleteObject, Report
<1>8. CASE Restart \/ UNCHANGED vars
  BY <1>3, <1>4, <1>8 DEF Restart, vars
<1> QED BY <1>3, <1>5, <1>6, <1>7, <1>8, Zenon DEF Next

QuietInv == CreatesListed /\ (faults = 0 => QInv)

\* While no call has failed and no process has crashed, the reconciler
\* publishes the model that the Job object it saw succeed has uploaded, for
\* any number of jobs, cancellations and deleted objects.
THEOREM PublishesWhatRanHolds == Spec => [](faults = 0 => PublishesWhatRan)
<1>1. Init => QuietInv
  <2> SUFFICES ASSUME Init PROVE QuietInv
    OBVIOUS
  <2>1. dpc = "idle" /\ rpc = "idle" /\ workq = {} /\ \A j \in Jobs : k8s[j].status = "none"
    BY NoObjectType, Zenon DEF Init
  <2> QED BY <2>1
      DEF QuietInv, QInv, CreatesListed, NoTrace, GoneIsGone, RecreatesGone, SeesRowModel,
          PublishesWhatRan, Holds
<1>2. IInv /\ QuietInv /\ [Next]_vars => QuietInv'
  <2> SUFFICES ASSUME IInv, CreatesListed, faults = 0 => QInv, [Next]_vars PROVE QuietInv'
    BY DEF QuietInv
  <2>1. CreatesListed'
    BY CreatesListedStep
  <2>2. ASSUME faults' = 0 PROVE QInv'
    <3>1. QInv /\ ~(AbortPass \/ AbortReconcile \/ Crash)
      BY <2>2, FaultsGrow
    <3>2. CASE \E j \in Jobs : \/ User(j) \/ GetObject(j)
                               \/ PodEnds(j) \/ Expire(j) \/ DeletedByOthers(j)
      BY <3>1, <3>2, UserQuiet, GetObjectQuiet, KubernetesQuiet
    <3>3. CASE Worker
      BY <3>1, <3>3, ListQuiet, PreProcessQuiet, EndQuiet, ReportPreProcessedQuiet,
         ApplyJobQuiet, ReportJobCreatedQuiet, SuspendJobQuiet
      DEF Worker
    <3>4. CASE Reconcile
      BY <2>2, <3>1, <3>4, GetInternalJobQuiet, ReportFailedQuiet, ReportRecreateQuiet,
         RestQuiet
      DEF Reconcile
    <3>5. CASE Restart
      BY <3>1, <3>5, ListQuiet
    <3>6. CASE UNCHANGED vars
      <4>1. FreshKept /\ HeldKept
        BY <3>6, RowsFrame, MadeFrame DEF vars, dispatcher, FreshKept, HeldKept
      <4>2. ObjectsKept /\ ReconcilerKept
        BY <3>6 DEF vars, ObjectsKept, ReconcilerKept
      <4> QED BY <3>1, <4>1, <4>2, QuietKept DEF IInv
    <3> QED BY <3>1, <3>2, <3>3, <3>4, <3>5, <3>6 DEF Next
  <2> QED BY <2>1, <2>2 DEF QuietInv
<1>3. QuietInv => (faults = 0 => PublishesWhatRan)
  BY DEF QuietInv, QInv
<1> QED BY <1>1, <1>2, <1>3, Invariance, PTL DEF Spec

=============================================================================
