-------------------------- MODULE BatchJobsProofs --------------------------
(***************************************************************************)
(* A batch job that ended is stopped and does not run again, for any       *)
(* number of jobs, requests, failed calls and crashes.                     *)
(***************************************************************************)
EXTENDS BatchJobs, TLAPS

\* Only a queued row has an action.
ActionsOK == \A j \in Jobs : batch[j].state # "queued" => batch[j].action = ""

\* What the worker is about to do and to report: it creates the Job object of
\* a job that is still queued or has failed meanwhile, and what it is about
\* to report is true and stays true, since the worker alone starts pods.
TodoOK ==
    \A j \in Jobs :
        /\ todo[j] = "creating" => batch[j].state \in {"queued", "failed"}
        /\ todo[j] = "CANCELED" => k8s[j] # "active"
        /\ todo[j] = "DELETED" => k8s[j] = "none"

IInv == TypeOK /\ ActionsOK /\ TodoOK /\ EndedIsStopped

-----------------------------------------------------------------------------
\* What the handlers write.
LEMMA ApplyCases ==
    ASSUME NEW q \in BatchRequests, NEW b \in BatchRows
    PROVE  \/ q = "CancelBatchJob" /\ BatchApply(q, b) = SetBatchJobQueuedAction("canceling")
           \/ q = "DeleteBatchJob" /\ BatchApply(q, b) = SetBatchJobQueuedAction("deleting")
           \/ /\ q \in BatchReports
              /\ BatchApply(q, b) = SetBatchJobState(convertBatchJobState[q])
<1>1. CASE q = "CancelBatchJob"
  <2>1. BatchApply(q, b) = SetBatchJobQueuedAction("canceling")
    BY <1>1 DEF BatchApply, BatchReports
  <2>2. QED
    BY <1>1, <2>1
<1>2. CASE q = "DeleteBatchJob"
  <2>1. BatchApply(q, b) = SetBatchJobQueuedAction("deleting")
    BY <1>2 DEF BatchApply, BatchReports
  <2>2. QED
    BY <1>2, <2>1
<1>3. CASE q \in BatchReports
  <2>1. BatchApply(q, b) = SetBatchJobState(convertBatchJobState[q])
    BY <1>3 DEF BatchApply, BatchReports
  <2>2. QED
    BY <1>3, <2>1
<1>4. QED
  BY <1>1, <1>2, <1>3 DEF BatchRequests

\* What a request makes of a row: who cancels and who deletes, and that a row
\* which is queued or failed stays so unless the worker reports.
LEMMA ApplyFacts ==
    ASSUME NEW q \in BatchRequests, NEW b \in BatchRows, BatchAccepts(q, b),
           b.state # "queued" => b.action = ""
    PROVE  /\ BatchApply(q, b) \in BatchRows
           /\ BatchApply(q, b).state # "queued" => BatchApply(q, b).action = ""
           /\ BatchApply(q, b).state = "canceled" => q = "CANCELED"
           /\ BatchApply(q, b).state = "deleted" => q = "DELETED"
           /\ q \notin {"RUNNING", "CANCELED", "DELETED"} /\ b.state \in {"queued", "failed"}
                => BatchApply(q, b).state \in {"queued", "failed"}
<1>1. \A a \in BatchActions : /\ SetBatchJobQueuedAction(a) \in BatchRows
                               /\ SetBatchJobQueuedAction(a).state = "queued"
  BY DEF SetBatchJobQueuedAction, BatchRows, BatchStates
<1>2. \A s \in BatchStates : /\ SetBatchJobState(s) \in BatchRows
                             /\ SetBatchJobState(s).state = s
                             /\ SetBatchJobState(s).action = ""
  BY DEF SetBatchJobState, BatchRows, BatchActions
<1>3. CASE q = "CancelBatchJob"
  <2>1. BatchApply(q, b) = SetBatchJobQueuedAction("canceling")
    BY <1>3, ApplyCases DEF BatchReports
  <2>2. BatchApply(q, b) \in BatchRows /\ BatchApply(q, b).state = "queued"
    BY <1>1, <2>1 DEF BatchActions
  <2>3. QED
    BY <2>2
<1>4. CASE q = "DeleteBatchJob"
  <2>1. BatchApply(q, b) = SetBatchJobQueuedAction("deleting")
    BY <1>4, ApplyCases DEF BatchReports
  <2>2. BatchApply(q, b) \in BatchRows /\ BatchApply(q, b).state = "queued"
    BY <1>1, <2>1 DEF BatchActions
  <2>3. QED
    BY <2>2
<1>5. CASE q \in BatchReports
  <2>1. BatchApply(q, b) = SetBatchJobState(convertBatchJobState[q])
    BY <1>5, ApplyCases DEF BatchReports
  <2>2. /\ convertBatchJobState["RUNNING"] = "running"
        /\ convertBatchJobState["SUCCEEDED"] = "succeeded"
        /\ convertBatchJobState["CANCELED"] = "canceled"
        /\ convertBatchJobState["DELETED"] = "deleted"
        /\ convertBatchJobState["FAILED"] = "failed"
    BY DEF convertBatchJobState
  <2>3. convertBatchJobState[q] \in BatchStates
    BY <1>5, <2>2 DEF BatchReports, BatchStates
  <2>4. q = "SUCCEEDED" => b.state = "running"
    BY DEF BatchAccepts, CanSucceed
  <2>5. /\ BatchApply(q, b) \in BatchRows
        /\ BatchApply(q, b).state = convertBatchJobState[q]
        /\ BatchApply(q, b).action = ""
    BY <1>2, <2>1, <2>3
  <2>6. QED
    BY <1>5, <2>2, <2>4, <2>5 DEF BatchReports
<1>6. QED
  BY <1>3, <1>4, <1>5 DEF BatchRequests

\* A request that is served keeps the invariant, provided that it tells the
\* truth and is not about a job that is about to be created.
LEMMA ServeFacts ==
    ASSUME IInv, NEW j \in Jobs, NEW q \in BatchRequests,
           Serve(j, q) \/ (BatchIgnores(q, batch[j]) /\ UNCHANGED batch),
           q = "CANCELED" => k8s[j] # "active",
           q = "DELETED" => k8s[j] = "none"
    PROVE  /\ batch' \in [Jobs -> BatchRows]
           /\ \A i \in Jobs : batch'[i].state # "queued" => batch'[i].action = ""
           /\ \A i \in Jobs : batch'[i].state = "canceled" => k8s[i] # "active"
           /\ \A i \in Jobs : batch'[i].state = "deleted" => k8s[i] = "none"
           /\ q \notin {"RUNNING", "CANCELED", "DELETED"} =>
                \A i \in Jobs : batch[i].state \in {"queued", "failed"}
                                  => batch'[i].state \in {"queued", "failed"}
           /\ \A i \in Jobs : i # j => batch'[i] = batch[i]
<1> USE DEF IInv
<1>1. CASE UNCHANGED batch
  BY <1>1 DEF TypeOK, ActionsOK, EndedIsStopped
<1>2. CASE Serve(j, q)
  <2>1. /\ batch[j] \in BatchRows /\ BatchAccepts(q, batch[j])
        /\ batch[j].state # "queued" => batch[j].action = ""
        /\ batch' = [batch EXCEPT ![j] = BatchApply(q, batch[j])]
        /\ batch \in [Jobs -> BatchRows]
    BY <1>2 DEF Serve, TypeOK, ActionsOK
  <2> DEFINE r == BatchApply(q, batch[j])
  <2>2. /\ r \in BatchRows /\ (r.state # "queued" => r.action = "")
        /\ r.state = "canceled" => q = "CANCELED"
        /\ r.state = "deleted" => q = "DELETED"
        /\ q \notin {"RUNNING", "CANCELED", "DELETED"} /\ batch[j].state \in {"queued", "failed"}
             => r.state \in {"queued", "failed"}
    BY <2>1, ApplyFacts
  <2> HIDE DEF r
  <2>3. batch' \in [Jobs -> BatchRows] /\ batch'[j] = r /\ \A i \in Jobs : i # j => batch'[i] = batch[i]
    BY <2>1, <2>2 DEF r
  <2>4. QED
    BY <2>2, <2>3 DEF ActionsOK, EndedIsStopped
<1>3. QED
  BY <1>1, <1>2

\* The initial state.
LEMMA InitIInv == Init => IInv
<1> SUFFICES ASSUME Init PROVE IInv
  OBVIOUS
<1>1. TypeOK
  <2>1. batch \in [Jobs -> BatchRows] /\ k8s \in [Jobs -> Objects] /\ scripts \in [Jobs -> Scripts]
    BY DEF Init, BatchRows, NoBatch, BatchActions, Objects, Scripts
  <2>2. /\ todo \in [Jobs -> BatchActions \cup {"owning"} \cup BatchReports]
        /\ seen \in Reconciled /\ workq \subseteq Jobs
    BY DEF Init, BatchActions, Nothing, Reconciled
  <2>3. ops \in 0 .. MaxOps /\ faults \in 0 .. MaxFaults
    BY BatchJobsAssumption DEF Init
  <2>4. QED
    BY <2>1, <2>2, <2>3 DEF TypeOK
<1>2. ActionsOK /\ TodoOK /\ EndedIsStopped
  BY DEF Init, ActionsOK, TodoOK, EndedIsStopped, NoBatch, Nothing
<1>3. QED
  BY <1>1, <1>2 DEF IInv

\* The server.
LEMMA ServerIInv ==
    ASSUME IInv, NEW j \in Jobs, CreateScripts(j) \/ InsertBatchJob(j) \/ UserRequest(j)
    PROVE  IInv'
<1> USE DEF IInv
<1>1. CASE CreateScripts(j)
  <2>1. TypeOK'
    BY <1>1 DEF CreateScripts, TypeOK, Scripts, budgets
  <2>2. QED
    BY <1>1, <2>1 DEF CreateScripts, ActionsOK, TodoOK, EndedIsStopped
<1>2. CASE InsertBatchJob(j)
  <2>1. TypeOK'
    BY <1>2 DEF InsertBatchJob, TypeOK, cluster, budgets, NewBatch, BatchRows, BatchStates, BatchActions
  <2>2. QED
    BY <1>2, <2>1 DEF InsertBatchJob, ActionsOK, TodoOK, EndedIsStopped, TypeOK, NewBatch, cluster
<1>3. CASE UserRequest(j)
  <2>1. PICK q \in {"CancelBatchJob", "DeleteBatchJob"} : Serve(j, q)
    BY <1>3 DEF UserRequest
  <2>2. q \in BatchRequests
    BY DEF BatchRequests
  <2>3. ops' \in 0 .. MaxOps /\ UNCHANGED <<k8s, scripts, todo, seen, workq, faults>>
    BY <1>3, BatchJobsAssumption DEF UserRequest, cluster, TypeOK
  <2>4. TypeOK' /\ ActionsOK' /\ EndedIsStopped'
    BY <2>1, <2>2, <2>3, ServeFacts DEF TypeOK, ActionsOK, EndedIsStopped
  <2>5. TodoOK'
    BY <2>1, <2>2, <2>3, ServeFacts DEF TodoOK
  <2>6. QED
    BY <2>4, <2>5
<1>4. QED
  BY <1>1, <1>2, <1>3

-----------------------------------------------------------------------------
\* What changes of a Job object and its Secret and ConfigMap are well typed.
LEMMA SetObjectTypes ==
    ASSUME TypeOK, NEW j \in Jobs, NEW o \in Objects, SetObject(j, o)
    PROVE  /\ k8s' \in [Jobs -> Objects] /\ scripts' \in [Jobs -> Scripts] /\ workq' \subseteq Jobs
           /\ k8s'[j] = o /\ \A i \in Jobs : i # j => k8s'[i] = k8s[i]
BY DEF TypeOK, SetObject, Scripts

\* A pass of the worker that fails leaves nothing to do.
LEMMA PassFailsIInv ==
    ASSUME IInv, PassFails, UNCHANGED <<batch, k8s, scripts, ops>>, faults' \in 0 .. MaxFaults
    PROVE  IInv'
<1>1. todo' \in [Jobs -> BatchActions \cup {"owning"} \cup BatchReports] /\ \A j \in Jobs : todo'[j] = ""
  BY DEF PassFails, Nothing, BatchActions
<1>2. seen' \in Reconciled /\ workq' \subseteq Jobs
  BY DEF PassFails, IInv, TypeOK, Reconciled
<1>3. QED
  BY <1>1, <1>2 DEF IInv, TypeOK, ActionsOK, TodoOK, EndedIsStopped

\* The worker lists the queued jobs.
LEMMA ListIInv == IInv /\ ListQueuedInternalBatchJobs => IInv'
<1> SUFFICES ASSUME IInv, ListQueuedInternalBatchJobs PROVE IInv'
  OBVIOUS
<1> USE DEF IInv
<1>1. \A j \in Jobs : batch[j].action \in BatchActions
  BY DEF TypeOK, BatchRows
<1>2. /\ todo' \in [Jobs -> BatchActions \cup {"owning"} \cup BatchReports]
      /\ \A j \in Jobs : todo'[j] \in BatchActions
      /\ \A j \in Jobs : todo'[j] = "creating" => batch[j].state = "queued"
  BY <1>1 DEF ListQueuedInternalBatchJobs, BatchActions
<1>3. TypeOK'
  BY <1>2 DEF ListQueuedInternalBatchJobs, TypeOK, budgets
<1>4. TodoOK'
  BY <1>2 DEF ListQueuedInternalBatchJobs, TodoOK, BatchActions
<1>5. ActionsOK' /\ EndedIsStopped'
  BY DEF ListQueuedInternalBatchJobs, ActionsOK, EndedIsStopped
<1>6. QED
  BY <1>3, <1>4, <1>5

\* The worker's calls to the API server.
LEMMA WorkerCallsIInv ==
    ASSUME IInv, NEW j \in Jobs,
           ApplyJob(j) \/ OwnScripts(j) \/ CancelObject(j) \/ DeleteObject(j)
    PROVE  IInv'
<1> USE DEF IInv
<1>1. CASE ApplyJob(j)
  <2>1. todo[j] = "creating" /\ batch[j].state \in {"queued", "failed"}
    BY <1>1 DEF ApplyJob, TakesUp, TodoOK
  <2>2. CASE PassFails /\ UNCHANGED <<batch, k8s, scripts, budgets>>
    BY <2>2, PassFailsIInv DEF budgets, TypeOK
  <2>3. CASE /\ SetObject(j, "active") \/ UNCHANGED <<k8s, scripts, workq>>
             /\ Goes(j, "owning")
    <3>1. /\ k8s' \in [Jobs -> Objects] /\ scripts' \in [Jobs -> Scripts] /\ workq' \subseteq Jobs
          /\ \A i \in Jobs : i # j => k8s'[i] = k8s[i]
      BY <2>3, SetObjectTypes DEF TypeOK, Objects
    <3>2. TypeOK'
      BY <2>3, <3>1 DEF Goes, TypeOK, budgets
    <3>3. TodoOK'
      BY <2>3, <3>1 DEF Goes, TodoOK, TypeOK
    <3>4. ActionsOK' /\ EndedIsStopped'
      BY <2>1, <2>3, <3>1 DEF Goes, ActionsOK, EndedIsStopped
    <3>5. QED
      BY <3>2, <3>3, <3>4
  <2>4. QED
    BY <1>1, <2>2, <2>3 DEF ApplyJob
<1>2. CASE OwnScripts(j)
  <2>1. scripts' \in [Jobs -> Scripts]
    BY <1>2 DEF OwnScripts, TypeOK, Scripts
  <2>2. TypeOK'
    BY <1>2, <2>1 DEF OwnScripts, Goes, TypeOK, budgets, BatchReports
  <2>3. QED
    BY <1>2, <2>2 DEF OwnScripts, Goes, TypeOK, ActionsOK, TodoOK, EndedIsStopped
<1>3. CASE CancelObject(j)
  <2>1. /\ k8s' \in [Jobs -> Objects] /\ scripts' \in [Jobs -> Scripts] /\ workq' \subseteq Jobs
        /\ \A i \in Jobs : i # j => k8s'[i] = k8s[i]
        /\ k8s'[j] # "active" /\ (k8s[j] = "none" => k8s'[j] = "none")
    BY <1>3, SetObjectTypes DEF CancelObject, TypeOK, Objects
  <2>2. TypeOK'
    BY <1>3, <2>1 DEF CancelObject, Goes, TypeOK, budgets, BatchReports
  <2>3. QED
    BY <1>3, <2>1, <2>2 DEF CancelObject, Goes, TypeOK, ActionsOK, TodoOK, EndedIsStopped
<1>4. CASE DeleteObject(j)
  <2>1. /\ k8s' \in [Jobs -> Objects] /\ scripts' \in [Jobs -> Scripts] /\ workq' \subseteq Jobs
        /\ k8s'[j] = "none" /\ \A i \in Jobs : i # j => k8s'[i] = k8s[i]
    BY <1>4, SetObjectTypes DEF DeleteObject, TypeOK, Objects
  <2>2. TypeOK'
    BY <1>4, <2>1 DEF DeleteObject, Goes, TypeOK, budgets, BatchReports
  <2>3. QED
    BY <1>4, <2>1, <2>2 DEF DeleteObject, Goes, TypeOK, ActionsOK, TodoOK, EndedIsStopped
<1>5. QED
  BY <1>1, <1>2, <1>3, <1>4

\* The worker reports what it did.
LEMMA ReportActionIInv ==
    ASSUME IInv, NEW j \in Jobs, ReportAction(j)
    PROVE  IInv'
<1> USE DEF IInv
<1>1. CASE PassFails /\ UNCHANGED batch
  BY <1>1, PassFailsIInv DEF ReportAction, budgets, TypeOK
<1>2. CASE /\ Records(j, todo[j]) /\ todo' = [todo EXCEPT ![j] = ""]
           /\ UNCHANGED <<seen, workq>>
  <2>1. /\ todo[j] \in BatchRequests
        /\ todo[j] = "CANCELED" => k8s[j] # "active"
        /\ todo[j] = "DELETED" => k8s[j] = "none"
    BY DEF ReportAction, BatchRequests, TodoOK
  <2>2. Serve(j, todo[j]) \/ (BatchIgnores(todo[j], batch[j]) /\ UNCHANGED batch)
    BY <1>2 DEF Records
  <2>3. /\ batch' \in [Jobs -> BatchRows]
        /\ \A i \in Jobs : batch'[i].state # "queued" => batch'[i].action = ""
        /\ \A i \in Jobs : batch'[i].state = "canceled" => k8s[i] # "active"
        /\ \A i \in Jobs : batch'[i].state = "deleted" => k8s[i] = "none"
        /\ \A i \in Jobs : i # j => batch'[i] = batch[i]
    BY <2>1, <2>2, ServeFacts
  <2>4. UNCHANGED <<k8s, scripts, ops, faults>>
    BY DEF ReportAction, budgets
  <2>5. /\ todo' \in [Jobs -> BatchActions \cup {"owning"} \cup BatchReports]
        /\ todo'[j] = "" /\ \A i \in Jobs : i # j => todo'[i] = todo[i]
    BY <1>2 DEF TypeOK, BatchActions
  <2>6. TypeOK'
    BY <1>2, <2>3, <2>4, <2>5 DEF TypeOK
  <2>7. TodoOK'
    BY <2>3, <2>4, <2>5 DEF TodoOK
  <2>8. ActionsOK' /\ EndedIsStopped'
    BY <2>3, <2>4 DEF ActionsOK, EndedIsStopped
  <2>9. QED
    BY <2>6, <2>7, <2>8
<1>3. QED
  BY <1>1, <1>2 DEF ReportAction

-----------------------------------------------------------------------------
\* The reconciler has a job in hand, and reports ends alone.
LEMMA SeenFacts ==
    ASSUME TypeOK, seen # NothingSeen
    PROVE  /\ seen.job \in Jobs
           /\ seen.step \in BatchReports => seen.step \in {"FAILED", "SUCCEEDED"}
BY DEF TypeOK, Reconciled, BatchReports

\* Nothing the reconciler does without a report concerns the invariant.
LEMMA ReconcilerMoves ==
    ASSUME IInv, UNCHANGED <<batch, k8s, scripts, todo, ops>>,
           seen' \in Reconciled, workq' \subseteq Jobs, faults' \in 0 .. MaxFaults
    PROVE  IInv'
BY DEF IInv, TypeOK, ActionsOK, TodoOK, EndedIsStopped

\* The reconciler.
LEMMA ReconcilerIInv ==
    ASSUME IInv, (\E j \in Jobs : GetObject(j)) \/ Reconcile
    PROVE  IInv'
<1> USE DEF IInv
<1>1. ASSUME NEW j \in Jobs, GetObject(j) PROVE IInv'
  <2>1. seen' \in Reconciled
    <3>1. k8s[j] \in Objects
      BY DEF TypeOK
    <3>2. QED
      BY <1>1, <3>1 DEF GetObject, Reconciled
  <2>2. QED
    BY <1>1, <2>1, ReconcilerMoves DEF GetObject, budgets, TypeOK
<1>2. CASE GetInternalBatchJob
  <2>1. seen.job \in Jobs
    BY <1>2, SeenFacts DEF GetInternalBatchJob, NothingSeen
  <2>2. Return \/ Requeue \/ Proceed("delete") \/ Proceed("FAILED") \/ Proceed("SUCCEEDED")
    BY <1>2 DEF GetInternalBatchJob
  <2>3. seen' \in Reconciled /\ workq' \subseteq Jobs
    BY <2>1, <2>2 DEF Return, Requeue, Proceed, Reconciled, TypeOK
  <2>4. QED
    BY <1>2, <2>3, ReconcilerMoves DEF GetInternalBatchJob, budgets, TypeOK
<1>3. CASE ReportObject
  <2>1. seen.job \in Jobs /\ seen.step \in {"FAILED", "SUCCEEDED"}
    BY <1>3, SeenFacts DEF ReportObject, NothingSeen, BatchReports
  <2>2. /\ seen' \in Reconciled /\ workq' \subseteq Jobs
        /\ UNCHANGED <<k8s, scripts, todo, ops>> /\ faults' \in 0 .. MaxFaults
    <3>1. faults' \in 0 .. MaxFaults /\ UNCHANGED <<k8s, scripts, todo, ops>>
      BY <1>3, BatchJobsAssumption DEF ReportObject, budgets, Fault, TypeOK
    <3>2. Return \/ Requeue
      BY <1>3 DEF ReportObject
    <3>3. QED
      BY <2>1, <3>1, <3>2 DEF Return, Requeue, Reconciled, TypeOK
  <2>3. CASE UNCHANGED batch
    BY <2>2, <2>3, ReconcilerMoves
  <2>4. CASE Records(seen.job, seen.step)
    <3>1. seen.step \in BatchRequests
      BY <2>1 DEF BatchRequests, BatchReports
    <3>2. /\ Serve(seen.job, seen.step)
             \/ (BatchIgnores(seen.step, batch[seen.job]) /\ UNCHANGED batch)
          /\ seen.step # "CANCELED" /\ seen.step # "DELETED" /\ seen.step # "RUNNING"
      BY <2>1, <2>4 DEF Records
    <3>3. /\ batch' \in [Jobs -> BatchRows]
          /\ \A i \in Jobs : batch'[i].state # "queued" => batch'[i].action = ""
          /\ \A i \in Jobs : batch'[i].state = "canceled" => k8s[i] # "active"
          /\ \A i \in Jobs : batch'[i].state = "deleted" => k8s[i] = "none"
          /\ \A i \in Jobs : batch[i].state \in {"queued", "failed"}
                              => batch'[i].state \in {"queued", "failed"}
      BY <2>1, <3>1, <3>2, ServeFacts
    <3>4. TypeOK'
      BY <2>2, <3>3 DEF TypeOK
    <3>5. ActionsOK' /\ TodoOK' /\ EndedIsStopped'
      BY <2>2, <3>3 DEF ActionsOK, TodoOK, EndedIsStopped
    <3>6. QED
      BY <3>4, <3>5
  <2>5. QED
    BY <1>3, <2>3, <2>4 DEF ReportObject
<1>4. CASE DeleteCanceled
  <2>1. seen.job \in Jobs
    BY <1>4, SeenFacts DEF DeleteCanceled, NothingSeen
  <2>2. /\ k8s' \in [Jobs -> Objects] /\ scripts' \in [Jobs -> Scripts] /\ workq' \subseteq Jobs
        /\ \A i \in Jobs : k8s'[i] \in {k8s[i], "none"}
    BY <1>4, <2>1, SetObjectTypes DEF DeleteCanceled, Objects
  <2>3. TypeOK'
    BY <1>4, <2>2 DEF DeleteCanceled, TypeOK, Reconciled, budgets
  <2>4. QED
    BY <1>4, <2>2, <2>3 DEF DeleteCanceled, ActionsOK, TodoOK, EndedIsStopped
<1>5. QED
  BY <1>1, <1>2, <1>3, <1>4 DEF Reconcile

\* Pods end and finished Job objects expire.
LEMMA KubernetesIInv ==
    ASSUME IInv, NEW j \in Jobs, PodsEnd(j) \/ Expire(j)
    PROVE  IInv'
<1> USE DEF IInv
<1>1. PICK o \in Objects : SetObject(j, o) /\ o # "active" /\ (k8s[j] = "none" => o = "none")
  BY DEF PodsEnd, Expire, Objects
<1>2. UNCHANGED <<batch, todo, seen, ops, faults>>
  BY DEF PodsEnd, Expire, budgets
<1>3. /\ k8s' \in [Jobs -> Objects] /\ scripts' \in [Jobs -> Scripts] /\ workq' \subseteq Jobs
      /\ k8s'[j] = o /\ \A i \in Jobs : i # j => k8s'[i] = k8s[i]
  BY <1>1, SetObjectTypes
<1>4. TypeOK'
  BY <1>2, <1>3 DEF TypeOK
<1>5. ActionsOK' /\ TodoOK' /\ EndedIsStopped'
  BY <1>1, <1>2, <1>3 DEF ActionsOK, TodoOK, EndedIsStopped
<1>6. QED
  BY <1>4, <1>5

\* Calls that fail and processes that crash.
LEMMA FaultsIInv ==
    ASSUME IInv, AbortPass \/ AbortReconcile
    PROVE  IInv'
<1>1. faults' \in 0 .. MaxFaults /\ UNCHANGED <<batch, k8s, scripts, ops>>
  BY BatchJobsAssumption DEF AbortPass, AbortReconcile, Fault, IInv, TypeOK
<1>2. CASE AbortPass
  BY <1>1, <1>2, PassFailsIInv DEF AbortPass
<1>3. CASE AbortReconcile
  <2>1. seen.job \in Jobs
    BY <1>3, SeenFacts DEF AbortReconcile, IInv
  <2>2. seen' \in Reconciled /\ workq' \subseteq Jobs /\ UNCHANGED todo
    BY <1>3, <2>1 DEF AbortReconcile, Requeue, Reconciled, IInv, TypeOK
  <2>3. QED
    BY <1>1, <2>2, ReconcilerMoves
<1>4. QED
  BY <1>2, <1>3

-----------------------------------------------------------------------------
\* The invariant of the batch jobs, from server to pods: with the types, what
\* the worker is about to do and what it is about to report.
THEOREM BatchJobsInvariance == Spec => []IInv
<1>1. IInv /\ [Next]_vars => IInv'
  <2> SUFFICES ASSUME IInv, [Next]_vars PROVE IInv'
    OBVIOUS
  <2>1. CASE UNCHANGED vars
    BY <2>1 DEF vars, IInv, TypeOK, ActionsOK, TodoOK, EndedIsStopped
  <2>2. CASE \E j \in Jobs : CreateScripts(j) \/ InsertBatchJob(j) \/ UserRequest(j)
    BY <2>2, ServerIInv
  <2>3. CASE (\E j \in Jobs : GetObject(j)) \/ Reconcile
    BY <2>3, ReconcilerIInv
  <2>4. CASE \E j \in Jobs : PodsEnd(j) \/ Expire(j)
    BY <2>4, KubernetesIInv
  <2>5. CASE Worker
    BY <2>5, ListIInv, WorkerCallsIInv, ReportActionIInv DEF Worker
  <2>6. CASE AbortPass \/ AbortReconcile
    BY <2>6, FaultsIInv
  <2>7. QED
    BY <2>1, <2>2, <2>3, <2>4, <2>5, <2>6 DEF Next
<1>2. QED
  BY <1>1, InitIInv, PTL DEF Spec

\* The types: among them, that the reconciler never holds a Job object that
\* was already gone when it looked (GetObject).
THEOREM BatchJobsTypes == Spec => []TypeOK
<1>1. IInv => TypeOK
  BY DEF IInv
<1>2. QED
  BY <1>1, BatchJobsInvariance, PTL

\* A job reported CANCELED has no pods running and one reported DELETED no
\* Job object, although UpdateBatchJobState takes reports of an action that
\* is no longer the one asked for (processBatchJobs).
THEOREM EndedIsStoppedHolds == Spec => []EndedIsStopped
<1>1. IInv => EndedIsStopped
  BY DEF IInv
<1>2. QED
  BY <1>1, BatchJobsInvariance, PTL

\* Pods are started for a job that is queued, or has failed since the worker
\* listed it, and never for one that runs or has ended otherwise
\* (processBatchJobs acts on a list read earlier).
THEOREM NeverRunsAgainHolds == Spec => NeverRunsAgain
<1> DEFINE Starts == \A j \in Jobs : k8s[j] # "active" /\ k8s'[j] = "active"
                                       => batch[j].state \in {"queued", "failed"}
<1>1. IInv /\ [Next]_vars => [Starts]_vars
  <2> SUFFICES ASSUME IInv, Next PROVE Starts
    OBVIOUS
  <2> SUFFICES ASSUME NEW i \in Jobs, k8s[i] # "active", k8s'[i] = "active"
               PROVE  batch[i].state \in {"queued", "failed"}
    OBVIOUS
  <2>1. k8s \in [Jobs -> Objects] /\ (todo[i] = "creating" => batch[i].state \in {"queued", "failed"})
    BY DEF IInv, TypeOK, TodoOK
  <2>2. ASSUME NEW j \in Jobs, ApplyJob(j) PROVE batch[i].state \in {"queued", "failed"}
    <3>1. todo[j] = "creating" /\ (UNCHANGED k8s \/ k8s' = [k8s EXCEPT ![j] = "active"])
      BY <2>2 DEF ApplyJob, TakesUp, SetObject
    <3>2. QED
      BY <2>1, <3>1
  <2>3. ASSUME NEW j \in Jobs, NEW o \in Objects, SetObject(j, o), o # "active" PROVE FALSE
    BY <2>1, <2>3 DEF SetObject
  <2>4. CASE UNCHANGED k8s
    BY <2>4
  <2>5. ASSUME NEW j \in Jobs, CreateScripts(j) \/ InsertBatchJob(j) \/ UserRequest(j) \/ GetObject(j)
               \/ OwnScripts(j) \/ ReportAction(j) PROVE UNCHANGED k8s
    BY <2>5 DEF CreateScripts, InsertBatchJob, UserRequest, GetObject, OwnScripts, ReportAction, cluster
  <2>6. ASSUME NEW j \in Jobs, CancelObject(j) \/ DeleteObject(j) \/ PodsEnd(j) \/ Expire(j)
        PROVE  UNCHANGED k8s
    BY <2>3, <2>6 DEF CancelObject, DeleteObject, PodsEnd, Expire, Objects
  <2>7. ASSUME ListQueuedInternalBatchJobs \/ GetInternalBatchJob \/ ReportObject
               \/ AbortPass \/ AbortReconcile PROVE UNCHANGED k8s
    BY <2>7 DEF ListQueuedInternalBatchJobs, GetInternalBatchJob, ReportObject, AbortPass, AbortReconcile
  <2>8. ~DeleteCanceled
    <3> SUFFICES ASSUME DeleteCanceled PROVE FALSE
      OBVIOUS
    <3>1. seen.job \in Jobs
      BY SeenFacts DEF DeleteCanceled, NothingSeen, IInv
    <3>2. QED
      BY <2>3, <3>1 DEF DeleteCanceled, Objects
  <2>9. QED
    BY <2>2, <2>4, <2>5, <2>6, <2>7, <2>8 DEF Next, Worker, Reconcile
<1>2. QED
  BY <1>1, BatchJobsInvariance, PTL DEF Spec, NeverRunsAgain

-----------------------------------------------------------------------------
(***************************************************************************)
(* Secret and ConfigMap.  Until a call fails, the Job object of a job is   *)
(* made once: a job that is to be created has the Secret and the ConfigMap *)
(* of the server and no Job object, except between the creation and the    *)
(* report of it, which the worker does not leave for another job.          *)
(***************************************************************************)

\* The worker finishes a job before it takes up the next.
OneAtATime ==
    \A i, j \in Jobs : todo[i] \notin BatchActions /\ todo[j] \notin BatchActions => i = j

NoAction == ""

Untouched(j) == k8s[j] = "none" /\ scripts[j] = "free"

ScriptsOK(j) ==
    /\ batch[j].state = "absent" => k8s[j] = "none" /\ todo[j] = NoAction
    /\ batch[j] = NewBatch /\ todo[j] \notin {"owning", "RUNNING"} => Untouched(j)
    /\ todo[j] = "creating" => Untouched(j)
    /\ k8s[j] # "none" => scripts[j] \in {"free", "owned"}

MadeOnce == faults = 0 => \A j \in Jobs : ScriptsOK(j)

SInv == OneAtATime /\ MadeOnce

\* The empty action is none of the others.
LEMMA NoActionFacts ==
    /\ NoAction \in BatchActions /\ NoAction \notin BatchReports
    /\ NoAction \notin {"creating", "canceling", "deleting", "owning"}
BY Zenon DEF NoAction, BatchActions, BatchReports

\* No request makes a row that is to be created, or takes one away.
LEMMA ApplyNotNew ==
    ASSUME NEW q \in BatchRequests, NEW b \in BatchRows
    PROVE  BatchApply(q, b).state # "absent" /\ BatchApply(q, b) # NewBatch
<1>1. /\ NewBatch.state = "queued" /\ NewBatch.action = "creating"
      /\ \A a : /\ SetBatchJobQueuedAction(a).state = "queued"
               /\ SetBatchJobQueuedAction(a).action = a
      /\ \A t : SetBatchJobState(t).state = t
  BY DEF NewBatch, SetBatchJobQueuedAction, SetBatchJobState
<1>2. \A r \in BatchReports : convertBatchJobState[r] \notin {"absent", "queued"}
  BY DEF convertBatchJobState, BatchReports
<1>3. QED
  BY <1>1, <1>2, ApplyCases

\* What a change of a Job object does to Secret and ConfigMap.
LEMMA SetObjectScripts ==
    ASSUME TypeOK, NEW j \in Jobs, NEW o \in Objects, SetObject(j, o)
    PROVE  /\ k8s'[j] = o
           /\ o # "none" \/ scripts[j] = "free" => scripts'[j] = scripts[j]
           /\ \A i \in Jobs : i # j => k8s'[i] = k8s[i] /\ scripts'[i] = scripts[i]
BY DEF TypeOK, SetObject

\* A job that a step does not concern.
LEMMA ScriptsFrame ==
    ASSUME NEW i \in Jobs, ScriptsOK(i),
           batch'[i] = batch[i], k8s'[i] = k8s[i], scripts'[i] = scripts[i], todo'[i] = todo[i]
    PROVE  ScriptsOK(i)'
BY DEF ScriptsOK, Untouched

\* A request that is served, or ignored.
LEMMA ServeScripts ==
    ASSUME IInv, \A i \in Jobs : ScriptsOK(i), NEW j \in Jobs, NEW q \in BatchRequests,
           Serve(j, q) \/ UNCHANGED batch, UNCHANGED <<k8s, scripts, todo>>
    PROVE  \A i \in Jobs : ScriptsOK(i)'
<1>1. CASE UNCHANGED batch
  BY <1>1 DEF ScriptsOK, Untouched
<1>2. CASE Serve(j, q)
  <2>1. /\ batch[j] \in BatchRows
        /\ batch' = [batch EXCEPT ![j] = BatchApply(q, batch[j])] /\ batch \in [Jobs -> BatchRows]
    BY <1>2 DEF Serve, IInv, TypeOK
  <2>2. BatchApply(q, batch[j]).state # "absent" /\ BatchApply(q, batch[j]) # NewBatch
    BY <2>1, ApplyNotNew
  <2>3. /\ batch'[j].state # "absent" /\ batch'[j] # NewBatch
        /\ \A i \in Jobs : i # j => batch'[i] = batch[i]
    BY <2>1, <2>2
  <2>4. ScriptsOK(j)'
    BY <2>3 DEF ScriptsOK, Untouched
  <2>5. ASSUME NEW i \in Jobs, i # j PROVE ScriptsOK(i)'
    BY <2>3, <2>5, ScriptsFrame
  <2>6. QED
    BY <2>4, <2>5
<1>3. QED
  BY <1>1, <1>2

\* The server and the list of queued jobs.
LEMMA ServerScripts ==
    ASSUME IInv, \A i \in Jobs : ScriptsOK(i),
           \/ \E j \in Jobs : CreateScripts(j) \/ InsertBatchJob(j) \/ UserRequest(j)
           \/ ListQueuedInternalBatchJobs
    PROVE  \A i \in Jobs : ScriptsOK(i)'
<1> USE DEF IInv
<1>1. ASSUME NEW j \in Jobs, CreateScripts(j) PROVE \A i \in Jobs : ScriptsOK(i)'
  <2>1. ScriptsOK(j)'
    BY <1>1 DEF CreateScripts, TypeOK, ScriptsOK, Untouched, NewBatch
  <2>2. ASSUME NEW i \in Jobs, i # j PROVE ScriptsOK(i)'
    BY <1>1, <2>2, ScriptsFrame DEF CreateScripts, TypeOK
  <2>3. QED
    BY <2>1, <2>2
<1>2. ASSUME NEW j \in Jobs, InsertBatchJob(j) PROVE \A i \in Jobs : ScriptsOK(i)'
  <2>1. ScriptsOK(j)'
    BY <1>2 DEF InsertBatchJob, TypeOK, ScriptsOK, Untouched, NewBatch, cluster
  <2>2. ASSUME NEW i \in Jobs, i # j PROVE ScriptsOK(i)'
    BY <1>2, <2>2, ScriptsFrame DEF InsertBatchJob, TypeOK, cluster
  <2>3. QED
    BY <2>1, <2>2
<1>3. ASSUME NEW j \in Jobs, UserRequest(j) PROVE \A i \in Jobs : ScriptsOK(i)'
  <2>1. PICK q \in {"CancelBatchJob", "DeleteBatchJob"} : Serve(j, q)
    BY <1>3 DEF UserRequest
  <2>2. q \in BatchRequests
    BY DEF BatchRequests
  <2>3. QED
    BY <1>3, <2>1, <2>2, ServeScripts DEF UserRequest, cluster
<1>4. CASE ListQueuedInternalBatchJobs
  <2> SUFFICES ASSUME NEW i \in Jobs PROVE ScriptsOK(i)'
    OBVIOUS
  <2>1. /\ todo[i] = NoAction
        /\ todo'[i] = IF batch[i].state = "queued" THEN batch[i].action ELSE NoAction
        /\ batch' = batch /\ k8s' = k8s /\ scripts' = scripts
    BY <1>4, Zenon DEF ListQueuedInternalBatchJobs, Nothing, NoAction
  <2>2. batch[i] \in BatchRows
    BY DEF TypeOK
  <2>3. batch[i].state = "queued" /\ batch[i].action = "creating" => batch[i] = NewBatch
    BY <2>2 DEF BatchRows, NewBatch
  <2>4. batch[i] = NewBatch => Untouched(i)
    BY <2>1, NoActionFacts DEF ScriptsOK, BatchReports
  <2>5. QED
    BY <2>1, <2>3, <2>4, NoActionFacts DEF ScriptsOK, Untouched
<1>5. QED
  BY <1>1, <1>2, <1>3, <1>4

\* The worker's calls to the API server.
LEMMA WorkerScripts ==
    ASSUME IInv, \A i \in Jobs : ScriptsOK(i), NEW j \in Jobs,
           ApplyJob(j) \/ OwnScripts(j) \/ CancelObject(j) \/ DeleteObject(j)
    PROVE  \A i \in Jobs : ScriptsOK(i)'
<1> USE DEF IInv
<1>1. ASSUME NEW i \in Jobs, i # j, Goes(j, "owning") \/ Goes(j, "RUNNING") \/ Goes(j, "CANCELED")
                                      \/ Goes(j, "DELETED"),
             k8s'[i] = k8s[i], scripts'[i] = scripts[i]
      PROVE  ScriptsOK(i)'
  BY <1>1, ScriptsFrame DEF Goes, TypeOK
<1>2. CASE ApplyJob(j)
  <2>1. todo[j] = "creating" /\ k8s[j] = "none" /\ scripts[j] = "free" /\ batch[j].state # "absent"
    BY <1>2, NoActionFacts DEF ApplyJob, TakesUp, ScriptsOK, Untouched
  <2>2. SetObject(j, "active") /\ Goes(j, "owning")
    BY <1>2, <2>1 DEF ApplyJob
  <2>3. /\ k8s'[j] = "active" /\ scripts'[j] = "free"
        /\ \A i \in Jobs : i # j => k8s'[i] = k8s[i] /\ scripts'[i] = scripts[i]
    BY <2>1, <2>2, SetObjectScripts DEF Objects
  <2>4. todo'[j] = "owning" /\ batch'[j] = batch[j]
    BY <2>2 DEF Goes, TypeOK
  <2>5. ScriptsOK(j)'
    BY <2>1, <2>3, <2>4 DEF ScriptsOK, Untouched
  <2>6. QED
    BY <1>1, <2>2, <2>3, <2>5
<1>3. CASE OwnScripts(j)
  <2>1. todo[j] = "owning" /\ batch[j].state # "absent"
    BY <1>3, NoActionFacts DEF OwnScripts, ScriptsOK
  <2>2. /\ k8s' = k8s /\ Goes(j, "RUNNING")
        /\ k8s[j] # "none" => scripts'[j] \in {"free", "owned"}
        /\ \A i \in Jobs : i # j => scripts'[i] = scripts[i]
    BY <1>3 DEF OwnScripts, ScriptsOK, TypeOK
  <2>3. todo'[j] = "RUNNING" /\ batch'[j] = batch[j]
    BY <2>2 DEF Goes, TypeOK
  <2>4. ScriptsOK(j)'
    BY <2>1, <2>2, <2>3 DEF ScriptsOK, Untouched
  <2>5. QED
    BY <1>1, <2>2, <2>4
<1>4. CASE CancelObject(j)
  <2>1. todo[j] = "canceling" /\ batch[j].state # "absent" /\ (batch[j] = NewBatch => Untouched(j))
    BY <1>4, NoActionFacts DEF CancelObject, TakesUp, ScriptsOK
  <2>2. /\ k8s[j] = "none" => k8s'[j] = "none"
        /\ scripts'[j] = scripts[j]
        /\ k8s'[j] # "none" => k8s[j] # "none"
        /\ \A i \in Jobs : i # j => k8s'[i] = k8s[i] /\ scripts'[i] = scripts[i]
    BY <1>4, SetObjectScripts DEF CancelObject, Objects
  <2>3. todo'[j] = "CANCELED" /\ batch'[j] = batch[j] /\ Goes(j, "CANCELED")
    BY <1>4 DEF CancelObject, Goes, TypeOK
  <2>4. ScriptsOK(j)'
    BY <2>1, <2>2, <2>3 DEF ScriptsOK, Untouched
  <2>5. QED
    BY <1>1, <2>2, <2>3, <2>4
<1>5. CASE DeleteObject(j)
  <2>1. todo[j] = "deleting" /\ batch[j].state # "absent" /\ (batch[j] = NewBatch => Untouched(j))
    BY <1>5, NoActionFacts DEF DeleteObject, TakesUp, ScriptsOK
  <2>2. /\ k8s'[j] = "none" /\ (scripts[j] = "free" => scripts'[j] = "free")
        /\ \A i \in Jobs : i # j => k8s'[i] = k8s[i] /\ scripts'[i] = scripts[i]
    BY <1>5, SetObjectScripts DEF DeleteObject, Objects
  <2>3. todo'[j] = "DELETED" /\ batch'[j] = batch[j] /\ Goes(j, "DELETED")
    BY <1>5 DEF DeleteObject, Goes, TypeOK
  <2>4. ScriptsOK(j)'
    BY <2>1, <2>2, <2>3 DEF ScriptsOK, Untouched
  <2>5. QED
    BY <1>1, <2>2, <2>3, <2>4
<1>6. QED
  BY <1>2, <1>3, <1>4, <1>5

\* The worker reports.  It is not refused of a job that it has just created:
\* such a job is still to be created for the server.
LEMMA ReportScripts ==
    ASSUME IInv, OneAtATime, \A i \in Jobs : ScriptsOK(i), NEW j \in Jobs, ReportAction(j)
    PROVE  \A i \in Jobs : ScriptsOK(i)'
<1> USE DEF IInv
<1>0. /\ todo[j] \in BatchReports /\ todo[j] \notin BatchActions /\ todo[j] \in BatchRequests
      /\ k8s' = k8s /\ scripts' = scripts
      /\ batch[j].state # "absent"
  <2>1. todo[j] \in BatchReports /\ UNCHANGED <<k8s, scripts, budgets>>
    BY Zenon DEF ReportAction
  <2>2. \A r \in BatchReports : r \notin BatchActions
    BY Zenon DEF BatchReports, BatchActions
  <2>3. todo[j] # NoAction
    BY <2>1, NoActionFacts
  <2>4. QED
    BY <2>1, <2>2, <2>3 DEF ScriptsOK, BatchRequests
<1>1. CASE Records(j, todo[j]) /\ todo' = [todo EXCEPT ![j] = NoAction]
  <2>1. /\ todo'[j] = NoAction /\ \A i \in Jobs : i # j => todo'[i] = todo[i]
    BY <1>1 DEF TypeOK
  <2>2. /\ batch'[j].state # "absent" /\ batch'[j] # NewBatch
        /\ \A i \in Jobs : i # j => batch'[i] = batch[i]
    <3>1. CASE Serve(j, todo[j])
      <4>1. /\ batch[j] \in BatchRows /\ batch \in [Jobs -> BatchRows]
            /\ batch' = [batch EXCEPT ![j] = BatchApply(todo[j], batch[j])]
        BY <3>1 DEF Serve, TypeOK
      <4>2. /\ BatchApply(todo[j], batch[j]).state # "absent"
            /\ BatchApply(todo[j], batch[j]) # NewBatch
        BY <1>0, <4>1, ApplyNotNew
      <4>3. QED
        BY <4>1, <4>2
    <3>2. CASE BatchIgnores(todo[j], batch[j]) /\ UNCHANGED batch
      <4>1. batch[j].state = convertBatchJobState[todo[j]]
        BY <3>2 DEF BatchIgnores
      <4>2. convertBatchJobState[todo[j]] # "queued"
        BY <1>0 DEF convertBatchJobState, BatchReports
      <4>3. NewBatch.state = "queued"
        BY DEF NewBatch
      <4>4. QED
        BY <1>0, <3>2, <4>1, <4>2, <4>3
    <3>3. QED
      BY <1>1, <3>1, <3>2 DEF Records
  <2>3. ScriptsOK(j)'
    BY <1>0, <2>1, <2>2, NoActionFacts DEF ScriptsOK, Untouched
  <2>4. ASSUME NEW i \in Jobs, i # j PROVE ScriptsOK(i)'
    BY <1>0, <2>1, <2>2, <2>4, ScriptsFrame
  <2>5. QED
    BY <2>3, <2>4
<1>2. CASE Refuses(j, todo[j]) /\ UNCHANGED batch /\ \A i \in Jobs : todo'[i] = NoAction
  <2> SUFFICES ASSUME NEW i \in Jobs PROVE ScriptsOK(i)'
    OBVIOUS
  <2>1. batch[i] = NewBatch => todo[i] \notin {"owning", "RUNNING"}
    <3> SUFFICES ASSUME batch[i] = NewBatch, todo[i] \in {"owning", "RUNNING"} PROVE FALSE
      OBVIOUS
    <3>1. todo[i] \notin BatchActions
      BY Zenon DEF BatchActions
    <3>2. i = j
      BY <1>0, <3>1 DEF OneAtATime
    <3>3. todo[j] = "RUNNING"
      BY <1>0, <3>2 DEF BatchReports
    <3>4. batch[j].state = "queued" /\ convertBatchJobState["RUNNING"] = "running"
      BY <3>2 DEF NewBatch, convertBatchJobState
    <3>5. ~BatchIgnores("RUNNING", batch[j])
      BY <3>4 DEF BatchIgnores
    <3>6. BatchAccepts("RUNNING", batch[j])
      BY <3>4, <3>5, Zenon DEF BatchAccepts
    <3>7. QED
      BY <1>2, <3>3, <3>6 DEF Refuses
  <2>2. batch'[i] = batch[i] /\ todo'[i] = NoAction
    BY <1>2
  <2>3. QED
    BY <1>0, <2>1, <2>2, NoActionFacts DEF ScriptsOK, Untouched
<1>3. QED
  <2>1. PassFails => \A i \in Jobs : todo'[i] = NoAction
    BY Zenon DEF PassFails, Nothing, NoAction
  <2>2. \/ Records(j, todo[j]) /\ todo' = [todo EXCEPT ![j] = NoAction]
        \/ Refuses(j, todo[j]) /\ PassFails /\ UNCHANGED batch
    BY Zenon DEF ReportAction, NoAction
  <2>3. QED
    BY <1>1, <1>2, <2>1, <2>2

\* The reconciler and Kubernetes.
LEMMA ClusterScripts ==
    ASSUME IInv, \A i \in Jobs : ScriptsOK(i),
           \/ ReportObject \/ DeleteCanceled
           \/ \E j \in Jobs : PodsEnd(j) \/ Expire(j)
    PROVE  \A i \in Jobs : ScriptsOK(i)'
<1> USE DEF IInv
<1>1. CASE ReportObject
  <2>1. seen.job \in Jobs /\ seen.step \in BatchRequests
    BY <1>1, SeenFacts DEF ReportObject, NothingSeen, BatchReports, BatchRequests
  <2>2. Serve(seen.job, seen.step) \/ UNCHANGED batch
    BY <1>1 DEF ReportObject, Records
  <2>3. UNCHANGED <<k8s, scripts, todo>>
    BY <1>1 DEF ReportObject
  <2>4. QED
    BY <2>1, <2>2, <2>3, ServeScripts
<1>2. ASSUME NEW j \in Jobs, NEW o \in Objects, SetObject(j, o), UNCHANGED <<batch, todo>>,
             o = "none" \/ (o # "none" /\ k8s[j] # "none")
      PROVE  \A i \in Jobs : ScriptsOK(i)'
  <2>1. /\ k8s'[j] = o
        /\ o # "none" \/ scripts[j] = "free" => scripts'[j] = scripts[j]
        /\ \A i \in Jobs : i # j => k8s'[i] = k8s[i] /\ scripts'[i] = scripts[i]
    BY <1>2, SetObjectScripts
  <2>2. ScriptsOK(j)'
    BY <1>2, <2>1 DEF ScriptsOK, Untouched
  <2>3. ASSUME NEW i \in Jobs, i # j PROVE ScriptsOK(i)'
    BY <1>2, <2>1, <2>3, ScriptsFrame
  <2>4. QED
    BY <2>2, <2>3
<1>3. CASE DeleteCanceled
  <2>1. seen.job \in Jobs
    BY <1>3, SeenFacts DEF DeleteCanceled, NothingSeen
  <2>2. QED
    BY <1>2, <1>3, <2>1 DEF DeleteCanceled, Objects
<1>4. ASSUME NEW j \in Jobs, PodsEnd(j) \/ Expire(j) PROVE \A i \in Jobs : ScriptsOK(i)'
  BY <1>2, <1>4 DEF PodsEnd, Expire, Objects
<1>5. QED
  BY <1>1, <1>3, <1>4

\* The worker's list, whatever step is taken.
LEMMA OneAtATimeKept == IInv /\ OneAtATime /\ [Next]_vars => OneAtATime'
<1> SUFFICES ASSUME IInv, OneAtATime, [Next]_vars PROVE OneAtATime'
  OBVIOUS
<1>1. CASE UNCHANGED todo
  BY <1>1 DEF OneAtATime
<1>2. CASE \A i \in Jobs : todo'[i] \in BatchActions
  BY <1>2 DEF OneAtATime
<1>3. ASSUME NEW j \in Jobs, \A i \in Jobs : i # j => todo'[i] \in BatchActions
      PROVE  OneAtATime'
  BY <1>3 DEF OneAtATime
<1>4. ASSUME PassFails PROVE \A i \in Jobs : todo'[i] \in BatchActions
  BY <1>4, Zenon DEF PassFails, Nothing, BatchActions
<1>5. CASE ListQueuedInternalBatchJobs
  <2>1. \A i \in Jobs : batch[i].action \in BatchActions
    BY DEF IInv, TypeOK, BatchRows
  <2>2. \A i \in Jobs : todo'[i] = IF batch[i].state = "queued" THEN batch[i].action ELSE NoAction
    BY <1>5, Zenon DEF ListQueuedInternalBatchJobs, NoAction
  <2>3. QED
    BY <1>2, <2>1, <2>2, NoActionFacts
<1>6. ASSUME NEW j \in Jobs, NEW step, Goes(j, step), \A i \in Jobs : i # j => todo[i] \in BatchActions
      PROVE  OneAtATime'
  <2>1. \A i \in Jobs : i # j => todo'[i] \in BatchActions
    BY <1>6 DEF Goes, IInv, TypeOK
  <2>2. QED
    BY <1>3, <2>1
<1>7. ASSUME NEW j \in Jobs, ApplyJob(j) \/ CancelObject(j) \/ DeleteObject(j) PROVE OneAtATime'
  <2>1. \A i \in Jobs : todo[i] \in BatchActions
    BY <1>7 DEF ApplyJob, CancelObject, DeleteObject, TakesUp
  <2>2. PassFails \/ \E step : Goes(j, step)
    BY <1>7 DEF ApplyJob, CancelObject, DeleteObject
  <2>3. QED
    BY <1>2, <1>4, <1>6, <2>1, <2>2
<1>8. ASSUME NEW j \in Jobs, OwnScripts(j) PROVE OneAtATime'
  <2>1. todo[j] = "owning" /\ Goes(j, "RUNNING")
    BY <1>8 DEF OwnScripts
  <2>2. "owning" \notin BatchActions
    BY Zenon DEF BatchActions
  <2>3. \A i \in Jobs : i # j => todo[i] \in BatchActions
    BY <2>1, <2>2 DEF OneAtATime
  <2>4. QED
    BY <1>6, <2>1, <2>3
<1>9. ASSUME NEW j \in Jobs, ReportAction(j) PROVE OneAtATime'
  <2>1. todo' = [todo EXCEPT ![j] = NoAction] \/ PassFails
    BY <1>9, Zenon DEF ReportAction, NoAction
  <2>2. CASE todo' = [todo EXCEPT ![j] = NoAction]
    BY <2>2, NoActionFacts DEF OneAtATime, IInv, TypeOK
  <2>3. QED
    BY <1>2, <1>4, <2>1, <2>2
<1>10. CASE AbortPass
  BY <1>2, <1>4, <1>10 DEF AbortPass
<1>11. ASSUME NEW j \in Jobs, CreateScripts(j) \/ InsertBatchJob(j) \/ UserRequest(j)
                               \/ GetObject(j) \/ PodsEnd(j) \/ Expire(j)
       PROVE  UNCHANGED todo
  BY <1>11 DEF CreateScripts, InsertBatchJob, UserRequest, GetObject, PodsEnd, Expire, cluster
<1>12. ASSUME GetInternalBatchJob \/ ReportObject \/ DeleteCanceled \/ AbortReconcile
       PROVE  UNCHANGED todo
  BY <1>12 DEF GetInternalBatchJob, ReportObject, DeleteCanceled, AbortReconcile
<1>13. CASE UNCHANGED vars
  BY <1>1, <1>13 DEF vars
<1>14. QED
  BY <1>1, <1>5, <1>7, <1>8, <1>9, <1>10, <1>11, <1>12, <1>13 DEF Next, Worker, Reconcile

\* The Job object is made once, whatever step is taken.
LEMMA MadeOnceKept == IInv /\ SInv /\ [Next]_vars => MadeOnce'
<1> SUFFICES ASSUME IInv, SInv, [Next]_vars, faults' = 0
             PROVE  \A i \in Jobs : ScriptsOK(i)'
  BY DEF MadeOnce
<1>1. faults = 0 /\ ~Fault
  <2>1. faults \in Nat
    BY BatchJobsAssumption DEF IInv, TypeOK
  <2>2. ~Fault
    BY <2>1 DEF Fault
  <2>3. UNCHANGED faults \/ Fault
    <3>1. CASE UNCHANGED vars
      BY <3>1 DEF vars
    <3>2. ASSUME NEW j \in Jobs, CreateScripts(j) \/ InsertBatchJob(j) \/ UserRequest(j)
                                   \/ GetObject(j) \/ PodsEnd(j) \/ Expire(j)
          PROVE  UNCHANGED faults
      BY <3>2 DEF CreateScripts, InsertBatchJob, UserRequest, GetObject, PodsEnd, Expire, budgets
    <3>3. ASSUME NEW j \in Jobs, ApplyJob(j) \/ OwnScripts(j) \/ CancelObject(j) \/ DeleteObject(j)
          PROVE  UNCHANGED faults
      BY <3>3 DEF ApplyJob, OwnScripts, CancelObject, DeleteObject, Goes, budgets
    <3>4. ASSUME NEW j \in Jobs, ReportAction(j) PROVE UNCHANGED faults
      <4>1. UNCHANGED <<k8s, scripts, budgets>>
        BY <3>4, Zenon DEF ReportAction
      <4>2. QED
        BY <4>1 DEF budgets
    <3>5. ASSUME ListQueuedInternalBatchJobs PROVE UNCHANGED faults
      <4>1. UNCHANGED <<batch, k8s, scripts, seen, workq, budgets>>
        BY <3>5, Zenon DEF ListQueuedInternalBatchJobs
      <4>2. QED
        BY <4>1 DEF budgets
    <3>6. ASSUME GetInternalBatchJob \/ ReportObject \/ DeleteCanceled \/ AbortPass \/ AbortReconcile
          PROVE  UNCHANGED faults \/ Fault
      BY <3>6 DEF GetInternalBatchJob, ReportObject, DeleteCanceled, AbortPass, AbortReconcile, budgets
    <3>7. QED
      BY <3>1, <3>2, <3>3, <3>4, <3>5, <3>6 DEF Next, Worker, Reconcile
  <2>4. QED
    BY <2>2, <2>3
<1>2. OneAtATime /\ \A i \in Jobs : ScriptsOK(i)
  BY <1>1 DEF SInv, MadeOnce
<1>3. CASE UNCHANGED <<batch, k8s, scripts, todo>>
  BY <1>2, <1>3 DEF ScriptsOK, Untouched
<1>4. ~AbortPass /\ ~AbortReconcile
  BY <1>1 DEF AbortPass, AbortReconcile
<1>5. ASSUME UNCHANGED vars \/ (\E j \in Jobs : GetObject(j)) \/ GetInternalBatchJob
      PROVE  UNCHANGED <<batch, k8s, scripts, todo>>
  BY <1>5 DEF vars, GetObject, GetInternalBatchJob
<1>6. QED
  BY <1>2, <1>3, <1>4, <1>5, ServerScripts, WorkerScripts, ReportScripts, ClusterScripts
     DEF Next, Worker, Reconcile

\* Until a call fails, running pods find the Secret and the ConfigMap that the
\* server made, for any number of jobs and requests (createBatchJob).
THEOREM PodsFindScriptsHolds == Spec => []PodsFindScripts
<1>1. Init => SInv
  <2>1. Init => OneAtATime
    BY Zenon DEF Init, Nothing, OneAtATime, BatchActions
  <2>2. Init => MadeOnce
    <3> SUFFICES ASSUME Init, NEW j \in Jobs PROVE ScriptsOK(j)
      BY DEF MadeOnce
    <3>1. todo[j] = NoAction /\ k8s[j] = "none" /\ batch[j] = NoBatch
      BY Zenon DEF Init, Nothing, NoAction
    <3>2. batch[j] # NewBatch
      <4>1. NoBatch.state = "absent" /\ NewBatch.state = "queued"
        BY Zenon DEF NoBatch, NewBatch
      <4>2. QED
        BY <3>1, <4>1
    <3>3. QED
      BY <3>1, <3>2, NoActionFacts DEF ScriptsOK
  <2>3. QED
    BY <2>1, <2>2 DEF SInv
<1>2. IInv /\ SInv /\ [Next]_vars => SInv'
  BY OneAtATimeKept, MadeOnceKept DEF SInv
<1>3. SInv => PodsFindScripts
  BY DEF SInv, MadeOnce, ScriptsOK, PodsFindScripts
<1>4. QED
  BY <1>1, <1>2, <1>3, BatchJobsInvariance, PTL DEF Spec

=============================================================================
