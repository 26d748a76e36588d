----------------------------- MODULE RowProofs -----------------------------
(***************************************************************************)
(* The three tables are tables in the sense of OptimisticStore: what a     *)
(* handler writes over a row is a row again, and never an absent one       *)
(* (ApplyAssumption).  So LinearizableHolds applies to each of them, and   *)
(* FineTuning, Notebooks and BatchJobs may take a request as one step.     *)
(* For the jobs table, what its handlers keep in spite of each other.      *)
(***************************************************************************)
EXTENDS OptimisticStoreProofs, MCJobStore, NotebookRow, BatchRow, TLAPS

\* CancelJob and every phase of UpdateJobPhase leave a well-formed row.
THEOREM JobApplyIsRow ==
    \A q \in JobRequests, j \in JobRows :
        j.state # "absent" /\ JobAccepts(q, j)
          => JobApply(q, j) \in JobRows /\ JobApply(q, j).state # "absent"
<1> SUFFICES ASSUME NEW q \in JobRequests, NEW j \in JobRows,
                    j.state # "absent"
             PROVE  JobApply(q, j) \in JobRows /\ JobApply(q, j).state # "absent"
  OBVIOUS
<1>1. q.model \in ModelIDs /\ j.fineTuned \in ModelIDs
  BY DEF JobRequests, JobRows
<1>2. /\ UpdateJobState(j, "queued", "canceling") \in JobRows
      /\ UpdateJobState(j, "running", "") \in JobRows
      /\ UpdateJobState(j, "queued", "creating") \in JobRows
      /\ UpdateJobState(j, "queued", "canceling").state = "queued"
      /\ UpdateJobState(j, "running", "").state = "running"
      /\ UpdateJobState(j, "queued", "creating").state = "queued"
  BY DEF UpdateJobState, JobRows, JobStates, JobActions
<1>3. /\ UpdateOutputModelID(j, q.model) \in JobRows
      /\ UpdateOutputModelID(j, q.model).state = j.state
  BY <1>1 DEF UpdateOutputModelID, JobRows
<1>4. \A s \in Terminal, m \in ModelIDs :
        /\ UpdateJobStateAndMessage(j, s, m) \in JobRows
        /\ UpdateJobStateAndMessage(j, s, m).state = s
  BY DEF UpdateJobStateAndMessage, JobRows, JobStates, JobActions, Terminal
<1>5. q.op \in {"CancelJob", "PREPROCESSED", "JOB_CREATED", "FINETUNED",
                "CANCELED", "FAILED", "RECREATE"}
  BY DEF JobRequests
<1> QED
  BY <1>1, <1>2, <1>3, <1>4, <1>5 DEF JobApply, Terminal

\* The user API, UpdateNotebookState and the rescheduler do so, too.
THEOREM NotebookApplyIsRow ==
    \A q \in NotebookRequests, n \in NotebookRows :
        n.state # "absent" /\ NotebookAccepts(q, n)
          => NotebookApply(q, n) \in NotebookRows /\ NotebookApply(q, n).state # "absent"
<1> SUFFICES ASSUME NEW q \in NotebookRequests, NEW n \in NotebookRows
             PROVE  /\ NotebookApply(q, n) \in NotebookRows
                    /\ NotebookApply(q, n).state # "absent"
  OBVIOUS
<1>1. q.pulling \in BOOLEAN /\ q.cluster \in Clusters
  BY DEF NotebookRequests
<1>2. \A a \in NotebookActions :
        /\ SetNotebookQueuedAction(n, a) \in NotebookRows
        /\ SetNotebookQueuedAction(n, a).state = "queued"
  BY DEF SetNotebookQueuedAction, NotebookRows, NotebookStates
<1>3. \A s \in NotebookStates, p \in BOOLEAN :
        /\ SetState(n, s) \in NotebookRows /\ SetState(n, s).state = s
        /\ SetNonQueuedStateAndMessage(n, s, p) \in NotebookRows
        /\ SetNonQueuedStateAndMessage(n, s, p).state = s
  BY DEF SetState, SetNonQueuedStateAndMessage, NotebookRows, NotebookActions
<1>4. \A s \in NotebookStates, a \in NotebookActions, p \in BOOLEAN, c \in Clusters :
        /\ UpdateNotebookForRescheduling(n, s, a, p, c) \in NotebookRows
        /\ UpdateNotebookForRescheduling(n, s, a, p, c).state = s
  BY DEF UpdateNotebookForRescheduling, NotebookRows
<1>5. n.action \in NotebookActions /\ n.pulling \in BOOLEAN /\ n.cluster \in Clusters
  BY DEF NotebookRows
<1> DEFINE IsRow(r) == r \in NotebookRows /\ r.state # "absent"
<1>6. \A s \in NotebookStates : s # "absent"
  BY DEF NotebookStates
<1>7. \A a \in NotebookActions : IsRow(SetNotebookQueuedAction(n, a))
  BY <1>2
<1>8. \A s \in NotebookStates, p \in BOOLEAN :
        IsRow(SetState(n, s)) /\ IsRow(SetNonQueuedStateAndMessage(n, s, p))
  BY <1>3, <1>6
<1>9. \A s \in NotebookStates, a \in NotebookActions, p \in BOOLEAN, c \in Clusters :
        IsRow(UpdateNotebookForRescheduling(n, s, a, p, c))
  BY <1>4, <1>6
<1>10. CASE q.op \in {"StopNotebook", "StartNotebook", "DeleteNotebook"}
  <2>1. IsRow(SetNotebookQueuedAction(n, "stopping"))
        /\ IsRow(SetNotebookQueuedAction(n, "starting"))
        /\ IsRow(SetNotebookQueuedAction(n, "deleting"))
    BY <1>7 DEF NotebookActions
  <2> HIDE DEF IsRow
  <2>2. IsRow(NotebookApply(q, n))
    BY <1>10, <2>1 DEF NotebookApply
  <2> QED BY <2>2 DEF IsRow
<1>11. CASE q.op \in {"INITIALIZING", "RUNNING", "STOPPED", "DELETED"}
  <2>1. /\ IsRow(SetNonQueuedStateAndMessage(n, "initializing", q.pulling))
        /\ IsRow(SetState(n, "running"))
        /\ IsRow(SetNonQueuedStateAndMessage(n, "stopped", q.pulling))
        /\ IsRow(SetNonQueuedStateAndMessage(n, "deleted", q.pulling))
    BY <1>1, <1>8, Zenon DEF NotebookStates
  <2> HIDE DEF IsRow
  <2>2. IsRow(NotebookApply(q, n))
    BY <1>11, <2>1 DEF NotebookApply
  <2> QED BY <2>2 DEF IsRow
<1>12. CASE q.op \in {"REQUEUED", "Requeue", "Reschedule"}
  <2>1. /\ IsRow(UpdateNotebookForRescheduling(n, "requeued", n.action, FALSE, n.cluster))
        /\ IsRow(UpdateNotebookForRescheduling(n, "queued", "requeueing", n.pulling, n.cluster))
        /\ IsRow(UpdateNotebookForRescheduling(n, "queued", "starting", FALSE, q.cluster))
    BY <1>1, <1>5, <1>9, Zenon DEF NotebookStates, NotebookActions
  <2> HIDE DEF IsRow
  <2>2. IsRow(NotebookApply(q, n))
    BY <1>12, <2>1 DEF NotebookApply
  <2> QED BY <2>2 DEF IsRow
<1> QED
  BY <1>10, <1>11, <1>12 DEF NotebookRequests, Reports

\* Cancel, Delete and UpdateBatchJobState do so, too.
THEOREM BatchApplyIsRow ==
    \A q \in BatchRequests, b \in BatchRows :
        BatchApply(q, b) \in BatchRows /\ BatchApply(q, b).state # "absent"
<1> SUFFICES ASSUME NEW q \in BatchRequests, NEW b \in BatchRows
             PROVE  BatchApply(q, b) \in BatchRows /\ BatchApply(q, b).state # "absent"
  OBVIOUS
<1>1. \A a \in BatchActions :
        /\ SetBatchJobQueuedAction(a) \in BatchRows
        /\ SetBatchJobQueuedAction(a).state # "absent"
  BY DEF SetBatchJobQueuedAction, BatchRows, BatchStates
<1>2. \A s \in BatchStates :
        SetBatchJobState(s) \in BatchRows /\ SetBatchJobState(s).state # "absent"
  BY DEF SetBatchJobState, BatchRows, BatchStates, BatchActions
<1>3. \A r \in BatchReports : convertBatchJobState[r] \in BatchStates
  BY DEF convertBatchJobState, BatchReports, BatchStates
<1>4. CASE q = "CancelBatchJob"
  <2>1. BatchApply(q, b) = SetBatchJobQueuedAction("canceling")
    BY <1>4 DEF BatchApply, BatchReports
  <2> QED BY <1>1, <2>1 DEF BatchActions
<1>5. CASE q = "DeleteBatchJob"
  <2>1. BatchApply(q, b) = SetBatchJobQueuedAction("deleting")
    BY <1>5 DEF BatchApply, BatchReports
  <2> QED BY <1>1, <2>1 DEF BatchActions
<1>6. CASE q \in BatchReports
  <2>1. BatchApply(q, b) = SetBatchJobState(convertBatchJobState[q])
    BY <1>6 DEF BatchApply, BatchReports
  <2> QED BY <1>2, <1>3, <1>6, <2>1
<1> QED
  BY <1>4, <1>5, <1>6 DEF BatchRequests

-----------------------------------------------------------------------------
(***************************************************************************)
(* The jobs table under concurrent handlers.                               *)
(***************************************************************************)

\* A row with an action if and only if it is queued.
ActionFits(j) == j.action # "" <=> j.state = "queued"

\* What may become of a row: an end stays an end, and success comes after
\* running.
EndKept(j, r) ==
    /\ j.state \in Terminal => r.state \in Terminal
    /\ r.state = "succeeded" /\ j.state # "succeeded" => j.state = "running"

\* Each request, where its handler accepts it, keeps both.
LEMMA JobApplyKeeps ==
    ASSUME NEW q \in JobRequests, NEW j \in JobRows, JobAccepts(q, j), ActionFits(j)
    PROVE  ActionFits(JobApply(q, j)) /\ EndKept(j, JobApply(q, j))
<1>1. CASE q.op = "CancelJob"
  <2>1. JobApply(q, j) = UpdateJobState(j, "queued", "canceling")
    BY <1>1 DEF JobApply
  <2>2. j.state \in {"queued", "running"}
    BY <1>1 DEF JobAccepts
  <2>3. QED
    BY <2>1, <2>2 DEF UpdateJobState, ActionFits, EndKept, JobRows, Terminal
<1>2. CASE q.op = "PREPROCESSED"
  <2>1. JobApply(q, j) = UpdateOutputModelID(j, q.model)
    BY <1>2 DEF JobApply
  <2>2. QED
    BY <2>1 DEF UpdateOutputModelID, ActionFits, EndKept, JobRows, Terminal
<1>3. CASE q.op = "JOB_CREATED"
  <2>1. JobApply(q, j) = UpdateJobState(j, "running", "")
    BY <1>3 DEF JobApply
  <2>2. j.state = "queued"
    BY <1>3 DEF JobAccepts
  <2>3. QED
    BY <2>1, <2>2 DEF UpdateJobState, ActionFits, EndKept, JobRows, Terminal
<1>4. CASE q.op = "FINETUNED"
  <2>1. JobApply(q, j) = UpdateJobStateAndMessage(j, "succeeded", q.model)
    BY <1>4 DEF JobApply
  <2>2. j.state = "running"
    BY <1>4 DEF JobAccepts
  <2>3. QED
    BY <2>1, <2>2 DEF UpdateJobStateAndMessage, ActionFits, EndKept, JobRows, Terminal
<1>5. CASE q.op = "CANCELED"
  <2>1. JobApply(q, j) = UpdateJobStateAndMessage(j, "canceled", j.fineTuned)
    BY <1>5 DEF JobApply
  <2>2. QED
    BY <2>1 DEF UpdateJobStateAndMessage, ActionFits, EndKept, JobRows, Terminal
<1>6. CASE q.op = "FAILED"
  <2>1. JobApply(q, j) = UpdateJobStateAndMessage(j, "failed", j.fineTuned)
    BY <1>6 DEF JobApply
  <2>2. QED
    BY <2>1 DEF UpdateJobStateAndMessage, ActionFits, EndKept, JobRows, Terminal
<1>7. CASE q.op = "RECREATE"
  <2>1. JobApply(q, j) = UpdateJobState(j, "queued", "creating")
    BY <1>7 DEF JobApply
  <2>2. j.state = "running"
    BY <1>7 DEF JobAccepts
  <2>3. QED
    BY <2>1, <2>2 DEF UpdateJobState, ActionFits, EndKept, JobRows, Terminal
<1>8. QED
  BY <1>1, <1>2, <1>3, <1>4, <1>5, <1>6, <1>7 DEF JobRequests

\* A step changes no row, or inserts a new job, or applies a request to the
\* row as it is, by a handler whose decision still stands.
LEMMA RowSteps ==
    ASSUME IInv, [Next]_vars, NEW i \in Ids
    PROVE  \/ rows'[i] = rows[i]
           \/ rows[i].content = NoJob /\ rows'[i].content = NewJob
           \/ \E q \in JobRequests :
                 /\ rows[i].content \in JobRows /\ rows[i].content # NoJob
                 /\ JobAccepts(q, rows[i].content)
                 /\ rows'[i].content = JobApply(q, rows[i].content)
<1> USE DEF IInv
<1>1. ASSUME NEW k \in Ids, Insert(k)
      PROVE  rows'[i] = rows[i] \/ (rows[i].content = NoJob /\ rows'[i].content = NewJob)
  BY <1>1, JobsTableAssumption DEF Insert, NewJobs, TypeOK
<1>2. ASSUME NEW g \in Handlers, Write(g)
      PROVE  \/ rows'[i] = rows[i]
             \/ \E q \in JobRequests :
                   /\ rows[i].content \in JobRows /\ rows[i].content # NoJob
                   /\ JobAccepts(q, rows[i].content)
                   /\ rows'[i].content = JobApply(q, rows[i].content)
  <2> DEFINE b == handlers[g]
  <2>1. b \in Busy
    BY <1>2 DEF Write, TypeOK
  <2>2. b.read = rows[b.id] /\ rows[b.id].content # Absent /\ Accepts(b.req, b.read.content)
    BY <1>2 DEF Write, ReadIsCurrent
  <2>3. rows' = [rows EXCEPT ![b.id] = [content |-> Apply(b.req, b.read.content),
                                        version |-> b.read.version + 1]]
    BY <1>2 DEF Write
  <2>4. b.id \in Ids /\ b.req \in JobRequests /\ rows[b.id].content \in JobRows
    BY <2>1, JobsTableAssumption DEF Busy, TypeOK, Row
  <2>5. CASE b.id # i
    BY <2>3, <2>4, <2>5 DEF TypeOK
  <2>6. CASE b.id = i
    <3>1. rows'[i].content = Apply(b.req, rows[i].content)
      BY <2>2, <2>3, <2>6 DEF TypeOK
    <3>2. /\ JobAccepts(b.req, rows[i].content)
          /\ rows'[i].content = JobApply(b.req, rows[i].content)
          /\ rows[i].content # NoJob
      BY <2>2, <2>4, <2>6, <3>1, JobsTableAssumption
    <3>3. QED
      BY <2>4, <2>6, <3>2
  <2>7. QED
    BY <2>5, <2>6
<1>3. ASSUME NEW g \in Handlers, NEW k \in Ids, NEW q \in Requests, Read(g, k, q)
      PROVE  rows'[i] = rows[i]
  BY <1>3 DEF Read
<1>4. ASSUME NEW g \in Handlers, Conflict(g) PROVE rows'[i] = rows[i]
  BY <1>4 DEF Conflict
<1>5. CASE UNCHANGED vars
  BY <1>5 DEF vars
<1>6. QED
  BY <1>1, <1>2, <1>3, <1>4, <1>5 DEF Next

\* QueuedAction "is only used when the state is JobStateQueued": whatever
\* handlers of the server overlap, a job has a queued action exactly while it
\* is queued.
THEOREM ActionIffQueuedHolds == Spec => []ActionIffQueued
<1>1. Init => ActionIffQueued
  <2> SUFFICES ASSUME Init PROVE ActionIffQueued
    OBVIOUS
  <2>1. \A i \in Ids : rows[i] = [content |-> Absent, version |-> 0]
    BY DEF Init
  <2>2. ASSUME NEW i \in Ids PROVE rows[i].content = Absent
    <3>1. rows[i] = [content |-> Absent, version |-> 0]
      BY <2>1
    <3>2. QED
      BY <3>1
  <2>3. QED
    BY <2>2 DEF ActionIffQueued
<1>2. IInv /\ ActionIffQueued /\ [Next]_vars => ActionIffQueued'
  <2> SUFFICES ASSUME IInv, ActionIffQueued, [Next]_vars, NEW i \in Ids,
                      rows'[i].content # Absent
               PROVE  ActionFits(rows'[i].content)
    BY DEF ActionIffQueued, ActionFits
  <2>1. rows[i].content # Absent => ActionFits(rows[i].content)
    BY DEF ActionIffQueued, ActionFits
  <2>2. CASE rows'[i] = rows[i]
    BY <2>1, <2>2
  <2>3. CASE rows'[i].content = NewJob
    BY <2>3 DEF NewJob, ActionFits
  <2>4. ASSUME NEW q \in JobRequests,
               rows[i].content \in JobRows, rows[i].content # NoJob,
               JobAccepts(q, rows[i].content),
               rows'[i].content = JobApply(q, rows[i].content)
        PROVE  ActionFits(rows'[i].content)
    BY <2>1, <2>4, JobApplyKeeps, JobsTableAssumption
  <2>5. QED
    BY <2>2, <2>3, <2>4, RowSteps
<1>3. QED
  BY <1>1, <1>2, StoreInvariance, PTL DEF Spec

\* No handler of the server, however it overlaps with others, takes a job
\* that has ended back to queued or running, and none makes a job succeed that
\* was not running (the conditional UPDATEs and the checks of UpdateJobPhase).
THEOREM EndedStaysEndedHolds == Spec => EndedStaysEnded
<1> DEFINE Kept == \A i \in Ids : EndKept(rows[i].content, rows'[i].content)
<1>1. IInv /\ ActionIffQueued /\ [Next]_vars => [Kept]_rows
  <2> SUFFICES ASSUME IInv, ActionIffQueued, [Next]_vars, NEW i \in Ids
               PROVE  EndKept(rows[i].content, rows'[i].content)
    OBVIOUS
  <2>1. rows[i].content # Absent => ActionFits(rows[i].content)
    BY DEF ActionIffQueued, ActionFits
  <2>2. CASE rows'[i] = rows[i]
    BY <2>2 DEF EndKept
  <2>3. CASE rows[i].content = NoJob /\ rows'[i].content = NewJob
    <3>1. NoJob.state = "absent" /\ NewJob.state = "queued"
      BY DEF NoJob, NewJob
    <3>2. QED
      BY <2>3, <3>1 DEF EndKept, Terminal
  <2>4. ASSUME NEW q \in JobRequests,
               rows[i].content \in JobRows, rows[i].content # NoJob,
               JobAccepts(q, rows[i].content),
               rows'[i].content = JobApply(q, rows[i].content)
        PROVE  EndKept(rows[i].content, rows'[i].content)
    BY <2>1, <2>4, JobApplyKeeps, JobsTableAssumption
  <2>5. QED
    BY <2>2, <2>3, <2>4, RowSteps
<1>2. Spec => [][Kept]_rows
  BY <1>1, StoreInvariance, ActionIffQueuedHolds, PTL DEF Spec
<1>3. QED
  BY <1>2 DEF EndedStaysEnded, EndKept

=============================================================================
