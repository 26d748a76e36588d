-------------------------- MODULE NotebooksProofs --------------------------
(***************************************************************************)
(* A notebook that is stopped has no pods, one that is deleted no          *)
(* Deployment, none has Deployments in two clusters, and no deletion is    *)
(* undone: for any number of notebooks, clusters, requests and faults.     *)
(***************************************************************************)
EXTENDS Notebooks, TLAPS

\* A notebook at rest: no worker may touch it.
AtRest == {"absent", "stopped", "deleted", "requeued"}

\* CreateNotebook inserts rows that are not there, and a notebook without a
\* row has no Deployment.
AbsentOK ==
    \A n \in Notebooks :
        /\ n \in arriving => nbs[n].state = "absent"
        /\ nbs[n].state = "absent" => \A c \in Clusters : deploy[c][n] = "none"

\* Only the worker of the cluster that the notebook is on has something to do
\* for it, and what it is about to report is true.  x is what there is to do
\* in cluster c for a notebook with row r and Deployment d there.
TodoFits(x, c, r, d, l) ==
    /\ x # "" => r.cluster = c /\ r.state \notin AtRest
    /\ x = "STOPPED" => d \notin Live
    /\ l = 0 /\ x \in {"DELETED", "REQUEUED"} => d = "none"

TodoOK ==
    \A c \in Clusters, n \in Notebooks :
        TodoFits(todo[c][n], c, nbs[n], deploy[c][n], lost)

\* The Deployment is on the notebook's cluster; it is gone before the
\* notebook can be moved.
PlaceOK ==
    lost = 0 =>
        \A c \in Clusters, n \in Notebooks :
            /\ deploy[c][n] # "none" => nbs[n].cluster = c
            /\ nbs[n].state = "requeued" => deploy[c][n] = "none"

IInv ==
    /\ TypeOK
    /\ AbsentOK /\ TodoOK /\ PlaceOK
    /\ StoppedHasNoPods /\ DeletedIsGone

-----------------------------------------------------------------------------
\* A notebook that is deleted or going to be.
Going(r) == r.state = "deleted" \/ QueuedFor(r, "deleting")

\* How a request takes a row from r to t: it neither inserts nor removes it;
\* only the report of an end makes it end; it moves only when requeued; and
\* a deletion stays.
Leads(op, r, t) ==
    /\ (t.state = "absent") <=> (r.state = "absent")
    /\ t.state = "stopped" => r.state = "stopped" \/ op = "STOPPED"
    /\ t.state = "deleted" => r.state = "deleted" \/ op = "DELETED"
    /\ t.state = "requeued" => r.state = "requeued" \/ op = "REQUEUED"
    /\ t.cluster = r.cluster \/ r.state = "requeued"
    /\ Going(r) => Going(t)

\* What each request writes.
LEMMA ApplyCases ==
    ASSUME NEW q \in NotebookRequests, NEW r \in NotebookRows
    PROVE  /\ q.op = "StopNotebook" => NotebookApply(q, r) = SetNotebookQueuedAction(r, "stopping")
           /\ q.op = "StartNotebook" => NotebookApply(q, r) = SetNotebookQueuedAction(r, "starting")
           /\ q.op = "DeleteNotebook" => NotebookApply(q, r) = SetNotebookQueuedAction(r, "deleting")
           /\ q.op = "INITIALIZING" =>
                NotebookApply(q, r) = SetNonQueuedStateAndMessage(r, "initializing", q.pulling)
           /\ q.op = "RUNNING" => NotebookApply(q, r) = SetState(r, "running")
           /\ q.op = "STOPPED" =>
                NotebookApply(q, r) = SetNonQueuedStateAndMessage(r, "stopped", q.pulling)
           /\ q.op = "DELETED" =>
                NotebookApply(q, r) = SetNonQueuedStateAndMessage(r, "deleted", q.pulling)
           /\ q.op = "REQUEUED" =>
                NotebookApply(q, r)
                  = UpdateNotebookForRescheduling(r, "requeued", r.action, FALSE, r.cluster)
           /\ q.op = "Requeue" =>
                NotebookApply(q, r)
                  = UpdateNotebookForRescheduling(r, "queued", "requeueing", r.pulling, r.cluster)
           /\ q.op = "Reschedule" =>
                NotebookApply(q, r)
                  = UpdateNotebookForRescheduling(r, "queued", "starting", FALSE, q.cluster)
BY DEF NotebookApply

\* A request that is accepted leads from row to row.
LEMMA ApplyLeads ==
    ASSUME NEW q \in NotebookRequests, NEW r \in NotebookRows,
           r.state # "absent", NotebookAccepts(q, r)
    PROVE  NotebookApply(q, r) \in NotebookRows /\ Leads(q.op, r, NotebookApply(q, r))
<1> DEFINE t == NotebookApply(q, r)
<1> HIDE DEF t
<1>1. /\ q.pulling \in BOOLEAN /\ q.cluster \in Clusters
      /\ r.action \in NotebookActions /\ r.pulling \in BOOLEAN /\ r.cluster \in Clusters
  BY DEF NotebookRequests, NotebookRows
<1>2. /\ "stopping" \in NotebookActions /\ "starting" \in NotebookActions
      /\ "deleting" \in NotebookActions /\ "requeueing" \in NotebookActions
      /\ "queued" \in NotebookStates /\ "initializing" \in NotebookStates
      /\ "running" \in NotebookStates /\ "stopped" \in NotebookStates
      /\ "deleted" \in NotebookStates /\ "requeued" \in NotebookStates
  BY DEF NotebookActions, NotebookStates
<1>queued. \A a \in NotebookActions :
        /\ SetNotebookQueuedAction(r, a) \in NotebookRows
        /\ SetNotebookQueuedAction(r, a).state = "queued"
        /\ SetNotebookQueuedAction(r, a).action = a
        /\ SetNotebookQueuedAction(r, a).cluster = r.cluster
  BY DEF SetNotebookQueuedAction, NotebookRows, NotebookStates
<1>state. \A s \in NotebookStates :
        /\ SetState(r, s) \in NotebookRows
        /\ SetState(r, s).state = s /\ SetState(r, s).cluster = r.cluster
  BY DEF SetState, NotebookRows
<1>nonqueued. \A s \in NotebookStates, p \in BOOLEAN :
        /\ SetNonQueuedStateAndMessage(r, s, p) \in NotebookRows
        /\ SetNonQueuedStateAndMessage(r, s, p).state = s
        /\ SetNonQueuedStateAndMessage(r, s, p).cluster = r.cluster
  BY DEF SetNonQueuedStateAndMessage, NotebookRows, NotebookActions
<1>resched. \A s \in NotebookStates, a \in NotebookActions, p \in BOOLEAN, c \in Clusters :
        /\ UpdateNotebookForRescheduling(r, s, a, p, c) \in NotebookRows
        /\ UpdateNotebookForRescheduling(r, s, a, p, c).state = s
        /\ UpdateNotebookForRescheduling(r, s, a, p, c).cluster = c
  BY DEF UpdateNotebookForRescheduling, NotebookRows
<1>3. CASE q.op \in {"StopNotebook", "StartNotebook"}
  <2>1. \/ t = SetNotebookQueuedAction(r, "stopping")
        \/ t = SetNotebookQueuedAction(r, "starting")
    BY <1>3, ApplyCases DEF t
  <2>2. t \in NotebookRows /\ t.state = "queued" /\ t.cluster = r.cluster
    BY <1>2, <2>1, <1>queued
  <2>3. ~Going(r)
    BY <1>3 DEF NotebookAccepts, CanStop, CanStart, Going, QueuedFor
  <2>4. QED
    BY <2>2, <2>3 DEF t, Leads
<1>4. CASE q.op = "DeleteNotebook"
  <2>1. t = SetNotebookQueuedAction(r, "deleting")
    BY <1>4, ApplyCases DEF t
  <2>2. /\ t \in NotebookRows /\ t.state = "queued" /\ t.action = "deleting"
        /\ t.cluster = r.cluster
    BY <1>2, <2>1, <1>queued
  <2>3. QED
    BY <2>2 DEF t, Leads, Going, QueuedFor
<1>5. CASE q.op \in {"INITIALIZING", "RUNNING"}
  <2>1. \/ t = SetNonQueuedStateAndMessage(r, "initializing", q.pulling)
        \/ t = SetState(r, "running")
    BY <1>5, ApplyCases DEF t
  <2>2. t \in NotebookRows /\ t.state \in {"initializing", "running"} /\ t.cluster = r.cluster
    BY <1>1, <1>2, <2>1, <1>state, <1>nonqueued
  <2>3. ~Going(r)
    BY <1>5 DEF NotebookAccepts, Going, QueuedFor
  <2>4. QED
    BY <2>2, <2>3 DEF t, Leads
<1>6. CASE q.op = "STOPPED"
  <2>1. t = SetNonQueuedStateAndMessage(r, "stopped", q.pulling)
    BY <1>6, ApplyCases DEF t
  <2>2. t \in NotebookRows /\ t.state = "stopped" /\ t.cluster = r.cluster
    BY <1>1, <1>2, <2>1, <1>nonqueued
  <2>3. ~Going(r)
    BY <1>6 DEF NotebookAccepts, Going, QueuedFor
  <2>4. QED
    BY <1>6, <2>2, <2>3 DEF t, Leads
<1>7. CASE q.op = "DELETED"
  <2>1. t = SetNonQueuedStateAndMessage(r, "deleted", q.pulling)
    BY <1>7, ApplyCases DEF t
  <2>2. t \in NotebookRows /\ t.state = "deleted" /\ t.cluster = r.cluster
    BY <1>1, <1>2, <2>1, <1>nonqueued
  <2>3. QED
    BY <1>7, <2>2 DEF t, Leads, Going
<1>8. CASE q.op = "REQUEUED"
  <2>1. t = UpdateNotebookForRescheduling(r, "requeued", r.action, FALSE, r.cluster)
    BY <1>8, ApplyCases DEF t
  <2>2. t \in NotebookRows /\ t.state = "requeued" /\ t.cluster = r.cluster
    BY <1>1, <1>2, <2>1 DEF UpdateNotebookForRescheduling, NotebookRows
  <2>3. ~Going(r)
    BY <1>8 DEF NotebookAccepts, Going, QueuedFor
  <2>4. QED
    BY <1>8, <2>2, <2>3 DEF t, Leads
<1>9. CASE q.op = "Requeue"
  <2>1. t = UpdateNotebookForRescheduling(r, "queued", "requeueing", r.pulling, r.cluster)
    BY <1>9, ApplyCases DEF t
  <2>2. t \in NotebookRows /\ t.state = "queued" /\ t.cluster = r.cluster
    BY <1>1, <1>2, <2>1, <1>resched
  <2>3. ~Going(r)
    BY <1>9 DEF NotebookAccepts, Going, QueuedFor
  <2>4. QED
    BY <2>2, <2>3 DEF t, Leads
<1>10. CASE q.op = "Reschedule"
  <2>1. t = UpdateNotebookForRescheduling(r, "queued", "starting", FALSE, q.cluster)
    BY <1>10, ApplyCases DEF t
  <2>2. t \in NotebookRows /\ t.state = "queued" /\ t.cluster = q.cluster
    BY <1>1, <1>2, <2>1 DEF UpdateNotebookForRescheduling, NotebookRows
  <2>3. r.state = "requeued"
    BY <1>10 DEF NotebookAccepts, CanMove
  <2>4. QED
    BY <2>2, <2>3 DEF t, Leads, Going, QueuedFor
<1>11. QED
  BY <1>3, <1>4, <1>5, <1>6, <1>7, <1>8, <1>9, <1>10 DEF NotebookRequests, Reports

\* The table after a request that is served, or answered without a write.
LEMMA ServeLeads ==
    ASSUME TypeOK, NEW n \in Notebooks, NEW q \in NotebookRequests,
           Serve(n, q) \/ UNCHANGED nbs
    PROVE  /\ nbs' \in [Notebooks -> NotebookRows]
           /\ Leads(q.op, nbs[n], nbs'[n])
           /\ \A m \in Notebooks : m # n => nbs'[m] = nbs[m]
<1>1. CASE UNCHANGED nbs
  BY <1>1 DEF TypeOK, Leads
<1>2. CASE Serve(n, q)
  <2>1. nbs \in [Notebooks -> NotebookRows] /\ nbs[n] \in NotebookRows
    BY DEF TypeOK
  <2> DEFINE t == NotebookApply(q, nbs[n])
  <2>2. nbs[n].state # "absent" /\ NotebookAccepts(q, nbs[n]) /\ nbs' = [nbs EXCEPT ![n] = t]
    BY <1>2 DEF Serve
  <2>3. t \in NotebookRows /\ Leads(q.op, nbs[n], t)
    BY <2>1, <2>2, ApplyLeads
  <2> HIDE DEF t
  <2>4. QED
    BY <2>1, <2>2, <2>3
<1>3. QED
  BY <1>1, <1>2

\* A request that does not end a notebook keeps the invariant.
LEMMA QuietIInv ==
    ASSUME IInv, NEW n \in Notebooks, NEW q \in NotebookRequests,
           Serve(n, q) \/ UNCHANGED nbs, q.op \notin {"STOPPED", "DELETED", "REQUEUED"},
           UNCHANGED <<arriving, deploy, todo, lost>>,
           seen' \in [Clusters -> [nb : Notebooks, obs : {"pulling", "ready"}] \cup {NothingSeen}],
           workq' \in [Clusters -> SUBSET Notebooks],
           ops' \in 0 .. MaxOps, faults' \in 0 .. MaxFaults
    PROVE  IInv'
<1> USE DEF IInv
<1>1. /\ nbs' \in [Notebooks -> NotebookRows]
      /\ Leads(q.op, nbs[n], nbs'[n])
      /\ \A m \in Notebooks : m # n => nbs'[m] = nbs[m]
  BY ServeLeads
<1>2. \A m \in Notebooks :
        /\ nbs'[m].state \in AtRest => nbs'[m].state = nbs[m].state
        /\ nbs[m].state = "absent" => nbs'[m].state = "absent"
        /\ nbs'[m].cluster = nbs[m].cluster \/ nbs[m].state = "requeued"
  <2>1. /\ nbs'[n].state \in AtRest => nbs'[n].state = nbs[n].state
        /\ nbs[n].state = "absent" => nbs'[n].state = "absent"
        /\ nbs'[n].cluster = nbs[n].cluster \/ nbs[n].state = "requeued"
    BY <1>1 DEF Leads, AtRest
  <2>2. QED
    BY <1>1, <2>1
<1>3. TypeOK'
  BY <1>1 DEF TypeOK
<1>4. AbsentOK'
  BY <1>2 DEF AbsentOK, AtRest
<1>5. TodoOK'
  <2> SUFFICES ASSUME NEW c \in Clusters, NEW m \in Notebooks
               PROVE  TodoFits(todo[c][m], c, nbs'[m], deploy[c][m], lost)
    BY DEF TodoOK
  <2>1. TodoFits(todo[c][m], c, nbs[m], deploy[c][m], lost)
    BY DEF TodoOK
  <2>2. QED
    BY <1>2, <2>1 DEF TodoFits, AtRest
<1>6. PlaceOK'
  BY <1>2 DEF PlaceOK, AtRest
<1>7. StoppedHasNoPods' /\ DeletedIsGone'
  BY <1>2 DEF StoppedHasNoPods, DeletedIsGone, AtRest
<1>8. QED
  BY <1>3, <1>4, <1>5, <1>6, <1>7

-----------------------------------------------------------------------------
\* The initial state.
LEMMA InitIInv == Init => IInv
<1> SUFFICES ASSUME Init PROVE IInv
  OBVIOUS
<1>1. PICK c0 \in Clusters : nbs = [n \in Notebooks |-> NoNotebook(c0)]
  BY DEF Init
<1>2. NoNotebook(c0) \in NotebookRows /\ NoNotebook(c0).state = "absent"
  BY DEF NoNotebook, NotebookRows, NotebookActions
<1>3. nbs \in [Notebooks -> NotebookRows] /\ \A n \in Notebooks : nbs[n].state = "absent"
  BY <1>1, <1>2
<1>4. /\ deploy \in [Clusters -> [Notebooks -> Deployments]]
      /\ \A c \in Clusters, n \in Notebooks : deploy[c][n] = "none"
  BY DEF Init, Deployments
<1>5. /\ todo \in [Clusters -> [Notebooks -> NotebookActions \cup Reports]]
      /\ \A c \in Clusters, n \in Notebooks : todo[c][n] = ""
  BY DEF Init, Nothing, NotebookActions
<1>6. TypeOK
  <2>1. ops \in 0 .. MaxOps /\ faults \in 0 .. MaxFaults /\ lost \in 0 .. MaxLostDeletes
    BY NotebooksAssumption DEF Init
  <2>2. QED
    BY <1>3, <1>4, <1>5, <2>1 DEF Init, TypeOK
<1>7. AbsentOK /\ TodoOK /\ PlaceOK /\ StoppedHasNoPods /\ DeletedIsGone
  BY <1>3, <1>4, <1>5 DEF Init, AbsentOK, TodoOK, TodoFits, PlaceOK, StoppedHasNoPods, DeletedIsGone, Live
<1>8. QED
  BY <1>6, <1>7 DEF IInv

\* CreateNotebook, which inserts a row that is not there.
LEMMA CreateIInv ==
    ASSUME IInv, NEW n \in Notebooks, CheckName(n) \/ InsertNotebook(n)
    PROVE  IInv'
<1> USE DEF IInv
<1>1. CASE CheckName(n)
  <2>1. TypeOK'
    BY <1>1 DEF CheckName, TypeOK, cluster, budgets
  <2>2. AbsentOK'
    BY <1>1 DEF CheckName, AbsentOK, cluster
  <2>3. TodoOK' /\ PlaceOK' /\ StoppedHasNoPods' /\ DeletedIsGone'
    <3>1. UNCHANGED <<nbs, deploy, todo, lost>>
      BY <1>1 DEF CheckName, cluster, budgets
    <3>2. TodoOK'
      BY <3>1 DEF TodoOK
    <3>3. PlaceOK'
      BY <3>1 DEF PlaceOK
    <3>4. StoppedHasNoPods' /\ DeletedIsGone'
      BY <3>1 DEF StoppedHasNoPods, DeletedIsGone
    <3>5. QED
      BY <3>2, <3>3, <3>4
  <2>4. QED
    BY <2>1, <2>2, <2>3
<1>2. CASE InsertNotebook(n)
  <2>1. PICK c \in Clusters : nbs' = [nbs EXCEPT ![n] = NewNotebook(c)]
    BY <1>2 DEF InsertNotebook
  <2>2. NewNotebook(c) \in NotebookRows /\ NewNotebook(c).state = "queued"
    BY DEF NewNotebook, NotebookRows, NotebookStates, NotebookActions
  <2>3. /\ nbs' \in [Notebooks -> NotebookRows]
        /\ nbs'[n].state = "queued" /\ \A m \in Notebooks : m # n => nbs'[m] = nbs[m]
    BY <2>1, <2>2 DEF TypeOK
  <2>4. nbs[n].state = "absent" /\ \A b \in Clusters : deploy[b][n] = "none"
    BY <1>2 DEF InsertNotebook, AbsentOK
  <2>5. \A b \in Clusters : todo[b][n] = ""
    BY <2>4 DEF TodoOK, TodoFits, AtRest
  <2>6. UNCHANGED <<deploy, todo, seen, workq, ops, faults, lost>> /\ arriving' = arriving \ {n}
    BY <1>2 DEF InsertNotebook, cluster, budgets
  <2>7. TypeOK'
    BY <2>3, <2>6 DEF TypeOK
  <2>8. AbsentOK'
    BY <2>3, <2>6 DEF AbsentOK
  <2>9. TodoOK'
    <3> SUFFICES ASSUME NEW b \in Clusters, NEW m \in Notebooks
                 PROVE  TodoFits(todo[b][m], b, nbs'[m], deploy[b][m], lost)
      BY <2>6 DEF TodoOK
    <3>1. CASE m = n
      BY <2>5, <3>1 DEF TodoFits
    <3>2. CASE m # n
      BY <2>3, <3>2 DEF TodoOK
    <3>3. QED
      BY <3>1, <3>2
  <2>10. PlaceOK'
    BY <2>3, <2>4, <2>6 DEF PlaceOK
  <2>11. StoppedHasNoPods' /\ DeletedIsGone'
    BY <2>3, <2>6 DEF StoppedHasNoPods, DeletedIsGone
  <2>12. QED
    BY <2>7, <2>8, <2>9, <2>10, <2>11
<1>3. QED
  BY <1>1, <1>2

\* The user API and the rescheduler.
LEMMA ServerIInv ==
    ASSUME IInv, NEW n \in Notebooks, UserRequest(n) \/ RequeueStuck(n) \/ Reschedule(n)
    PROVE  IInv'
<1>1. nbs[n].cluster \in Clusters
  BY DEF IInv, TypeOK, NotebookRows
<1>2. PICK op \in {"StopNotebook", "StartNotebook", "DeleteNotebook", "Requeue", "Reschedule"},
           c \in Clusters : Serve(n, Request(op, FALSE, c))
  BY <1>1 DEF UserRequest, RequeueStuck, Reschedule
<1>3. /\ Request(op, FALSE, c) \in NotebookRequests
      /\ Request(op, FALSE, c).op \notin {"STOPPED", "DELETED", "REQUEUED"}
  BY DEF Request, NotebookRequests
<1>4. /\ UNCHANGED <<arriving, deploy, todo, seen, workq, faults, lost>>
      /\ ops' = ops \/ (ops < MaxOps /\ ops' = ops + 1)
  BY DEF UserRequest, RequeueStuck, Reschedule, cluster, budgets
<1>5. ops \in 0 .. MaxOps /\ MaxOps \in Nat
  BY NotebooksAssumption DEF IInv, TypeOK
<1>6. ops' \in 0 .. MaxOps
  BY <1>4, <1>5
<1>7. QED
  BY <1>2, <1>3, <1>4, <1>6, QuietIInv DEF IInv, TypeOK

-----------------------------------------------------------------------------
\* A Deployment changes.
LEMMA SetDeploymentFacts ==
    ASSUME TypeOK, NEW c \in Clusters, NEW n \in Notebooks, NEW d \in Deployments,
           SetDeployment(c, n, d)
    PROVE  /\ deploy' \in [Clusters -> [Notebooks -> Deployments]]
           /\ workq' \in [Clusters -> SUBSET Notebooks]
           /\ deploy'[c][n] = d
           /\ \A b \in Clusters, m \in Notebooks :
                b # c \/ m # n => deploy'[b][m] = deploy[b][m]
BY DEF TypeOK, SetDeployment

\* A pass of a worker that fails leaves it nothing to do.
LEMMA PassFailsIInv ==
    ASSUME IInv, NEW c \in Clusters, PassFails(c),
           UNCHANGED <<nbs, arriving, deploy, ops, lost>>, faults' \in 0 .. MaxFaults
    PROVE  IInv'
<1> USE DEF IInv
<1>1. /\ todo' \in [Clusters -> [Notebooks -> NotebookActions \cup Reports]]
      /\ \A b \in Clusters, n \in Notebooks : todo'[b][n] = "" \/ todo'[b][n] = todo[b][n]
  BY DEF PassFails, Nothing, NotebookActions, TypeOK
<1>2. /\ seen' \in [Clusters -> [nb : Notebooks, obs : {"pulling", "ready"}] \cup {NothingSeen}]
      /\ workq' \in [Clusters -> SUBSET Notebooks]
  BY DEF PassFails, TypeOK
<1>3. TypeOK'
  BY <1>1, <1>2 DEF TypeOK
<1>4. AbsentOK'
  BY DEF AbsentOK
<1>5. TodoOK'
  <2> SUFFICES ASSUME NEW b \in Clusters, NEW n \in Notebooks
               PROVE  TodoFits(todo'[b][n], b, nbs[n], deploy[b][n], lost)
    BY DEF TodoOK
  <2>1. TodoFits(todo[b][n], b, nbs[n], deploy[b][n], lost)
    BY DEF TodoOK
  <2>2. TodoFits("", b, nbs[n], deploy[b][n], lost)
    BY DEF TodoFits
  <2>3. QED
    BY <1>1, <2>1, <2>2
<1>6. PlaceOK'
  BY DEF PlaceOK
<1>7. StoppedHasNoPods' /\ DeletedIsGone'
  BY DEF StoppedHasNoPods, DeletedIsGone
<1>8. QED
  BY <1>3, <1>4, <1>5, <1>6, <1>7

\* A worker lists what is queued for its cluster.
LEMMA ListIInv ==
    ASSUME IInv, NEW c \in Clusters, ListQueuedInternalNotebooks(c)
    PROVE  IInv'
<1> USE DEF IInv
<1>1. UNCHANGED <<nbs, arriving, deploy, seen, workq, ops, faults, lost>>
  BY DEF ListQueuedInternalNotebooks, budgets
<1>2. \A n \in Notebooks : nbs[n].action \in NotebookActions
  BY DEF TypeOK, NotebookRows
<1> DEFINE listed == [n \in Notebooks |-> IF nbs[n].state = "queued" /\ nbs[n].cluster = c
                                         THEN nbs[n].action ELSE ""]
<1>3. /\ listed \in [Notebooks -> NotebookActions]
      /\ \A n \in Notebooks : listed[n] # "" => nbs[n].state = "queued" /\ nbs[n].cluster = c
  BY <1>2 DEF NotebookActions
<1>4. todo' = [todo EXCEPT ![c] = listed]
  BY DEF ListQueuedInternalNotebooks
<1> HIDE DEF listed
<1>5. /\ todo' \in [Clusters -> [Notebooks -> NotebookActions \cup Reports]]
      /\ \A n \in Notebooks : todo'[c][n] = listed[n]
      /\ \A b \in Clusters, n \in Notebooks : b # c => todo'[b][n] = todo[b][n]
  BY <1>3, <1>4 DEF TypeOK
<1>6. TypeOK'
  BY <1>1, <1>5 DEF TypeOK
<1>7. TodoOK'
  <2> SUFFICES ASSUME NEW b \in Clusters, NEW n \in Notebooks
               PROVE  TodoFits(todo'[b][n], b, nbs[n], deploy[b][n], lost)
    BY <1>1 DEF TodoOK
  <2>1. CASE b = c
    <3>1. todo'[b][n] \in NotebookActions
      BY <1>3, <1>5, <2>1
    <3>2. todo'[b][n] # "" => nbs[n].cluster = b /\ nbs[n].state \notin AtRest
      BY <1>3, <1>5, <2>1 DEF AtRest
    <3>3. QED
      BY <3>1, <3>2 DEF TodoFits, NotebookActions
  <2>2. CASE b # c
    BY <1>5, <2>2 DEF TodoOK
  <2>3. QED
    BY <2>1, <2>2
<1>8. AbsentOK' /\ PlaceOK'
  BY <1>1 DEF AbsentOK, PlaceOK
<1>9. StoppedHasNoPods' /\ DeletedIsGone'
  BY <1>1 DEF StoppedHasNoPods, DeletedIsGone
<1>10. QED
  BY <1>6, <1>7, <1>8, <1>9

\* A worker has changed a Deployment, or failed to, and is about to report x.
LEMMA ActedIInv ==
    ASSUME IInv, NEW c \in Clusters, NEW n \in Notebooks, NEW x \in Reports,
           todo[c][n] # "", todo' = [todo EXCEPT ![c][n] = x],
           UNCHANGED <<nbs, arriving, seen, ops, faults>>,
           lost' \in 0 .. MaxLostDeletes, lost' = 0 => lost = 0,
           deploy' \in [Clusters -> [Notebooks -> Deployments]],
           workq' \in [Clusters -> SUBSET Notebooks],
           \A b \in Clusters, m \in Notebooks :
                b # c \/ m # n => deploy'[b][m] = deploy[b][m],
           x = "STOPPED" => deploy'[c][n] \notin Live,
           lost' = 0 /\ x \in {"DELETED", "REQUEUED"} => deploy'[c][n] = "none"
    PROVE  IInv'
<1> USE DEF IInv
<1>1. nbs[n].cluster = c /\ nbs[n].state \notin AtRest
  BY DEF TodoOK, TodoFits
<1>2. /\ todo' \in [Clusters -> [Notebooks -> NotebookActions \cup Reports]]
      /\ todo'[c][n] = x
      /\ \A b \in Clusters, m \in Notebooks : b # c \/ m # n => todo'[b][m] = todo[b][m]
  BY DEF TypeOK
<1>3. TypeOK'
  BY <1>2 DEF TypeOK
<1>rest. \A m \in Notebooks : nbs[m].state \in AtRest =>
            m # n /\ \A b \in Clusters : deploy'[b][m] = deploy[b][m]
  BY <1>1
<1>4. AbsentOK'
  <2>1. "absent" \in AtRest
    BY DEF AtRest
  <2> SUFFICES ASSUME NEW m \in Notebooks
               PROVE  /\ m \in arriving => nbs[m].state = "absent"
                      /\ nbs[m].state = "absent" => \A b \in Clusters : deploy'[b][m] = "none"
    BY DEF AbsentOK
  <2>2. m \in arriving => nbs[m].state = "absent"
    BY DEF AbsentOK
  <2>3. nbs[m].state = "absent" => \A b \in Clusters : deploy[b][m] = "none"
    BY DEF AbsentOK
  <2>4. QED
    BY <1>rest, <2>1, <2>2, <2>3
<1>5. TodoOK'
  <2> SUFFICES ASSUME NEW b \in Clusters, NEW m \in Notebooks
               PROVE  TodoFits(todo'[b][m], b, nbs[m], deploy'[b][m], lost')
    BY DEF TodoOK
  <2>1. TodoFits(todo[b][m], b, nbs[m], deploy[b][m], lost)
    BY DEF TodoOK
  <2>2. CASE b = c /\ m = n
    BY <1>1, <1>2, <2>2 DEF TodoFits
  <2>3. CASE b # c \/ m # n
    <3>1. todo'[b][m] = todo[b][m] /\ deploy'[b][m] = deploy[b][m]
      BY <1>2, <2>3
    <3>2. QED
      BY <2>1, <3>1 DEF TodoFits
  <2>4. QED
    BY <2>2, <2>3
<1>6. PlaceOK'
  <2> SUFFICES ASSUME lost' = 0, NEW b \in Clusters, NEW m \in Notebooks
               PROVE  /\ deploy'[b][m] # "none" => nbs[m].cluster = b
                      /\ nbs[m].state = "requeued" => deploy'[b][m] = "none"
    BY DEF PlaceOK
  <2>1. /\ deploy[b][m] # "none" => nbs[m].cluster = b
        /\ nbs[m].state = "requeued" => deploy[b][m] = "none"
    BY DEF PlaceOK
  <2>2. CASE b = c /\ m = n
    BY <1>1, <2>2 DEF AtRest
  <2>3. CASE b # c \/ m # n
    BY <2>1, <2>3
  <2>4. QED
    BY <2>2, <2>3
<1>7. StoppedHasNoPods' /\ DeletedIsGone'
  <2>1. "stopped" \in AtRest /\ "deleted" \in AtRest
    BY DEF AtRest
  <2>2. StoppedHasNoPods'
    BY <1>rest, <2>1 DEF StoppedHasNoPods
  <2>3. DeletedIsGone'
    BY <1>rest, <2>1 DEF DeletedIsGone
  <2>4. QED
    BY <2>2, <2>3
<1>8. QED
  BY <1>3, <1>4, <1>5, <1>6, <1>7

\* The worker's calls to the API server.
LEMMA WorkerCallsIInv ==
    ASSUME IInv, NEW c \in Clusters, NEW n \in Notebooks,
           CreateDeployment(c, n) \/ StopDeployment(c, n) \/ DeleteDeployment(c, n)
    PROVE  IInv'
<1>1. /\ deploy \in [Clusters -> [Notebooks -> Deployments]]
      /\ workq \in [Clusters -> SUBSET Notebooks]
      /\ todo \in [Clusters -> [Notebooks -> NotebookActions \cup Reports]]
      /\ lost \in 0 .. MaxLostDeletes /\ MaxLostDeletes \in Nat /\ TypeOK
  BY NotebooksAssumption DEF IInv, TypeOK
<1>2. "none" \in Deployments /\ "zero" \in Deployments /\ "starting" \in Deployments
  BY DEF Deployments
<1>report. /\ ReportOf["starting"] = "INITIALIZING" /\ ReportOf["stopping"] = "STOPPED"
           /\ ReportOf["deleting"] = "DELETED" /\ ReportOf["requeueing"] = "REQUEUED"
  BY DEF ReportOf
<1>done. Done(c, n) => /\ todo' = [todo EXCEPT ![c][n] = ReportOf[todo[c][n]]]
                       /\ UNCHANGED <<nbs, arriving, seen, ops, faults>>
  BY <1>1 DEF Done
<1>3. CASE CreateDeployment(c, n)
  <2>1. /\ todo[c][n] = "starting" /\ todo' = [todo EXCEPT ![c][n] = "INITIALIZING"]
        /\ UNCHANGED <<nbs, arriving, seen, ops, faults, lost>>
    BY <1>3, <1>report, <1>done DEF CreateDeployment, TakesUp
  <2>2. PICK d \in Deployments : SetDeployment(c, n, d)
    BY <1>1, <1>2, <1>3 DEF CreateDeployment
  <2>3. "INITIALIZING" \in Reports
    BY DEF Reports
  <2>4. QED
    BY <1>1, <2>1, <2>2, <2>3, SetDeploymentFacts, ActedIInv
<1>4. CASE StopDeployment(c, n)
  <2>1. todo[c][n] = "stopping" /\ UNCHANGED lost
    BY <1>4 DEF StopDeployment, TakesUp
  <2>2. CASE PassFails(c) /\ UNCHANGED <<nbs, arriving, deploy, ops, faults>>
    BY <2>1, <2>2, PassFailsIInv DEF IInv, TypeOK
  <2>3. CASE SetDeployment(c, n, "zero") /\ Done(c, n)
    <3>1. /\ todo' = [todo EXCEPT ![c][n] = "STOPPED"]
          /\ UNCHANGED <<nbs, arriving, seen, ops, faults>>
      BY <2>1, <2>3, <1>report, <1>done
    <3>2. "STOPPED" \in Reports /\ "zero" \notin Live
      BY DEF Reports, Live
    <3>3. QED
      <4>1. /\ deploy' \in [Clusters -> [Notebooks -> Deployments]]
            /\ workq' \in [Clusters -> SUBSET Notebooks] /\ deploy'[c][n] = "zero"
            /\ \A b \in Clusters, m \in Notebooks :
                 b # c \/ m # n => deploy'[b][m] = deploy[b][m]
        BY <1>1, <1>2, <2>3, SetDeploymentFacts
      <4>2. QED
        BY <1>1, <2>1, <3>1, <3>2, <4>1, ActedIInv
  <2>4. QED
    BY <1>4, <2>2, <2>3 DEF StopDeployment
<1>5. CASE DeleteDeployment(c, n)
  <2>1. PICK x \in {"DELETED", "REQUEUED"} :
          /\ todo[c][n] # "" /\ todo' = [todo EXCEPT ![c][n] = x]
          /\ UNCHANGED <<nbs, arriving, seen, ops, faults>>
    BY <1>5, <1>report, <1>done DEF DeleteDeployment, TakesUp
  <2>2. x \in Reports /\ x # "STOPPED"
    BY DEF Reports
  <2>3. CASE SetDeployment(c, n, "none") /\ UNCHANGED lost
    <3>1. /\ deploy' \in [Clusters -> [Notebooks -> Deployments]]
          /\ workq' \in [Clusters -> SUBSET Notebooks] /\ deploy'[c][n] = "none"
          /\ \A b \in Clusters, m \in Notebooks :
               b # c \/ m # n => deploy'[b][m] = deploy[b][m]
      BY <1>1, <1>2, <2>3, SetDeploymentFacts
    <3>2. QED
      BY <1>1, <2>1, <2>2, <2>3, <3>1, ActedIInv
  <2>4. CASE lost < MaxLostDeletes /\ lost' = lost + 1 /\ UNCHANGED <<deploy, workq>>
    <3>1. lost' \in 0 .. MaxLostDeletes /\ lost' # 0
      BY <1>1, <2>4
    <3>2. QED
      BY <1>1, <2>1, <2>2, <2>4, <3>1, ActedIInv
  <2>5. QED
    BY <1>5, <2>3, <2>4 DEF DeleteDeployment
<1>6. QED
  BY <1>3, <1>4, <1>5

\* A worker reports what it did: only then does a notebook come to rest, and
\* what the row says is so in every cluster.
LEMMA ReportActionIInv ==
    ASSUME IInv, NEW c \in Clusters, NEW n \in Notebooks, ReportAction(c, n)
    PROVE  IInv'
<1> USE DEF IInv
<1> DEFINE x == todo[c][n]
           q == Request(x, FALSE, c)
<1>1. x \in Reports /\ UNCHANGED <<arriving, deploy, ops, faults, lost>>
  BY DEF ReportAction, budgets
<1>2. CASE PassFails(c) /\ UNCHANGED nbs
  BY <1>1, <1>2, PassFailsIInv DEF TypeOK
<1>3. CASE Records(n, q) /\ todo' = [todo EXCEPT ![c][n] = ""] /\ UNCHANGED <<seen, workq>>
  <2>1. q \in NotebookRequests /\ q.op = x
    BY <1>1 DEF Request, NotebookRequests
  <2>2. Serve(n, q) \/ UNCHANGED nbs
    BY <1>3 DEF Records
  <2>3. /\ nbs' \in [Notebooks -> NotebookRows] /\ Leads(x, nbs[n], nbs'[n])
        /\ \A m \in Notebooks : m # n => nbs'[m] = nbs[m]
    BY <2>1, <2>2, ServeLeads
  <2>4. TodoFits(x, c, nbs[n], deploy[c][n], lost) /\ x # ""
    BY <1>1 DEF TodoOK, Reports
  <2>5. nbs[n].cluster = c /\ nbs[n].state \notin AtRest
    BY <2>4 DEF TodoFits
  <2>6. /\ todo' \in [Clusters -> [Notebooks -> NotebookActions \cup Reports]]
        /\ todo'[c][n] = ""
        /\ \A b \in Clusters, m \in Notebooks : b # c \/ m # n => todo'[b][m] = todo[b][m]
    BY <1>3 DEF TypeOK, NotebookActions
  <2>7. nbs'[n].cluster = c /\ nbs'[n].state # "absent"
    BY <2>3, <2>5 DEF Leads, AtRest
  <2>8. /\ nbs'[n].state = "stopped" => x = "STOPPED"
        /\ nbs'[n].state = "deleted" => x = "DELETED"
        /\ nbs'[n].state = "requeued" => x = "REQUEUED"
    BY <2>3, <2>5 DEF Leads, AtRest
  <2>9. lost = 0 => \A b \in Clusters : b # c => deploy[b][n] = "none"
    BY <2>5 DEF PlaceOK
  <2>10. /\ x = "STOPPED" => deploy[c][n] \notin Live
         /\ lost = 0 /\ x \in {"DELETED", "REQUEUED"} => deploy[c][n] = "none"
    BY <2>4 DEF TodoFits
  <2> HIDE DEF x
  <2>11. TypeOK'
    BY <1>1, <1>3, <2>3, <2>6 DEF TypeOK
  <2>12. AbsentOK'
    <3>1. nbs[n].state # "absent"
      BY <2>5 DEF AtRest
    <3>2. QED
      BY <1>1, <2>3, <2>7, <3>1 DEF AbsentOK
  <2>13. TodoOK'
    <3> SUFFICES ASSUME NEW b \in Clusters, NEW m \in Notebooks
                 PROVE  TodoFits(todo'[b][m], b, nbs'[m], deploy[b][m], lost)
      BY <1>1 DEF TodoOK
    <3>1. CASE m = n
      <4>1. b # c => todo[b][n] = ""
        BY <2>5 DEF TodoOK, TodoFits
      <4>2. todo'[b][m] = ""
        BY <2>6, <3>1, <4>1
      <4>3. QED
        BY <4>2 DEF TodoFits
    <3>2. CASE m # n
      BY <2>3, <2>6, <3>2 DEF TodoOK
    <3>3. QED
      BY <3>1, <3>2
  <2>14. PlaceOK'
    <3> SUFFICES ASSUME lost = 0, NEW b \in Clusters, NEW m \in Notebooks
                 PROVE  /\ deploy[b][m] # "none" => nbs'[m].cluster = b
                        /\ nbs'[m].state = "requeued" => deploy[b][m] = "none"
      BY <1>1 DEF PlaceOK
    <3>1. CASE m = n
      BY <2>7, <2>8, <2>9, <2>10, <3>1
    <3>2. CASE m # n
      BY <2>3, <3>2 DEF PlaceOK
    <3>3. QED
      BY <3>1, <3>2
  <2>15. StoppedHasNoPods'
    <3> SUFFICES ASSUME lost = 0, NEW m \in Notebooks, NEW b \in Clusters,
                        nbs'[m].state = "stopped"
                 PROVE  deploy[b][m] \notin Live
      BY <1>1 DEF StoppedHasNoPods
    <3>1. "none" \notin Live
      BY DEF Live
    <3>2. CASE m = n
      BY <2>8, <2>9, <2>10, <3>1, <3>2
    <3>3. CASE m # n
      BY <2>3, <3>3 DEF StoppedHasNoPods
    <3>4. QED
      BY <3>2, <3>3
  <2>16. DeletedIsGone'
    <3> SUFFICES ASSUME lost = 0, NEW m \in Notebooks, NEW b \in Clusters,
                        nbs'[m].state = "deleted"
                 PROVE  deploy[b][m] = "none"
      BY <1>1 DEF DeletedIsGone
    <3>1. CASE m = n
      BY <2>8, <2>9, <2>10, <3>1
    <3>2. CASE m # n
      BY <2>3, <3>2 DEF DeletedIsGone
    <3>3. QED
      BY <3>1, <3>2
  <2>17. QED
    BY <2>11, <2>12, <2>13, <2>14, <2>15, <2>16
<1>4. QED
  BY <1>2, <1>3 DEF ReportAction

-----------------------------------------------------------------------------
\* The reconcilers: what they report never brings a notebook to rest.
LEMMA ReconcilerIInv ==
    ASSUME IInv, NEW c \in Clusters,
           ReportDeployment(c) \/ AbortReconcile(c) \/ \E n \in Notebooks : GetDeployment(c, n)
    PROVE  IInv'
<1> DEFINE SeenType == [Clusters -> [nb : Notebooks, obs : {"pulling", "ready"}] \cup {NothingSeen}]
<1>1. /\ seen \in SeenType /\ workq \in [Clusters -> SUBSET Notebooks]
      /\ deploy \in [Clusters -> [Notebooks -> Deployments]]
      /\ ops \in 0 .. MaxOps /\ faults \in 0 .. MaxFaults
      /\ MaxFaults \in Nat
  BY NotebooksAssumption DEF IInv, TypeOK
<1>2. seen[c] # NothingSeen => seen[c].nb \in Notebooks
  BY <1>1
<1>3. /\ Request("INITIALIZING", TRUE, c) \in NotebookRequests
      /\ Request("INITIALIZING", TRUE, c).op = "INITIALIZING"
      /\ Request("RUNNING", FALSE, c) \in NotebookRequests
      /\ Request("RUNNING", FALSE, c).op = "RUNNING"
  BY DEF Request, NotebookRequests, Reports
<1>4. CASE ReportDeployment(c)
  <2> DEFINE n == seen[c].nb
             q == Observation(c)
  <2>1. q \in NotebookRequests /\ q.op \notin {"STOPPED", "DELETED", "REQUEUED"}
    BY <1>3 DEF Observation
  <2>2. n \in Notebooks
    BY <1>2, <1>4 DEF ReportDeployment
  <2>3. Serve(n, q) \/ UNCHANGED nbs
    BY <1>4 DEF ReportDeployment, Records
  <2>4. UNCHANGED <<arriving, deploy, todo, ops, faults, lost>>
    BY <1>4 DEF ReportDeployment, budgets
  <2>5. seen' = [seen EXCEPT ![c] = NothingSeen]
        /\ (workq' = workq \/ workq' = [workq EXCEPT ![c] = @ \cup {n}])
    BY <1>4 DEF ReportDeployment, Seen
  <2> HIDE DEF n, q
  <2>6. seen' \in SeenType /\ workq' \in [Clusters -> SUBSET Notebooks]
    BY <1>1, <2>2, <2>5
  <2>7. ops' \in 0 .. MaxOps /\ faults' \in 0 .. MaxFaults
    BY <1>1, <2>4
  <2>8. QED
    BY <2>1, <2>2, <2>3, <2>4, <2>6, <2>7, QuietIInv
<1>5. CASE AbortReconcile(c)
  <2>1. /\ UNCHANGED <<nbs, arriving, deploy, todo, ops, lost>>
        /\ faults < MaxFaults /\ faults' = faults + 1 /\ seen[c] # NothingSeen
        /\ seen' = [seen EXCEPT ![c] = NothingSeen]
        /\ workq' = [workq EXCEPT ![c] = @ \cup {seen[c].nb}]
    BY <1>5 DEF AbortReconcile, Fault, Seen
  <2>2. seen' \in SeenType /\ workq' \in [Clusters -> SUBSET Notebooks]
    BY <1>1, <1>2, <2>1
  <2>3. ops' \in 0 .. MaxOps /\ faults' \in 0 .. MaxFaults
    BY <1>1, <2>1
  <2>4. Request("RUNNING", FALSE, c).op \notin {"STOPPED", "DELETED", "REQUEUED"}
    BY <1>3
  <2>5. QED
    BY <1>2, <1>3, <2>1, <2>2, <2>3, <2>4, QuietIInv
<1>6. ASSUME NEW n \in Notebooks, GetDeployment(c, n) PROVE IInv'
  <2>1. /\ UNCHANGED <<nbs, arriving, deploy, todo, ops, faults, lost>>
        /\ workq' = [workq EXCEPT ![c] = @ \ {n}]
    BY <1>6 DEF GetDeployment, budgets
  <2>2. seen' \in SeenType
    BY <1>1, <1>6 DEF GetDeployment
  <2>3. workq' \in [Clusters -> SUBSET Notebooks]
    BY <1>1, <2>1
  <2>4. ops' \in 0 .. MaxOps /\ faults' \in 0 .. MaxFaults
    BY <1>1, <2>1
  <2>5. Request("RUNNING", FALSE, c).op \notin {"STOPPED", "DELETED", "REQUEUED"}
    BY <1>3
  <2>6. QED
    BY <1>3, <2>1, <2>2, <2>3, <2>4, <2>5, QuietIInv
<1>7. QED
  BY <1>4, <1>5, <1>6

\* Kubernetes starts pods, and restarts them, of a Deployment that has some.
LEMMA PodsChangeIInv ==
    ASSUME IInv, NEW c \in Clusters, NEW n \in Notebooks, PodsChange(c, n)
    PROVE  IInv'
<1> USE DEF IInv
<1>1. PICK d \in Live : SetDeployment(c, n, d)
  BY DEF PodsChange
<1>2. deploy[c][n] \in Live /\ UNCHANGED <<nbs, arriving, todo, seen, ops, faults, lost>>
  BY DEF PodsChange, budgets
<1>3. d \in Deployments /\ d # "none" /\ deploy[c][n] # "none"
  BY <1>2 DEF Live, Deployments
<1>4. /\ deploy' \in [Clusters -> [Notebooks -> Deployments]]
      /\ workq' \in [Clusters -> SUBSET Notebooks] /\ deploy'[c][n] = d
      /\ \A b \in Clusters, m \in Notebooks :
           b # c \/ m # n => deploy'[b][m] = deploy[b][m]
  BY <1>1, <1>3, SetDeploymentFacts
<1>5. \A b \in Clusters, m \in Notebooks :
        \/ deploy'[b][m] = deploy[b][m]
        \/ /\ deploy[b][m] \in Live /\ deploy[b][m] # "none"
           /\ deploy'[b][m] \in Live /\ deploy'[b][m] # "none"
  BY <1>2, <1>3, <1>4
<1>6. TypeOK'
  BY <1>2, <1>4 DEF TypeOK
<1>7. AbsentOK'
  BY <1>2, <1>5 DEF AbsentOK
<1>8. TodoOK'
  <2> SUFFICES ASSUME NEW b \in Clusters, NEW m \in Notebooks
               PROVE  TodoFits(todo[b][m], b, nbs[m], deploy'[b][m], lost)
    BY <1>2 DEF TodoOK
  <2>1. TodoFits(todo[b][m], b, nbs[m], deploy[b][m], lost)
    BY DEF TodoOK
  <2>2. QED
    BY <1>5, <2>1 DEF TodoFits
<1>9. PlaceOK'
  BY <1>2, <1>5 DEF PlaceOK
<1>10. StoppedHasNoPods' /\ DeletedIsGone'
  BY <1>2, <1>5 DEF StoppedHasNoPods, DeletedIsGone
<1>11. QED
  BY <1>6, <1>7, <1>8, <1>9, <1>10

\* A call of a worker fails, or its process crashes.
LEMMA AbortPassIInv ==
    ASSUME IInv, NEW c \in Clusters, AbortPass(c)
    PROVE  IInv'
<1>1. PassFails(c) /\ UNCHANGED <<nbs, arriving, deploy, ops, lost>>
  BY DEF AbortPass, Fault
<1>2. faults \in 0 .. MaxFaults /\ MaxFaults \in Nat
  BY NotebooksAssumption DEF IInv, TypeOK
<1>3. faults < MaxFaults /\ faults' = faults + 1
  BY DEF AbortPass, Fault
<1>4. faults' \in 0 .. MaxFaults
  BY <1>2, <1>3
<1>5. QED
  BY <1>1, <1>4, PassFailsIInv

-----------------------------------------------------------------------------
\* The invariant of the notebooks over all clusters: where a notebook is, who
\* has something to do for it, and that what is reported of it is true.
THEOREM NotebooksInvariance == Spec => []IInv
<1>1. IInv /\ [Next]_vars => IInv'
  <2> SUFFICES ASSUME IInv, [Next]_vars PROVE IInv'
    OBVIOUS
  <2>1. CASE UNCHANGED vars
    <3>1. UNCHANGED <<nbs, arriving, deploy, todo, seen, workq, ops, faults, lost>>
      BY <2>1 DEF vars
    <3>2. TypeOK' /\ AbsentOK'
      BY <3>1 DEF IInv, TypeOK, AbsentOK
    <3>3. TodoOK' /\ PlaceOK'
      BY <3>1 DEF IInv, TodoOK, PlaceOK
    <3>4. StoppedHasNoPods' /\ DeletedIsGone'
      BY <3>1 DEF IInv, StoppedHasNoPods, DeletedIsGone
    <3>5. QED
      BY <3>2, <3>3, <3>4 DEF IInv
  <2>2. ASSUME NEW n \in Notebooks,
               CheckName(n) \/ InsertNotebook(n) \/ UserRequest(n) \/ RequeueStuck(n) \/ Reschedule(n)
        PROVE  IInv'
    BY <2>2, CreateIInv, ServerIInv
  <2>3. ASSUME NEW c \in Clusters, Worker(c) PROVE IInv'
    BY <2>3, ListIInv, WorkerCallsIInv, ReportActionIInv DEF Worker
  <2>4. ASSUME NEW c \in Clusters,
               \/ ReportDeployment(c) \/ AbortReconcile(c) \/ AbortPass(c)
               \/ \E n \in Notebooks : GetDeployment(c, n) \/ PodsChange(c, n)
        PROVE  IInv'
    BY <2>4, ReconcilerIInv, AbortPassIInv, PodsChangeIInv
  <2>5. QED
    BY <2>1, <2>2, <2>3, <2>4 DEF Next
<1>2. QED
  BY <1>1, InitIInv, PTL DEF Spec

\* The types: above all, a worker's list holds actions and reports it can
\* act on (processNotebooks).
THEOREM NotebooksTypes == Spec => []TypeOK
<1>1. IInv => TypeOK
  BY DEF IInv
<1>2. QED
  BY <1>1, NotebooksInvariance, PTL

\* Unless a deletion was lost, a notebook reported STOPPED has no pods in any
\* cluster (processNotebooks, UpdateNotebookState, the rescheduler).
THEOREM StoppedHasNoPodsHolds == Spec => []StoppedHasNoPods
<1>1. IInv => StoppedHasNoPods
  BY DEF IInv
<1>2. QED
  BY <1>1, NotebooksInvariance, PTL

\* Unless a deletion was lost, a notebook reported DELETED has no Deployment
\* left in any cluster (deleteNotebook, UpdateNotebookState).
THEOREM DeletedIsGoneHolds == Spec => []DeletedIsGone
<1>1. IInv => DeletedIsGone
  BY DEF IInv
<1>2. QED
  BY <1>1, NotebooksInvariance, PTL

\* Unless a deletion was lost, a notebook that the rescheduler moves has no
\* Deployments in two clusters.
THEOREM OneDeploymentHolds == Spec => []OneDeployment
<1>1. IInv => OneDeployment
  BY DEF IInv, PlaceOK, OneDeployment
<1>2. QED
  BY <1>1, NotebooksInvariance, PTL

\* How a step takes the rows.
LEMMA StepKeepsGoing ==
    ASSUME IInv, [Next]_vars, NEW n \in Notebooks, Going(nbs[n])
    PROVE  Going(nbs'[n])
<1>1. ASSUME NEW m \in Notebooks, NEW q \in NotebookRequests, Serve(m, q) \/ UNCHANGED nbs
      PROVE  Going(nbs'[n])
  BY <1>1, ServeLeads DEF IInv, Leads
<1>2. CASE UNCHANGED nbs
  BY <1>2
<1>3. ASSUME NEW m \in Notebooks, InsertNotebook(m) PROVE Going(nbs'[n])
  <2>1. nbs[m].state = "absent"
    BY <1>3 DEF InsertNotebook, IInv, AbsentOK
  <2>2. m # n
    BY <2>1 DEF Going, QueuedFor
  <2>3. nbs'[n] = nbs[n]
    BY <1>3, <2>2 DEF InsertNotebook, IInv, TypeOK
  <2>4. QED
    BY <2>3
<1>4. ASSUME NEW m \in Notebooks, UserRequest(m) \/ RequeueStuck(m) \/ Reschedule(m)
      PROVE  Going(nbs'[n])
  <2>1. nbs[m].cluster \in Clusters
    BY DEF IInv, TypeOK, NotebookRows
  <2>2. PICK op \in {"StopNotebook", "StartNotebook", "DeleteNotebook", "Requeue", "Reschedule"},
             c \in Clusters : Serve(m, Request(op, FALSE, c))
    BY <1>4, <2>1 DEF UserRequest, RequeueStuck, Reschedule
  <2>3. Request(op, FALSE, c) \in NotebookRequests
    BY DEF Request, NotebookRequests
  <2>4. QED
    BY <1>1, <2>2, <2>3
<1>5. ASSUME NEW c \in Clusters, NEW m \in Notebooks, ReportAction(c, m) PROVE Going(nbs'[n])
  <2>1. Request(todo[c][m], FALSE, c) \in NotebookRequests
    BY <1>5 DEF ReportAction, Request, NotebookRequests
  <2>2. Serve(m, Request(todo[c][m], FALSE, c)) \/ UNCHANGED nbs
    BY <1>5 DEF ReportAction, Records
  <2>3. QED
    BY <1>1, <2>1, <2>2
<1>6. ASSUME NEW c \in Clusters, ReportDeployment(c) PROVE Going(nbs'[n])
  <2>1. Observation(c) \in NotebookRequests
    BY DEF Observation, Request, NotebookRequests, Reports
  <2>2. seen[c].nb \in Notebooks
    BY <1>6 DEF ReportDeployment, IInv, TypeOK
  <2>3. Serve(seen[c].nb, Observation(c)) \/ UNCHANGED nbs
    BY <1>6 DEF ReportDeployment, Records
  <2>4. QED
    BY <1>1, <2>1, <2>2, <2>3
<1>7. ASSUME NEW m \in Notebooks, CheckName(m) PROVE UNCHANGED nbs
  BY <1>7 DEF CheckName
<1>8. ASSUME NEW c \in Clusters, ListQueuedInternalNotebooks(c) \/ AbortPass(c) \/ AbortReconcile(c)
      PROVE  UNCHANGED nbs
  BY <1>8 DEF ListQueuedInternalNotebooks, AbortPass, AbortReconcile
<1>9. ASSUME NEW c \in Clusters, NEW m \in Notebooks,
             \/ CreateDeployment(c, m) \/ StopDeployment(c, m) \/ DeleteDeployment(c, m)
             \/ GetDeployment(c, m) \/ PodsChange(c, m)
      PROVE  UNCHANGED nbs
  BY <1>9 DEF CreateDeployment, StopDeployment, DeleteDeployment, GetDeployment, PodsChange, Done
<1>10. CASE UNCHANGED vars
  BY <1>2, <1>10 DEF vars
<1>11. QED
  BY <1>2, <1>3, <1>4, <1>5, <1>6, <1>7, <1>8, <1>9, <1>10 DEF Next, Worker

\* Once DeleteNotebook has been accepted, no request of a user, late report or
\* move by the rescheduler brings the notebook back.
THEOREM DeleteIsFinalHolds == Spec => DeleteIsFinal
<1>1. IInv /\ [Next]_vars => [\A n \in Notebooks : Going(nbs[n]) => Going(nbs'[n])]_vars
  BY StepKeepsGoing
<1>2. QED
  BY <1>1, NotebooksInvariance, PTL DEF Spec, DeleteIsFinal, Going

=============================================================================
