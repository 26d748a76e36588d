------------------------------- MODULE Syncer -------------------------------
(***************************************************************************)
(* The syncer: a Job (or JobSet) of the cluster where its users work is    *)
(* deployed to a worker cluster and its status is copied back.  The two    *)
(* controllers differ in the type of the object only.  The module follows  *)
(* one namespaced name: its object may be deleted and created again.       *)
(*                                                                         *)
(* The controller reads the object from its informer's cache, which may    *)
(* lag behind the API server, and then makes calls to the API server and   *)
(* to the server's SyncerService.  Each call is a step; it may fail before *)
(* or after it has taken effect.  The cache takes over the latest version  *)
(* in one step: a lagging cache is one that has taken over an earlier one. *)
(*                                                                         *)
(* Not here: objects whose managedBy names someone else (Reconcile returns *)
(* at once), and what PatchKubernetesObject does to the scheduler's cache  *)
(* (ClusterCache).                                                         *)
(***************************************************************************)
EXTENDS Naturals, Sequences

CONSTANTS
    Clusters,       \* the worker clusters
    Nowhere,        \* no cluster id: the object has no annotations
    MaxObjects,     \* bound: objects created under the name
    Starting,       \* bound: worker clusters that tell when pods start
    MaxFaults       \* bound: failed calls and restarts of the syncer

ASSUME SyncerAssumption ==
    /\ Nowhere \notin Clusters /\ Starting \subseteq Clusters
    /\ MaxObjects \in Nat /\ MaxFaults \in Nat

VARIABLES
    local,          \* the object in the API server
    cached,         \* the informer's copy of it
    upToDate,       \* the copy is of the latest version
    queued,         \* the name is in the controller's work queue
    at,             \* the call that the controller makes next
    obj,            \* Reconcile's copy of the object
    objCurrent,     \* that copy is of the latest version
    target,         \* the cluster id that PatchKubernetesObject returned
    remote,         \* cluster -> the object deployed there
    events,         \* clusters with an event for the status syncer
    report,         \* cluster -> the patch that its status syncer is about to send
    made,           \* objects created so far
    faults,
    calm            \* history: nothing has come between read and write yet

vars == <<local, cached, upToDate, queued, at, obj, objCurrent, target,
          remote, events, report, made, faults, calm>>
controller == <<queued, at, obj, objCurrent, target>>
informer == <<cached, upToDate>>
statusSyncers == <<events, report>>

\* A status has fields, of which two stand for all: whether pods are active,
\* which comes and goes, and the conditions: that the copy for object u has
\* ended, and FailedClusterSchedule.
Ended(u) == <<"ended", u>>
Failed == <<"failed">>
Conditions == {Ended(u) : u \in 1 .. MaxObjects} \cup {Failed}
Statuses == [active : BOOLEAN, conditions : SUBSET Conditions]

NewStatus == [active |-> FALSE, conditions |-> {}]

\* A merge patch of a status: the fields that it has, and their values.
Fields == {"active", "conditions"}
Patches == [fields : SUBSET Fields, status : Statuses]

Nothing == [fields |-> {}, status |-> NewStatus]

\* uid is the number of the object, 0 when there is none.  The annotations
\* cluster-id, uid and deployed-at are written together.
Objects == [uid : 0 .. MaxObjects, deleting : BOOLEAN, finalizer : BOOLEAN,
            cluster : Clusters \cup {Nowhere},
            status : Statuses]

NewObject(u) == [uid |-> u, deleting |-> FALSE, finalizer |-> FALSE,
                 cluster |-> Nowhere, status |-> NewStatus]

NoObject == NewObject(0)

\* uid is the number of the local object that the copy was deployed for.
Copies == [uid : 0 .. MaxObjects, status : Statuses]

NoCopy == [uid |-> 0, status |-> NewStatus]

Calls == {"idle", "tag", "patch", "fail", "store", "delete", "untag"}

TypeOK ==
    /\ local \in Objects /\ cached \in Objects /\ obj \in Objects
    /\ upToDate \in BOOLEAN /\ queued \in BOOLEAN
    /\ objCurrent \in BOOLEAN /\ calm \in BOOLEAN
    /\ at \in Calls
    /\ target \in Clusters \cup {Nowhere}
    /\ remote \in [Clusters -> Copies]
    /\ events \subseteq Clusters
    /\ report \in [Clusters -> Patches]
    /\ made \in 0 .. MaxObjects /\ faults \in 0 .. MaxFaults

Init ==
    /\ local = NoObject /\ cached = NoObject /\ upToDate = TRUE
    /\ queued = FALSE /\ at = "idle" /\ obj = NoObject /\ objCurrent = FALSE
    /\ target = Nowhere
    /\ remote = [c \in Clusters |-> NoCopy]
    /\ events = {} /\ report = [c \in Clusters |-> Nothing]
    /\ made = 0 /\ faults = 0 /\ calm = TRUE

-----------------------------------------------------------------------------
(***************************************************************************)
(* The API server, its users and the informer.                             *)
(***************************************************************************)

\* A write of the object makes the copies of it old ones.
Write(o) == local' = o /\ upToDate' = FALSE

Create ==
    /\ local = NoObject /\ made < MaxObjects
    /\ made' = made + 1
    /\ Write(NewObject(made + 1)) /\ objCurrent' = FALSE
    /\ UNCHANGED <<cached, queued, at, obj, target, remote, statusSyncers, faults, calm>>

\* An object with a finalizer stays until the finalizer is removed.
Delete ==
    /\ local # NoObject /\ ~local.deleting
    /\ Write(IF local.finalizer THEN [local EXCEPT !.deleting = TRUE] ELSE NoObject)
    /\ objCurrent' = FALSE
    /\ UNCHANGED <<cached, queued, at, obj, target, remote, statusSyncers, made, faults, calm>>

\* A watch event: the cache is brought up to date, the name is queued.
Observe ==
    /\ ~upToDate
    /\ cached' = local /\ upToDate' = TRUE /\ queued' = TRUE
    /\ UNCHANGED <<local, at, obj, objCurrent, target, remote, statusSyncers, made, faults, calm>>

-----------------------------------------------------------------------------
(***************************************************************************)
(* Reconcile.                                                              *)
(***************************************************************************)

\* The next call, with Reconcile's copy o; whether that is current matters
\* to an Update only.  When Reconcile returns, its copy is gone.
Goto(call, o, current) ==
    /\ at' = call
    /\ obj' = IF call = "idle" THEN NoObject ELSE o
    /\ objCurrent' = (current /\ call \in {"tag", "delete", "untag"})

Return == Goto("idle", NoObject, FALSE) /\ UNCHANGED queued

\* For a mutation check: the error is logged, not returned.
GiveUp == Goto("idle", NoObject, FALSE) /\ UNCHANGED queued

\* Reconcile returns an error: the name is queued again.
Retry == Goto("idle", NoObject, FALSE) /\ queued' = TRUE

\* For a mutation check: without the test isDeployed.
AlwaysPatch(o) == "patch"

\* A deployed object is left alone.
AfterTag(o) == IF o.cluster # Nowhere THEN "idle" ELSE "patch"

FirstCall(o) ==
    IF o = NoObject THEN "idle" ELSE
    CASE o.deleting /\ ~o.finalizer  -> "idle"
      [] o.deleting /\ o.finalizer   -> IF o.cluster # Nowhere THEN "delete" ELSE "untag"
      [] ~o.deleting /\ ~o.finalizer -> "tag"
      [] OTHER                       -> AfterTag(o)

\* Reconcile up to its first call.
Get ==
    /\ at = "idle" /\ queued
    /\ queued' = FALSE
    /\ Goto(FirstCall(cached), cached, upToDate)
    /\ calm' = (calm /\ upToDate)
    /\ UNCHANGED <<local, informer, target, remote, statusSyncers, made, faults>>

Fault == faults < MaxFaults /\ faults' = faults + 1 /\ calm' = FALSE

NoFault == UNCHANGED <<faults, calm>>

\* Update: NotFound, which is ignored; Conflict; success, which fills in the
\* caller's copy; an error before and one after it has taken effect.
tagWithFinalizer ==
    /\ at = "tag"
    /\ LET tagged == [local EXCEPT !.finalizer = TRUE] IN
       \/ /\ local = NoObject
          /\ Goto(AfterTag(obj), [obj EXCEPT !.finalizer = TRUE], FALSE)
          /\ calm' = FALSE /\ UNCHANGED <<local, upToDate, queued, faults>>
       \/ /\ local # NoObject /\ ~objCurrent
          /\ Retry /\ NoFault /\ UNCHANGED <<local, upToDate>>
       \/ /\ local # NoObject /\ objCurrent /\ Write(tagged)
          /\ Goto(AfterTag(tagged), tagged, TRUE) /\ NoFault /\ UNCHANGED queued
       \/ Retry /\ Fault /\ UNCHANGED <<local, upToDate>>
       \/ local # NoObject /\ objCurrent /\ Write(tagged) /\ Retry /\ Fault
    /\ UNCHANGED <<cached, target, remote, statusSyncers, made>>

\* PatchResource is a server-side apply: it creates the object, or finds it
\* as it is, of which there is no event.  A copy of an earlier object of the
\* name is taken over.
PatchResource(c) ==
    /\ remote' = [remote EXCEPT ![c].uid = obj.uid]
    /\ \/ events' = events \cup {c}
       \/ remote[c] # NoCopy /\ UNCHANGED events

\* The scheduler may choose any cluster, whatever it chose before.  The copy
\* of an earlier object with another pod template, which cannot be changed,
\* is in the way.
PatchKubernetesObject ==
    /\ at = "patch"
    /\ \E c \in Clusters :
          \/ PatchResource(c) /\ target' = c /\ Goto("store", obj, FALSE) /\ NoFault
          \/ PatchResource(c) /\ Goto("fail", obj, FALSE) /\ Fault /\ UNCHANGED target
          \/ /\ remote[c].uid \notin {0, obj.uid}
             /\ Goto("fail", obj, FALSE) /\ NoFault /\ UNCHANGED <<remote, events, target>>
          \/ Goto("fail", obj, FALSE) /\ Fault /\ UNCHANGED <<remote, events, target>>
    /\ UNCHANGED <<local, informer, queued, report, made>>

\* The condition FailedClusterSchedule is added to those that were read: a
\* merge patch, with the whole list, of the object that has the name now,
\* unless the condition was there in the same words.
recordFailure ==
    /\ at = "fail"
    /\ Retry
    /\ \/ /\ local # NoObject /\ NoFault
          /\ Write([local EXCEPT !.status.conditions = obj.status.conditions \cup {Failed}])
       \/ /\ local = NoObject \/ Failed \in obj.status.conditions
          /\ UNCHANGED <<local, upToDate>> /\ NoFault
       \/ UNCHANGED <<local, upToDate>> /\ Fault
    /\ UNCHANGED <<cached, target, remote, statusSyncers, made>>

\* A merge patch too: it does not ask for the version or the uid.
storeObjectData ==
    /\ at = "store" /\ target' = Nowhere
    /\ LET annotated == [local EXCEPT !.cluster = target] IN
       \/ local # NoObject /\ Write(annotated) /\ Return /\ NoFault
       \/ local = NoObject /\ Retry /\ NoFault /\ UNCHANGED <<local, upToDate>>
       \/ Retry /\ Fault /\ UNCHANGED <<local, upToDate>>
       \/ local # NoObject /\ Write(annotated) /\ Retry /\ Fault
    /\ UNCHANGED <<cached, remote, statusSyncers, made>>

\* An object that is not there is an error too.
DeleteKubernetesObject ==
    /\ at = "delete"
    /\ LET c == obj.cluster  undeployed == [remote EXCEPT ![c] = NoCopy] IN
       \/ /\ remote[c] # NoCopy /\ remote' = undeployed
          /\ Goto("untag", obj, objCurrent) /\ NoFault /\ UNCHANGED queued
       \/ remote[c] = NoCopy /\ Retry /\ NoFault /\ UNCHANGED remote
       \/ Retry /\ Fault /\ UNCHANGED remote
       \/ remote[c] # NoCopy /\ remote' = undeployed /\ Retry /\ Fault
    /\ UNCHANGED <<local, informer, target, statusSyncers, made>>

\* For a mutation check: the finalizer is removed by a merge patch, which
\* does not ask for the version.
RemoveFinalizerByPatch ==
    /\ at = "untag"
    /\ IF local # NoObject THEN Write(NoObject) ELSE UNCHANGED <<local, upToDate>>
    /\ Return /\ NoFault
    /\ UNCHANGED <<cached, target, remote, statusSyncers, made>>

\* Update without the finalizer: the object goes.  NotFound is ignored.
RemoveFinalizer ==
    /\ at = "untag"
    /\ \/ local # NoObject /\ objCurrent /\ Write(NoObject) /\ Return /\ NoFault
       \/ local # NoObject /\ ~objCurrent /\ Retry /\ NoFault /\ UNCHANGED <<local, upToDate>>
       \/ local = NoObject /\ Return /\ NoFault /\ UNCHANGED <<local, upToDate>>
       \/ Retry /\ Fault /\ UNCHANGED <<local, upToDate>>
       \/ local # NoObject /\ objCurrent /\ Write(NoObject) /\ Retry /\ Fault
    /\ UNCHANGED <<cached, target, remote, statusSyncers, made>>

\* The syncer's process starts afresh: the informers list all objects.
Restart ==
    /\ Fault
    /\ cached' = local /\ upToDate' = TRUE /\ queued' = (local # NoObject)
    /\ Goto("idle", NoObject, FALSE) /\ target' = Nowhere
    /\ events' = {c \in Clusters : remote[c] # NoCopy}
    /\ report' = [c \in Clusters |-> Nothing]
    /\ UNCHANGED <<local, remote, made>>

-----------------------------------------------------------------------------
(***************************************************************************)
(* The worker clusters and their status syncers (syncJobsFn,               *)
(* syncJobSetsFn).                                                         *)
(***************************************************************************)

HasEnded(c) == remote[c].status.conditions # {}

PodsStart(c) ==
    /\ c \in Starting /\ remote[c] # NoCopy /\ ~HasEnded(c) /\ ~remote[c].status.active
    /\ remote' = [remote EXCEPT ![c].status.active = TRUE]
    /\ events' = events \cup {c}
    /\ UNCHANGED <<local, informer, controller, report, made, faults, calm>>

RemoteEnds(c) ==
    /\ remote[c] # NoCopy /\ ~HasEnded(c)
    /\ remote' = [remote EXCEPT ![c].status =
          [active |-> FALSE, conditions |-> {Ended(remote[c].uid)}]]
    /\ events' = events \cup {c}
    /\ UNCHANGED <<local, informer, controller, report, made, faults, calm>>

\* ttlSecondsAfterFinished; the event of a deletion is filtered out.
RemoteExpires(c) ==
    /\ HasEnded(c)
    /\ remote' = [remote EXCEPT ![c] = NoCopy]
    /\ UNCHANGED <<local, informer, controller, statusSyncers, made, faults, calm>>

\* The fields that are not in a merge patch stay as they are.
Patched(s, patch) ==
    [active |-> IF "active" \in patch.fields THEN patch.status.active ELSE s.active,
     conditions |-> IF "conditions" \in patch.fields
                    THEN patch.status.conditions ELSE s.conditions]

\* MergeFrom: the patch has the fields in which the two differ.
Difference(from, to) ==
    LET differ == {f \in Fields : from[f] # to[f]} IN
    [fields |-> differ,
     status |-> Patched(NewStatus, [fields |-> differ, status |-> to])]

\* The local object is read from the cache of the controllers, and what is
\* sent is the difference of its status, as it was then, from the copy's.
ReadStatus(c) ==
    /\ c \in events /\ report[c] = Nothing
    /\ events' = events \ {c}
    /\ report' = [report EXCEPT ![c] =
          IF remote[c] = NoCopy \/ cached = NoObject \/ cached.status = remote[c].status
          THEN Nothing ELSE Difference(cached.status, remote[c].status)]
    /\ UNCHANGED <<local, informer, controller, remote, made, faults, calm>>

\* For a mutation check: the error of the patch is not returned.
WriteStatusOnce(c) ==
    /\ report[c] # Nothing
    /\ report' = [report EXCEPT ![c] = Nothing]
    /\ \/ /\ local # NoObject
          /\ Write([local EXCEPT !.status = Patched(local.status, report[c])])
          /\ objCurrent' = FALSE /\ UNCHANGED faults
       \/ local = NoObject /\ UNCHANGED <<local, upToDate, objCurrent, faults>>
       \/ /\ faults < MaxFaults /\ faults' = faults + 1
          /\ UNCHANGED <<local, upToDate, objCurrent>>
    /\ UNCHANGED <<cached, queued, at, obj, target, remote, events, made, calm>>

\* A merge patch of the object that has the name now.  After an error the
\* event comes again.
WriteStatus(c) ==
    /\ report[c] # Nothing
    /\ report' = [report EXCEPT ![c] = Nothing]
    /\ \/ /\ local # NoObject
          /\ Write([local EXCEPT !.status = Patched(local.status, report[c])])
          /\ objCurrent' = FALSE /\ UNCHANGED <<events, faults>>
       \/ /\ local = NoObject
          /\ events' = events \cup {c} /\ UNCHANGED <<local, upToDate, objCurrent, faults>>
       \/ /\ faults < MaxFaults /\ faults' = faults + 1
          /\ events' = events \cup {c} /\ UNCHANGED <<local, upToDate, objCurrent>>
    /\ UNCHANGED <<cached, queued, at, obj, target, remote, made, calm>>

-----------------------------------------------------------------------------
Reconcile ==
    \/ Get \/ tagWithFinalizer \/ PatchKubernetesObject \/ recordFailure
    \/ storeObjectData \/ DeleteKubernetesObject \/ RemoveFinalizer

Next ==
    \/ Create \/ Delete \/ Observe \/ Reconcile \/ Restart
    \/ \E c \in Clusters :
          \/ PodsStart(c) \/ RemoteEnds(c) \/ RemoteExpires(c)
          \/ ReadStatus(c) \/ WriteStatus(c)

Spec == Init /\ [][Next]_vars

\* The informer and the controllers' workers keep running.
FairSpec ==
    /\ Spec
    /\ WF_vars(Observe) /\ WF_vars(Reconcile)
    /\ \A c \in Clusters : WF_vars(ReadStatus(c)) /\ WF_vars(WriteStatus(c))

-----------------------------------------------------------------------------
(***************************************************************************)
(* Properties.                                                             *)
(***************************************************************************)

\* The finalizer does its work whatever the cache shows and whatever fails:
\* an object does not go while the cluster it is annotated with still has
\* its copy (syncDeleted; a copy of the object that is out of date is
\* refused by the Update).
GoneIsUndeployed ==
    [][local.uid # local'.uid /\ local.cluster # Nowhere
         => remote[local.cluster].uid # local.uid]_vars

\* As long as every reconcile has read the latest version and no call has
\* failed, there is no copy without its object, and no second copy: the
\* object is annotated with the cluster, or is about to be.
CalmHasNoOrphans ==
    calm => \A c \in Clusters : remote[c] # NoCopy =>
        /\ remote[c].uid = local.uid
        /\ c = IF at = "store" THEN target ELSE local.cluster

\* An object is deployed in the end, unless it is deleted or the copy of an
\* earlier object is in the way.
DeployedInTheEnd ==
    (local # NoObject /\ ~local.deleting)
      ~> \/ local = NoObject \/ local.deleting \/ local.cluster # Nowhere
         \/ \E c \in Clusters : remote[c].uid \notin {0, local.uid}

\* An object that is being deleted goes, or at least its copy does: the
\* deletion reaches the worker cluster.
DeletedIsStopped ==
    local.deleting
      ~> \/ local = NoObject
         \/ local.cluster # Nowhere /\ remote[local.cluster].uid # local.uid

\* In calm operation the local object learns for good that its copy has
\* ended, although the patches of its status are computed from a cache that
\* may be out of date, and some fail; the first object of the name, since a
\* later one may get the status of an earlier one, from a patch that was under
\* way.  (Of a field that comes back to a value the cache still has, such as
\* active, this is not so.)
EndIsReported ==
    [](calm /\ made <= 1) => <>[](\A c \in Clusters :
        local.cluster = c /\ HasEnded(c)
          => local.status.conditions = remote[c].status.conditions)

=============================================================================
