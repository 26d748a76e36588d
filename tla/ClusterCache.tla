---------------------------- MODULE ClusterCache ----------------------------
(***************************************************************************)
(* Where a workload goes: the scheduler, the in-memory cache of cluster    *)
(* states that it reads, the clusters table behind the cache, and the      *)
(* clusters that report their state (server/internal/cache, scheduler,     *)
(* UpdateClusterStatus; clusterstatus of the dispatcher).  One tenant.     *)
(*                                                                         *)
(* Three callers schedule: the Create requests of jobs, once for each job; *)
(* scheduleNotebook, again for a notebook that leaves its cluster; and     *)
(* PatchKubernetesObject, on every attempt of the syncer to deploy an      *)
(* object, wherever an earlier attempt has put it.                         *)
(*                                                                         *)
(* The cache takes its lock for single reads and writes only.  A handler   *)
(* reads, decides, reads again and writes; so does UpdateClusterStatus; in *)
(* between everything else may happen.                                     *)
(***************************************************************************)
EXTENDS Integers, FiniteSets, FiniteSetsExt

CONSTANTS
    Clusters,
    Capacity,       \* cluster -> GPUs on its nodes
    Provisionable,  \* clusters that can add GPU nodes
    Assigned,       \* clusters the user's project is assigned to
    Workloads,
    Kind,           \* workload -> "job", "notebook" or "object" (of the syncer)
    GpuCount,       \* workload -> GPUs it asks for
    Begins,         \* workload -> those whose pods' names begin with its key
    Handlers,       \* goroutines that serve requests, and the rescheduler
    Nowhere,        \* the empty cluster id; also: no goroutine
    MaxPlacements,  \* bound: scheduling attempts that find a cluster
    Slow,           \* bound: clusters whose reports may be staleThreshold apart
    MaxRestarts     \* bound: restarts of the server

ASSUME FiniteAssumption == IsFiniteSet(Clusters)

ASSUME ClusterCacheAssumption ==
    /\ Capacity \in [Clusters -> Nat]
    /\ Provisionable \subseteq Clusters /\ Assigned \subseteq Clusters
    /\ Slow \subseteq Clusters
    /\ Kind \in [Workloads -> {"job", "notebook", "object"}]
    /\ GpuCount \in [Workloads -> Nat]
    /\ Begins \in [Workloads -> SUBSET Workloads] /\ \A w \in Workloads : w \in Begins[w]
    /\ Nowhere \notin Clusters /\ Nowhere \notin Handlers
    /\ MaxPlacements \in Nat /\ MaxRestarts \in Nat

VARIABLES
    db,         \* the clusters table
    loader,     \* who has put the tenant's map into the cache, if it is there
    cache,      \* the clusters in that map
    old,        \* attempts that added longer than assumedPodExpiration ago
    h,          \* handler -> where it is, and its local variables
    u,          \* cluster -> where UpdateClusterStatus is for it
    running,    \* cluster -> workloads with running pods
    placed,     \* workload -> the cluster it was last scheduled to
    waiting,    \* cluster -> workloads created there, whose pods have not started
    placements, \* the number of the last attempt
    restarts

vars == <<db, loader, cache, old, h, u, running, placed, waiting, placements, restarts>>
pods == <<running, placed, waiting>>

\* AssumedPodsByKey: for each workload the attempt that has added it, which
\* stands for AddedAt; 0: it is not there.
AssumedPods == [Workloads -> 0 .. MaxPlacements]

NoneAssumed == [w \in Workloads |-> 0]

\* A cluster in the cache; the table has no assumed pods.  age says whether
\* UpdatedAt is within staleThreshold; "absent": there is no such cluster.
Entries == [age : {"absent", "fresh", "stale"}, pods : SUBSET Workloads,
            assumed : AssumedPods]

NoEntry == [age |-> "absent", pods |-> {}, assumed |-> NoneAssumed]

Assumed(cl) == {w \in Workloads : cl.assumed[w] # 0}

Maps == [Clusters -> Entries]

Loaded == loader # Nowhere

IdleHandler == [at |-> "idle"]

HandlerStates == {IdleHandler}
    \cup [at : {"list"}, work : Workloads]
    \cup [at : {"load", "iterate"}, work : Workloads, clusters : Maps]
    \cup [at : {"assume"}, work : Workloads, cluster : Clusters,
          attempt : 0 .. MaxPlacements]
    \cup [at : {"write"}, work : Workloads, cluster : Clusters,
          attempt : 0 .. MaxPlacements, cls : Entries]

UpdaterStates == {IdleHandler}
    \cup [at : {"save", "get", "list"}, pods : SUBSET Workloads]
    \cup [at : {"load"}, pods : SUBSET Workloads, clusters : Maps]
    \cup [at : {"write"}, pods : SUBSET Workloads, oldCl : Entries]

TypeOK ==
    /\ db \in Maps /\ cache \in Maps
    /\ loader \in Handlers \cup Clusters \cup {Nowhere}
    /\ old \subseteq 1 .. MaxPlacements
    /\ h \in [Handlers -> HandlerStates]
    /\ u \in [Clusters -> UpdaterStates]
    /\ running \in [Clusters -> SUBSET Workloads]
    /\ placed \in [Workloads -> Clusters \cup {Nowhere}]
    /\ waiting \in [Clusters -> SUBSET Workloads]
    /\ placements \in 0 .. MaxPlacements /\ restarts \in 0 .. MaxRestarts

Init ==
    /\ db = [c \in Clusters |-> NoEntry]
    /\ loader = Nowhere /\ cache = [c \in Clusters |-> NoEntry]
    /\ old = {}
    /\ h = [p \in Handlers |-> IdleHandler]
    /\ u = [c \in Clusters |-> IdleHandler]
    /\ running = [c \in Clusters |-> {}] /\ waiting = [c \in Clusters |-> {}]
    /\ placed = [w \in Workloads |-> Nowhere]
    /\ placements = 0 /\ restarts = 0

-----------------------------------------------------------------------------
(***************************************************************************)
(* Schedule.                                                               *)
(***************************************************************************)

Gpus(ws) == MapThenSumSet(LAMBDA w : GpuCount[w], ws)

\* A pod that runs and is still assumed counts twice.
availableGPUs(c, cl) == Capacity[c] - Gpus(cl.pods) - Gpus(Assumed(cl))

canProvisionGPUs(requested, c, cl) ==
    IF Capacity[c] > 0 THEN requested <= availableGPUs(c, cl)
                       ELSE c \in Provisionable

Feasible(w, c, cl) == GpuCount[w] = 0 \/ canProvisionGPUs(GpuCount[w], c, cl)

scoreCluster(w, c, cl) == IF GpuCount[w] = 0 THEN 0 ELSE availableGPUs(c, cl)

Candidates(w, prev, clusters) ==
    {c \in Assigned : /\ clusters[c].age = "fresh"
                      /\ c # prev
                      /\ Feasible(w, c, clusters[c])}

\* The candidates with the best score; which of them depends on the order of
\* the iteration over the map.
Schedule(w, prev, clusters) ==
    LET cs == Candidates(w, prev, clusters) IN
    {c \in cs : \A d \in cs :
        scoreCluster(w, c, clusters[c]) >= scoreCluster(w, d, clusters[d])}

-----------------------------------------------------------------------------
(***************************************************************************)
(* A handler: Schedule, then AddAssumedPod, then what the caller does with *)
(* the cluster.                                                            *)
(***************************************************************************)

Idle(w) == \A p \in Handlers : h[p].at # "idle" => h[p].work # w

HasPods(w) == \E c \in Clusters : w \in running[c] \cup waiting[c]

\* A job is scheduled when it is created, with an id of its own; a notebook
\* when it is created and when it is requeued, after its pods are gone; an
\* object whenever a reconciler of the syncer sends it.
MaySchedule(w) ==
    \/ Kind[w] = "job" /\ Idle(w) /\ placed[w] = Nowhere
    \/ Kind[w] = "notebook" /\ Idle(w) /\ ~HasPods(w)
    \/ Kind[w] = "object"

\* The cluster to avoid: only scheduleNotebook gives one, the notebook's.
Previous(w) == IF Kind[w] = "notebook" THEN placed[w] ELSE Nowhere

\* The workload is created in c; its pods start there later.
Place(w, c) ==
    /\ placed' = [placed EXCEPT ![w] = c]
    /\ waiting' = [waiting EXCEPT ![c] = @ \cup ({w} \ running[c])]
    /\ UNCHANGED running

\* What follows in the caller may fail: the object's namespace is another, or
\* its cluster refuses it; the notebook is not saved.  (A job or a notebook
\* that is not created has no second attempt: PodEnds covers it.)
Create(w, c) ==
    \/ Place(w, c)
    \/ /\ Kind[w] = "object" \/ placed[w] # Nowhere
       /\ UNCHANGED pods

\* What Schedule does with the clusters it has listed, and the part of
\* AddAssumedPod before it reads: a workload without GPUs is not assumed.
Decide(p, w, clusters) ==
    LET best == Schedule(w, Previous(w), clusters) IN
    \/ /\ best = {}
       /\ h' = [h EXCEPT ![p] = IdleHandler]
       /\ UNCHANGED <<pods, placements>>
    \/ /\ placements < MaxPlacements /\ placements' = placements + 1
       /\ \E c \in best :
             IF GpuCount[w] = 0
             THEN h' = [h EXCEPT ![p] = IdleHandler] /\ Create(w, c)
             ELSE /\ h' = [h EXCEPT ![p] = [at |-> "assume", work |-> w, cluster |-> c,
                                           attempt |-> placements + 1]]
                  /\ UNCHANGED pods

\* ListClustersByTenantID finds the tenant and returns a copy.
ScheduleFromCache(p, w) ==
    /\ h[p].at = "idle" /\ MaySchedule(w)
    /\ Loaded /\ Decide(p, w, cache)
    /\ UNCHANGED <<db, loader, cache, old, u, restarts>>

\* It does not, and gives the lock back ...
ScheduleMisses(p, w) ==
    /\ h[p].at = "idle" /\ MaySchedule(w)
    /\ ~Loaded /\ placements < MaxPlacements
    /\ h' = [h EXCEPT ![p] = [at |-> "list", work |-> w]]
    /\ UNCHANGED <<db, loader, cache, old, u, pods, placements, restarts>>

\* ... before it reads the table.
ListClusters(p) ==
    /\ h[p].at = "list"
    /\ h' = [h EXCEPT ![p] = [at |-> "load", work |-> h[p].work, clusters |-> db]]
    /\ UNCHANGED <<db, loader, cache, old, u, pods, placements, restarts>>

\* It puts what it has read into the cache, over what may be there by now.
Install(p) ==
    /\ h[p].at = "load"
    /\ loader' = p /\ cache' = h[p].clusters
    /\ h' = [h EXCEPT ![p].at = "iterate"]
    /\ UNCHANGED <<db, old, u, pods, placements, restarts>>

\* Schedule iterates over the very map it has put there: while that map is
\* in the cache, it sees what was read or what has been written since.
ScheduleFromLoaded(p) ==
    /\ h[p].at = "iterate"
    /\ \/ Decide(p, h[p].work, h[p].clusters)
       \/ loader = p /\ Decide(p, h[p].work, cache)
    /\ UNCHANGED <<db, loader, cache, old, u, restarts>>

\* AddAssumedPod copies the cluster with getCluster ...
GetForAssume(p) ==
    LET c == h[p].cluster IN
    /\ h[p].at = "assume"
    /\ h' = [h EXCEPT ![p] =
          IF cache[c].age = "absent" THEN IdleHandler
          ELSE [at |-> "write", work |-> h[p].work, cluster |-> c,
                attempt |-> h[p].attempt, cls |-> cache[c]]]
    /\ UNCHANGED <<db, loader, cache, old, u, pods, placements, restarts>>

\* ... and writes the copy back with one more assumed pod.
AddAssumedPod(p) ==
    LET w == h[p].work
        c == h[p].cluster
    IN
    /\ h[p].at = "write"
    /\ cache' = [cache EXCEPT ![c] =
          [h[p].cls EXCEPT !.assumed[w] = h[p].attempt]]
    /\ Create(w, c)
    /\ h' = [h EXCEPT ![p] = IdleHandler]
    /\ UNCHANGED <<db, loader, old, u, placements, restarts>>

-----------------------------------------------------------------------------
(***************************************************************************)
(* UpdateClusterStatus, called at intervals by the dispatcher of c.        *)
(***************************************************************************)

\* buildClusterStaus lists the pods that are running.
BuildStatus(c) ==
    /\ u[c].at = "idle"
    /\ u' = [u EXCEPT ![c] = [at |-> "save", pods |-> running[c]]]
    /\ UNCHANGED <<db, loader, cache, old, h, pods, placements, restarts>>

Reported(ps) == [age |-> "fresh", pods |-> ps, assumed |-> NoneAssumed]

CreateOrUpdateCluster(c) ==
    /\ u[c].at = "save"
    /\ db' = [db EXCEPT ![c] = Reported(u[c].pods)]
    /\ u' = [u EXCEPT ![c].at = "get"]
    /\ UNCHANGED <<loader, cache, old, h, pods, placements, restarts>>

\* AddOrUpdateCluster reads the cluster with getCluster, which goes on to
\* ListClustersByTenantID when the tenant is not in the cache ...
GetForUpdate(c) ==
    /\ u[c].at = "get"
    /\ u' = [u EXCEPT ![c] =
          IF Loaded THEN [at |-> "write", pods |-> u[c].pods, oldCl |-> cache[c]]
                    ELSE [at |-> "list", pods |-> u[c].pods]]
    /\ UNCHANGED <<db, loader, cache, old, h, pods, placements, restarts>>

\* ... which looks again: somebody else may have loaded the tenant.
ListForUpdate(c) ==
    /\ u[c].at = "list"
    /\ \/ /\ Loaded
          /\ u' = [u EXCEPT ![c] = [at |-> "write", pods |-> u[c].pods, oldCl |-> cache[c]]]
       \* It was not there a moment ago; now the table is read.
       \/ u' = [u EXCEPT ![c] = [at |-> "load", pods |-> u[c].pods, clusters |-> db]]
    /\ UNCHANGED <<db, loader, cache, old, h, pods, placements, restarts>>

\* For a mutation check: what was read is not put into the cache.
LoadWithoutInstall(c) ==
    /\ u[c].at = "load"
    /\ u' = [u EXCEPT ![c] = [at |-> "write", pods |-> u[c].pods,
                              oldCl |-> u[c].clusters[c]]]
    /\ UNCHANGED <<db, loader, cache, old, h, pods, placements, restarts>>

InstallForUpdate(c) ==
    /\ u[c].at = "load"
    /\ loader' = c /\ cache' = u[c].clusters
    /\ u' = [u EXCEPT ![c] = [at |-> "write", pods |-> u[c].pods,
                              oldCl |-> u[c].clusters[c]]]
    /\ UNCHANGED <<db, old, h, pods, placements, restarts>>

Keep(oldCl, ws) == [w \in Workloads |-> IF w \in ws THEN oldCl.assumed[w] ELSE 0]

\* A pod of w is among those reported: nnHasPrefix compares names by prefix,
\* so that a pod of another workload may do.
Seen(w, ps) == Begins[w] \cap ps # {}

\* Variants for mutation checks: expired pods, or reported ones, are kept.
KeptForever(oldCl, ps) == Keep(oldCl, {w \in Workloads : ~Seen(w, ps)})

KeptUntilExpired(oldCl, ps) == Keep(oldCl, {w \in Workloads : oldCl.assumed[w] \notin old})

\* The assumed pods that are kept: neither expired nor reported.
Kept(oldCl, ps) ==
    Keep(oldCl, {w \in Workloads : oldCl.assumed[w] \notin old /\ ~Seen(w, ps)})

\* For a mutation check: the reported pods are added to the old ones.
AddPods(c) ==
    /\ u[c].at = "write"
    /\ cache' = [cache EXCEPT ![c] =
          [Reported(u[c].pods \cup u[c].oldCl.pods) EXCEPT
              !.assumed = Kept(u[c].oldCl, u[c].pods)]]
    /\ u' = [u EXCEPT ![c] = IdleHandler]
    /\ UNCHANGED <<db, loader, old, h, pods, placements, restarts>>

AddOrUpdateCluster(c) ==
    /\ u[c].at = "write"
    /\ cache' = [cache EXCEPT ![c] =
          [Reported(u[c].pods) EXCEPT !.assumed = Kept(u[c].oldCl, u[c].pods)]]
    /\ u' = [u EXCEPT ![c] = IdleHandler]
    /\ UNCHANGED <<db, loader, old, h, pods, placements, restarts>>

-----------------------------------------------------------------------------
(***************************************************************************)
(* Time, pods, restarts.                                                   *)
(***************************************************************************)

\* assumedPodExpiration after attempt n has added its pod.
MinutePasses(n) ==
    /\ n \notin old /\ \E c \in Clusters, w \in Workloads : cache[c].assumed[w] = n
    /\ old' = old \cup {n}
    /\ UNCHANGED <<db, loader, cache, h, u, pods, placements, restarts>>

\* staleThreshold after the last report of c.
GoesStale(c) ==
    /\ c \in Slow /\ db[c].age = "fresh" /\ u[c].at = "idle"
    /\ db' = [db EXCEPT ![c].age = "stale"]
    /\ cache' = IF cache[c].age = "fresh" THEN [cache EXCEPT ![c].age = "stale"] ELSE cache
    /\ UNCHANGED <<loader, old, h, u, pods, placements, restarts>>

PodStarts(c, w) ==
    /\ w \in waiting[c]
    /\ running' = [running EXCEPT ![c] = @ \cup {w}]
    /\ waiting' = [waiting EXCEPT ![c] = @ \ {w}]
    /\ UNCHANGED <<db, loader, cache, old, h, u, placed, placements, restarts>>

\* It ends, or it never started and leaves the cluster.
PodEnds(c, w) ==
    /\ w \in waiting[c] \cup running[c]
    /\ running' = [running EXCEPT ![c] = @ \ {w}]
    /\ waiting' = [waiting EXCEPT ![c] = @ \ {w}]
    /\ UNCHANGED <<db, loader, cache, old, h, u, placed, placements, restarts>>

\* The server starts with an empty cache.
Restart ==
    /\ restarts < MaxRestarts /\ restarts' = restarts + 1
    /\ loader' = Nowhere /\ cache' = [c \in Clusters |-> NoEntry] /\ old' = {}
    /\ h' = [p \in Handlers |-> IdleHandler]
    /\ u' = [c \in Clusters |-> IdleHandler]
    /\ UNCHANGED <<db, pods, placements>>

-----------------------------------------------------------------------------

Handler(p) ==
    \/ \E w \in Workloads : ScheduleFromCache(p, w) \/ ScheduleMisses(p, w)
    \/ ListClusters(p) \/ Install(p) \/ ScheduleFromLoaded(p) \/ GetForAssume(p) \/ AddAssumedPod(p)

Update(c) ==
    \/ BuildStatus(c) \/ CreateOrUpdateCluster(c) \/ GetForUpdate(c)
    \/ ListForUpdate(c) \/ InstallForUpdate(c) \/ AddOrUpdateCluster(c)

Next ==
    \/ \E p \in Handlers : Handler(p)
    \/ \E c \in Clusters : Update(c) \/ GoesStale(c)
    \/ \E c \in Clusters, w \in Workloads : PodStarts(c, w) \/ PodEnds(c, w)
    \/ \E n \in 1 .. MaxPlacements : MinutePasses(n)
    \/ Restart

Spec == Init /\ [][Next]_vars

(***************************************************************************)
(* Fairness: a handler that has begun goes on, clusters keep reporting and *)
(* time passes.                                                            *)
(***************************************************************************)
Fairness ==
    /\ \A p \in Handlers : WF_vars(h[p].at # "idle" /\ Handler(p))
    /\ \A c \in Clusters : WF_vars(Update(c))
    /\ \A n \in 1 .. MaxPlacements : WF_vars(MinutePasses(n))

FairSpec == Spec /\ Fairness

-----------------------------------------------------------------------------
(***************************************************************************)
(* Properties                                                              *)
(***************************************************************************)

\* Who writes a cluster into the tenant's map finds the map there: a write
\* to the nil map of a tenant that is not loaded would panic (AddAssumedPod,
\* AddOrUpdateCluster).
WritesLoadedTenant ==
    \/ Loaded
    \/ /\ \A p \in Handlers : h[p].at \in {"idle", "list", "load"}
       /\ \A c \in Clusters : u[c].at # "write"

\* No cluster gets the workload twice: every job, and a notebook when there
\* is no other cluster to come back from.
ScheduledOnce(w) ==
    Kind[w] = "job" \/ (Kind[w] = "notebook" /\ Cardinality(Clusters) = 1)

\* The GPUs of a job's pod are not counted twice in a cluster, as assumed and
\* as running, although stale copies of the cluster are written over newer
\* ones (availableGPUs adds the two up).  A notebook may come back, and an
\* object of the syncer is assumed again on every attempt to deploy it, also
\* while its pod runs (PatchKubernetesObject): of those it does not hold.
NotCountedTwice ==
    \A c \in Clusters, w \in Workloads :
        ScheduledOnce(w) => w \notin Assumed(cache[c]) \cap cache[c].pods

\* When attempts stop, an assumed pod leaves the map in the end, seen or
\* expired, although writers put back copies of the map that they took before
\* it left.  (An object that is tried again within every minute stays.)
AssumedExpires ==
    \A c \in Clusters, w \in Workloads :
        w \in Assumed(cache[c]) ~> w \notin Assumed(cache[c])

\* A report reaches the cache, although slower handlers install older copies
\* of the table over it: a pod that has ended does not take up GPUs for good.
EndedIsForgotten ==
    \A c \in Clusters, w \in Workloads :
        (w \in cache[c].pods /\ w \notin running[c])
          ~> (w \notin cache[c].pods \/ w \in running[c])

=============================================================================
