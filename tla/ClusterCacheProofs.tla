------------------------- MODULE ClusterCacheProofs -------------------------
(***************************************************************************)
(* Who writes into the tenant's map finds one, for any number of clusters, *)
(* workloads, handlers and restarts; and no job's pod is counted twice.    *)
(***************************************************************************)
EXTENDS ClusterCache, FiniteSetTheorems, TLAPS

IInv == TypeOK /\ WritesLoadedTenant

\* The records that a handler keeps while it is at a place.
LEMMA HandlerTypes ==
    ASSUME NEW x \in HandlerStates
    PROVE  /\ x.at \in {"idle", "list", "load", "iterate", "assume", "write"}
           /\ x.at # "idle" => x.work \in Workloads
           /\ x.at \in {"load", "iterate"} =>
                /\ x.work \in Workloads /\ x.clusters \in Maps
                /\ [x EXCEPT !.at = "iterate"] \in HandlerStates
                /\ [x EXCEPT !.at = "iterate"].at = "iterate"
           /\ x.at = "assume" => /\ x.work \in Workloads /\ x.cluster \in Clusters
                                 /\ x.attempt \in 0 .. MaxPlacements
           /\ x.at = "write" => /\ x.work \in Workloads /\ x.cluster \in Clusters
                                /\ x.attempt \in 0 .. MaxPlacements /\ x.cls \in Entries
<1>0. CASE x \in [at : {"list"}, work : Workloads]
  BY <1>0
<1>1. CASE x = IdleHandler
  BY <1>1 DEF IdleHandler
<1>2. CASE x \in [at : {"load", "iterate"}, work : Workloads, clusters : Maps]
  BY <1>2 DEF HandlerStates
<1>3. CASE x \in [at : {"assume"}, work : Workloads, cluster : Clusters,
                 attempt : 0 .. MaxPlacements]
  BY <1>3
<1>4. CASE x \in [at : {"write"}, work : Workloads, cluster : Clusters,
                 attempt : 0 .. MaxPlacements, cls : Entries]
  BY <1>4
<1>5. QED
  BY <1>0, <1>1, <1>2, <1>3, <1>4 DEF HandlerStates

\* The same for UpdateClusterStatus.
LEMMA UpdaterTypes ==
    ASSUME NEW x \in UpdaterStates
    PROVE  /\ x.at \in {"idle", "save", "get", "list", "load", "write"}
           /\ x.at \in {"save", "get", "list"} =>
                /\ x.pods \in SUBSET Workloads
                /\ [x EXCEPT !.at = "get"] \in UpdaterStates
                /\ [x EXCEPT !.at = "get"].at = "get"
           /\ x.at = "load" => x.pods \in SUBSET Workloads /\ x.clusters \in Maps
           /\ x.at = "write" => x.pods \in SUBSET Workloads /\ x.oldCl \in Entries
<1>1. CASE x = IdleHandler
  BY <1>1 DEF IdleHandler
<1>2. CASE x \in [at : {"save", "get", "list"}, pods : SUBSET Workloads]
  BY <1>2 DEF UpdaterStates
<1>3. CASE x \in [at : {"load"}, pods : SUBSET Workloads, clusters : Maps]
  BY <1>3
<1>4. CASE x \in [at : {"write"}, pods : SUBSET Workloads, oldCl : Entries]
  BY <1>4
<1>5. QED
  BY <1>1, <1>2, <1>3, <1>4 DEF UpdaterStates

\* The entries that are written.
LEMMA EntryTypes ==
    /\ NoEntry \in Entries
    /\ \A ps \in SUBSET Workloads : Reported(ps) \in Entries
    /\ \A e \in Entries : [e EXCEPT !.age = "stale"] \in Entries
    /\ \A ps \in SUBSET Workloads, as \in AssumedPods :
          [Reported(ps) EXCEPT !.assumed = as] \in Entries
<1>1. NoneAssumed \in AssumedPods
  BY ClusterCacheAssumption DEF NoneAssumed, AssumedPods
<1> HIDE DEF NoneAssumed, AssumedPods
<1>2. QED
  BY <1>1 DEF NoEntry, Reported, Entries

\* Schedule chooses one of the clusters.
LEMMA ScheduleTypes ==
    ASSUME NEW w, NEW prev, NEW clusters, NEW c \in Schedule(w, prev, clusters)
    PROVE  c \in Clusters
BY ClusterCacheAssumption DEF Schedule, Candidates

\* The initial state.
LEMMA InitIInv == Init => IInv
<1> SUFFICES ASSUME Init PROVE IInv
  OBVIOUS
<1>1. TypeOK
  BY EntryTypes, ClusterCacheAssumption DEF Init, TypeOK, Maps, HandlerStates, UpdaterStates
<1>2. WritesLoadedTenant
  BY DEF Init, WritesLoadedTenant, IdleHandler
<1>3. QED
  BY <1>1, <1>2 DEF IInv

\* What a caller does with the cluster it gets.
LEMMA CreateTypes ==
    ASSUME TypeOK, NEW w \in Workloads, NEW c \in Clusters, Create(w, c)
    PROVE  /\ running' = running
           /\ placed' \in [Workloads -> Clusters \cup {Nowhere}]
           /\ waiting' \in [Clusters -> SUBSET Workloads]
BY DEF Create, Place, TypeOK, pods

\* A handler decides: afterwards it is idle, or about to assume the pod.
LEMMA DecideFacts ==
    ASSUME TypeOK, NEW p \in Handlers, NEW w \in Workloads, NEW clusters,
           Decide(p, w, clusters)
    PROVE  /\ h' \in [Handlers -> HandlerStates]
           /\ h'[p].at \in {"idle", "assume"}
           /\ \A q \in Handlers : q # p => h'[q] = h[q]
           /\ running' \in [Clusters -> SUBSET Workloads]
           /\ placed' \in [Workloads -> Clusters \cup {Nowhere}]
           /\ waiting' \in [Clusters -> SUBSET Workloads]
           /\ placements' \in 0 .. MaxPlacements
<1> DEFINE best == Schedule(w, Previous(w), clusters)
<1>0. \A c \in best : c \in Clusters
  BY ScheduleTypes
<1> HIDE DEF best
<1>1. ASSUME h' = [h EXCEPT ![p] = IdleHandler]
      PROVE  /\ h' \in [Handlers -> HandlerStates]
             /\ h'[p].at \in {"idle", "assume"}
             /\ \A q \in Handlers : q # p => h'[q] = h[q]
  BY <1>1 DEF TypeOK, HandlerStates, IdleHandler
<1>2. CASE best = {} /\ h' = [h EXCEPT ![p] = IdleHandler] /\ UNCHANGED <<pods, placements>>
  BY <1>1, <1>2 DEF TypeOK, pods
<1>3. ASSUME placements < MaxPlacements, placements' = placements + 1, NEW c \in best,
             IF GpuCount[w] = 0
             THEN h' = [h EXCEPT ![p] = IdleHandler] /\ Create(w, c)
             ELSE /\ h' = [h EXCEPT ![p] = [at |-> "assume", work |-> w, cluster |-> c,
                                           attempt |-> placements + 1]]
                  /\ UNCHANGED pods
      PROVE  /\ h' \in [Handlers -> HandlerStates]
             /\ h'[p].at \in {"idle", "assume"}
             /\ \A q \in Handlers : q # p => h'[q] = h[q]
             /\ running' \in [Clusters -> SUBSET Workloads]
             /\ placed' \in [Workloads -> Clusters \cup {Nowhere}]
             /\ waiting' \in [Clusters -> SUBSET Workloads]
             /\ placements' \in 0 .. MaxPlacements
  <2>0. placements' \in 0 .. MaxPlacements
    BY <1>3, ClusterCacheAssumption DEF TypeOK
  <2>1. CASE GpuCount[w] = 0
    BY <1>0, <1>1, <1>3, <2>0, <2>1, CreateTypes DEF TypeOK
  <2>2. CASE GpuCount[w] # 0
    <3>1. [at |-> "assume", work |-> w, cluster |-> c,
           attempt |-> placements + 1] \in HandlerStates
      BY <1>0, <1>3, <2>0 DEF HandlerStates
    <3>2. QED
      BY <1>3, <2>0, <2>2, <3>1 DEF TypeOK, pods
  <2>3. QED
    BY <2>1, <2>2
<1>4. QED
  BY <1>2, <1>3 DEF Decide, best

\* A handler's steps.
LEMMA HandlerIInv ==
    ASSUME IInv, NEW p \in Handlers, Handler(p)
    PROVE  IInv'
<1> USE DEF IInv
<1>t. h[p] \in HandlerStates
  BY DEF TypeOK
<1>1. ASSUME NEW w \in Workloads, ScheduleFromCache(p, w) PROVE IInv'
  <2>1. Decide(p, w, cache)
    BY <1>1 DEF ScheduleFromCache
  <2>2. TypeOK'
    BY <1>1, <2>1, DecideFacts DEF ScheduleFromCache, TypeOK
  <2>3. WritesLoadedTenant'
    BY <1>1 DEF ScheduleFromCache, WritesLoadedTenant, Loaded
  <2>4. QED
    BY <2>2, <2>3
<1>2. ASSUME NEW w \in Workloads, ScheduleMisses(p, w) PROVE IInv'
  <2>1. [at |-> "list", work |-> w] \in HandlerStates
    BY DEF HandlerStates
  <2>2. TypeOK'
    BY <1>2, <2>1 DEF ScheduleMisses, TypeOK, pods
  <2>3. WritesLoadedTenant'
    BY <1>2 DEF ScheduleMisses, WritesLoadedTenant, Loaded, TypeOK
  <2>4. QED
    BY <2>2, <2>3
<1>l. CASE ListClusters(p)
  <2>1. h[p].work \in Workloads /\ h[p].at = "list"
    BY <1>t, <1>l, HandlerTypes DEF ListClusters
  <2>2. [at |-> "load", work |-> h[p].work, clusters |-> db] \in HandlerStates
    BY <2>1 DEF TypeOK, HandlerStates
  <2>3. TypeOK'
    BY <1>l, <2>2 DEF ListClusters, TypeOK, pods
  <2>4. WritesLoadedTenant'
    BY <1>l DEF ListClusters, WritesLoadedTenant, Loaded, TypeOK
  <2>5. QED
    BY <2>3, <2>4
<1>3. CASE Install(p)
  <2>1. TypeOK'
    BY <1>t, <1>3, HandlerTypes DEF Install, TypeOK, pods
  <2>2. WritesLoadedTenant'
    BY <1>3, ClusterCacheAssumption DEF Install, WritesLoadedTenant, Loaded
  <2>3. QED
    BY <2>1, <2>2
<1>4. CASE ScheduleFromLoaded(p)
  <2>1. h[p].work \in Workloads /\ h[p].at = "iterate"
    BY <1>t, <1>4, HandlerTypes DEF ScheduleFromLoaded
  <2>2. \E clusters : Decide(p, h[p].work, clusters)
    BY <1>4 DEF ScheduleFromLoaded
  <2>3. TypeOK'
    BY <1>4, <2>1, <2>2, DecideFacts DEF ScheduleFromLoaded, TypeOK
  <2>4. WritesLoadedTenant'
    BY <1>4, <2>1 DEF ScheduleFromLoaded, WritesLoadedTenant, Loaded
  <2>5. QED
    BY <2>3, <2>4
<1>5. CASE GetForAssume(p)
  <2>1. /\ h[p].work \in Workloads /\ h[p].cluster \in Clusters /\ h[p].at = "assume"
        /\ h[p].attempt \in 0 .. MaxPlacements
    BY <1>t, <1>5, HandlerTypes DEF GetForAssume
  <2>2. /\ [at |-> "write", work |-> h[p].work, cluster |-> h[p].cluster,
            attempt |-> h[p].attempt, cls |-> cache[h[p].cluster]] \in HandlerStates
        /\ IdleHandler \in HandlerStates
    BY <2>1 DEF TypeOK, Maps, HandlerStates
  <2>3. TypeOK'
    BY <1>5, <2>2 DEF GetForAssume, TypeOK, pods
  <2>4. WritesLoadedTenant'
    BY <1>5, <2>1 DEF GetForAssume, WritesLoadedTenant, Loaded
  <2>5. QED
    BY <2>3, <2>4
<1>6. CASE AddAssumedPod(p)
  <2>1. /\ h[p].work \in Workloads /\ h[p].cluster \in Clusters /\ h[p].at = "write"
        /\ [h[p].cls EXCEPT !.assumed[h[p].work] = h[p].attempt] \in Entries
    <3>1. /\ h[p].work \in Workloads /\ h[p].cluster \in Clusters /\ h[p].at = "write"
          /\ h[p].attempt \in 0 .. MaxPlacements /\ h[p].cls \in Entries
      BY <1>t, <1>6, HandlerTypes DEF AddAssumedPod
    <3>2. QED
      BY <3>1 DEF Entries, AssumedPods
  <2>2. TypeOK'
    <3>1. Create(h[p].work, h[p].cluster)
      BY <1>6 DEF AddAssumedPod
    <3>2. QED
      BY <1>6, <2>1, <3>1, CreateTypes DEF AddAssumedPod, TypeOK, Maps, HandlerStates
  <2>3. WritesLoadedTenant'
    BY <1>6, <2>1 DEF AddAssumedPod, WritesLoadedTenant, Loaded
  <2>4. QED
    BY <2>2, <2>3
<1>7. QED
  BY <1>1, <1>2, <1>l, <1>3, <1>4, <1>5, <1>6 DEF Handler

\* The steps of UpdateClusterStatus.
LEMMA UpdateIInv ==
    ASSUME IInv, NEW c \in Clusters, Update(c)
    PROVE  IInv'
<1> USE DEF IInv
<1>t. u[c] \in UpdaterStates
  BY DEF TypeOK
<1>1. CASE BuildStatus(c)
  <2>1. [at |-> "save", pods |-> running[c]] \in UpdaterStates
    BY DEF TypeOK, UpdaterStates
  <2>2. TypeOK'
    BY <1>1, <2>1 DEF BuildStatus, TypeOK, pods
  <2>3. WritesLoadedTenant'
    BY <1>1 DEF BuildStatus, WritesLoadedTenant, Loaded, TypeOK
  <2>4. QED
    BY <2>2, <2>3
<1>2. CASE CreateOrUpdateCluster(c)
  <2>1. /\ u[c].pods \in SUBSET Workloads
        /\ [u[c] EXCEPT !.at = "get"] \in UpdaterStates
        /\ [u[c] EXCEPT !.at = "get"].at = "get"
    BY <1>t, <1>2, UpdaterTypes DEF CreateOrUpdateCluster
  <2>2. TypeOK'
    BY <1>2, <2>1, EntryTypes DEF CreateOrUpdateCluster, TypeOK, Maps, pods
  <2>3. WritesLoadedTenant'
    BY <1>2, <2>1 DEF CreateOrUpdateCluster, WritesLoadedTenant, Loaded, TypeOK
  <2>4. QED
    BY <2>2, <2>3
<1>3. CASE GetForUpdate(c)
  <2>1. u[c].pods \in SUBSET Workloads
    BY <1>t, <1>3, UpdaterTypes DEF GetForUpdate
  <2>2. /\ [at |-> "write", pods |-> u[c].pods, oldCl |-> cache[c]] \in UpdaterStates
        /\ [at |-> "list", pods |-> u[c].pods] \in UpdaterStates
    BY <2>1 DEF TypeOK, Maps, UpdaterStates
  <2>3. TypeOK'
    BY <1>3, <2>2 DEF GetForUpdate, TypeOK, pods
  <2>4. WritesLoadedTenant'
    BY <1>3 DEF GetForUpdate, WritesLoadedTenant, Loaded, TypeOK
  <2>5. QED
    BY <2>3, <2>4
<1>l. CASE ListForUpdate(c)
  <2>1. u[c].pods \in SUBSET Workloads
    BY <1>t, <1>l, UpdaterTypes DEF ListForUpdate
  <2>2. /\ [at |-> "write", pods |-> u[c].pods, oldCl |-> cache[c]] \in UpdaterStates
        /\ [at |-> "load", pods |-> u[c].pods, clusters |-> db] \in UpdaterStates
    BY <2>1 DEF TypeOK, Maps, UpdaterStates
  <2>3. TypeOK'
    BY <1>l, <2>2 DEF ListForUpdate, TypeOK, pods
  <2>4. WritesLoadedTenant'
    BY <1>l DEF ListForUpdate, WritesLoadedTenant, Loaded, TypeOK
  <2>5. QED
    BY <2>3, <2>4
<1>4. CASE InstallForUpdate(c)
  <2>1. u[c].pods \in SUBSET Workloads /\ u[c].clusters \in Maps
    BY <1>t, <1>4, UpdaterTypes DEF InstallForUpdate
  <2>2. [at |-> "write", pods |-> u[c].pods, oldCl |-> u[c].clusters[c]] \in UpdaterStates
    BY <2>1 DEF Maps, UpdaterStates
  <2>3. TypeOK'
    BY <1>4, <2>1, <2>2 DEF InstallForUpdate, TypeOK, pods
  <2>4. WritesLoadedTenant'
    BY <1>4, ClusterCacheAssumption DEF InstallForUpdate, WritesLoadedTenant, Loaded
  <2>5. QED
    BY <2>3, <2>4
<1>5. CASE AddOrUpdateCluster(c)
  <2>1. u[c].pods \in SUBSET Workloads /\ u[c].oldCl \in Entries /\ u[c].at = "write"
    BY <1>t, <1>5, UpdaterTypes DEF AddOrUpdateCluster
  <2>2. Kept(u[c].oldCl, u[c].pods) \in AssumedPods
    BY <2>1, ClusterCacheAssumption DEF Kept, Keep, Entries, AssumedPods
  <2>3. [Reported(u[c].pods) EXCEPT !.assumed = Kept(u[c].oldCl, u[c].pods)] \in Entries
    BY <2>1, <2>2, EntryTypes
  <2>4. TypeOK'
    BY <1>5, <2>3 DEF AddOrUpdateCluster, TypeOK, Maps, UpdaterStates, pods
  <2>5. WritesLoadedTenant'
    BY <1>5, <2>1 DEF AddOrUpdateCluster, WritesLoadedTenant, Loaded
  <2>6. QED
    BY <2>4, <2>5
<1>6. QED
  BY <1>1, <1>2, <1>3, <1>l, <1>4, <1>5 DEF Update

\* Time, pods and restarts.
LEMMA OtherIInv ==
    ASSUME IInv,
           \/ Restart
           \/ \E c \in Clusters : GoesStale(c)
           \/ \E c \in Clusters, w \in Workloads : PodStarts(c, w) \/ PodEnds(c, w)
           \/ \E n \in 1 .. MaxPlacements : MinutePasses(n)
    PROVE  IInv'
<1> USE DEF IInv
<1>1. CASE Restart
  <2>1. TypeOK'
    BY <1>1, EntryTypes, ClusterCacheAssumption
       DEF Restart, TypeOK, Maps, HandlerStates, UpdaterStates, pods
  <2>2. WritesLoadedTenant'
    BY <1>1 DEF Restart, WritesLoadedTenant, IdleHandler
  <2>3. QED
    BY <2>1, <2>2
<1>2. ASSUME NEW c \in Clusters, GoesStale(c) PROVE IInv'
  <2>1. TypeOK'
    BY <1>2, EntryTypes DEF GoesStale, TypeOK, Maps, pods
  <2>2. WritesLoadedTenant'
    BY <1>2 DEF GoesStale, WritesLoadedTenant, Loaded
  <2>3. QED
    BY <2>1, <2>2
<1>3. ASSUME NEW c \in Clusters, NEW w \in Workloads, PodStarts(c, w) \/ PodEnds(c, w)
      PROVE  IInv'
  <2>1. TypeOK'
    <3>1. /\ running' \in [Clusters -> SUBSET Workloads]
          /\ waiting' \in [Clusters -> SUBSET Workloads]
      <4>1. CASE PodStarts(c, w)
        BY <4>1 DEF PodStarts, TypeOK
      <4>2. CASE PodEnds(c, w)
        BY <4>2 DEF PodEnds, TypeOK
      <4>3. QED
        BY <1>3, <4>1, <4>2
    <3>2. QED
      BY <1>3, <3>1, Zenon DEF PodStarts, PodEnds, TypeOK
  <2>2. WritesLoadedTenant'
    BY <1>3 DEF PodStarts, PodEnds, WritesLoadedTenant, Loaded
  <2>3. QED
    BY <2>1, <2>2
<1>4. ASSUME NEW n \in 1 .. MaxPlacements, MinutePasses(n) PROVE IInv'
  <2>1. TypeOK'
    BY <1>4 DEF MinutePasses, TypeOK, pods
  <2>2. WritesLoadedTenant'
    BY <1>4 DEF MinutePasses, WritesLoadedTenant, Loaded
  <2>3. QED
    BY <2>1, <2>2
<1>5. QED
  BY <1>1, <1>2, <1>3, <1>4

\* The two together.
LEMMA CacheInvariance == Spec => []IInv
<1>1. IInv /\ [Next]_vars => IInv'
  <2> SUFFICES ASSUME IInv, [Next]_vars PROVE IInv'
    OBVIOUS
  <2>1. CASE Next
    BY <2>1, HandlerIInv, UpdateIInv, OtherIInv DEF Next
  <2>2. CASE UNCHANGED vars
    BY <2>2 DEF vars, IInv, TypeOK, WritesLoadedTenant, Loaded
  <2>3. QED
    BY <2>1, <2>2
<1>2. QED
  BY <1>1, InitIInv, PTL DEF Spec

\* Whoever writes into the tenant's map finds it in the cache (and the types
\* are right), for any number of clusters, workloads, handlers and restarts.
THEOREM WritesLoadedTenantHolds == Spec => [](TypeOK /\ WritesLoadedTenant)
<1>1. IInv => TypeOK /\ WritesLoadedTenant
  BY DEF IInv
<1>2. QED
  BY <1>1, CacheInvariance, PTL

-----------------------------------------------------------------------------
(***************************************************************************)
(* A workload that is scheduled once (a job; a notebook in a single        *)
(* cluster): when a handler is about to assume it, it has never been       *)
(* placed, so that no report, and no copy of one in the cache, the table   *)
(* or a goroutine, has its pod.                                            *)
(***************************************************************************)

\* pl is placed, now or in the next state.
SeenPlaced(pl, ps) == \A w \in ps : pl[w] # Nowhere

Sound(pl, e) ==
    /\ SeenPlaced(pl, e.pods)
    /\ \A w \in e.pods : ScheduledOnce(w) => e.assumed[w] = 0

SoundMap(pl, m) == \A c \in Clusters : Sound(pl, m[c])

HandlerOK(pl, x) ==
    /\ x.at \in {"load", "iterate"} => SoundMap(pl, x.clusters)
    /\ x.at # "idle" /\ Kind[x.work] = "job" => pl[x.work] = Nowhere
    /\ x.at \in {"assume", "write"} /\ ScheduledOnce(x.work) => pl[x.work] = Nowhere
    /\ x.at = "write" => Sound(pl, x.cls)

UpdaterOK(pl, x) ==
    /\ x.at # "idle" => SeenPlaced(pl, x.pods)
    /\ x.at = "load" => SoundMap(pl, x.clusters)

\* No two handlers have the same job or notebook.
OneHandlerEach ==
    \A p, q \in Handlers :
        h[p].at # "idle" /\ h[q].at # "idle" /\ h[p].work = h[q].work
          => p = q \/ Kind[h[p].work] = "object"

MapsOK == SoundMap(placed, db) /\ SoundMap(placed, cache)

PodsOK ==
    \A c \in Clusters : SeenPlaced(placed, waiting[c]) /\ SeenPlaced(placed, running[c])

CInv ==
    /\ OneHandlerEach /\ MapsOK /\ PodsOK
    /\ \A p \in Handlers : HandlerOK(placed, h[p])
    /\ \A c \in Clusters : UpdaterOK(placed, u[c])

\* What was placed stays placed.
Grows(pl, new) == \A w \in Workloads : pl[w] # Nowhere => new[w] # Nowhere

LEMMA Monotone ==
    ASSUME NEW pl, NEW new, Grows(pl, new)
    PROVE  /\ \A ps \in SUBSET Workloads : SeenPlaced(pl, ps) => SeenPlaced(new, ps)
           /\ \A e \in Entries : Sound(pl, e) => Sound(new, e)
           /\ \A m \in Maps : SoundMap(pl, m) => SoundMap(new, m)
<1>1. \A ps \in SUBSET Workloads : SeenPlaced(pl, ps) => SeenPlaced(new, ps)
  BY DEF Grows, SeenPlaced
<1>2. \A e \in Entries : e.pods \in SUBSET Workloads
  BY DEF Entries
<1>3. \A e \in Entries : Sound(pl, e) => Sound(new, e)
  BY <1>1, <1>2 DEF Sound
<1>4. \A m \in Maps : SoundMap(pl, m) => SoundMap(new, m)
  BY <1>3 DEF SoundMap, Maps
<1>5. QED
  BY <1>1, <1>3, <1>4

\* What is in the hands of a handler, and of UpdateClusterStatus.
LEMMA InHand ==
    /\ \A x \in HandlerStates :
          /\ x.at \in {"load", "iterate"} => x.clusters \in Maps
          /\ x.at = "write" => x.cls \in Entries
    /\ \A x \in UpdaterStates :
          /\ x.at # "idle" => x.pods \in SUBSET Workloads
          /\ x.at = "load" => x.clusters \in Maps
<1>1. ASSUME NEW x \in HandlerStates
      PROVE  /\ x.at \in {"load", "iterate"} => x.clusters \in Maps
             /\ x.at = "write" => x.cls \in Entries
  BY <1>1, HandlerTypes, Zenon
<1>2. ASSUME NEW x \in UpdaterStates
      PROVE  /\ x.at # "idle" => x.pods \in SUBSET Workloads
             /\ x.at = "load" => x.clusters \in Maps
  BY <1>2, UpdaterTypes, Zenon
<1>3. QED
  BY <1>1, <1>2

\* A handler, or a call of UpdateClusterStatus, that does not move.
LEMMA OthersOK ==
    ASSUME NEW pl, NEW new, Grows(pl, new)
    PROVE  /\ \A x \in HandlerStates :
                /\ HandlerOK(pl, x)
                /\ x.at # "idle" => new[x.work] = pl[x.work] \/ Kind[x.work] = "object"
                => HandlerOK(new, x)
           /\ \A x \in UpdaterStates : UpdaterOK(pl, x) => UpdaterOK(new, x)
<1>1. ASSUME NEW x \in HandlerStates, HandlerOK(pl, x),
             x.at # "idle" => new[x.work] = pl[x.work] \/ Kind[x.work] = "object"
      PROVE  HandlerOK(new, x)
  <2>1. x.at \in {"load", "iterate"} => SoundMap(new, x.clusters)
    <3>1. x.at \in {"load", "iterate"} => x.clusters \in Maps
      BY <1>1, InHand
    <3>2. QED
      BY <1>1, <3>1, Monotone DEF HandlerOK
  <2>2. /\ x.at # "idle" /\ Kind[x.work] = "job" => new[x.work] = Nowhere
        /\ x.at \in {"assume", "write"} /\ ScheduledOnce(x.work) => new[x.work] = Nowhere
    BY <1>1 DEF HandlerOK, ScheduledOnce
  <2>3. x.at = "write" => Sound(new, x.cls)
    <3>1. x.at = "write" => x.cls \in Entries
      BY <1>1, InHand
    <3>2. QED
      BY <1>1, <3>1, Monotone DEF HandlerOK
  <2>4. QED
    BY <2>1, <2>2, <2>3 DEF HandlerOK
<1>2. ASSUME NEW x \in UpdaterStates, UpdaterOK(pl, x)
      PROVE  UpdaterOK(new, x)
  <2>1. /\ x.at # "idle" => x.pods \in SUBSET Workloads
        /\ x.at = "load" => x.clusters \in Maps
    BY <1>2, InHand
  <2>2. x.at # "idle" => SeenPlaced(new, x.pods)
    BY <1>2, <2>1, Monotone DEF UpdaterOK
  <2>3. x.at = "load" => SoundMap(new, x.clusters)
    BY <1>2, <2>1, Monotone DEF UpdaterOK
  <2>4. QED
    BY <2>2, <2>3 DEF UpdaterOK
<1>3. QED
  BY <1>1, <1>2

\* What a caller does with its cluster never takes a workload back.
LEMMA CreateFacts ==
    ASSUME TypeOK, NEW w \in Workloads, NEW c \in Clusters, Create(w, c)
    PROVE  /\ running' = running
           /\ Grows(placed, placed') /\ \A v \in Workloads : v # w => placed'[v] = placed[v]
           /\ \A d \in Clusters :
                 waiting'[d] = waiting[d] \/ (waiting'[d] \subseteq waiting[d] \cup {w}
                                              /\ placed'[w] # Nowhere)
<1>1. CASE Place(w, c)
  <2>1. /\ placed' = [placed EXCEPT ![w] = c] /\ running' = running
        /\ waiting' = [waiting EXCEPT ![c] = @ \cup ({w} \ running[c])]
    BY <1>1 DEF Place
  <2>2. placed'[w] # Nowhere /\ \A v \in Workloads : v # w => placed'[v] = placed[v]
    BY <2>1, ClusterCacheAssumption DEF TypeOK
  <2>3. \A d \in Clusters : waiting'[d] \subseteq waiting[d] \cup {w}
    BY <2>1 DEF TypeOK
  <2>4. QED
    BY <2>1, <2>2, <2>3 DEF Grows
<1>2. CASE UNCHANGED pods
  BY <1>2 DEF pods, Grows
<1>3. QED
  BY <1>1, <1>2 DEF Create

\* What Schedule may choose for a workload that is scheduled once: nothing,
\* when it has been placed.
LEMMA ChosenOnce ==
    ASSUME TypeOK, NEW w \in Workloads, ScheduledOnce(w),
           Kind[w] = "job" => placed[w] = Nowhere,
           NEW clusters, NEW c \in Schedule(w, Previous(w), clusters)
    PROVE  placed[w] = Nowhere
<1>1. c \in Clusters /\ c # Previous(w)
  BY ScheduleTypes DEF Schedule, Candidates
<1>2. CASE Kind[w] = "notebook" /\ Cardinality(Clusters) = 1
  <2>1. PICK d : Clusters = {d}
    BY <1>2, FiniteAssumption, FS_Singleton
  <2>2. QED
    BY <1>1, <1>2, <2>1 DEF Previous, TypeOK
<1>3. QED
  BY <1>2 DEF ScheduledOnce

\* A handler decides: the workload it is about to assume, if that is
\* scheduled once, has not been placed.
LEMMA DecideOnce ==
    ASSUME TypeOK, NEW p \in Handlers, NEW w \in Workloads,
           Kind[w] = "job" => placed[w] = Nowhere,
           NEW clusters, Decide(p, w, clusters)
    PROVE  /\ \A q \in Handlers : q # p => h'[q] = h[q]
           /\ \/ h'[p].at = "idle"
              \/ /\ h'[p].at = "assume" /\ h'[p].work = w /\ placed' = placed
                 /\ ScheduledOnce(w) => placed[w] = Nowhere
           /\ Grows(placed, placed') /\ \A v \in Workloads : v # w => placed'[v] = placed[v]
           /\ running' = running
           /\ \A d \in Clusters :
                 waiting'[d] = waiting[d] \/ (waiting'[d] \subseteq waiting[d] \cup {w}
                                              /\ placed'[w] # Nowhere)
<1> DEFINE best == Schedule(w, Previous(w), clusters)
<1>0. \A c \in best : c \in Clusters /\ (ScheduledOnce(w) => placed[w] = Nowhere)
  BY ScheduleTypes, ChosenOnce
<1> HIDE DEF best
<1>1. ASSUME h' = [h EXCEPT ![p] = IdleHandler]
      PROVE  h'[p].at = "idle" /\ \A q \in Handlers : q # p => h'[q] = h[q]
  BY <1>1 DEF TypeOK, IdleHandler
<1>2. ASSUME UNCHANGED pods
      PROVE  /\ Grows(placed, placed') /\ placed' = placed
             /\ running' = running /\ waiting' = waiting
  BY <1>2 DEF pods, Grows
<1>3. CASE h' = [h EXCEPT ![p] = IdleHandler] /\ UNCHANGED pods
  BY <1>1, <1>2, <1>3
<1>4. ASSUME NEW c \in best, h' = [h EXCEPT ![p] = IdleHandler], Create(w, c)
      PROVE  /\ h'[p].at = "idle" /\ \A q \in Handlers : q # p => h'[q] = h[q]
             /\ Grows(placed, placed') /\ \A v \in Workloads : v # w => placed'[v] = placed[v]
             /\ running' = running
             /\ \A d \in Clusters :
                   waiting'[d] = waiting[d] \/ (waiting'[d] \subseteq waiting[d] \cup {w}
                                                /\ placed'[w] # Nowhere)
  BY <1>0, <1>1, <1>4, CreateFacts, Zenon
<1>5. ASSUME NEW c \in best, UNCHANGED pods,
             h' = [h EXCEPT ![p] = [at |-> "assume", work |-> w, cluster |-> c,
                                    attempt |-> placements + 1]]
      PROVE  /\ h'[p].at = "assume" /\ h'[p].work = w
             /\ \A q \in Handlers : q # p => h'[q] = h[q]
             /\ ScheduledOnce(w) => placed[w] = Nowhere
  BY <1>0, <1>5 DEF TypeOK
<1>6. \/ h' = [h EXCEPT ![p] = IdleHandler] /\ UNCHANGED pods
      \/ \E c \in best : h' = [h EXCEPT ![p] = IdleHandler] /\ Create(w, c)
      \/ /\ UNCHANGED pods
         /\ \E c \in best : h' = [h EXCEPT ![p] = [at |-> "assume", work |-> w, cluster |-> c,
                                                    attempt |-> placements + 1]]
  BY Zenon DEF Decide, best
<1>7. QED
  BY <1>2, <1>3, <1>4, <1>5, <1>6, Zenon

\* A step of one handler, which has w at hand as no other one does, unless w
\* is an object of the syncer.
LEMMA HandlerMoves ==
    ASSUME TypeOK, CInv, NEW p \in Handlers, NEW w \in Workloads,
           \A q \in Handlers : q # p => h'[q] = h[q],
           \A q \in Handlers :
               q # p /\ h[q].at # "idle" => h[q].work # w \/ Kind[w] = "object",
           h'[p].at # "idle" => h'[p].work = w,
           HandlerOK(placed', h'[p]),
           Grows(placed, placed'), \A v \in Workloads : v # w => placed'[v] = placed[v],
           u' = u, MapsOK', PodsOK'
    PROVE  CInv'
<1>1. OneHandlerEach'
  BY DEF CInv, OneHandlerEach
<1>2. ASSUME NEW q \in Handlers PROVE HandlerOK(placed', h'[q])
  <2>1. CASE q = p
    BY <2>1
  <2>2. CASE q # p
    <3>1. h'[q] = h[q] /\ h[q] \in HandlerStates /\ HandlerOK(placed, h[q])
      BY <1>2, <2>2 DEF TypeOK, CInv
    <3>2. h[q].at # "idle" => h[q].work \in Workloads
      BY <3>1, HandlerTypes, Zenon
    <3>3. h[q].at # "idle" => \/ placed'[h[q].work] = placed[h[q].work]
                              \/ Kind[h[q].work] = "object"
      BY <1>2, <2>2, <3>2
    <3>4. HandlerOK(placed', h[q])
      BY <3>1, <3>3, OthersOK
    <3>5. QED
      BY <3>1, <3>4
  <2>3. QED
    BY <2>1, <2>2
<1>3. ASSUME NEW c \in Clusters PROVE UpdaterOK(placed', u'[c])
  <2>1. u[c] \in UpdaterStates /\ UpdaterOK(placed, u[c])
    BY <1>3 DEF TypeOK, CInv
  <2>2. QED
    BY <2>1, OthersOK
<1>4. QED
  BY <1>1, <1>2, <1>3 DEF CInv

\* A step of one call of UpdateClusterStatus.
LEMMA UpdaterMoves ==
    ASSUME CInv, NEW c \in Clusters, \A d \in Clusters : d # c => u'[d] = u[d],
           UpdaterOK(placed, u'[c]), h' = h, UNCHANGED pods, MapsOK'
    PROVE  CInv'
<1>1. placed' = placed /\ running' = running /\ waiting' = waiting
  BY DEF pods
<1>2. OneHandlerEach' /\ PodsOK'
  BY <1>1 DEF CInv, OneHandlerEach, PodsOK
<1>3. \A p \in Handlers : HandlerOK(placed', h'[p])
  BY <1>1 DEF CInv
<1>4. \A d \in Clusters : UpdaterOK(placed', u'[d])
  BY <1>1 DEF CInv
<1>5. QED
  BY <1>2, <1>3, <1>4 DEF CInv

\* Maps and pods stay right when only placed grows.
LEMMA MapsFrame ==
    ASSUME TypeOK, CInv, Grows(placed, placed')
    PROVE  /\ db' = db => SoundMap(placed', db')
           /\ cache' = cache => SoundMap(placed', cache')
           /\ \A c \in Clusters : SeenPlaced(placed', waiting[c]) /\ SeenPlaced(placed', running[c])
<1>1. /\ db \in Maps /\ cache \in Maps
      /\ \A c \in Clusters : waiting[c] \in SUBSET Workloads /\ running[c] \in SUBSET Workloads
  BY DEF TypeOK
<1>2. /\ SoundMap(placed, db) /\ SoundMap(placed, cache)
      /\ \A c \in Clusters : SeenPlaced(placed, waiting[c]) /\ SeenPlaced(placed, running[c])
  BY DEF CInv, MapsOK, PodsOK
<1>3. /\ SoundMap(placed', db) /\ SoundMap(placed', cache)
      /\ \A c \in Clusters : SeenPlaced(placed', waiting[c]) /\ SeenPlaced(placed', running[c])
  BY <1>1, <1>2, Monotone
<1>4. QED
  BY <1>3

\* Pods stay right when w is placed and its pods wait.
LEMMA PodsFrame ==
    ASSUME TypeOK, CInv, Grows(placed, placed'), running' = running, NEW w,
           \A d \in Clusters :
               waiting'[d] = waiting[d] \/ (waiting'[d] \subseteq waiting[d] \cup {w}
                                            /\ placed'[w] # Nowhere)
    PROVE  PodsOK'
<1>1. \A c \in Clusters : SeenPlaced(placed', waiting[c]) /\ SeenPlaced(placed', running[c])
  BY MapsFrame
<1>2. \A c \in Clusters : SeenPlaced(placed', waiting'[c]) /\ SeenPlaced(placed', running'[c])
  BY <1>1 DEF SeenPlaced
<1>3. QED
  BY <1>2 DEF PodsOK

\* A handler decides.
LEMMA DecideKeeps ==
    ASSUME TypeOK, CInv, NEW p \in Handlers, NEW w \in Workloads,
           \A q \in Handlers :
               q # p /\ h[q].at # "idle" => h[q].work # w \/ Kind[w] = "object",
           Kind[w] = "job" => placed[w] = Nowhere,
           NEW clusters, Decide(p, w, clusters), UNCHANGED <<db, cache, u>>
    PROVE  CInv'
<1>1. /\ \A q \in Handlers : q # p => h'[q] = h[q]
      /\ \/ h'[p].at = "idle"
         \/ /\ h'[p].at = "assume" /\ h'[p].work = w /\ placed' = placed
            /\ ScheduledOnce(w) => placed[w] = Nowhere
      /\ Grows(placed, placed') /\ \A v \in Workloads : v # w => placed'[v] = placed[v]
      /\ running' = running
      /\ \A d \in Clusters :
            waiting'[d] = waiting[d] \/ (waiting'[d] \subseteq waiting[d] \cup {w}
                                         /\ placed'[w] # Nowhere)
  BY DecideOnce
<1>2. MapsOK'
  BY <1>1, MapsFrame DEF MapsOK
<1>3. PodsOK'
  BY <1>1, PodsFrame
<1>4. HandlerOK(placed', h'[p])
  BY <1>1 DEF HandlerOK
<1>5. (h'[p].at # "idle" => h'[p].work = w) /\ u' = u
  BY <1>1
<1>6. QED
  BY <1>1, <1>2, <1>3, <1>4, <1>5, HandlerMoves

\* The steps of a handler.
LEMMA HandlerCInv ==
    ASSUME TypeOK, CInv, NEW p \in Handlers, Handler(p)
    PROVE  CInv'
<1>t. h[p] \in HandlerStates
  BY DEF TypeOK
<1>g. Grows(placed, placed)
  BY DEF Grows
<1>o. \A q \in Handlers : h[p].at # "idle" /\ q # p /\ h[q].at # "idle" =>
          h[q].work # h[p].work \/ Kind[h[p].work] = "object"
  BY DEF CInv, OneHandlerEach
<1>p. PodsOK /\ (UNCHANGED pods => PodsOK')
  BY DEF CInv, PodsOK, pods
<1>s. ASSUME NEW w \in Workloads, MaySchedule(w)
      PROVE  /\ \A q \in Handlers : h[q].at # "idle" => h[q].work # w \/ Kind[w] = "object"
             /\ Kind[w] = "job" => placed[w] = Nowhere
  BY <1>s DEF MaySchedule, Idle
<1>k. HandlerOK(placed, h[p])
  BY DEF CInv
<1>1. ASSUME NEW w \in Workloads, ScheduleFromCache(p, w) PROVE CInv'
  <2>1. Decide(p, w, cache) /\ UNCHANGED <<db, cache, u>> /\ MaySchedule(w)
    BY <1>1 DEF ScheduleFromCache
  <2>2. QED
    BY <1>s, <2>1, DecideKeeps
<1>2. ASSUME NEW w \in Workloads, ScheduleMisses(p, w) PROVE CInv'
  <2>1. /\ h' = [h EXCEPT ![p] = [at |-> "list", work |-> w]] /\ MaySchedule(w)
        /\ db' = db /\ cache' = cache /\ u' = u /\ UNCHANGED pods /\ placed' = placed
    BY <1>2 DEF ScheduleMisses, pods
  <2>2. /\ h'[p].at = "list" /\ h'[p].work = w
        /\ \A q \in Handlers : q # p => h'[q] = h[q]
    BY <2>1 DEF TypeOK
  <2>3. HandlerOK(placed', h'[p])
    BY <1>s, <2>1, <2>2 DEF HandlerOK
  <2>4. MapsOK' /\ PodsOK'
    BY <1>g, <1>p, <2>1, MapsFrame DEF MapsOK
  <2>5. Grows(placed, placed') /\ \A v \in Workloads : v # w => placed'[v] = placed[v]
    BY <1>g, <2>1
  <2>6. QED
    BY <1>s, <2>1, <2>2, <2>3, <2>4, <2>5, HandlerMoves
<1>l. CASE ListClusters(p)
  <2>0. h[p].at = "list" /\ h[p].work \in Workloads
    BY <1>t, <1>l, HandlerTypes DEF ListClusters
  <2>1. /\ h' = [h EXCEPT ![p] = [at |-> "load", work |-> h[p].work, clusters |-> db]]
        /\ db' = db /\ cache' = cache /\ u' = u /\ UNCHANGED pods /\ placed' = placed
    BY <1>l DEF ListClusters, pods
  <2>2. /\ h'[p].at = "load" /\ h'[p].work = h[p].work /\ h'[p].clusters = db
        /\ \A q \in Handlers : q # p => h'[q] = h[q]
    BY <2>1 DEF TypeOK
  <2>3. HandlerOK(placed', h'[p])
    BY <1>k, <2>0, <2>1, <2>2 DEF HandlerOK, CInv, MapsOK
  <2>4. MapsOK' /\ PodsOK'
    BY <1>g, <1>p, <2>1, MapsFrame DEF MapsOK
  <2>5. Grows(placed, placed') /\ \A v \in Workloads : v # h[p].work => placed'[v] = placed[v]
    BY <1>g, <2>1
  <2>6. u' = u /\ \A q \in Handlers : q # p /\ h[q].at # "idle" =>
                      h[q].work # h[p].work \/ Kind[h[p].work] = "object"
    BY <1>o, <2>0, <2>1
  <2>7. QED
    BY <2>0, <2>2, <2>3, <2>4, <2>5, <2>6, HandlerMoves
<1>3. CASE Install(p)
  <2>0. h[p].at = "load" /\ h[p].work \in Workloads
    BY <1>t, <1>3, HandlerTypes DEF Install
  <2>1. /\ h' = [h EXCEPT ![p].at = "iterate"]
        /\ db' = db /\ cache' = h[p].clusters /\ u' = u /\ UNCHANGED pods /\ placed' = placed
    BY <1>3 DEF Install, pods
  <2>a. h[p] \in [at : {"load", "iterate"}, work : Workloads, clusters : Maps]
    BY <1>t, <2>0 DEF HandlerStates, IdleHandler
  <2>2. /\ h'[p].at = "iterate" /\ h'[p].work = h[p].work /\ h'[p].clusters = h[p].clusters
        /\ \A q \in Handlers : q # p => h'[q] = h[q]
    BY <2>1, <2>a DEF TypeOK
  <2>b. SoundMap(placed, h[p].clusters)
    BY <1>k, <2>0 DEF HandlerOK
  <2>3. HandlerOK(placed', h'[p])
    BY <1>k, <2>0, <2>1, <2>2, <2>b DEF HandlerOK
  <2>4. MapsOK' /\ PodsOK'
    BY <1>g, <1>p, <2>1, <2>b, MapsFrame DEF MapsOK
  <2>5. Grows(placed, placed') /\ \A v \in Workloads : v # h[p].work => placed'[v] = placed[v]
    BY <1>g, <2>1
  <2>6. u' = u /\ \A q \in Handlers : q # p /\ h[q].at # "idle" =>
                      h[q].work # h[p].work \/ Kind[h[p].work] = "object"
    BY <1>o, <2>0, <2>1
  <2>7. QED
    BY <2>0, <2>2, <2>3, <2>4, <2>5, <2>6, HandlerMoves
<1>4. CASE ScheduleFromLoaded(p)
  <2>1. h[p].at = "iterate" /\ h[p].work \in Workloads
    BY <1>t, <1>4, HandlerTypes DEF ScheduleFromLoaded
  <2>2. (\E clusters : Decide(p, h[p].work, clusters)) /\ UNCHANGED <<db, cache, u>>
    BY <1>4 DEF ScheduleFromLoaded
  <2>3. Kind[h[p].work] = "job" => placed[h[p].work] = Nowhere
    BY <1>k, <2>1 DEF HandlerOK
  <2>4. QED
    BY <1>o, <2>1, <2>2, <2>3, DecideKeeps
<1>5. CASE GetForAssume(p)
  <2>0. h[p].at = "assume" /\ h[p].work \in Workloads /\ h[p].cluster \in Clusters
    BY <1>t, <1>5, HandlerTypes, Zenon DEF GetForAssume
  <2>1. /\ h' = [h EXCEPT ![p] = IF cache[h[p].cluster].age = "absent" THEN IdleHandler
                  ELSE [at |-> "write", work |-> h[p].work, cluster |-> h[p].cluster,
                        attempt |-> h[p].attempt, cls |-> cache[h[p].cluster]]]
        /\ db' = db /\ cache' = cache /\ u' = u /\ UNCHANGED pods /\ placed' = placed
    BY <1>5 DEF GetForAssume, pods
  <2>2. /\ \/ h'[p].at = "idle"
           \/ /\ h'[p].at = "write" /\ h'[p].work = h[p].work
              /\ h'[p].cls = cache[h[p].cluster]
        /\ \A q \in Handlers : q # p => h'[q] = h[q]
    BY <2>1, Zenon DEF TypeOK, IdleHandler
  <2>a. /\ Sound(placed, cache[h[p].cluster])
        /\ ScheduledOnce(h[p].work) => placed[h[p].work] = Nowhere
        /\ Kind[h[p].work] = "job" => placed[h[p].work] = Nowhere
    BY <1>k, <2>0 DEF HandlerOK, CInv, MapsOK, SoundMap
  <2>b. placed' = placed
    BY <2>1
  <2>3. HandlerOK(placed', h'[p]) /\ (h'[p].at # "idle" => h'[p].work = h[p].work)
    <3>1. CASE h'[p].at = "idle"
      BY <3>1 DEF HandlerOK
    <3>2. CASE /\ h'[p].at = "write" /\ h'[p].work = h[p].work
               /\ h'[p].cls = cache[h[p].cluster]
      BY <2>a, <2>b, <3>2 DEF HandlerOK
    <3>3. QED
      BY <2>2, <3>1, <3>2
  <2>4. MapsOK' /\ PodsOK'
    BY <1>g, <1>p, <2>1, MapsFrame DEF MapsOK
  <2>5. Grows(placed, placed') /\ \A v \in Workloads : v # h[p].work => placed'[v] = placed[v]
    BY <1>g, <2>1
  <2>6. u' = u /\ \A q \in Handlers : q # p /\ h[q].at # "idle" =>
                      h[q].work # h[p].work \/ Kind[h[p].work] = "object"
    BY <1>o, <2>0, <2>1, SMTT(20)
  <2>7. QED
    BY <2>0, <2>2, <2>3, <2>4, <2>5, <2>6, HandlerMoves
<1>6. CASE AddAssumedPod(p)
  <2> DEFINE w == h[p].work
             c == h[p].cluster
             e == [h[p].cls EXCEPT !.assumed[w] = h[p].attempt]
  <2>0. h[p].at = "write" /\ w \in Workloads /\ c \in Clusters /\ h[p].cls \in Entries
    BY <1>t, <1>6, HandlerTypes, Zenon DEF AddAssumedPod
  <2>1. /\ h' = [h EXCEPT ![p] = IdleHandler]
        /\ db' = db /\ cache' = [cache EXCEPT ![c] = e] /\ u' = u /\ Create(w, c)
    BY <1>6 DEF AddAssumedPod
  <2>2. h'[p].at = "idle" /\ \A q \in Handlers : q # p => h'[q] = h[q]
    BY <2>1 DEF TypeOK, IdleHandler
  <2>3. Sound(placed, h[p].cls) /\ (ScheduledOnce(w) => placed[w] = Nowhere)
    BY <1>k, <2>0 DEF HandlerOK
  <2>4. /\ e.pods = h[p].cls.pods /\ h[p].cls.pods \in SUBSET Workloads
        /\ \A v \in Workloads : v # w => e.assumed[v] = h[p].cls.assumed[v]
    BY <2>0 DEF Entries, AssumedPods
  <2>5. Sound(placed, e)
    BY <2>3, <2>4 DEF Sound, SeenPlaced
  <2> HIDE DEF e
  <2>6. /\ Grows(placed, placed') /\ \A v \in Workloads : v # w => placed'[v] = placed[v]
        /\ PodsOK'
    <3>1. /\ running' = running
          /\ Grows(placed, placed') /\ \A v \in Workloads : v # w => placed'[v] = placed[v]
          /\ \A d \in Clusters :
                waiting'[d] = waiting[d] \/ (waiting'[d] \subseteq waiting[d] \cup {w}
                                             /\ placed'[w] # Nowhere)
      BY <2>0, <2>1, CreateFacts
    <3>2. QED
      BY <3>1, PodsFrame
  <2>7. Sound(placed', e) /\ SoundMap(placed', cache)
    <3>1. Sound(placed', e)
      BY <2>4, <2>5, <2>6 DEF Sound, SeenPlaced, Grows
    <3>2. SoundMap(placed', cache)
      BY <2>6, Monotone DEF CInv, MapsOK, TypeOK
    <3>3. QED
      BY <3>1, <3>2
  <2>8. MapsOK'
    <3>1. SoundMap(placed', db')
      BY <2>1, <2>6, MapsFrame
    <3>2. SoundMap(placed', cache')
      BY <2>1, <2>7 DEF SoundMap, TypeOK, Maps
    <3>3. QED
      BY <3>1, <3>2, SMTT(20) DEF MapsOK
  <2>10. HandlerOK(placed', h'[p]) /\ (h'[p].at # "idle" => h'[p].work = w)
    BY <2>2 DEF HandlerOK
  <2>11. u' = u /\ \A q \in Handlers :
                       q # p /\ h[q].at # "idle" => h[q].work # w \/ Kind[w] = "object"
    BY <1>o, <2>0, <2>1
  <2>12. QED
    BY <2>0, <2>2, <2>6, <2>8, <2>10, <2>11, HandlerMoves
<1>7. QED
  BY <1>1, <1>2, <1>l, <1>3, <1>4, <1>5, <1>6 DEF Handler

\* The steps of UpdateClusterStatus.
LEMMA UpdateCInv ==
    ASSUME TypeOK, CInv, NEW c \in Clusters, Update(c)
    PROVE  CInv'
<1>t. u[c] \in UpdaterStates /\ UpdaterOK(placed, u[c])
  BY DEF TypeOK, CInv
<1>m. SoundMap(placed, db) /\ SoundMap(placed, cache)
  BY DEF CInv, MapsOK
<1>1. CASE BuildStatus(c)
  <2>1. /\ u' = [u EXCEPT ![c] = [at |-> "save", pods |-> running[c]]]
        /\ db' = db /\ cache' = cache /\ h' = h /\ UNCHANGED pods /\ placed' = placed
    BY <1>1 DEF BuildStatus, pods
  <2>2. /\ u'[c].at = "save" /\ u'[c].pods = running[c]
        /\ \A d \in Clusters : d # c => u'[d] = u[d]
    BY <2>1 DEF TypeOK
  <2>3. UpdaterOK(placed, u'[c])
    BY <2>2 DEF UpdaterOK, CInv, PodsOK
  <2>4. MapsOK'
    BY <1>m, <2>1 DEF MapsOK
  <2>5. QED
    BY <2>1, <2>2, <2>3, <2>4, UpdaterMoves
<1>2. CASE CreateOrUpdateCluster(c)
  <2>1. /\ u[c].at = "save" /\ u' = [u EXCEPT ![c].at = "get"]
        /\ db' = [db EXCEPT ![c] = Reported(u[c].pods)]
        /\ cache' = cache /\ h' = h /\ UNCHANGED pods /\ placed' = placed
    BY <1>2 DEF CreateOrUpdateCluster, pods
  <2>a. u[c] \in [at : {"save", "get", "list"}, pods : SUBSET Workloads]
    BY <1>t, <2>1 DEF UpdaterStates, IdleHandler
  <2>2. /\ u'[c].at = "get" /\ u'[c].pods = u[c].pods
        /\ \A d \in Clusters : d # c => u'[d] = u[d]
    BY <2>1, <2>a DEF TypeOK
  <2>b. SeenPlaced(placed, u[c].pods)
    BY <1>t, <2>1 DEF UpdaterOK
  <2>3. UpdaterOK(placed, u'[c])
    BY <2>2, <2>b DEF UpdaterOK
  <2>c. Sound(placed, Reported(u[c].pods))
    BY <1>t, <2>1, <2>b, UpdaterTypes DEF Sound, Reported, NoneAssumed
  <2>d. SoundMap(placed, db')
    BY <1>m, <2>1, <2>c DEF SoundMap, TypeOK, Maps
  <2>4. MapsOK'
    BY <1>m, <2>1, <2>d DEF MapsOK
  <2>5. QED
    BY <2>1, <2>2, <2>3, <2>4, UpdaterMoves
<1>3. CASE GetForUpdate(c)
  <2>1. /\ u[c].at = "get"
        /\ u' = [u EXCEPT ![c] =
              IF Loaded THEN [at |-> "write", pods |-> u[c].pods, oldCl |-> cache[c]]
                        ELSE [at |-> "list", pods |-> u[c].pods]]
        /\ db' = db /\ cache' = cache /\ h' = h /\ UNCHANGED pods /\ placed' = placed
    BY <1>3 DEF GetForUpdate, pods
  <2>2. /\ u'[c].at \in {"write", "list"}
        /\ u'[c].pods = u[c].pods /\ \A d \in Clusters : d # c => u'[d] = u[d]
    BY <2>1 DEF TypeOK
  <2>3. UpdaterOK(placed, u'[c])
    BY <1>t, <2>1, <2>2 DEF UpdaterOK
  <2>4. MapsOK'
    BY <1>m, <2>1 DEF MapsOK
  <2>5. QED
    BY <2>1, <2>2, <2>3, <2>4, UpdaterMoves
<1>l. CASE ListForUpdate(c)
  <2>1. /\ u[c].at = "list"
        /\ \/ u' = [u EXCEPT ![c] = [at |-> "write", pods |-> u[c].pods, oldCl |-> cache[c]]]
           \/ u' = [u EXCEPT ![c] = [at |-> "load", pods |-> u[c].pods, clusters |-> db]]
        /\ db' = db /\ cache' = cache /\ h' = h /\ UNCHANGED pods /\ placed' = placed
    BY <1>l DEF ListForUpdate, pods
  <2>2. /\ \/ u'[c].at = "write"
           \/ u'[c].at = "load" /\ u'[c].clusters = db
        /\ u'[c].pods = u[c].pods /\ \A d \in Clusters : d # c => u'[d] = u[d]
    BY <2>1 DEF TypeOK
  <2>3. UpdaterOK(placed, u'[c])
    BY <1>t, <1>m, <2>1, <2>2 DEF UpdaterOK
  <2>4. MapsOK'
    BY <1>m, <2>1 DEF MapsOK
  <2>5. QED
    BY <2>1, <2>2, <2>3, <2>4, UpdaterMoves
<1>4. CASE InstallForUpdate(c)
  <2>1. /\ u[c].at = "load" /\ cache' = u[c].clusters
        /\ u' = [u EXCEPT ![c] = [at |-> "write", pods |-> u[c].pods,
                                  oldCl |-> u[c].clusters[c]]]
        /\ db' = db /\ h' = h /\ UNCHANGED pods /\ placed' = placed
    BY <1>4 DEF InstallForUpdate, pods
  <2>2. /\ u'[c].at = "write" /\ u'[c].pods = u[c].pods
        /\ \A d \in Clusters : d # c => u'[d] = u[d]
    BY <2>1 DEF TypeOK
  <2>3. UpdaterOK(placed, u'[c]) /\ SoundMap(placed, u[c].clusters)
    BY <1>t, <2>1, <2>2 DEF UpdaterOK
  <2>4. MapsOK'
    BY <1>m, <2>1, <2>3 DEF MapsOK
  <2>5. QED
    BY <2>1, <2>2, <2>3, <2>4, UpdaterMoves
<1>5. CASE AddOrUpdateCluster(c)
  <2> DEFINE e == [Reported(u[c].pods) EXCEPT !.assumed = Kept(u[c].oldCl, u[c].pods)]
  <2>1. /\ u[c].at = "write" /\ cache' = [cache EXCEPT ![c] = e]
        /\ u' = [u EXCEPT ![c] = IdleHandler]
        /\ db' = db /\ h' = h /\ UNCHANGED pods /\ placed' = placed
    BY <1>5 DEF AddOrUpdateCluster, pods
  <2>2. u'[c].at = "idle" /\ \A d \in Clusters : d # c => u'[d] = u[d]
    BY <2>1 DEF TypeOK, IdleHandler
  <2>3. UpdaterOK(placed, u'[c])
    BY <2>2 DEF UpdaterOK
  <2>a. e.pods = u[c].pods /\ e.assumed = Kept(u[c].oldCl, u[c].pods)
    BY DEF Reported
  <2>b. Sound(placed, e)
    <3>1. u[c].pods \in SUBSET Workloads
      BY <1>t, <2>1, UpdaterTypes
    <3>2. \A w \in u[c].pods : Kept(u[c].oldCl, u[c].pods)[w] = 0
      BY <3>1, ClusterCacheAssumption DEF Kept, Keep, Seen
    <3>3. QED
      BY <1>t, <2>1, <2>a, <3>2 DEF UpdaterOK, Sound
  <2> HIDE DEF e
  <2>c. SoundMap(placed, cache')
    BY <1>m, <2>1, <2>b DEF SoundMap, TypeOK, Maps
  <2>4. MapsOK'
    BY <1>m, <2>1, <2>c DEF MapsOK
  <2>5. QED
    BY <2>1, <2>2, <2>3, <2>4, UpdaterMoves
<1>6. QED
  BY <1>1, <1>2, <1>3, <1>l, <1>4, <1>5 DEF Update

\* Time, pods and restarts.
LEMMA OtherCInv ==
    ASSUME TypeOK, CInv,
           \/ Restart
           \/ \E c \in Clusters : GoesStale(c)
           \/ \E c \in Clusters, w \in Workloads : PodStarts(c, w) \/ PodEnds(c, w)
           \/ \E n \in 1 .. MaxPlacements : MinutePasses(n)
    PROVE  CInv'
<1>m. SoundMap(placed, db) /\ SoundMap(placed, cache)
  BY DEF CInv, MapsOK
<1>1. CASE Restart
  <2>1. /\ cache' = [c \in Clusters |-> NoEntry] /\ h' = [p \in Handlers |-> IdleHandler]
        /\ u' = [c \in Clusters |-> IdleHandler] /\ db' = db
        /\ running' = running /\ placed' = placed /\ waiting' = waiting
    BY <1>1, SMTT(20) DEF Restart, pods
  <2>2. MapsOK'
    BY <1>m, <2>1 DEF MapsOK, SoundMap, Sound, SeenPlaced, NoEntry
  <2>3. PodsOK'
    BY <2>1, Zenon DEF CInv, PodsOK
  <2>4. OneHandlerEach' /\ (\A p \in Handlers : HandlerOK(placed', h'[p]))
        /\ (\A c \in Clusters : UpdaterOK(placed', u'[c]))
    BY <2>1, Zenon DEF OneHandlerEach, HandlerOK, UpdaterOK, IdleHandler
  <2>5. QED
    BY <2>2, <2>3, <2>4 DEF CInv
<1>2. ASSUME h' = h, u' = u, placed' = placed, MapsOK', PodsOK'
      PROVE  CInv'
  BY <1>2, Zenon DEF CInv, OneHandlerEach
<1>3. ASSUME NEW c \in Clusters, GoesStale(c) PROVE CInv'
  <2>1. \A m \in Maps : SoundMap(placed, m) => SoundMap(placed, [m EXCEPT ![c].age = "stale"])
    <3> SUFFICES ASSUME NEW m \in Maps, SoundMap(placed, m), NEW d \in Clusters
                 PROVE  Sound(placed, [m EXCEPT ![c].age = "stale"][d])
      BY DEF SoundMap
    <3>1. /\ [m EXCEPT ![c].age = "stale"][d].pods = m[d].pods
          /\ [m EXCEPT ![c].age = "stale"][d].assumed = m[d].assumed
      BY DEF Maps, Entries
    <3>2. QED
      BY <3>1 DEF Sound, SoundMap
  <2>2. /\ db' = [db EXCEPT ![c].age = "stale"]
        /\ cache' = [cache EXCEPT ![c].age = "stale"] \/ cache' = cache
        /\ h' = h /\ u' = u /\ running' = running /\ placed' = placed /\ waiting' = waiting
    BY <1>3 DEF GoesStale, pods
  <2>3. MapsOK'
    BY <1>m, <2>1, <2>2, Zenon DEF MapsOK, TypeOK
  <2>4. PodsOK'
    BY <2>2 DEF CInv, PodsOK
  <2>5. QED
    BY <1>2, <2>2, <2>3, <2>4
<1>4. ASSUME NEW c \in Clusters, NEW w \in Workloads, PodStarts(c, w) \/ PodEnds(c, w)
      PROVE  CInv'
  <2>1. h' = h /\ u' = u /\ placed' = placed /\ db' = db /\ cache' = cache
    BY <1>4 DEF PodStarts, PodEnds
  <2>2. MapsOK'
    BY <1>m, <2>1, Zenon DEF MapsOK
  <2>3. \A d \in Clusters : /\ waiting'[d] \subseteq waiting[d]
                            /\ running'[d] \subseteq running[d] \cup waiting[d]
    BY <1>4 DEF PodStarts, PodEnds, TypeOK
  <2>4. PodsOK'
    BY <2>1, <2>3, Zenon DEF CInv, PodsOK, SeenPlaced
  <2>5. QED
    BY <1>2, <2>1, <2>2, <2>4
<1>5. ASSUME NEW n \in 1 .. MaxPlacements, MinutePasses(n) PROVE CInv'
  <2>1. /\ h' = h /\ u' = u /\ placed' = placed /\ db' = db /\ cache' = cache
        /\ waiting' = waiting /\ running' = running
    BY <1>5 DEF MinutePasses, pods
  <2>2. MapsOK' /\ PodsOK'
    BY <1>m, <2>1, Zenon DEF MapsOK, PodsOK, CInv
  <2>3. QED
    BY <1>2, <2>1, <2>2
<1>6. QED
  BY <1>1, <1>3, <1>4, <1>5

\* No pod of a workload that is scheduled once (every job; in a single cluster
\* every notebook) is counted twice, as assumed and as running, for any number
\* of clusters, workloads, handlers and restarts, although the syncer's objects
\* are assumed again and again, and stale copies of a cluster and of the map
\* are written over newer ones.
THEOREM NotCountedTwiceHolds == Spec => []NotCountedTwice
<1>1. Init => CInv
  BY DEF Init, CInv, OneHandlerEach, MapsOK, PodsOK, HandlerOK, UpdaterOK, SoundMap, Sound,
         SeenPlaced, NoEntry, IdleHandler
<1>2. IInv /\ CInv /\ [Next]_vars => CInv'
  <2> SUFFICES ASSUME TypeOK, CInv, [Next]_vars PROVE CInv'
    BY DEF IInv
  <2>1. CASE Next
    BY <2>1, HandlerCInv, UpdateCInv, OtherCInv, Zenon DEF Next
  <2>2. CASE UNCHANGED vars
    BY <2>2, Zenon DEF vars, CInv, OneHandlerEach, MapsOK, PodsOK
  <2>3. QED
    BY <2>1, <2>2
<1>3. CInv => NotCountedTwice
  BY Zenon DEF NotCountedTwice, Assumed, CInv, MapsOK, SoundMap, Sound
<1>4. QED
  BY <1>1, <1>2, <1>3, CacheInvariance, PTL DEF Spec

=============================================================================
