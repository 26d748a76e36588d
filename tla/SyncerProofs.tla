---------------------------- MODULE SyncerProofs ----------------------------
(***************************************************************************)
(* What the finalizer guarantees under faults and an outdated cache, and   *)
(* what holds in calm operation, for any set of clusters, any number of    *)
(* objects and of faults.                                                  *)
(***************************************************************************)
EXTENDS Syncer, TLAPS

\* Copies of the object that are marked current are equal to it, and
\* Reconcile has a copy when it makes a call.
CopiesOK ==
    /\ upToDate => cached = local
    /\ objCurrent => obj = local /\ at \in {"tag", "delete", "untag"}
    /\ at # "idle" => obj.uid # 0
    /\ at = "delete" => obj.cluster # Nowhere
    /\ at = "store" => target # Nowhere

\* Objects are told apart by uid, and uids are not used again.
UidsOK ==
    /\ local.uid = 0 => local = NoObject
    /\ cached.uid = 0 => cached = NoObject
    /\ local.uid <= made /\ cached.uid <= made /\ obj.uid <= made
    /\ \A c \in Clusters : remote[c].uid = 0 => remote[c] = NoCopy
    /\ \A c \in Clusters : remote[c].uid <= made

\* The finalizer is there before the object is deployed: an object with a
\* copy has it, and so has one that a reconcile is about to deploy.
Tagged ==
    /\ cached.uid = local.uid /\ cached.finalizer => local.finalizer
    /\ at = "patch" /\ obj.uid = local.uid => local.finalizer
    /\ \A c \in Clusters : remote[c].uid # 0 /\ remote[c].uid = local.uid => local.finalizer

\* When the finalizer is about to be removed from the current object, the
\* cluster it is annotated with has no copy any more.
Undeployed ==
    at = "untag" /\ objCurrent /\ obj.cluster # Nowhere => remote[obj.cluster] = NoCopy

\* In calm operation an object is deployed only once.
CalmOK ==
    calm =>
        /\ CalmHasNoOrphans
        /\ at = "patch" => obj.uid = local.uid /\ local.cluster = Nowhere
        /\ at = "store" => obj.uid = local.uid /\ local.cluster = Nowhere /\ local.finalizer
        /\ at # "fail"

\* The type invariant in two parts: the provers treat them apart.
FlagsOK ==
    /\ upToDate \in BOOLEAN /\ queued \in BOOLEAN
    /\ objCurrent \in BOOLEAN /\ calm \in BOOLEAN

DataOK ==
    /\ local \in Objects /\ cached \in Objects /\ obj \in Objects
    /\ at \in Calls
    /\ target \in Clusters \cup {Nowhere}
    /\ remote \in [Clusters -> Copies]
    /\ events \subseteq Clusters
    /\ report \in [Clusters -> Patches]
    /\ made \in 0 .. MaxObjects /\ faults \in 0 .. MaxFaults

IInv == FlagsOK /\ DataOK /\ CopiesOK /\ UidsOK /\ Tagged /\ Undeployed /\ CalmOK

-----------------------------------------------------------------------------
\* What the proofs need to know of the statuses and of the patches of them.
LEMMA StatusTypes ==
    /\ NewStatus \in Statuses
    /\ \A u \in 1 .. MaxObjects :
          [active |-> FALSE, conditions |-> {Ended(u)}] \in Statuses
    /\ \A s \in Statuses : [s EXCEPT !.active = TRUE] \in Statuses
    /\ \A s, t \in Statuses :
          [s EXCEPT !.conditions = t.conditions \cup {Failed}] \in Statuses
<1>1. Failed \in Conditions /\ \A u \in 1 .. MaxObjects : Ended(u) \in Conditions
  BY DEF Conditions
<1> HIDE DEF Conditions, Ended, Failed
<1>2. QED
  BY <1>1 DEF Statuses, NewStatus

LEMMA PatchTypes ==
    /\ Nothing \in Patches
    /\ \A s \in Statuses, r \in Patches : Patched(s, r) \in Statuses
    /\ \A s, t \in Statuses : Difference(s, t) \in Patches
<1>1. Nothing \in Patches
  BY StatusTypes DEF Nothing, Patches
<1>2. \A s \in Statuses, r \in Patches : Patched(s, r) \in Statuses
  BY DEF Patches, Patched, Statuses
<1>3. ASSUME NEW s \in Statuses, NEW t \in Statuses
      PROVE  Difference(s, t) \in Patches
  <2> DEFINE differ == {f \in Fields : s[f] # t[f]}
  <2>1. differ \in SUBSET Fields
    OBVIOUS
  <2> HIDE DEF differ
  <2>2. [fields |-> differ, status |-> t] \in Patches
    BY <2>1 DEF Patches
  <2>3. Patched(NewStatus, [fields |-> differ, status |-> t]) \in Statuses
    BY <1>2, <2>2, StatusTypes
  <2>4. [fields |-> differ,
         status |-> Patched(NewStatus, [fields |-> differ, status |-> t])] \in Patches
    BY <2>1, <2>3 DEF Patches
  <2>5. QED
    BY <2>4 DEF Difference, differ
<1>4. QED
  BY <1>1, <1>2, <1>3

\* The absent object and the absent copy have their types.
LEMMA NoObjectTypes ==
    /\ NoObject \in Objects
    /\ NoCopy \in Copies
BY StatusTypes, SyncerAssumption DEF NewObject, NoObject, NoCopy, Objects, Copies

\* An object keeps its type when one of its fields is written.
LEMMA ObjectUpdates ==
    ASSUME NEW o \in Objects
    PROVE  /\ [o EXCEPT !.finalizer = TRUE] \in Objects
           /\ [o EXCEPT !.deleting = TRUE] \in Objects
           /\ \A c \in Clusters : [o EXCEPT !.cluster = c] \in Objects
           /\ \A s \in Statuses : [o EXCEPT !.status = s] \in Objects
BY DEF Objects

\* The initial state.
LEMMA InitIInv == Init => IInv
<1> SUFFICES ASSUME Init PROVE IInv
  OBVIOUS
<1>0. FlagsOK
  BY DEF Init, FlagsOK
<1>1. DataOK
  BY NoObjectTypes, PatchTypes, SyncerAssumption DEF Init, DataOK, Calls
<1>2. CopiesOK
  BY DEF Init, CopiesOK
<1>3. UidsOK
  BY DEF Init, UidsOK, NoObject, NewObject, NoCopy
<1>4. Tagged
  BY DEF Init, Tagged, NoObject, NewObject, NoCopy
<1>5. Undeployed
  BY DEF Init, Undeployed
<1>6. CalmOK
  BY DEF Init, CalmOK, CalmHasNoOrphans
<1>7. QED
  BY <1>0, <1>1, <1>2, <1>3, <1>4, <1>5, <1>6 DEF IInv

\* The users and the informer.
LEMMA CreateIInv == IInv /\ Create => IInv'
<1> SUFFICES ASSUME IInv, Create PROVE IInv'
  OBVIOUS
<1> USE DEF IInv
<1>0. local' = NewObject(made + 1) /\ made + 1 \in 1 .. MaxObjects
  BY SyncerAssumption DEF Create, Write, DataOK
<1>f. FlagsOK'
  BY DEF Create, Write, FlagsOK
<1>1. DataOK'
  <2>1. local' \in Objects
    BY <1>0, StatusTypes DEF NewObject, Objects
  <2>2. QED
    BY <1>0, <2>1 DEF Create, DataOK, statusSyncers
<1>2. CopiesOK'
  BY DEF Create, Write, CopiesOK
<1>4. local'.uid = made + 1 /\ local.uid = 0
  BY <1>0 DEF Create, NoObject, NewObject
<1>3. UidsOK'
  <2>1. /\ cached.uid <= made + 1 /\ obj.uid <= made + 1
        /\ \A c \in Clusters : remote[c].uid <= made + 1
    BY DEF UidsOK, DataOK, Objects, Copies
  <2>2. QED
    BY <1>0, <1>4, <2>1 DEF Create, UidsOK, DataOK
<1>5. Tagged'
  <2>1. cached.uid # local'.uid /\ obj.uid # local'.uid
    BY <1>4 DEF UidsOK, DataOK, Objects
  <2>2. \A c \in Clusters : remote[c].uid # local'.uid
    BY <1>4 DEF UidsOK, DataOK, Copies
  <2>3. QED
    BY <2>1, <2>2 DEF Create, Tagged
<1>6. Undeployed'
  BY DEF Create, Undeployed
<1>7. CalmOK'
  BY <1>4 DEF Create, CalmOK, CalmHasNoOrphans, UidsOK, CopiesOK
<1>8. QED
  BY <1>f, <1>1, <1>2, <1>3, <1>5, <1>6, <1>7

\* A user's deletion: an object that goes at once has no finalizer, hence no
\* copy.
LEMMA DeleteIInv == IInv /\ Delete => IInv'
<1> SUFFICES ASSUME IInv, Delete PROVE IInv'
  OBVIOUS
<1> USE DEF IInv
<1>0. /\ local' = IF local.finalizer THEN [local EXCEPT !.deleting = TRUE] ELSE NoObject
      /\ local \in Objects
  BY DEF Delete, Write, DataOK
<1>f. FlagsOK'
  BY DEF Delete, Write, FlagsOK
<1>1. DataOK'
  BY <1>0, NoObjectTypes, ObjectUpdates DEF Delete, DataOK, statusSyncers
<1>2. CopiesOK'
  BY DEF Delete, Write, CopiesOK
<1>3. UidsOK'
  BY <1>0 DEF Delete, UidsOK, DataOK, Objects, NoObject, NewObject
<1>4. Tagged'
  BY <1>0 DEF Delete, Tagged, UidsOK, CopiesOK, DataOK, Objects, NoObject, NewObject
<1>5. Undeployed'
  BY DEF Delete, Undeployed
<1>6. CalmOK'
  BY <1>0 DEF Delete, Tagged, CalmOK, CalmHasNoOrphans, UidsOK, CopiesOK, DataOK, Objects, NoObject, NewObject
<1>7. QED
  BY <1>f, <1>1, <1>2, <1>3, <1>4, <1>5, <1>6

\* A watch event.
LEMMA ObserveIInv == IInv /\ Observe => IInv'
<1> SUFFICES ASSUME IInv, Observe PROVE IInv'
  OBVIOUS
<1> USE DEF IInv, Observe
<1>f. FlagsOK'
  BY DEF FlagsOK
<1>1. DataOK'
  BY DEF DataOK, statusSyncers
<1>2. CopiesOK' /\ UidsOK' /\ Tagged' /\ Undeployed' /\ CalmOK'
  BY DEF CopiesOK, UidsOK, Tagged, Undeployed, CalmOK, CalmHasNoOrphans
<1>3. QED
  BY <1>f, <1>1, <1>2

-----------------------------------------------------------------------------
\* What Reconcile's first call tells of the object it has read.
LEMMA FirstCallFacts ==
    ASSUME NEW o \in Objects
    PROVE  /\ FirstCall(o) \in Calls /\ FirstCall(o) \notin {"fail", "store"}
           /\ FirstCall(o) # "idle" => o # NoObject
           /\ FirstCall(o) = "patch" => o.finalizer /\ o.cluster = Nowhere
           /\ FirstCall(o) = "delete" => o.cluster # Nowhere
           /\ FirstCall(o) = "untag" => o.cluster = Nowhere
<1>1. CASE o = NoObject
  BY <1>1 DEF FirstCall, Calls
<1>2. CASE o # NoObject /\ o.deleting /\ ~o.finalizer
  BY <1>2 DEF FirstCall, Calls
<1>3. CASE o # NoObject /\ o.deleting /\ o.finalizer
  BY <1>3 DEF FirstCall, Calls
<1>4. CASE o # NoObject /\ ~o.deleting /\ ~o.finalizer
  BY <1>4 DEF FirstCall, Calls
<1>5. CASE o # NoObject /\ ~o.deleting /\ o.finalizer
  BY <1>5 DEF FirstCall, AfterTag, Calls
<1>6. QED
  BY <1>1, <1>2, <1>3, <1>4, <1>5

\* Reconcile up to its first call.
LEMMA GetIInv == IInv /\ Get => IInv'
<1> SUFFICES ASSUME IInv, Get PROVE IInv'
  OBVIOUS
<1> USE DEF IInv
<1>0. /\ cached \in Objects
      /\ at = "idle" /\ at' = FirstCall(cached)
      /\ obj' = IF at' = "idle" THEN NoObject ELSE cached
      /\ objCurrent' => upToDate /\ at' \in {"tag", "delete", "untag"}
      /\ calm' => calm /\ upToDate
      /\ UNCHANGED <<local, cached, upToDate, target, remote, events, report, made, faults>>
  BY DEF Get, Goto, informer, statusSyncers, DataOK
<1>f. FlagsOK'
  BY DEF Get, Goto, informer, FlagsOK
<1>1. DataOK'
  BY <1>0, NoObjectTypes, FirstCallFacts DEF DataOK
<1>2. CopiesOK'
  BY <1>0, FirstCallFacts DEF CopiesOK, UidsOK
<1>3. UidsOK'
  BY <1>0, SyncerAssumption DEF UidsOK, DataOK, NoObject, NewObject
<1>4. Tagged'
  BY <1>0, FirstCallFacts DEF Tagged
<1>5. Undeployed'
  BY <1>0, FirstCallFacts DEF Undeployed
<1>6. CalmOK'
  BY <1>0, FirstCallFacts DEF CalmOK, CalmHasNoOrphans, CopiesOK
<1>7. QED
  BY <1>f, <1>1, <1>2, <1>3, <1>4, <1>5, <1>6

\* A fault ends the calm, and only a fault is counted.
LEMMA FaultFacts ==
    ASSUME IInv, Fault \/ NoFault
    PROVE  /\ faults' \in 0 .. MaxFaults
           /\ calm' \in BOOLEAN
           /\ calm' => calm /\ NoFault
<1>1. faults' \in 0 .. MaxFaults
  BY SyncerAssumption DEF IInv, DataOK, Fault, NoFault
<1>2. calm' \in BOOLEAN /\ (calm' => calm /\ NoFault)
  <2>1. CASE Fault
    BY <2>1 DEF Fault
  <2>2. CASE NoFault
    <3>1. calm' = calm /\ calm \in BOOLEAN
      BY <2>2 DEF IInv, FlagsOK, NoFault
    <3>2. QED
      BY <2>2, <3>1
  <2>3. QED
    BY <2>1, <2>2
<1>3. QED
  BY <1>1, <1>2

\* Reconcile returns and has changed nothing.
LEMMA ReturnIInv ==
    ASSUME IInv, Fault \/ NoFault, Return \/ Retry,
           UNCHANGED <<local, cached, upToDate, remote, events, report, made>>,
           target' \in Clusters \cup {Nowhere},
           calm' => at # "store"
    PROVE  IInv'
<1> USE DEF IInv
<1>0. /\ at' = "idle" /\ obj' = NoObject /\ ~objCurrent'
      /\ calm' => calm
  BY FaultFacts DEF Return, Retry, Goto
<1>f. FlagsOK'
  BY FaultFacts DEF FlagsOK, Return, Retry, Goto
<1>1. DataOK'
  BY <1>0, FaultFacts, NoObjectTypes DEF DataOK, Calls
<1>2. CopiesOK'
  BY <1>0 DEF CopiesOK
<1>3. UidsOK'
  BY <1>0, SyncerAssumption DEF UidsOK, DataOK, NoObject, NewObject
<1>4. Tagged' /\ Undeployed'
  BY <1>0 DEF Tagged, Undeployed
<1>6. CalmOK'
  BY <1>0 DEF CalmOK, CalmHasNoOrphans
<1>7. QED
  BY <1>f, <1>1, <1>2, <1>3, <1>4, <1>6

\* The first Update: the object has its finalizer before it is deployed.
LEMMA tagIInv == IInv /\ tagWithFinalizer => IInv'
<1> SUFFICES ASSUME IInv, tagWithFinalizer PROVE IInv'
  OBVIOUS
<1> DEFINE tagged == [local EXCEPT !.finalizer = TRUE]
<1>0. /\ at = "tag" /\ UNCHANGED <<cached, target, remote, events, report, made>>
      /\ target' \in Clusters \cup {Nowhere}
      /\ tagged \in Objects /\ tagged.uid = local.uid /\ tagged.finalizer
      /\ tagged.cluster = local.cluster /\ (local # NoObject => local.uid # 0)
      /\ [obj EXCEPT !.finalizer = TRUE] \in Objects /\ obj.uid # 0
      /\ [obj EXCEPT !.finalizer = TRUE].uid = obj.uid
      /\ objCurrent => obj = local
  BY ObjectUpdates DEF tagWithFinalizer, statusSyncers, IInv, DataOK, Objects, CopiesOK, UidsOK
<1>1. ASSUME local = NoObject, calm' = FALSE,
             Goto(AfterTag(obj), [obj EXCEPT !.finalizer = TRUE], FALSE),
             UNCHANGED <<local, upToDate, queued, faults>>
      PROVE  IInv'
  <2> USE DEF IInv
  <2>0. /\ at' \in {"idle", "patch"} /\ ~objCurrent'
        /\ obj' = IF at' = "idle" THEN NoObject ELSE [obj EXCEPT !.finalizer = TRUE]
    BY <1>1 DEF Goto, AfterTag
  <2>f. FlagsOK'
    BY <1>1 DEF FlagsOK, Goto
  <2>1. DataOK'
    BY <1>0, <1>1, <2>0, NoObjectTypes DEF DataOK, Calls
  <2>2. CopiesOK'
    BY <1>0, <1>1, <2>0 DEF CopiesOK
  <2>3. UidsOK'
    BY <1>0, <1>1, <2>0, SyncerAssumption DEF UidsOK, DataOK, NoObject, NewObject
  <2>4. Tagged' /\ Undeployed' /\ CalmOK'
    BY <1>0, <1>1, <2>0 DEF Tagged, Undeployed, CalmOK, NoObject, NewObject
  <2>5. QED
    BY <2>f, <2>1, <2>2, <2>3, <2>4
<1>2. ASSUME local # NoObject, objCurrent, Write(tagged), Fault \/ NoFault,
             \/ Goto(AfterTag(tagged), tagged, TRUE) /\ UNCHANGED queued
             \/ Retry
      PROVE  IInv'
  <2> HIDE DEF tagged
  <2> USE DEF IInv
  <2>0. /\ at' \in {"idle", "patch"} /\ ~objCurrent'
        /\ obj' = IF at' = "idle" THEN NoObject ELSE tagged
        /\ at' = "patch" => tagged.cluster = Nowhere
        /\ local' = tagged /\ upToDate' = FALSE
    BY <1>2 DEF Goto, AfterTag, Retry, Write
  <2>f. FlagsOK'
    BY <1>2, FaultFacts DEF FlagsOK, Goto, Retry, Write
  <2>1. DataOK'
    BY <1>0, <1>2, <2>0, NoObjectTypes, FaultFacts DEF DataOK, Calls
  <2>2. CopiesOK'
    BY <1>0, <1>2, <2>0 DEF CopiesOK
  <2>3. UidsOK'
    BY <1>0, <1>2, <2>0, SyncerAssumption DEF UidsOK, DataOK, NoObject, NewObject
  <2>4. Tagged' /\ Undeployed'
    BY <1>0, <1>2, <2>0 DEF Tagged, Undeployed
  <2>5. CalmOK'
    BY <1>0, <1>2, <2>0, FaultFacts DEF CalmOK, CalmHasNoOrphans
  <2>6. QED
    BY <2>f, <2>1, <2>2, <2>3, <2>4, <2>5
<1>3. ASSUME Retry, Fault \/ NoFault, UNCHANGED <<local, upToDate>>
      PROVE  IInv'
  BY <1>0, <1>3, ReturnIInv
<1>4. QED
  BY <1>1, <1>2, <1>3 DEF tagWithFinalizer

\* In calm operation there is no copy when the object is about to be deployed.
LEMMA PatchIInv == IInv /\ PatchKubernetesObject => IInv'
<1> SUFFICES ASSUME IInv, PatchKubernetesObject PROVE IInv'
  OBVIOUS
<1>0. /\ at = "patch" /\ obj \in Objects /\ obj.uid # 0 /\ obj.uid <= made
      /\ remote \in [Clusters -> Copies]
      /\ UNCHANGED <<local, cached, upToDate, queued, report, made>>
  BY DEF PatchKubernetesObject, informer, IInv, DataOK, CopiesOK, UidsOK
<1>c. calm => /\ obj.uid = local.uid /\ local.cluster = Nowhere /\ local.finalizer
              /\ \A c \in Clusters : remote[c] = NoCopy
  BY <1>0, SyncerAssumption DEF IInv, CalmOK, CalmHasNoOrphans, Tagged
<1>1. ASSUME NEW c \in Clusters, PatchResource(c), Fault \/ NoFault,
             \/ target' = c /\ Goto("store", obj, FALSE) /\ NoFault
             \/ Goto("fail", obj, FALSE) /\ Fault /\ UNCHANGED target
      PROVE  IInv'
  <2> USE DEF IInv
  <2>0. /\ ~objCurrent' /\ obj' = obj
        /\ \/ at' = "store" /\ target' = c
           \/ at' = "fail" /\ target' = target /\ ~calm'
        /\ remote' = [remote EXCEPT ![c].uid = obj.uid]
        /\ events' = events \cup {c} \/ events' = events
    BY <1>1 DEF Goto, PatchResource, Fault
  <2>r. /\ remote' \in [Clusters -> Copies] /\ remote'[c].uid = obj.uid
        /\ \A d \in Clusters : d # c => remote'[d] = remote[d]
    BY <1>0, <2>0 DEF Objects, Copies
  <2>f. FlagsOK'
    BY <1>0, <1>1, FaultFacts DEF FlagsOK, Goto
  <2>1. DataOK'
    BY <1>0, <2>0, <2>r, FaultFacts, <1>1 DEF DataOK, Calls
  <2>2. CopiesOK'
    BY <1>0, <2>0, SyncerAssumption DEF CopiesOK
  <2>3. UidsOK'
    BY <1>0, <2>0, <2>r DEF UidsOK
  <2>4. Tagged' /\ Undeployed'
    BY <1>0, <2>0, <2>r DEF Tagged, Undeployed
  <2>5. CalmOK'
    BY <1>0, <1>c, <2>0, <2>r, <1>1, FaultFacts DEF CalmOK, CalmHasNoOrphans
  <2>6. QED
    BY <2>f, <2>1, <2>2, <2>3, <2>4, <2>5
<1>2. ASSUME NEW c \in Clusters, Goto("fail", obj, FALSE),
             (remote[c].uid \notin {0, obj.uid} /\ NoFault) \/ Fault,
             UNCHANGED <<remote, events, target>>
      PROVE  IInv'
  <2> USE DEF IInv
  <2>0. ~objCurrent' /\ obj' = obj /\ at' = "fail"
    BY <1>2 DEF Goto
  <2>c. ~calm'
    <3>1. CASE Fault
      BY <3>1 DEF Fault
    <3>2. CASE remote[c].uid \notin {0, obj.uid} /\ NoFault
      <4>1. ~calm
        BY <3>2, <1>c DEF NoCopy
      <4>2. QED
        BY <3>2, <4>1 DEF NoFault
    <3>3. QED
      BY <1>2, <3>1, <3>2
  <2>f. FlagsOK'
    BY <1>0, <1>2, FaultFacts DEF FlagsOK, Goto
  <2>1. DataOK'
    BY <1>0, <1>2, <2>0, FaultFacts DEF DataOK, Calls
  <2>2. CopiesOK' /\ UidsOK'
    BY <1>0, <1>2, <2>0 DEF CopiesOK, UidsOK
  <2>3. Tagged' /\ Undeployed' /\ CalmOK'
    BY <1>0, <1>2, <2>0, <2>c DEF Tagged, Undeployed, CalmOK
  <2>4. QED
    BY <2>f, <2>1, <2>2, <2>3
<1>3. QED
  BY <1>1, <1>2 DEF PatchKubernetesObject

\* A patch that leaves the uid and the finalizer of the object alone, after
\* which Reconcile returns: in calm operation its annotation is the cluster
\* that has the copy.
LEMMA PatchedIInv ==
    ASSUME IInv, Fault \/ NoFault, Return \/ Retry,
           local # NoObject, NEW o \in Objects, Write(o),
           o.uid = local.uid, o.finalizer = local.finalizer,
           calm' => o.cluster = IF at = "store" THEN target ELSE local.cluster,
           target' \in Clusters \cup {Nowhere},
           UNCHANGED <<cached, remote, events, report, made>>
    PROVE  IInv'
<1> USE DEF IInv
<1>0. /\ at' = "idle" /\ obj' = NoObject /\ ~objCurrent'
      /\ local' = o /\ ~upToDate' /\ (calm' => calm)
      /\ local.uid # 0
  BY FaultFacts DEF Return, Retry, Goto, Write, UidsOK
<1>f. FlagsOK'
  BY FaultFacts DEF FlagsOK, Return, Retry, Goto, Write
<1>1. DataOK'
  BY <1>0, FaultFacts, NoObjectTypes DEF DataOK, Calls
<1>2. CopiesOK'
  BY <1>0 DEF CopiesOK
<1>3. UidsOK'
  BY <1>0, SyncerAssumption DEF UidsOK, DataOK, NoObject, NewObject
<1>4. Tagged' /\ Undeployed'
  BY <1>0 DEF Tagged, Undeployed
<1>5. CalmOK'
  BY <1>0 DEF CalmOK, CalmHasNoOrphans
<1>6. QED
  BY <1>f, <1>1, <1>2, <1>3, <1>4, <1>5

\* The condition of a failed deployment.
LEMMA recordFailureIInv == IInv /\ recordFailure => IInv'
<1> SUFFICES ASSUME IInv, recordFailure PROVE IInv'
  OBVIOUS
<1> DEFINE o == [local EXCEPT !.status.conditions = obj.status.conditions \cup {Failed}]
<1>s. o \in Objects
  <2>1. /\ local \in Objects /\ local.status \in Statuses /\ obj.status \in Statuses
    BY DEF IInv, DataOK, Objects
  <2>2. [local.status EXCEPT !.conditions = obj.status.conditions \cup {Failed}] \in Statuses
    BY <2>1, StatusTypes
  <2>3. o = [local EXCEPT !.status =
               [local.status EXCEPT !.conditions = obj.status.conditions \cup {Failed}]]
    BY <2>1 DEF Objects, Statuses
  <2>4. QED
    BY <2>1, <2>2, <2>3, ObjectUpdates
<1>0. /\ at = "fail" /\ Retry
      /\ UNCHANGED <<cached, target, remote, events, report, made>>
      /\ target' \in Clusters \cup {Nowhere}
      /\ o.uid = local.uid /\ o.finalizer = local.finalizer
      /\ o.cluster = local.cluster
  BY DEF recordFailure, statusSyncers, IInv, DataOK, Objects
<1> HIDE DEF o
<1>1. CASE local # NoObject /\ Write(o) /\ NoFault
  BY <1>0, <1>s, <1>1, PatchedIInv
<1>2. CASE UNCHANGED <<local, upToDate>> /\ (Fault \/ NoFault)
  BY <1>0, <1>2, ReturnIInv
<1>3. QED
  BY <1>1, <1>2 DEF recordFailure, o

\* The annotations.
LEMMA storeIInv == IInv /\ storeObjectData => IInv'
<1> SUFFICES ASSUME IInv, storeObjectData PROVE IInv'
  OBVIOUS
<1> DEFINE o == [local EXCEPT !.cluster = target]
<1>0. /\ at = "store" /\ target' \in Clusters \cup {Nowhere}
      /\ UNCHANGED <<cached, remote, events, report, made>>
      /\ o \in Objects /\ o.uid = local.uid /\ o.finalizer = local.finalizer
      /\ o.cluster = target
  BY ObjectUpdates DEF storeObjectData, statusSyncers, IInv, DataOK, Objects, CopiesOK
<1> HIDE DEF o
<1>1. CASE local # NoObject /\ Write(o) /\ ((Return /\ NoFault) \/ (Retry /\ Fault))
  BY <1>0, <1>1, PatchedIInv
<1>2. CASE Retry /\ Fault /\ UNCHANGED <<local, upToDate>>
  <2>1. ~calm'
    BY <1>2 DEF Fault
  <2>2. QED
    BY <1>0, <1>2, <2>1, ReturnIInv
<1>3. CASE local = NoObject /\ Retry /\ NoFault /\ UNCHANGED <<local, upToDate>>
  <2>1. ~calm
    BY <1>0, <1>3 DEF IInv, CalmOK, CopiesOK, NoObject, NewObject
  <2>2. ~calm'
    BY <2>1, <1>3 DEF NoFault
  <2>3. QED
    BY <1>0, <1>3, <2>2, ReturnIInv
<1>4. QED
  BY <1>1, <1>2, <1>3 DEF storeObjectData, o

\* The copy goes before the finalizer does.
LEMMA DeleteObjectIInv == IInv /\ DeleteKubernetesObject => IInv'
<1> SUFFICES ASSUME IInv, DeleteKubernetesObject PROVE IInv'
  OBVIOUS
<1> DEFINE undeployed == [remote EXCEPT ![obj.cluster] = NoCopy]
<1>0. /\ at = "delete" /\ obj.cluster \in Clusters
      /\ UNCHANGED <<local, cached, upToDate, target, events, report, made>>
      /\ target' \in Clusters \cup {Nowhere}
      /\ undeployed \in [Clusters -> Copies]
      /\ undeployed[obj.cluster] = NoCopy
      /\ \A d \in Clusters : undeployed[d] # NoCopy => undeployed[d] = remote[d]
  BY NoObjectTypes DEF DeleteKubernetesObject, statusSyncers, informer, IInv, DataOK, Objects, CopiesOK
<1> HIDE DEF undeployed
<1>1. ASSUME remote' = undeployed, Fault \/ NoFault,
             \/ Goto("untag", obj, objCurrent) /\ UNCHANGED queued
             \/ Retry
      PROVE  IInv'
  <2> USE DEF IInv
  <2>0. /\ \/ at' = "untag" /\ obj' = obj
           \/ at' = "idle" /\ obj' = NoObject
        /\ objCurrent' => objCurrent /\ at' = "untag"
    BY <1>1 DEF Goto, Retry
  <2>f. FlagsOK'
    BY <1>0, <1>1, FaultFacts DEF FlagsOK, Goto, Retry
  <2>1. DataOK'
    BY <1>0, <1>1, <2>0, FaultFacts, NoObjectTypes DEF DataOK, Calls
  <2>2. CopiesOK'
    BY <1>0, <2>0 DEF CopiesOK
  <2>3. UidsOK'
    BY <1>0, <1>1, <2>0, SyncerAssumption DEF UidsOK, DataOK, NoObject, NewObject, NoCopy
  <2>4. Tagged' /\ Undeployed'
    BY <1>0, <1>1, <2>0 DEF Tagged, Undeployed, NoCopy
  <2>5. CalmOK'
    BY <1>0, <1>1, <2>0, FaultFacts DEF CalmOK, CalmHasNoOrphans
  <2>6. QED
    BY <2>f, <2>1, <2>2, <2>3, <2>4, <2>5
<1>2. CASE Retry /\ (Fault \/ NoFault) /\ UNCHANGED remote
  BY <1>0, <1>2, ReturnIInv
<1>3. \/ /\ remote' = undeployed /\ (Fault \/ NoFault)
         /\ (Goto("untag", obj, objCurrent) /\ UNCHANGED queued) \/ Retry
      \/ Retry /\ (Fault \/ NoFault) /\ UNCHANGED remote
  BY Zenon DEF DeleteKubernetesObject, undeployed
<1>4. QED
  BY <1>1, <1>2, <1>3

\* The object goes when its copy has gone.
LEMMA RemoveFinalizerIInv == IInv /\ RemoveFinalizer => IInv'
<1> SUFFICES ASSUME IInv, RemoveFinalizer PROVE IInv'
  OBVIOUS
<1>0. /\ at = "untag"
      /\ UNCHANGED <<cached, target, remote, events, report, made>>
      /\ target' \in Clusters \cup {Nowhere}
  BY DEF RemoveFinalizer, statusSyncers, IInv, DataOK
<1>1. ASSUME local # NoObject, objCurrent, Write(NoObject), Fault \/ NoFault, Return \/ Retry
      PROVE  IInv'
  <2> USE DEF IInv
  <2>0. /\ at' = "idle" /\ obj' = NoObject /\ ~objCurrent'
        /\ local' = NoObject /\ ~upToDate' /\ (calm' => calm)
    BY <1>1, FaultFacts DEF Return, Retry, Goto, Write
  <2>f. FlagsOK'
    BY <1>1, FaultFacts DEF FlagsOK, Return, Retry, Goto, Write
  <2>1. DataOK'
    BY <1>0, <1>1, <2>0, FaultFacts, NoObjectTypes DEF DataOK, Calls
  <2>2. CopiesOK'
    BY <2>0 DEF CopiesOK
  <2>3. UidsOK'
    BY <1>0, <2>0, SyncerAssumption DEF UidsOK, DataOK, NoObject, NewObject
  <2>4. Tagged' /\ Undeployed'
    BY <1>0, <2>0 DEF Tagged, Undeployed, UidsOK, NoObject, NewObject
  <2>5. CalmOK'
    BY <1>0, <1>1, <2>0, SyncerAssumption DEF CalmOK, CalmHasNoOrphans, CopiesOK, Undeployed
  <2>6. QED
    BY <2>f, <2>1, <2>2, <2>3, <2>4, <2>5
<1>2. CASE (Return \/ Retry) /\ (Fault \/ NoFault) /\ UNCHANGED <<local, upToDate>>
  BY <1>0, <1>2, ReturnIInv
<1>3. QED
  BY <1>1, <1>2 DEF RemoveFinalizer

\* The syncer starts afresh.
LEMMA RestartIInv == IInv /\ Restart => IInv'
<1> SUFFICES ASSUME IInv, Restart PROVE IInv'
  OBVIOUS
<1> USE DEF IInv
<1>0. /\ at' = "idle" /\ obj' = NoObject /\ ~objCurrent' /\ ~calm'
      /\ cached' = local /\ upToDate' = TRUE /\ target' = Nowhere
      /\ events' \subseteq Clusters /\ report' = [c \in Clusters |-> Nothing]
      /\ UNCHANGED <<local, remote, made>>
  BY DEF Restart, Goto, Fault
<1>f. FlagsOK'
  BY DEF Restart, Goto, Fault, FlagsOK
<1>1. DataOK'
  <2>1. faults' \in 0 .. MaxFaults
    BY FaultFacts DEF Restart
  <2>2. QED
    BY <1>0, <2>1, NoObjectTypes, PatchTypes DEF DataOK, Calls
<1>2. CopiesOK'
  BY <1>0 DEF CopiesOK
<1>3. UidsOK'
  BY <1>0, SyncerAssumption DEF UidsOK, DataOK, NoObject, NewObject
<1>4. Tagged' /\ Undeployed' /\ CalmOK'
  BY <1>0 DEF Tagged, Undeployed, CalmOK
<1>5. QED
  BY <1>f, <1>1, <1>2, <1>3, <1>4

-----------------------------------------------------------------------------
\* The copy runs, ends or is removed, and its status is read.
LEMMA RemoteIInv ==
    ASSUME IInv, NEW c \in Clusters,
           PodsStart(c) \/ RemoteEnds(c) \/ RemoteExpires(c) \/ ReadStatus(c)
    PROVE  IInv'
<1> USE DEF IInv
<1>0. UNCHANGED <<local, cached, upToDate, queued, at, obj, objCurrent, target, made, faults, calm>>
  BY DEF PodsStart, RemoteEnds, RemoteExpires, ReadStatus, informer, controller
<1>1. /\ remote' \in [Clusters -> Copies]
      /\ \A d \in Clusters :
            \/ remote'[d].uid = remote[d].uid /\ (remote[d] = NoCopy <=> remote'[d] = NoCopy)
            \/ remote'[d] = NoCopy
  <2>s. ASSUME NEW s \in Statuses, remote' = [remote EXCEPT ![c].status = s], remote[c] # NoCopy
        PROVE  /\ remote' \in [Clusters -> Copies]
               /\ \A d \in Clusters : /\ remote'[d].uid = remote[d].uid
                                      /\ remote[d] = NoCopy <=> remote'[d] = NoCopy
    BY <2>s DEF UidsOK, DataOK, Copies, NoCopy
  <2>0. CASE PodsStart(c)
    <3>1. [remote[c].status EXCEPT !.active = TRUE] \in Statuses
      BY StatusTypes DEF DataOK, Copies
    <3>2. remote' = [remote EXCEPT ![c].status = [remote[c].status EXCEPT !.active = TRUE]]
      BY <2>0 DEF PodsStart, DataOK, Copies, Statuses
    <3>3. QED
      BY <2>0, <2>s, <3>1, <3>2 DEF PodsStart
  <2>1. CASE RemoteEnds(c)
    <3>1. remote[c].uid \in 1 .. MaxObjects
      BY <2>1, SyncerAssumption DEF RemoteEnds, UidsOK, DataOK, Copies
    <3>2. [active |-> FALSE, conditions |-> {Ended(remote[c].uid)}] \in Statuses
      BY <3>1, StatusTypes
    <3>3. QED
      BY <2>1, <2>s, <3>2 DEF RemoteEnds
  <2>2. CASE RemoteExpires(c)
    BY <2>2, NoObjectTypes DEF RemoteExpires, DataOK
  <2>3. CASE ReadStatus(c)
    BY <2>3 DEF ReadStatus, DataOK
  <2>4. QED
    BY <2>0, <2>1, <2>2, <2>3
<1>2. events' \subseteq Clusters /\ report' \in [Clusters -> Patches]
  <2>1. Difference(cached.status, remote[c].status) \in Patches
    BY PatchTypes DEF DataOK, Objects, Copies
  <2>2. QED
    BY <2>1, PatchTypes
       DEF PodsStart, RemoteEnds, RemoteExpires, ReadStatus, statusSyncers, DataOK
<1>f. FlagsOK'
  BY <1>0 DEF FlagsOK
<1>3. DataOK'
  BY <1>0, <1>1, <1>2 DEF DataOK
<1>4. CopiesOK' /\ Undeployed'
  BY <1>0, <1>1, SyncerAssumption DEF CopiesOK, Undeployed, DataOK, Objects
<1>5. UidsOK'
  BY <1>0, <1>1, SyncerAssumption DEF UidsOK, DataOK, NoCopy
<1>6. Tagged' /\ CalmOK'
  BY <1>0, <1>1 DEF Tagged, CalmOK, CalmHasNoOrphans, NoCopy
<1>7. QED
  BY <1>f, <1>3, <1>4, <1>5, <1>6

\* A status syncer's patch leaves uid, finalizer and annotations alone.
LEMMA WriteStatusIInv ==
    ASSUME IInv, NEW c \in Clusters, WriteStatus(c)
    PROVE  IInv'
<1> USE DEF IInv
<1>0. /\ UNCHANGED <<cached, queued, at, obj, target, remote, made, calm>>
      /\ \/ UNCHANGED <<local, upToDate, objCurrent>>
         \/ /\ local # NoObject /\ upToDate' = FALSE /\ objCurrent' = FALSE
            /\ local' = [local EXCEPT !.status = Patched(local.status, report[c])]
  BY DEF WriteStatus, Write
<1>1. /\ local' \in Objects /\ local'.uid = local.uid
      /\ local'.finalizer = local.finalizer /\ local'.cluster = local.cluster
      /\ local # NoObject \/ local' = local
  <2>1. Patched(local.status, report[c]) \in Statuses
    BY PatchTypes DEF DataOK, Objects
  <2>2. QED
    BY <1>0, <2>1, ObjectUpdates DEF DataOK, Objects
<1>2. /\ events' \subseteq Clusters /\ report' \in [Clusters -> Patches]
      /\ faults' \in 0 .. MaxFaults
  BY PatchTypes, SyncerAssumption DEF WriteStatus, DataOK
<1>f. FlagsOK'
  BY <1>0 DEF FlagsOK
<1>3. DataOK'
  BY <1>0, <1>1, <1>2 DEF DataOK
<1>4. CopiesOK' /\ Undeployed'
  BY <1>0 DEF CopiesOK, Undeployed
<1>5. UidsOK'
  BY <1>0, <1>1 DEF UidsOK
<1>6. Tagged' /\ CalmOK'
  BY <1>0, <1>1 DEF Tagged, CalmOK, CalmHasNoOrphans
<1>7. QED
  BY <1>f, <1>3, <1>4, <1>5, <1>6

\* Every step keeps the invariant.
LEMMA NextIInv == IInv /\ [Next]_vars => IInv'
<1> SUFFICES ASSUME IInv, [Next]_vars PROVE IInv'
  OBVIOUS
<1>1. CASE Create \/ Delete \/ Observe
  BY <1>1, CreateIInv, DeleteIInv, ObserveIInv
<1>2. CASE Reconcile
  BY <1>2, GetIInv, tagIInv, PatchIInv, recordFailureIInv, storeIInv, DeleteObjectIInv,
     RemoveFinalizerIInv DEF Reconcile
<1>3. CASE Restart
  BY <1>3, RestartIInv
<1>4. ASSUME NEW c \in Clusters,
             \/ PodsStart(c) \/ RemoteEnds(c) \/ RemoteExpires(c)
             \/ ReadStatus(c) \/ WriteStatus(c)
      PROVE  IInv'
  BY <1>4, RemoteIInv, WriteStatusIInv
<1>5. CASE UNCHANGED vars
  BY <1>5 DEF vars, IInv, FlagsOK, DataOK, CopiesOK, UidsOK, Tagged, Undeployed, CalmOK, CalmHasNoOrphans
<1>6. QED
  BY <1>1, <1>2, <1>3, <1>4, <1>5 DEF Next

\* The inductive invariant holds in every reachable state: the finalizer is
\* there before the copy is, and in calm operation there is one copy at most.
THEOREM SyncerInvariance == Spec => []IInv
<1>1. QED
  BY InitIInv, NextIInv, PTL DEF Spec

\* Type correctness.
THEOREM SyncerTypes == Spec => []TypeOK
<1>1. IInv => TypeOK
  BY DEF IInv, FlagsOK, DataOK, TypeOK
<1>2. QED
  BY <1>1, SyncerInvariance, PTL

\* In calm operation (no failed call, no outdated read) no copy is orphaned
\* and there is no second one, for any number of clusters and objects.
THEOREM CalmHasNoOrphansHolds == Spec => []CalmHasNoOrphans
<1>1. IInv => CalmHasNoOrphans
  BY DEF IInv, CalmOK, CalmHasNoOrphans
<1>2. QED
  BY <1>1, SyncerInvariance, PTL

\* No object goes while the cluster it is annotated with has its copy,
\* whatever fails and however old the cache is.
THEOREM GoneIsUndeployedHolds == Spec => GoneIsUndeployed
<1> DEFINE Kept == local.uid # local'.uid /\ local.cluster # Nowhere
                     => remote[local.cluster].uid # local.uid
<1>1. IInv /\ [Next]_vars => [Kept]_vars
  <2> SUFFICES ASSUME IInv, Next PROVE Kept
    OBVIOUS
  <2>0. local \in Objects /\ (local.uid = 0 => local = NoObject)
    BY DEF IInv, DataOK, UidsOK
  <2>1. CASE Create
    BY <2>1 DEF Create, NoObject, NewObject
  <2>2. CASE Delete
    BY <2>0, <2>2 DEF Delete, Write, IInv, Tagged, Objects
  <2>3. CASE RemoveFinalizer
    BY <2>0, <2>3 DEF RemoveFinalizer, IInv, CopiesOK, Undeployed, NoCopy, NoObject, NewObject
  <2>4. CASE Observe \/ Get \/ PatchKubernetesObject \/ DeleteKubernetesObject \/ Restart
    BY <2>4 DEF Observe, Get, PatchKubernetesObject, DeleteKubernetesObject, Restart
  <2>5. CASE tagWithFinalizer \/ recordFailure \/ storeObjectData
    BY <2>0, <2>5 DEF tagWithFinalizer, recordFailure, storeObjectData, Write, Objects
  <2>6. ASSUME NEW c \in Clusters,
               \/ PodsStart(c) \/ RemoteEnds(c) \/ RemoteExpires(c)
               \/ ReadStatus(c) \/ WriteStatus(c)
        PROVE  Kept
    BY <2>0, <2>6 DEF PodsStart, RemoteEnds, RemoteExpires, ReadStatus, WriteStatus, Write, Objects
  <2>7. QED
    BY <2>1, <2>2, <2>3, <2>4, <2>5, <2>6 DEF Next, Reconcile
<1>2. QED
  BY <1>1, SyncerInvariance, PTL DEF Spec, GoneIsUndeployed

=============================================================================
