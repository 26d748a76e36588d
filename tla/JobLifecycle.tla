---------------------------- MODULE JobLifecycle ----------------------------
(***************************************************************************)
(* What a user of the fine-tuning API may rely on: how the state of a job  *)
(* can change, whatever the dispatcher, the reconciler, Kubernetes and     *)
(* other callers do meanwhile.                                             *)
(***************************************************************************)

CONSTANT Jobs

VARIABLE status     \* job -> its state, "absent" before CreateJob

Init == status = [j \in Jobs |-> "absent"]

Become(j, s) == status' = [status EXCEPT ![j] = s]

Create(j) == status[j] = "absent" /\ Become(j, "queued")

Start(j) == status[j] = "queued" /\ Become(j, "running")

\* A cancellation request, or the k8s job is gone and is made again.
Requeue(j) == status[j] = "running" /\ Become(j, "queued")

\* Success is reported of running jobs only, and is final.
Succeed(j) == status[j] = "running" /\ Become(j, "succeeded")

\* Failing and being canceled race; the later report wins.
End(j) == /\ status[j] \in {"queued", "running", "failed", "canceled"}
          /\ \E s \in {"failed", "canceled"} : Become(j, s)

Next == \E j \in Jobs : \/ Create(j) \/ Start(j) \/ Requeue(j)
                        \/ Succeed(j) \/ End(j)

Spec == Init /\ [][Next]_status

=============================================================================
