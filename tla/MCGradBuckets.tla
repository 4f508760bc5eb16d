----------------------------- MODULE MCGradBuckets -----------------------------
(* Small instances of GradBuckets. *)
EXTENDS GradBuckets

(* Three layers; bucket group 1 holds the last two, group 2 the first. *)
MCModules == <<"embedding", "layer1", "layer2">>
MCGroupOf == [p \in {"embedding", "layer1", "layer2"} |->
                IF p = "embedding" THEN 2 ELSE 1]

Job(distributed, overlap, gather, dpu, skipped, evaluated, anyOrder) ==
  [use_distributed_optimizer |-> distributed, overlap_grad_reduce |-> overlap,
   overlap_param_gather |-> gather, use_dpu_reduce |-> dpu,
   skips |-> skipped, evaluations |-> evaluated, any_order |-> anyOrder]

(* BytePS reduction overlapped with the backward pass. *)
DpuJob == Job(FALSE, TRUE, FALSE, TRUE, {}, {}, TRUE)

(* The distributed optimizer, with and without overlap.  With overlap the  *)
(* first optimizer step succeeds.                                          *)
ShardedJobs == {Job(TRUE, TRUE, TRUE, FALSE, s, e, FALSE) :
                  s \in SUBSET {1, 2}, e \in SUBSET {0, 1}}
SyncJobs == {Job(TRUE, FALSE, FALSE, FALSE, s, e, FALSE) :
               s \in SUBSET {0, 1}, e \in SUBSET {0, 1}}

WorkingJobs == {DpuJob} \cup ShardedJobs \cup SyncJobs

ASSUME TheseJobsAreSupported == \A j \in Jobs : Supported(j)
=============================================================================
