----------------------------- MODULE MCTensorKeys -----------------------------
(* Small instances of TensorKeys.                                             *)
EXTENDS TensorKeys

Bucket(b, bytes) == [scope |-> "dp", logical |-> <<"bucket", b>>, bytes |-> bytes,
                     async |-> TRUE, buffer |-> 1]
Layer(l, bytes) == [scope |-> "tp", logical |-> <<"layer", l>>, bytes |-> bytes,
                    async |-> FALSE, buffer |-> 1]

Sizes(tp, dp, pp) == [tp |-> tp, cp |-> 1, dp |-> dp, pp |-> pp]

Job(frontend, sizes, local, orders, passes, resumes) ==
  [frontend |-> frontend, sizes |-> sizes, local_size |-> local, orders |-> orders,
   passes |-> passes, resumes |-> resumes]

(* Megatron on two tensor- and two data-parallel ranks, one per machine: a    *)
(* tensor-parallel layer, then a bucket of two partitions.                    *)
LayoutJob ==
  Job("megatron", Sizes(2, 2, 1), 1, {<<Layer(0, 2), Bucket(0, 3)>>}, 1, 0)

(* Megatron on two data-parallel ranks that suspend and resume: two buckets   *)
(* in any order; the first has two partitions.                                *)
OrdersJob ==
  Job("megatron", Sizes(1, 2, 1), 1,
      {<<Bucket(0, 3), Bucket(1, 2)>>, <<Bucket(1, 2), Bucket(0, 3)>>}, 1, 1)

(* SGLang on two machines with two ranks each: the same layer at two shapes,  *)
(* twice.                                                                     *)
ServingJob ==
  Job("sglang", Sizes(4, 1, 1), 2, {<<Layer(0, 4), Layer(0, 3)>>}, 2, 0)

WorkingJobs == {LayoutJob, OrdersJob, ServingJob}

(* Names are numbered: distinct names have distinct hashes.                   *)
AllNames ==
  FoldSet(LAMBDA n, names : Append(names, n), <<>>,
          UNION {{NameIn(j, r, c) : r \in RanksOf(j),
                                    c \in UNION {ToSet(o) : o \in j.orders}} : j \in Jobs})
NumberHash(n) == CHOOSE i \in DOMAIN AllNames : AllNames[i] = n
===============================================================================
