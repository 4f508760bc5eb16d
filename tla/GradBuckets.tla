----------------------------- MODULE GradBuckets -----------------------------
(***************************************************************************)
(* Megatron's DistributedDataParallel: the bucket groups of                *)
(* param_and_grad_buffer.py, the autograd and forward pre-hooks of         *)
(* distributed_data_parallel.py that drive them, and the training loop     *)
(* around both (train_step, the optimizer step, evaluation and             *)
(* checkpoints).  Every rank runs the same sequential program; ranks meet  *)
(* only in the collectives.                                                *)
(*                                                                         *)
(* main_grad[r][p][q] counts the microbatch gradients of rank q summed     *)
(* into rank r's buffer for p.  params[r][g][q] counts the optimizer steps *)
(* visible to rank r in the shard of bucket group g that rank q owns.  A   *)
(* collective is the pair <<"grad", g>> or <<"param", g>>; it stays in     *)
(* issued[r] until it has been performed.                                  *)
(*                                                                         *)
(* Bucket groups are numbered in the order of bucket_groups, from the end  *)
(* of the model to its beginning, and hold one bucket each.                *)
(***************************************************************************)
EXTENDS Naturals, Sequences, FiniteSets, Functions

CONSTANTS
  Ranks,               \* the data-parallel group
  NumGroups,           \* bucket groups of the model chunk
  Modules,             \* sequence of the parameters, in forward order
  GroupOf,             \* GroupOf[p]: the bucket group of parameter p
  NumMicrobatches,
  MaxIterations,       \* bound on the training iterations
  Jobs                 \* the training jobs considered, see below

Params == Range(Modules)
Groups == 1 .. NumGroups
GroupParams(g) == {p \in Params : GroupOf[p] = g}

(* A job: its command line, the iterations whose optimizer step is skipped *)
(* and those followed by evaluation or a save, the same on every rank, and *)
(* whether gradients become ready in another order on each rank.           *)
JobType ==
  [use_distributed_optimizer : BOOLEAN, overlap_grad_reduce : BOOLEAN,
   overlap_param_gather : BOOLEAN, use_dpu_reduce : BOOLEAN,
   skips : SUBSET (0 .. MaxIterations - 1),
   evaluations : SUBSET (0 .. MaxIterations - 1), any_order : BOOLEAN]

ASSUME ConfigAssumption ==
  /\ Modules \in Seq(Params) /\ NumGroups \in Nat \ {0}
  /\ GroupOf \in [Params -> Groups]
  /\ \A g \in Groups : GroupParams(g) # {}
  /\ NumMicrobatches \in Nat \ {0}
  /\ Jobs \subseteq JobType
  /\ \A j \in Jobs : j.overlap_param_gather => j.overlap_grad_reduce

(* The jobs the code supports: BytePS reduction overlaps only without the  *)
(* distributed optimizer, and with overlapped gathers evaluation and saves *)
(* come after the first successful step.                                   *)
Supported(j) ==
  /\ ~(j.use_dpu_reduce /\ j.use_distributed_optimizer /\ j.overlap_grad_reduce)
  /\ j.use_distributed_optimizer /\ j.overlap_param_gather =>
       \A e \in j.evaluations : \E i \in 0 .. e : i \notin j.skips

VARIABLES
  pc, iteration, microbatch,
  index,                   \* next module, or next bucket group of a loop
  todo,                    \* parameters whose gradient is still to come
  hooks,                   \* the forward pre-hooks are registered
  start_iteration,
  params_with_grad,
  is_last_microbatch,
  param_gather_handle,     \* not None
  param_gather_dispatched,
  grad_reduce_handle,      \* not None
  main_grad,
  params,
  issued,                  \* collectives issued and not yet performed
  failed,                  \* an assertion failed or an exception was raised
  job

control == <<pc, iteration, microbatch, index, todo>>
groupVars == <<params_with_grad, is_last_microbatch, grad_reduce_handle>>
gatherVars == <<param_gather_handle, param_gather_dispatched>>
loopVars == <<hooks, start_iteration>>
vars == <<control, groupVars, gatherVars, loopVars, main_grad, params, issued,
          failed, job>>

UseDistributedOptimizer == job.use_distributed_optimizer
OverlapGradReduce == job.overlap_grad_reduce
OverlapParamGather == job.overlap_param_gather
UseDpuReduce == job.use_dpu_reduce
skips == job.skips
evaluations == job.evaluations

use_forward_hook == UseDistributedOptimizer /\ OverlapParamGather

(* torch.distributed matches the collectives of a communicator in the      *)
(* order they were issued; BytePS matches push_pulls by tensor name.       *)
ByName == UseDpuReduce /\ ~UseDistributedOptimizer

Init ==
  /\ pc = [r \in Ranks |-> "zero"]
  /\ iteration = [r \in Ranks |-> 0]
  /\ microbatch = [r \in Ranks |-> 1]
  /\ index = [r \in Ranks |-> 1]
  /\ todo = [r \in Ranks |-> {}]
  /\ hooks = [r \in Ranks |-> FALSE]
  /\ start_iteration = [r \in Ranks |-> 0]
  /\ params_with_grad = [r \in Ranks |-> [g \in Groups |-> {}]]
  /\ is_last_microbatch = [r \in Ranks |-> TRUE]
  /\ param_gather_handle = [r \in Ranks |-> [g \in Groups |-> FALSE]]
  /\ param_gather_dispatched = [r \in Ranks |-> [g \in Groups |-> FALSE]]
  /\ grad_reduce_handle = [r \in Ranks |-> [g \in Groups |-> FALSE]]
  /\ main_grad = [r \in Ranks |-> [p \in Params |-> [q \in Ranks |-> 0]]]
  /\ params = [r \in Ranks |-> [g \in Groups |-> [q \in Ranks |-> 0]]]
  /\ issued = [r \in Ranks |-> <<>>]
  /\ failed = [r \in Ranks |-> FALSE]
  /\ job \in Jobs

-----------------------------------------------------------------------------
(* Helpers *)

Done(r, op) == op \notin Range(issued[r])
Goto(r, place) == pc' = [pc EXCEPT ![r] = place]
At(r, i) == index' = [index EXCEPT ![r] = i]

(* The handle of a bucket group's reduction is waited for. *)
ReduceAwaitedNever(r, g) == TRUE
ReduceAwaited(r, g) == Done(r, <<"grad", g>>)

(* finish_grad_sync makes the parameters of the group due for a gather. *)
GatherDueNever(r, g) == param_gather_dispatched
GatherDue(r, g) == [param_gather_dispatched EXCEPT ![r][g] = FALSE]

ReduceHandleCleared(r, g) == [grad_reduce_handle EXCEPT ![r][g] = FALSE]

(* _ParamAndGradBuffer.reset *)
GradsZeroed(r) ==
  [main_grad EXCEPT ![r] = [p \in Params |-> [q \in Ranks |-> 0]]]

(* An assertion that fails, or an exception, ends the rank's program. *)
Fail(r) ==
  /\ failed' = [failed EXCEPT ![r] = TRUE]
  /\ Goto(r, "failed")
  /\ UNCHANGED <<iteration, microbatch, index, todo, groupVars, gatherVars,
                 loopVars, main_grad, params, issued, job>>

-----------------------------------------------------------------------------
(* zero_grad_buffer, then no_sync around all microbatches but the last.    *)
ZeroGradBuffer(r) ==
  /\ pc[r] = "zero"
  /\ main_grad' = GradsZeroed(r)
  /\ params_with_grad' = [params_with_grad EXCEPT ![r] = [g \in Groups |-> {}]]
  /\ is_last_microbatch' =
       [is_last_microbatch EXCEPT ![r] = ~OverlapGradReduce \/ NumMicrobatches = 1]
  /\ Goto(r, "forward") /\ At(r, 1)
  /\ microbatch' = [microbatch EXCEPT ![r] = 1]
  /\ UNCHANGED <<iteration, todo, grad_reduce_handle, gatherVars, loopVars,
                 params, issued, failed, job>>

(* The group of the module that rank r runs next in a forward pass. *)
NextGroup(r) == GroupOf[Modules[index[r]]]

(* finish_param_sync of the pre-hook, up to the wait: the all-gather of    *)
(* this group is issued unless it has been dispatched.                     *)
DispatchParamSync(r) ==
  LET g == NextGroup(r) IN
  /\ pc[r] = "forward" /\ hooks[r]
  /\ ~param_gather_dispatched[r][g]
  /\ IF param_gather_handle[r][g]
       THEN Fail(r)
       ELSE /\ issued' = [issued EXCEPT ![r] = Append(@, <<"param", g>>)]
            /\ param_gather_handle' = [param_gather_handle EXCEPT ![r][g] = TRUE]
            /\ param_gather_dispatched' =
                 [param_gather_dispatched EXCEPT ![r][g] = TRUE]
            /\ UNCHANGED <<control, groupVars, loopVars, main_grad, params,
                           failed, job>>

(* param_gather_handle is None again after the wait. *)
GatherHandleKept(r, g) == param_gather_handle[r]
GatherHandleCleared(r, g) == [param_gather_handle[r] EXCEPT ![g] = FALSE]

AfterForward(r) ==
  IF index[r] < Len(Modules)
    THEN /\ At(r, index[r] + 1)
         /\ UNCHANGED <<pc, todo>>
    ELSE /\ Goto(r, "backward") /\ At(r, 1)
         /\ todo' = [todo EXCEPT ![r] = Params]

(* The rest of finish_param_sync (wait, then dispatch the group that the   *)
(* forward pass reaches next) and the module's own computation, which      *)
(* reads the parameters.                                                   *)
ForwardModuleUnhooked(r) ==
  /\ pc[r] = "forward"
  /\ ~hooks[r] \/ (param_gather_dispatched[r][NextGroup(r)]
                     /\ ~param_gather_handle[r][NextGroup(r)])
  /\ AfterForward(r)
  /\ UNCHANGED <<iteration, microbatch, groupVars, gatherVars, loopVars,
                 main_grad, params, issued, failed, job>>

ForwardModuleGathered(r) ==
  LET g == NextGroup(r)
      next == g - 1
      dispatchNext == next \in Groups /\ ~param_gather_dispatched[r][next]
  IN
  /\ pc[r] = "forward" /\ hooks[r]
  /\ param_gather_dispatched[r][g] /\ param_gather_handle[r][g]
  /\ Done(r, <<"param", g>>)
  /\ IF dispatchNext /\ param_gather_handle[r][next]
       THEN Fail(r)
       ELSE /\ param_gather_handle' =
                 [param_gather_handle EXCEPT
                    ![r] = [h \in Groups |-> \/ GatherHandleCleared(r, g)[h]
                                             \/ h = next /\ dispatchNext]]
            /\ param_gather_dispatched' =
                 [param_gather_dispatched EXCEPT
                    ![r] = [h \in Groups |-> @[h] \/ (h = next /\ dispatchNext)]]
            /\ issued' = IF dispatchNext
                           THEN [issued EXCEPT ![r] = Append(@, <<"param", next>>)]
                           ELSE issued
            /\ AfterForward(r)
            /\ UNCHANGED <<iteration, microbatch, groupVars, loopVars, main_grad,
                           params, failed, job>>

-----------------------------------------------------------------------------
(* register_grad_ready issues the collective of a group, start_grad_sync,  *)
(* with the last of its parameters.                                        *)
GroupReadyAtFirst(r, p) == params_with_grad[r][GroupOf[p]] = {}
GroupReady(r, p) ==
  params_with_grad[r][GroupOf[p]] \cup {p} = GroupParams(GroupOf[p])

RegisterAsserts(r, p) ==
  /\ p \notin params_with_grad[r][GroupOf[p]]
  /\ GroupReady(r, p) => ~grad_reduce_handle[r][GroupOf[p]]

RegisterGradReady(r, p) ==
  LET g == GroupOf[p] IN
  IF OverlapGradReduce /\ is_last_microbatch[r]
    THEN /\ params_with_grad' = [params_with_grad EXCEPT ![r][g] = @ \cup {p}]
         /\ IF GroupReady(r, p)
              THEN /\ issued' = [issued EXCEPT ![r] = Append(@, <<"grad", g>>)]
                   /\ grad_reduce_handle' = [grad_reduce_handle EXCEPT ![r][g] = TRUE]
              ELSE UNCHANGED <<issued, grad_reduce_handle>>
    ELSE UNCHANGED <<params_with_grad, issued, grad_reduce_handle>>

(* The end of a microbatch's backward pass; no_sync is left before the     *)
(* last microbatch.                                                        *)
AfterBackwardNoSync(r) ==
  IF microbatch[r] < NumMicrobatches
    THEN /\ microbatch' = [microbatch EXCEPT ![r] = @ + 1]
         /\ Goto(r, "forward")
         /\ UNCHANGED is_last_microbatch
    ELSE /\ Goto(r, "finish")
         /\ UNCHANGED <<microbatch, is_last_microbatch>>

AfterBackward(r) ==
  IF microbatch[r] < NumMicrobatches
    THEN /\ microbatch' = [microbatch EXCEPT ![r] = @ + 1]
         /\ Goto(r, "forward")
         /\ is_last_microbatch' =
              [is_last_microbatch EXCEPT ![r] = @ \/ microbatch[r] + 1 = NumMicrobatches]
    ELSE /\ Goto(r, "finish")
         /\ UNCHANGED <<microbatch, is_last_microbatch>>

(* The backward post-hook of parameter p. *)
BackwardHook(r, p) ==
  /\ pc[r] = "backward" /\ p \in todo[r]
  /\ job.any_order \/ \A i, j \in 1 .. Len(Modules) :
                            Modules[i] = p /\ Modules[j] \in todo[r] => j <= i
  /\ IF OverlapGradReduce /\ is_last_microbatch[r] /\ ~RegisterAsserts(r, p)
       THEN Fail(r)
       ELSE /\ main_grad' = [main_grad EXCEPT ![r][p][r] = @ + 1]
            /\ RegisterGradReady(r, p)
            /\ todo' = [todo EXCEPT ![r] = @ \ {p}]
            /\ IF todo[r] = {p}
                 THEN AfterBackward(r)
                 ELSE UNCHANGED <<pc, microbatch, is_last_microbatch>>
            /\ UNCHANGED <<iteration, index, gatherVars, loopVars, params, failed,
                           job>>

-----------------------------------------------------------------------------
(* finish_grad_sync of the bucket groups in turn. *)
NextOfLoop(r, after) ==
  IF index[r] < NumGroups
    THEN At(r, index[r] + 1) /\ UNCHANGED pc
    ELSE At(r, 1) /\ Goto(r, after)

(* Without overlap the collective is issued here and waited for.           *)
FinishByStarting(r) ==
  LET g == index[r] IN
  /\ pc[r] = "finish" /\ ~OverlapGradReduce
  /\ IF grad_reduce_handle[r][g]
       THEN Fail(r)
       ELSE /\ param_gather_dispatched' = GatherDue(r, g)
            /\ issued' = [issued EXCEPT ![r] = Append(@, <<"grad", g>>)]
            /\ Goto(r, "finishing")
            /\ UNCHANGED <<iteration, microbatch, index, todo, groupVars,
                           param_gather_handle, loopVars, main_grad, params,
                           failed, job>>

FinishStarted(r) ==
  /\ pc[r] = "finishing"
  /\ ReduceAwaited(r, index[r])
  /\ IF index[r] < NumGroups
       THEN At(r, index[r] + 1) /\ Goto(r, "finish")
       ELSE At(r, 1) /\ Goto(r, "step")
  /\ UNCHANGED <<iteration, microbatch, todo, groupVars, gatherVars, loopVars,
                 main_grad, params, issued, failed, job>>

(* With overlap the handle is waited for.  With use_dpu_reduce it is taken *)
(* to be the list of BytePS handles, which it is only without the          *)
(* distributed optimizer.                                                  *)
FinishGradSync(r) ==
  LET g == index[r] IN
  /\ pc[r] = "finish" /\ OverlapGradReduce
  /\ IF ~grad_reduce_handle[r][g] \/ (UseDpuReduce /\ UseDistributedOptimizer)
       THEN Fail(r)
       ELSE /\ ReduceAwaited(r, g)
            /\ param_gather_dispatched' = GatherDue(r, g)
            /\ grad_reduce_handle' = ReduceHandleCleared(r, g)
            /\ NextOfLoop(r, "step")
            /\ UNCHANGED <<iteration, microbatch, todo, params_with_grad,
                           is_last_microbatch, param_gather_handle, loopVars,
                           main_grad, params, issued, failed, job>>

(* step_with_ready_grads: without overlap the shards are gathered at once. *)
AfterStep ==
  IF UseDistributedOptimizer /\ ~OverlapParamGather THEN "sync" ELSE "stepped"

(* optimizer.step: the distributed optimizer updates this rank's shard.    *)
(* When a gradient is infinite it returns at once: nothing is updated, and *)
(* nothing is gathered.                                                    *)
OptimizerStep(r) ==
  /\ pc[r] = "step"
  /\ params' = IF iteration[r] \in skips
                 THEN params
                 ELSE [params EXCEPT ![r] =
                         [g \in Groups |->
                            [q \in Ranks |->
                               IF UseDistributedOptimizer /\ q # r
                                 THEN @[g][q] ELSE @[g][q] + 1]]]
  /\ Goto(r, IF iteration[r] \in skips THEN "stepped" ELSE AfterStep)
  /\ UNCHANGED <<iteration, microbatch, index, todo, groupVars, gatherVars,
                 loopVars, main_grad, issued, failed, job>>

(* start_param_sync of all groups: after the step without overlap, and     *)
(* with force_sync when the pre-hooks are removed.  A handle that is still *)
(* outstanding is waited for instead, but only with force_sync.            *)
StartParamSync(r) ==
  LET g == index[r] IN
  /\ pc[r] \in {"sync", "force"}
  /\ IF param_gather_handle[r][g]
       THEN IF pc[r] = "sync"
              THEN Fail(r)
              ELSE /\ Done(r, <<"param", g>>)
                   /\ param_gather_handle' =
                        [param_gather_handle EXCEPT ![r][g] = FALSE]
                   /\ NextOfLoop(r, "evaluate")
                   /\ UNCHANGED <<iteration, microbatch, todo, groupVars,
                                  param_gather_dispatched, loopVars, main_grad,
                                  params, issued, failed, job>>
       ELSE /\ issued' = [issued EXCEPT ![r] = Append(@, <<"param", g>>)]
            /\ param_gather_dispatched' =
                 [param_gather_dispatched EXCEPT ![r][g] = TRUE]
            /\ Goto(r, IF pc[r] = "sync" THEN "syncing" ELSE "forcing")
            /\ UNCHANGED <<iteration, microbatch, index, todo, groupVars,
                           param_gather_handle, loopVars, main_grad, params,
                           failed, job>>

ParamSynced(r) ==
  LET loop == IF pc[r] = "syncing" THEN "sync" ELSE "force"
      after == IF pc[r] = "syncing" THEN "stepped" ELSE "evaluate"
  IN
  /\ pc[r] \in {"syncing", "forcing"}
  /\ Done(r, <<"param", index[r]>>)
  /\ IF index[r] < NumGroups
       THEN At(r, index[r] + 1) /\ Goto(r, loop)
       ELSE At(r, 1) /\ Goto(r, after)
  /\ UNCHANGED <<iteration, microbatch, todo, groupVars, gatherVars, loopVars,
                 main_grad, params, issued, failed, job>>

-----------------------------------------------------------------------------
(* The rest of an iteration of train(). *)

(* The pre-hooks are registered after the first successful step. *)
EnableForwardPreHook(r) ==
  LET first == iteration[r] = start_iteration[r]
      skipped == iteration[r] \in skips
  IN
  /\ pc[r] = "stepped"
  /\ IF first /\ ~skipped /\ use_forward_hook /\ hooks[r]
       THEN Fail(r)
       ELSE /\ start_iteration' =
                 [start_iteration EXCEPT ![r] = IF first /\ skipped THEN @ + 1 ELSE @]
            /\ hooks' = [hooks EXCEPT
                           ![r] = @ \/ (first /\ ~skipped /\ use_forward_hook)]
            /\ Goto(r, IF iteration[r] \in evaluations THEN "disable" ELSE "next")
            /\ UNCHANGED <<iteration, microbatch, index, todo, groupVars, gatherVars,
                           main_grad, params, issued, failed, job>>

(* Evaluation and checkpoints first remove the pre-hooks.  The removal     *)
(* looks every hook up and fails if there is none.                         *)
DisableForwardPreHook(r) ==
  /\ pc[r] = "disable"
  /\ IF use_forward_hook /\ ~hooks[r]
       THEN Fail(r)
       ELSE /\ hooks' = [hooks EXCEPT ![r] = FALSE]
            /\ Goto(r, IF use_forward_hook THEN "force" ELSE "evaluate")
            /\ UNCHANGED <<iteration, microbatch, index, todo, groupVars, gatherVars,
                           start_iteration, main_grad, params, issued, failed,
                           job>>

(* Forward passes without pre-hooks, or a read of all parameters to save   *)
(* them; then the pre-hooks are registered again.                          *)
Evaluate(r) ==
  /\ pc[r] = "evaluate"
  /\ hooks' = [hooks EXCEPT ![r] = use_forward_hook]
  /\ Goto(r, "next")
  /\ UNCHANGED <<iteration, microbatch, index, todo, groupVars, gatherVars,
                 start_iteration, main_grad, params, issued, failed, job>>

NextIteration(r) ==
  /\ pc[r] = "next"
  /\ iteration' = [iteration EXCEPT ![r] = @ + 1]
  /\ Goto(r, IF iteration[r] + 1 < MaxIterations THEN "zero" ELSE "done")
  /\ UNCHANGED <<microbatch, index, todo, groupVars, gatherVars, loopVars, main_grad,
                 params, issued, failed, job>>

-----------------------------------------------------------------------------
(* The collectives.  An operation is performed once every rank has issued  *)
(* it; on an NCCL communicator it must be the oldest one of every rank.    *)
Matched(op) ==
  \A r \in Ranks : IF ByName THEN ~Done(r, op)
                             ELSE issued[r] # <<>> /\ Head(issued[r]) = op

(* The operation is taken out of a rank's sequence, where it occurs once.  *)
Without(s, op) ==
  LET i == CHOOSE i \in DOMAIN s : s[i] = op
  IN [j \in 1 .. Len(s) - 1 |-> IF j < i THEN s[j] ELSE s[j + 1]]

Perform(op) ==
  /\ Matched(op)
  /\ issued' = [r \in Ranks |-> Without(issued[r], op)]

(* All-reduce or reduce-scatter: each rank's part of the buffer becomes    *)
(* the sum over the ranks, whose gradients are counted together.           *)
Sum(p) ==
  [q \in Ranks |->
     Cardinality(UNION {{r} \X (1 .. main_grad[r][p][q]) : r \in Ranks})]

ReduceGradients(g) ==
  /\ Perform(<<"grad", g>>)
  /\ main_grad' = [r \in Ranks |-> [p \in Params |->
                     IF GroupOf[p] = g THEN Sum(p) ELSE main_grad[r][p]]]
  /\ UNCHANGED <<control, groupVars, gatherVars, loopVars, params, failed, job>>

(* All-gather: each rank receives every rank's own shard. *)
GatherParams(g) ==
  /\ Perform(<<"param", g>>)
  /\ params' = [r \in Ranks |-> [params[r] EXCEPT ![g] =
                                   [q \in Ranks |-> params[q][g][q]]]]
  /\ UNCHANGED <<control, groupVars, gatherVars, loopVars, main_grad, failed, job>>

-----------------------------------------------------------------------------
RankNext(r) ==
  \/ ZeroGradBuffer(r)
  \/ DispatchParamSync(r)
  \/ ForwardModuleUnhooked(r)
  \/ ForwardModuleGathered(r)
  \/ \E p \in Params : BackwardHook(r, p)
  \/ FinishByStarting(r)
  \/ FinishStarted(r)
  \/ FinishGradSync(r)
  \/ OptimizerStep(r)
  \/ StartParamSync(r)
  \/ ParamSynced(r)
  \/ EnableForwardPreHook(r)
  \/ DisableForwardPreHook(r)
  \/ Evaluate(r)
  \/ NextIteration(r)

CollectiveNext == \E g \in Groups : ReduceGradients(g) \/ GatherParams(g)

Next == (\E r \in Ranks : RankNext(r)) \/ CollectiveNext

(* A rank's thread keeps running, and a collective that all ranks have     *)
(* issued is performed.                                                    *)
Fairness == /\ \A r \in Ranks : WF_vars(RankNext(r))
            /\ WF_vars(CollectiveNext)

Spec == Init /\ [][Next]_vars /\ Fairness

-----------------------------------------------------------------------------
(* Properties *)

(* Successful optimizer steps before iteration i. *)
StepsBefore(i) == Cardinality({j \in 0 .. i - 1 : j \notin skips})
Fresh(r, g, i) == params[r][g] = [q \in Ranks |-> StepsBefore(i)]

(* When the optimizer steps, every gradient buffer holds each microbatch   *)
(* of each rank exactly once: nothing is reduced before the last           *)
(* microbatch, twice, or not at all.                                       *)
GradientsComplete ==
  \A r \in Ranks : pc[r] = "step" =>
    \A p \in Params : main_grad[r][p] = [q \in Ranks |-> NumMicrobatches]

(* While the reduction of a bucket group is in flight its buffer holds     *)
(* exactly this rank's complete gradient: no hook adds to it any more.     *)
NothingAddedInFlight ==
  \A r \in Ranks, p \in Params : ~Done(r, <<"grad", GroupOf[p]>>) =>
    main_grad[r][p] = [q \in Ranks |-> IF q = r THEN NumMicrobatches ELSE 0]

(* A module, in training or in evaluation, computes with parameters in     *)
(* which every rank's shard is the outcome of the last successful step,    *)
(* although gathers are dispatched one group ahead and waited for lazily.  *)
ForwardReadsLatest ==
  [][\A r \in Ranks :
       /\ pc[r] = "forward" /\ ~failed'[r] /\ <<pc'[r], index'[r]>> # <<pc[r], index[r]>>
          => Fresh(r, NextGroup(r), iteration[r])
       /\ pc[r] = "evaluate" /\ pc'[r] # "evaluate"
          => \A g \in Groups : Fresh(r, g, iteration[r] + 1)]_vars

(* The assertions of the bucket groups and of the hook bookkeeping hold    *)
(* and no exception is raised.                                             *)
AssertionsHold == \A r \in Ranks : ~failed[r]

(* Every rank finishes every iteration: no rank waits for a collective     *)
(* that the others have not issued or have issued in another order.        *)
TrainingCompletes == <>(\A r \in Ranks : pc[r] = "done")
=============================================================================
