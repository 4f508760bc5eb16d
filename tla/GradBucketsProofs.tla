--------------------------- MODULE GradBucketsProofs ---------------------------
(***************************************************************************)
(* Safety of the overlapped reductions and gathers of GradBuckets, for any *)
(* number of ranks, bucket groups, parameters, microbatches and iterations *)
(* and for every job.                                                      *)
(***************************************************************************)
EXTENDS GradBuckets, TLAPS

-----------------------------------------------------------------------------
(* The inductive invariant.                                                *)

Ops == {"grad", "param"} \X Groups
Collecting == {"forward", "backward", "finish", "finishing", "step"}
Evaluating == {"force", "forcing", "evaluate"}
Counted == {"disable", "next"} \cup Evaluating
Stepped == {"sync", "syncing", "stepped"} \cup Counted
Places == {"zero", "done", "failed"} \cup Collecting \cup Stepped
Loops == {"finish", "finishing", "sync", "syncing", "force", "forcing"}

TypeOK ==
  /\ job \in Jobs
  /\ pc \in [Ranks -> Places]
  /\ iteration \in [Ranks -> Nat]
  /\ start_iteration \in [Ranks -> Nat]
  /\ microbatch \in [Ranks -> 1 .. NumMicrobatches]
  /\ index \in [Ranks -> Nat \ {0}]
  /\ todo \in [Ranks -> SUBSET Params]
  /\ hooks \in [Ranks -> BOOLEAN]
  /\ is_last_microbatch \in [Ranks -> BOOLEAN]
  /\ failed \in [Ranks -> BOOLEAN]
  /\ params_with_grad \in [Ranks -> [Groups -> SUBSET Params]]
  /\ param_gather_handle \in [Ranks -> [Groups -> BOOLEAN]]
  /\ param_gather_dispatched \in [Ranks -> [Groups -> BOOLEAN]]
  /\ grad_reduce_handle \in [Ranks -> [Groups -> BOOLEAN]]
  /\ main_grad \in [Ranks -> [Params -> [Ranks -> Nat]]]
  /\ params \in [Ranks -> [Groups -> [Ranks -> Nat]]]
  /\ issued \in [Ranks -> Seq(Ops)]

(* No operation is issued twice.                                           *)
Distinct(s) == \A i, j \in DOMAIN s : s[i] = s[j] => i = j
Once(r) == Distinct(issued[r])

(* Where the loops of the program stand.                                   *)
Position(r) ==
  /\ pc[r] = "backward" => todo[r] # {}
  /\ pc[r] \notin {"backward", "failed"} => todo[r] = {}
  /\ pc[r] = "forward" => index[r] \in 1 .. Len(Modules)
  /\ pc[r] \in Loops => index[r] \in Groups
  /\ pc[r] \notin Loops \cup {"forward", "failed"} => index[r] = 1
  /\ pc[r] \in {"finish", "finishing", "step"} => microbatch[r] = NumMicrobatches
  /\ pc[r] \in {"forward", "backward"} /\ OverlapGradReduce =>
       (is_last_microbatch[r] <=> microbatch[r] = NumMicrobatches)
  /\ pc[r] = "finishing" => ~OverlapGradReduce
  /\ pc[r] \in {"sync", "syncing"} => UseDistributedOptimizer /\ ~OverlapParamGather
  /\ pc[r] \in {"force", "forcing"} => use_forward_hook

(* Which parameters have registered their gradient of this iteration.      *)
Registered(r, g) ==
  OverlapGradReduce =>
    /\ pc[r] = "forward" \/ (pc[r] = "backward" /\ microbatch[r] < NumMicrobatches)
       => params_with_grad[r][g] = {}
    /\ pc[r] = "backward" /\ microbatch[r] = NumMicrobatches
       => params_with_grad[r][g] = GroupParams(g) \ todo[r]
    /\ pc[r] \in {"finish", "step"} => params_with_grad[r][g] = GroupParams(g)

(* This iteration's reduction of the group has been issued.                *)
Started(r, g) ==
  IF OverlapGradReduce
    THEN params_with_grad[r][g] = GroupParams(g)
    ELSE \/ pc[r] = "step"
         \/ pc[r] = "finish" /\ g < index[r]
         \/ pc[r] = "finishing" /\ g <= index[r]

ReduceHandle(r, g) ==
  pc[r] # "failed" =>
    (grad_reduce_handle[r][g] <=>
       /\ OverlapGradReduce
       /\ \/ pc[r] \in {"forward", "backward"} /\ Started(r, g)
          \/ pc[r] = "finish" /\ g >= index[r])

(* A reduction is outstanding from its start to the wait.                  *)
Outstanding(r, g) ==
  ~Done(r, <<"grad", g>>) =>
    \/ pc[r] = "failed"
    \/ /\ pc[r] \in Collecting \ {"step"} /\ Started(r, g)
       /\ pc[r] \in {"finish", "finishing"} => g >= index[r]

OwnGrad(r, n) == [q \in Ranks |-> IF q = r THEN n ELSE 0]
FullGrad == [q \in Ranks |-> NumMicrobatches]
Count(r, p) ==
  IF pc[r] = "forward" \/ p \in todo[r] THEN microbatch[r] - 1 ELSE microbatch[r]

(* What the buffer holds before, during and after the reduction.           *)
Buffer(r, p) ==
  /\ ~Done(r, <<"grad", GroupOf[p]>>) => main_grad[r][p] = OwnGrad(r, NumMicrobatches)
  /\ pc[r] \in Collecting /\ ~Started(r, GroupOf[p])
     => main_grad[r][p] = OwnGrad(r, Count(r, p))
  /\ pc[r] \in Collecting /\ Started(r, GroupOf[p]) /\ Done(r, <<"grad", GroupOf[p]>>)
     => main_grad[r][p] = FullGrad

(* The forward pass of this iteration has been through a module of g.      *)
Visited(r, g) ==
  microbatch[r] > 1 \/ \E i \in 1 .. index[r] - 1 : GroupOf[Modules[i]] = g

GatherHandle(r, g) ==
  /\ pc[r] \notin {"forward", "failed"} => ~param_gather_handle[r][g]
  /\ pc[r] = "backward" /\ hooks[r] => param_gather_dispatched[r][g]
  /\ pc[r] = "forward" =>
       /\ param_gather_handle[r][g] => hooks[r] /\ param_gather_dispatched[r][g]
       /\ hooks[r] /\ Visited(r, g) =>
            param_gather_dispatched[r][g] /\ ~param_gather_handle[r][g]

(* A gather is outstanding from its dispatch to the wait.                  *)
Gathering(r, g) ==
  ~Done(r, <<"param", g>>) =>
    /\ param_gather_dispatched[r][g]
    /\ \/ pc[r] = "failed"
       \/ pc[r] = "forward" /\ param_gather_handle[r][g]
       \/ pc[r] \in {"syncing", "forcing"} /\ g = index[r]

(* An optimizer step before iteration n has succeeded.                     *)
Begun(n) == \E j \in 0 .. n - 1 : j \notin skips
Ended(r) == IF pc[r] \in Counted THEN iteration[r] + 1 ELSE iteration[r]

Hooked(r) ==
  pc[r] # "failed" =>
    /\ Begun(Ended(r)) => start_iteration[r] < Ended(r)
    /\ ~Begun(Ended(r)) => start_iteration[r] = Ended(r)
    /\ hooks[r] <=> /\ use_forward_hook /\ Begun(Ended(r))
                    /\ pc[r] \notin Evaluating
    /\ pc[r] \in Evaluating /\ use_forward_hook => Begun(Ended(r))
    /\ pc[r] \in Evaluating \cup {"disable"} => iteration[r] \in evaluations

GroupInv(r, g) ==
  /\ Registered(r, g) /\ ReduceHandle(r, g) /\ Outstanding(r, g)
  /\ GatherHandle(r, g) /\ Gathering(r, g)

RankInv(r) ==
  /\ Once(r) /\ Position(r) /\ Hooked(r)
  /\ \A g \in Groups : GroupInv(r, g)
  /\ \A p \in Params : Buffer(r, p)

Inv == TypeOK /\ \A r \in Ranks : RankInv(r)

(* The gathers have been dispatched anew since the last step.              *)
Dispatched(r, g) ==
  /\ \/ pc[r] = "step"
     \/ pc[r] = "finish" /\ g < index[r]
     \/ pc[r] = "finishing" /\ g <= index[r]
     => ~param_gather_dispatched[r][g]
  /\ \/ pc[r] = "force" /\ g < index[r]
     \/ pc[r] = "forcing" /\ g <= index[r]
     \/ pc[r] = "evaluate" /\ use_forward_hook
     => param_gather_dispatched[r][g]

(* How often the gradients of g have been reduced.                         *)
Reduced(r, g) ==
  \/ pc[r] \in Stepped
  \/ pc[r] \in Collecting /\ Started(r, g) /\ Done(r, <<"grad", g>>)
Reductions(r, g) == IF Reduced(r, g) THEN iteration[r] + 1 ELSE iteration[r]

(* How often the optimizer has been called.                                *)
Calls(r) == IF pc[r] \in Stepped THEN iteration[r] + 1 ELSE iteration[r]

Gathered(r, g) == param_gather_dispatched[r][g] /\ Done(r, <<"param", g>>)

(* Parameters may be stale only while their gather is due.                 *)
Due(r, g) ==
  /\ UseDistributedOptimizer
  /\ IF OverlapParamGather
       THEN ~Gathered(r, g) /\ Begun(Calls(r))
       ELSE \/ pc[r] = "sync" /\ g >= index[r]
            \/ pc[r] = "syncing" /\ g > index[r]
            \/ pc[r] = "syncing" /\ g = index[r] /\ ~Done(r, <<"param", g>>)

Shards(r, g) ==
  /\ params[r][g][r] = StepsBefore(Calls(r))
  /\ Fresh(r, g, Calls(r)) \/ Due(r, g)

DataInv ==
  /\ Inv /\ AssertionsHold
  /\ \A r \in Ranks : pc[r] # "failed"
  /\ \A r \in Ranks, g \in Groups : Dispatched(r, g) /\ Shards(r, g)
  /\ \A r, q \in Ranks, g \in Groups : Reductions(r, g) = Reductions(q, g)

-----------------------------------------------------------------------------
(* Sequences of operations.                                                *)

\* Issuing an operation that is not outstanding.
LEMMA AppendOnce ==
  ASSUME NEW s \in Seq(Ops), Distinct(s), NEW op \in Ops, op \notin Range(s)
  PROVE  /\ Append(s, op) \in Seq(Ops) /\ Distinct(Append(s, op))
         /\ Range(Append(s, op)) = Range(s) \cup {op}
<1>1. /\ Append(s, op) \in Seq(Ops) /\ DOMAIN Append(s, op) = 1 .. Len(s) + 1
      /\ DOMAIN s = 1 .. Len(s) /\ Len(s) \in Nat
      /\ \A i \in 1 .. Len(s) : Append(s, op)[i] = s[i]
      /\ Append(s, op)[Len(s) + 1] = op
  OBVIOUS
<1>2. \A i \in 1 .. Len(s) : s[i] # op
  BY <1>1, Zenon DEF Range
<1>3. Distinct(Append(s, op))
  BY <1>1, <1>2 DEF Distinct
<1>4. Range(Append(s, op)) = Range(s) \cup {op}
  BY <1>1 DEF Range
<1>5. QED
  BY <1>1, <1>3, <1>4, Zenon

\* Performing an outstanding operation.
LEMMA WithoutOnce ==
  ASSUME NEW s \in Seq(Ops), Distinct(s), NEW op \in Range(s)
  PROVE  /\ Without(s, op) \in Seq(Ops) /\ Distinct(Without(s, op))
         /\ Range(Without(s, op)) = Range(s) \ {op}
<1> DEFINE i == CHOOSE i \in DOMAIN s : s[i] = op
           t == [j \in 1 .. Len(s) - 1 |-> IF j < i THEN s[j] ELSE s[j + 1]]
<1>1. DOMAIN s = 1 .. Len(s) /\ Len(s) \in Nat /\ \A j \in 1 .. Len(s) : s[j] \in Ops
  OBVIOUS
<1>2. i \in DOMAIN s /\ s[i] = op
  BY Zenon DEF Range
<1>3. i \in 1 .. Len(s) /\ s[i] = op /\ \A j \in 1 .. Len(s) : s[j] = op => j = i
  BY <1>1, <1>2, Zenon DEF Distinct
<1> HIDE DEF i
<1>4. t \in Seq(Ops) /\ DOMAIN t = 1 .. Len(s) - 1
  BY <1>1, <1>3
<1>5. Distinct(t)
  BY <1>1, <1>3 DEF Distinct
<1>6. Range(t) = Range(s) \ {op}
  <2>1. ASSUME NEW x \in Range(t) PROVE x \in Range(s) \ {op}
    BY <1>1, <1>3, <2>1 DEF Range
  <2>2. ASSUME NEW x \in Range(s) \ {op} PROVE x \in Range(t)
    <3>1. PICK j \in 1 .. Len(s) : s[j] = x
      BY <1>1, <2>2, Zenon DEF Range
    <3>2. CASE j < i
      <4>1. j \in 1 .. Len(s) - 1 /\ t[j] = x
        BY <1>1, <1>3, <3>1, <3>2
      <4>2. QED
        BY <4>1, <1>4, Zenon DEF Range
    <3>3. CASE ~(j < i)
      <4>1. j - 1 \in 1 .. Len(s) - 1 /\ t[j - 1] = x
        BY <1>1, <1>3, <3>1, <3>3, <2>2
      <4>2. QED
        BY <4>1, <1>4, Zenon DEF Range
    <3>4. QED
      BY <3>2, <3>3, Zenon
  <2>3. QED
    BY <2>1, <2>2, Zenon
<1>7. Without(s, op) = t
  BY Zenon DEF Without, i
<1>8. QED
  BY <1>4, <1>5, <1>6, <1>7, Zenon

-----------------------------------------------------------------------------
(* The configuration.                                                      *)

\* Every module belongs to a group and every group has a module.
LEMMA Configuration ==
  /\ Len(Modules) \in Nat \ {0} /\ NumMicrobatches \in Nat \ {0} /\ NumGroups \in Nat \ {0}
  /\ Params # {}
  /\ \A i \in 1 .. Len(Modules) : Modules[i] \in Params /\ GroupOf[Modules[i]] \in Groups
  /\ \A p \in Params : GroupOf[p] \in Groups
  /\ \A g \in Groups : \E i \in 1 .. Len(Modules) : GroupOf[Modules[i]] = g
<1>1. /\ Modules \in Seq(Params) /\ NumGroups \in Nat \ {0} /\ NumMicrobatches \in Nat \ {0}
      /\ GroupOf \in [Params -> Groups] /\ \A g \in Groups : GroupParams(g) # {}
  BY ConfigAssumption, Zenon
<1>2. /\ Len(Modules) \in Nat /\ DOMAIN Modules = 1 .. Len(Modules)
      /\ \A i \in 1 .. Len(Modules) : Modules[i] \in Params
  BY <1>1
<1>3. \A p \in Params : GroupOf[p] \in Groups
  BY <1>1, Zenon
<1>4. \A g \in Groups : \E i \in 1 .. Len(Modules) : GroupOf[Modules[i]] = g
  <2>1. SUFFICES ASSUME NEW g \in Groups
                 PROVE  \E i \in 1 .. Len(Modules) : GroupOf[Modules[i]] = g
    BY Zenon
  <2>2. PICK p \in Params : GroupOf[p] = g
    BY <1>1, Zenon DEF GroupParams
  <2>3. PICK i \in 1 .. Len(Modules) : Modules[i] = p
    BY <1>2, Zenon DEF Params, Range
  <2>4. QED
    BY <2>2, <2>3, Zenon
<1>5. 1 \in Groups
  BY <1>1 DEF Groups
<1>6. Len(Modules) # 0 /\ Params # {}
  BY <1>2, <1>4, <1>5
<1>7. QED
  BY <1>1, <1>2, <1>3, <1>4, <1>6, Zenon

\* Small arithmetic that the steps share.
LEMMA Values ==
  /\ \A n \in Nat : n + 1 \in Nat /\ n + 1 \in Nat \ {0}
  /\ 1 \in Nat /\ 1 \in Nat \ {0} /\ 1 \in Groups
  /\ 1 \in 1 .. NumMicrobatches /\ 1 \in 1 .. Len(Modules)
  /\ \A i \in 1 .. Len(Modules) :
       /\ i < Len(Modules) => /\ i + 1 \in 1 .. Len(Modules)
                             /\ \A j \in 1 .. (i + 1) - 1 : j = i \/ j \in 1 .. i - 1
       /\ ~(i < Len(Modules)) => \A j \in 1 .. Len(Modules) : j = i \/ j \in 1 .. i - 1
  /\ \A s \in Seq(Ops), op \in Ops : Append(s, op) \in Seq(Ops)
BY Configuration DEF Groups

\* The order in which a loop goes through the groups.
LEMMA GroupOrder ==
  ASSUME NEW h \in Groups, NEW i \in Groups
  PROVE  /\ ~(h < 1) /\ h >= 1 /\ ~(h < h) /\ h >= h /\ h <= h /\ ~(h > h)
         /\ h <= i <=> h < i \/ h = i
         /\ h >= i <=> h > i \/ h = i
         /\ h < i <=> ~(h >= i)
         /\ h > i <=> ~(h <= i)
         /\ h < i + 1 <=> h <= i
         /\ h >= i + 1 <=> h > i
         /\ ~(i < NumGroups) => h <= i
         /\ i < NumGroups => i + 1 \in Groups
         /\ 1 \in Groups
BY ConfigAssumption DEF Groups

\* A loop over the groups goes on from group i to j, or ends after it.
LoopAdvance(i, j) ==
  /\ i < NumGroups => j \in Groups
  /\ \A h \in Groups :
       /\ h <= i <=> h < i \/ h = i
       /\ h >= i <=> h > i \/ h = i
       /\ h > i <=> ~(h <= i)
       /\ h > i => h # i
       /\ i < NumGroups => (h < j <=> h <= i) /\ (h >= j <=> h > i)
       /\ ~(i < NumGroups) => h <= i

\* The order of the groups a loop has left behind and still has before it.
LEMMA LoopOrder ==
  ASSUME NEW i \in Groups, NEW j, i < NumGroups => j = i + 1
  PROVE  LoopAdvance(i, j)
BY ConfigAssumption DEF Groups, LoopAdvance

-----------------------------------------------------------------------------
(* Steps of a rank.                                                        *)

\* A rank's step leaves the other ranks' state alone.
Same(q) ==
  /\ pc'[q] = pc[q] /\ iteration'[q] = iteration[q] /\ microbatch'[q] = microbatch[q]
  /\ index'[q] = index[q] /\ todo'[q] = todo[q] /\ hooks'[q] = hooks[q]
  /\ start_iteration'[q] = start_iteration[q]
  /\ params_with_grad'[q] = params_with_grad[q]
  /\ is_last_microbatch'[q] = is_last_microbatch[q]
  /\ param_gather_handle'[q] = param_gather_handle[q]
  /\ param_gather_dispatched'[q] = param_gather_dispatched[q]
  /\ grad_reduce_handle'[q] = grad_reduce_handle[q]
  /\ main_grad'[q] = main_grad[q] /\ params'[q] = params[q]
  /\ issued'[q] = issued[q] /\ failed'[q] = failed[q]
Alone(r) == TypeOK' /\ job' = job /\ \A q \in Ranks : q # r => Same(q)

\* What an optimizer step and EnableForwardPreHook leave behind.
Advanced(r) ==
  [g \in Groups |-> [q \in Ranks |-> IF UseDistributedOptimizer /\ q # r
                                       THEN params[r][g][q] ELSE params[r][g][q] + 1]]
FirstStep(r) == iteration[r] = start_iteration[r]
StartAfter(r) ==
  IF FirstStep(r) /\ iteration[r] \in skips THEN start_iteration[r] + 1
                                            ELSE start_iteration[r]
HooksAfter(r) ==
  hooks[r] \/ (FirstStep(r) /\ iteration[r] \notin skips /\ use_forward_hook)

\* The gather of the group that the forward pass reaches next is due.
AlsoNext(r, g) == g - 1 \in Groups /\ ~param_gather_dispatched[r][g - 1]

\* The hook registers the gradient, and issues the reduction of a complete group.
Registers(r) == OverlapGradReduce /\ is_last_microbatch[r]
Issues(r, p) == Registers(r) /\ GroupReady(r, p)

\* What the hook of p, a parameter of g, does to its rank.
HookStep(r, p, g) ==
  /\ Alone(r)
  /\ pc[r] = "backward" /\ p \in todo[r] /\ todo'[r] = todo[r] \ {p}
  /\ \A x \in Params : x # p => main_grad'[r][x] = main_grad[r][x]
  /\ \A q \in Ranks : main_grad'[r][p][q] = IF q = r THEN main_grad[r][p][q] + 1
                                                     ELSE main_grad[r][p][q]
  /\ \A h \in Groups : h # g => params_with_grad'[r][h] = params_with_grad[r][h]
  /\ Registers(r) => params_with_grad'[r][g] = params_with_grad[r][g] \cup {p}
  /\ ~Registers(r) => params_with_grad'[r][g] = params_with_grad[r][g]
  /\ \A h \in Groups : grad_reduce_handle'[r][h] <=>
       grad_reduce_handle[r][h] \/ (h = g /\ Issues(r, p))
  /\ Issues(r, p) => issued'[r] = Append(issued[r], <<"grad", g>>)
  /\ ~Issues(r, p) => issued'[r] = issued[r]
  /\ todo[r] # {p} =>
       /\ pc'[r] = "backward" /\ microbatch'[r] = microbatch[r]
       /\ is_last_microbatch'[r] = is_last_microbatch[r]
  /\ todo[r] = {p} /\ microbatch[r] < NumMicrobatches =>
       /\ pc'[r] = "forward" /\ microbatch'[r] = microbatch[r] + 1
       /\ is_last_microbatch'[r] <=> \/ is_last_microbatch[r]
                                     \/ microbatch[r] + 1 = NumMicrobatches
  /\ todo[r] = {p} /\ ~(microbatch[r] < NumMicrobatches) =>
       /\ pc'[r] = "finish" /\ microbatch'[r] = microbatch[r]
       /\ is_last_microbatch'[r] = is_last_microbatch[r]
  /\ iteration' = iteration /\ index' = index /\ hooks' = hooks
  /\ param_gather_handle' = param_gather_handle
  /\ param_gather_dispatched' = param_gather_dispatched
  /\ start_iteration' = start_iteration /\ params' = params /\ failed' = failed

-----------------------------------------------------------------------------
(* Every step of a rank preserves its part of the invariant.               *)

\* The types of a rank's counters.
LEMMA TypesAt ==
  ASSUME TypeOK, NEW r \in Ranks
  PROVE  /\ iteration[r] \in Nat /\ start_iteration[r] \in Nat /\ index[r] \in Nat \ {0}
         /\ microbatch[r] \in Nat \ {0} /\ microbatch[r] <= NumMicrobatches
         /\ NumMicrobatches \in Nat \ {0} /\ NumGroups \in Nat \ {0}
         /\ Len(Modules) \in Nat \ {0}
         /\ microbatch[r] = NumMicrobatches <=> ~(microbatch[r] < NumMicrobatches)
<1>1. /\ iteration[r] \in Nat /\ start_iteration[r] \in Nat /\ index[r] \in Nat \ {0}
      /\ microbatch[r] \in 1 .. NumMicrobatches
  BY Zenon DEF TypeOK
<1>2. QED
  BY <1>1, Configuration

\* Only the end of an iteration bears on the registration of the pre-hooks.
LEMMA HookedKept ==
  ASSUME NEW r \in Ranks, Hooked(r), job' = job, pc[r] # "failed",
         iteration'[r] = iteration[r], start_iteration'[r] = start_iteration[r],
         hooks'[r] = hooks[r], pc[r] \in Counted <=> pc'[r] \in Counted,
         pc[r] \in Evaluating <=> pc'[r] \in Evaluating,
         pc'[r] = "disable" => pc[r] = "disable"
  PROVE  Hooked(r)'
<1>1. Ended(r)' = Ended(r)
  BY Zenon DEF Ended
<1>2. Begun(Ended(r))' <=> Begun(Ended(r))
  BY <1>1, Zenon DEF Begun, skips
<1>3. QED
  BY <1>1, <1>2, Zenon DEF Hooked, use_forward_hook, UseDistributedOptimizer,
                           OverlapParamGather, evaluations

\* What a buffer holds depends on the progress of its group's reduction.
LEMMA BufferKept ==
  ASSUME NEW r \in Ranks, NEW x \in Params, Buffer(r, x), main_grad'[r][x] = main_grad[r][x],
         Done(r, <<"grad", GroupOf[x]>>)' <=> Done(r, <<"grad", GroupOf[x]>>),
         pc'[r] \in Collecting =>
           /\ pc[r] \in Collecting
           /\ Started(r, GroupOf[x])' <=> Started(r, GroupOf[x])
           /\ ~Started(r, GroupOf[x]) => Count(r, x)' = Count(r, x)
  PROVE  Buffer(r, x)'
BY Zenon DEF Buffer, OwnGrad, FullGrad

\* What every step of a rank except the optimizer's leaves alone: the parameters,
\* the number of optimizer calls and of reductions, the gathers that are due.
Keeps(r) ==
  /\ pc'[r] # "failed" /\ failed' = failed /\ params' = params /\ Calls(r)' = Calls(r)
  /\ \A h \in Groups : /\ Reductions(r, h)' = Reductions(r, h)
                       /\ Due(r, h) => Due(r, h)'
                       /\ Dispatched(r, h) => Dispatched(r, h)'

\* Outside the gathers after a step, a gather is due until it has been performed.
LEMMA KeepsIf ==
  ASSUME NEW r \in Ranks, job' = job, failed' = failed, params' = params,
         pc[r] \notin {"sync", "syncing"}, pc'[r] # "failed", Calls(r)' = Calls(r),
         \A h \in Groups : /\ Reductions(r, h)' = Reductions(r, h)
                           /\ Gathered(r, h)' => Gathered(r, h)
                           /\ Dispatched(r, h) => Dispatched(r, h)'
  PROVE  Keeps(r)
<1>1. Begun(Calls(r))' <=> Begun(Calls(r))
  BY Zenon DEF Begun, skips
<1>2. ASSUME NEW h \in Groups, Due(r, h) PROVE Due(r, h)'
  BY <1>1, <1>2, Zenon DEF Due, UseDistributedOptimizer, OverlapParamGather
<1>3. QED
  BY <1>2, Zenon DEF Keeps

\* A rank that a failed assertion stops.
LEMMA FailInv ==
  ASSUME Inv, NEW r \in Ranks, Fail(r)
  PROVE  Alone(r) /\ RankInv(r)'
<1>1. TypeOK /\ RankInv(r)
  BY Zenon DEF Inv
<1>2. /\ Alone(r)
      /\ pc'[r] = "failed" /\ failed'[r]
      /\ iteration' = iteration /\ start_iteration' = start_iteration
      /\ microbatch' = microbatch /\ index' = index /\ todo' = todo
      /\ hooks' = hooks /\ is_last_microbatch' = is_last_microbatch
      /\ params_with_grad' = params_with_grad
      /\ param_gather_handle' = param_gather_handle
      /\ param_gather_dispatched' = param_gather_dispatched
      /\ grad_reduce_handle' = grad_reduce_handle /\ main_grad' = main_grad
      /\ params' = params /\ issued' = issued
  <2>1. /\ pc' = [pc EXCEPT ![r] = "failed"] /\ failed' = [failed EXCEPT ![r] = TRUE]
        /\ iteration' = iteration /\ start_iteration' = start_iteration
        /\ microbatch' = microbatch /\ index' = index /\ todo' = todo
        /\ hooks' = hooks /\ is_last_microbatch' = is_last_microbatch
        /\ params_with_grad' = params_with_grad
        /\ param_gather_handle' = param_gather_handle
        /\ param_gather_dispatched' = param_gather_dispatched
        /\ grad_reduce_handle' = grad_reduce_handle /\ main_grad' = main_grad
        /\ params' = params /\ issued' = issued /\ job' = job
    BY <1>1, Zenon DEF Fail, Goto, At, control, groupVars, gatherVars, loopVars
  <2>2. /\ "failed" \in Places
    BY <1>1, Zenon DEF Places, Collecting, Stepped, Counted, Evaluating
  <2>3. TypeOK'
    BY <1>1, <2>1, <2>2, Zenon DEF TypeOK
  <2>4. /\ \A q \in Ranks : q # r => Same(q)
        /\ pc'[r] = "failed" /\ failed'[r]
    BY <1>1, <2>1, <2>2, Zenon DEF TypeOK, Same
  <2>5. QED
    BY <2>1, <2>3, <2>4, Zenon DEF Alone
<1>3. Once(r)' /\ Position(r)' /\ Hooked(r)'
  BY <1>1, <1>2, ZenonT(60) DEF TypeOK, RankInv, Once, Position, Hooked, Ended, Loops,
       Counted, Evaluating, Begun, OverlapGradReduce, OverlapParamGather,
       UseDistributedOptimizer, use_forward_hook, skips, evaluations, Alone
<1>4. \A h \in Groups : GroupInv(r, h)'
  BY <1>1, <1>2, ZenonT(60) DEF TypeOK, RankInv, GroupInv, Registered, ReduceHandle,
       Outstanding, GatherHandle, Gathering, Started, Done, Loops, Counted, Evaluating,
       Collecting, OverlapGradReduce, Alone
<1>5. \A x \in Params : Buffer(r, x)'
  BY <1>1, <1>2, Zenon DEF TypeOK, RankInv, Buffer, Done, Collecting, Alone
<1>6. QED
  BY <1>1, <1>2, <1>3, <1>4, <1>5, Zenon DEF RankInv

\* A new iteration begins with empty buffers and no parameter registered.
LEMMA ZeroInv ==
  ASSUME Inv, NEW r \in Ranks, ZeroGradBuffer(r)
  PROVE  Alone(r) /\ RankInv(r)' /\ Keeps(r)
<1>1. TypeOK /\ RankInv(r)
  BY Zenon DEF Inv
<1>2. /\ Alone(r)
      /\ pc'[r] = "forward" /\ index'[r] = 1 /\ microbatch'[r] = 1
      /\ (is_last_microbatch'[r] <=> (~OverlapGradReduce \/ NumMicrobatches = 1))
      /\ params_with_grad'[r] = [g \in Groups |-> {}]
      /\ main_grad'[r] = [p \in Params |-> [q \in Ranks |-> 0]]
      /\ pc[r] = "zero" /\ iteration' = iteration
      /\ start_iteration' = start_iteration /\ todo' = todo /\ hooks' = hooks
      /\ failed' = failed /\ param_gather_handle' = param_gather_handle
      /\ param_gather_dispatched' = param_gather_dispatched
      /\ grad_reduce_handle' = grad_reduce_handle /\ params' = params
      /\ issued' = issued
  <2>1. /\ pc[r] = "zero" /\ pc' = [pc EXCEPT ![r] = "forward"]
        /\ index' = [index EXCEPT ![r] = 1]
        /\ microbatch' = [microbatch EXCEPT ![r] = 1]
        /\ is_last_microbatch' =
            [is_last_microbatch EXCEPT ![r] = (~OverlapGradReduce \/ NumMicrobatches = 1)]
        /\ params_with_grad' = [params_with_grad EXCEPT ![r] = [g \in Groups |-> {}]]
        /\ main_grad' = [main_grad EXCEPT ![r] = [p \in Params |-> [q \in Ranks |-> 0]]]
        /\ iteration' = iteration /\ start_iteration' = start_iteration
        /\ todo' = todo /\ hooks' = hooks /\ failed' = failed
        /\ param_gather_handle' = param_gather_handle
        /\ param_gather_dispatched' = param_gather_dispatched
        /\ grad_reduce_handle' = grad_reduce_handle /\ params' = params
        /\ issued' = issued /\ job' = job
    BY <1>1, Zenon
     DEF ZeroGradBuffer, Goto, At, GradsZeroed, control, groupVars, gatherVars, loopVars
  <2>2. /\ "forward" \in Places /\ 1 \in Nat \ {0} /\ 1 \in 1 .. NumMicrobatches
    BY Values, Zenon DEF Places, Collecting
  <2>3. TypeOK'
    BY <1>1, <2>1, <2>2, Zenon DEF TypeOK
  <2>4. /\ \A q \in Ranks : q # r => Same(q)
        /\ pc'[r] = "forward" /\ index'[r] = 1 /\ microbatch'[r] = 1
        /\ (is_last_microbatch'[r] <=> (~OverlapGradReduce \/ NumMicrobatches = 1))
        /\ params_with_grad'[r] = [g \in Groups |-> {}]
        /\ main_grad'[r] = [p \in Params |-> [q \in Ranks |-> 0]]
    BY <1>1, <2>1, <2>2, Zenon DEF TypeOK, Same
  <2>5. QED
    BY <2>1, <2>3, <2>4, Zenon DEF Alone
<1>3. Once(r)' /\ Hooked(r)'
  BY <1>1, <1>2, HookedKept, ZenonT(60) DEF RankInv, Once, Alone, Counted, Evaluating
<1>4. Position(r)'
  BY <1>1, <1>2, Values, ZenonT(60)
     DEF RankInv, Position, Loops, OverlapGradReduce, Alone
<1>5. ASSUME NEW h \in Groups
      PROVE  /\ Registered(r, h)' /\ ReduceHandle(r, h)' /\ Outstanding(r, h)'
             /\ ~Started(r, h)'
  <2>1. GroupInv(r, h)
    BY <1>1, <1>5, Zenon DEF RankInv
  <2>2. GroupParams(h) # {}
    BY <1>5, ConfigAssumption, Zenon
  <2>3. params_with_grad'[r][h] = {}
    BY <1>1, <1>5, <1>2, ZenonT(60)
  <2>4. QED
    BY <1>1, <2>1, <2>2, <2>3, <1>2, Zenon
       DEF GroupInv, Registered, ReduceHandle, Outstanding, Started, Done, Collecting,
           OverlapGradReduce, Alone
<1>6. ASSUME NEW h \in Groups PROVE GatherHandle(r, h)' /\ Gathering(r, h)'
  BY <1>1, <1>6, <1>2, TypesAt
     DEF RankInv, GroupInv, GatherHandle, Visited, Gathering, Done, Alone
<1>7. ASSUME NEW x \in Params PROVE Buffer(r, x)'
  <2>1. GroupOf[x] \in Groups /\ main_grad'[r][x] = [q \in Ranks |-> 0]
    BY <1>1, <1>7, <1>2, Configuration, ZenonT(60)
  <2>2. Count(r, x)' = 0
    BY <1>1, <1>2 DEF Count
  <2>3. OwnGrad(r, 0) = [q \in Ranks |-> 0]
    BY Zenon DEF OwnGrad
  <2>4. Done(r, <<"grad", GroupOf[x]>>)'
    BY <1>1, <1>5, <2>1, <1>2, ZenonT(60) DEF Outstanding
  <2>5. QED
    BY <1>5, <2>1, <2>2, <2>3, <2>4, Zenon DEF Buffer
<1>8. Keeps(r)
  <2>1. /\ pc[r] = "zero" /\ pc'[r] = "forward" /\ iteration' = iteration /\ issued' = issued
        /\ param_gather_dispatched' = param_gather_dispatched /\ index'[r] = 1
        /\ failed' = failed /\ params' = params /\ job' = job
    BY <1>1, <1>2, Zenon DEF Alone
  <2>2. Calls(r)' = Calls(r)
    BY <2>1, Zenon DEF Calls, Stepped, Counted, Evaluating
  <2>3. ASSUME NEW h \in Groups
        PROVE  /\ Reductions(r, h)' = Reductions(r, h) /\ (Gathered(r, h)' => Gathered(r, h))
               /\ Dispatched(r, h) => Dispatched(r, h)'
    BY <1>5, <2>1, <2>3, Zenon
     DEF Reductions, Reduced, Stepped, Counted, Evaluating, Collecting,
                           Gathered, Done, Dispatched
  <2>4. QED
    BY <2>1, <2>2, <2>3, KeepsIf, Zenon
<1>9. QED
  BY <1>8, <1>1, <1>3, <1>4, <1>5, <1>6, <1>7, <1>2, Zenon DEF RankInv, GroupInv

\* A module runs and another one follows.
LEMMA ForwardNextInv ==
  ASSUME Inv, NEW r \in Ranks, ForwardModuleUnhooked(r), index[r] < Len(Modules)
  PROVE  Alone(r) /\ RankInv(r)' /\ Keeps(r)
<1>1. TypeOK /\ RankInv(r)
  BY Zenon DEF Inv
<1>2. /\ Alone(r)
      /\ index'[r] = index[r] + 1
      /\ pc[r] = "forward"
      /\ (~hooks[r] \/ (param_gather_dispatched[r][NextGroup(r)]
                       /\ ~param_gather_handle[r][NextGroup(r)]))
      /\ pc' = pc /\ iteration' = iteration /\ start_iteration' = start_iteration
      /\ microbatch' = microbatch /\ todo' = todo /\ hooks' = hooks
      /\ is_last_microbatch' = is_last_microbatch /\ failed' = failed
      /\ params_with_grad' = params_with_grad
      /\ param_gather_handle' = param_gather_handle
      /\ param_gather_dispatched' = param_gather_dispatched
      /\ grad_reduce_handle' = grad_reduce_handle /\ main_grad' = main_grad
      /\ params' = params /\ issued' = issued
  <2>1. /\ pc[r] = "forward"
        /\ (~hooks[r] \/ (param_gather_dispatched[r][NextGroup(r)]
                            /\ ~param_gather_handle[r][NextGroup(r)]))
        /\ index' = [index EXCEPT ![r] = index[r] + 1] /\ pc' = pc
        /\ iteration' = iteration /\ start_iteration' = start_iteration
        /\ microbatch' = microbatch /\ todo' = todo /\ hooks' = hooks
        /\ is_last_microbatch' = is_last_microbatch /\ failed' = failed
        /\ params_with_grad' = params_with_grad
        /\ param_gather_handle' = param_gather_handle
        /\ param_gather_dispatched' = param_gather_dispatched
        /\ grad_reduce_handle' = grad_reduce_handle /\ main_grad' = main_grad
        /\ params' = params /\ issued' = issued /\ job' = job
    BY <1>1, Zenon
     DEF ForwardModuleUnhooked, Goto, At, AfterForward, control, groupVars, gatherVars,
         loopVars
  <2>2. /\ index[r] + 1 \in Nat \ {0}
    BY <1>1, Values, Zenon DEF TypeOK
  <2>3. TypeOK'
    BY <1>1, <2>1, <2>2, Zenon DEF TypeOK
  <2>4. /\ \A q \in Ranks : q # r => Same(q)
        /\ index'[r] = index[r] + 1
    BY <1>1, <2>1, <2>2, Zenon DEF TypeOK, Same
  <2>5. QED
    BY <2>1, <2>3, <2>4, Zenon DEF Alone
<1>3. Once(r)' /\ Hooked(r)'
  BY <1>1, <1>2, HookedKept, ZenonT(60) DEF RankInv, Once, Alone, Counted, Evaluating
<1>4. Position(r)'
  BY <1>1, <1>2, Values, ZenonT(60)
     DEF RankInv, Alone, Position, Loops, OverlapGradReduce
<1>5. ASSUME NEW h \in Groups
      PROVE  /\ Registered(r, h)' /\ ReduceHandle(r, h)' /\ Outstanding(r, h)'
             /\ Gathering(r, h)'
  BY <1>1, <1>5, <1>2, ZenonT(60)
     DEF RankInv, GroupInv, Registered, ReduceHandle, Outstanding, Started, Done, Collecting,
         OverlapGradReduce, Alone, Gathering
<1>6. ASSUME NEW h \in Groups PROVE GatherHandle(r, h)'
  <2>1. GatherHandle(r, h)
    BY <1>1, <1>6, Zenon DEF RankInv, GroupInv
  <2>2. Visited(r, h)' => Visited(r, h) \/ h = NextGroup(r)
    <3>1. /\ microbatch' = microbatch /\ index'[r] = index[r] + 1 /\ index[r] < Len(Modules)
          /\ index[r] \in 1 .. Len(Modules)
      BY <1>1, <1>2, Zenon DEF RankInv, Position
    <3>2. \A j \in 1 .. index'[r] - 1 : j = index[r] \/ j \in 1 .. index[r] - 1
      BY <3>1, Values, Zenon
    <3>3. QED
      BY <3>1, <3>2, Zenon DEF Visited, NextGroup
  <2>3. QED
    BY <1>1, <2>1, <2>2, <1>2, ZenonT(60) DEF GatherHandle
<1>7. ASSUME NEW x \in Params PROVE Buffer(r, x)'
  BY <1>1, <1>7, <1>2, ZenonT(60)
     DEF RankInv, Buffer, Done, Collecting, Count, OwnGrad, Started, OverlapGradReduce, Alone
<1>8. Keeps(r)
  <2>1. /\ pc[r] = "forward" /\ pc' = pc /\ iteration' = iteration /\ issued' = issued
        /\ param_gather_dispatched' = param_gather_dispatched
        /\ params_with_grad' = params_with_grad
        /\ failed' = failed /\ params' = params /\ job' = job
    BY <1>1, <1>2, Zenon DEF Alone
  <2>2. Calls(r)' = Calls(r)
    BY <2>1, Zenon DEF Calls, Stepped, Counted, Evaluating
  <2>3. ASSUME NEW h \in Groups
        PROVE  /\ Reductions(r, h)' = Reductions(r, h) /\ (Gathered(r, h)' => Gathered(r, h))
               /\ Dispatched(r, h) => Dispatched(r, h)'
    BY <2>1, Zenon DEF Reductions, Reduced, Started, Stepped, Counted, Evaluating, Collecting,
                Gathered, Done, Dispatched, OverlapGradReduce
  <2>4. QED
    BY <2>1, <2>2, <2>3, KeepsIf, Zenon
<1>9. QED
  BY <1>8, <1>1, <1>3, <1>4, <1>5, <1>6, <1>7, <1>2, Zenon DEF RankInv, GroupInv

\* The last module runs; no gather is outstanding any more.
LEMMA ForwardLastInv ==
  ASSUME Inv, NEW r \in Ranks, ForwardModuleUnhooked(r), ~(index[r] < Len(Modules))
  PROVE  Alone(r) /\ RankInv(r)' /\ Keeps(r)
<1>1. TypeOK /\ RankInv(r)
  BY Zenon DEF Inv
<1>2. /\ Alone(r)
      /\ pc'[r] = "backward" /\ index'[r] = 1 /\ todo'[r] = Params
      /\ pc[r] = "forward"
      /\ (~hooks[r] \/ (param_gather_dispatched[r][NextGroup(r)]
                       /\ ~param_gather_handle[r][NextGroup(r)]))
      /\ iteration' = iteration /\ start_iteration' = start_iteration
      /\ microbatch' = microbatch /\ hooks' = hooks
      /\ is_last_microbatch' = is_last_microbatch /\ failed' = failed
      /\ params_with_grad' = params_with_grad
      /\ param_gather_handle' = param_gather_handle
      /\ param_gather_dispatched' = param_gather_dispatched
      /\ grad_reduce_handle' = grad_reduce_handle /\ main_grad' = main_grad
      /\ params' = params /\ issued' = issued
  <2>1. /\ pc[r] = "forward"
        /\ (~hooks[r] \/ (param_gather_dispatched[r][NextGroup(r)]
                            /\ ~param_gather_handle[r][NextGroup(r)]))
        /\ pc' = [pc EXCEPT ![r] = "backward"] /\ index' = [index EXCEPT ![r] = 1]
        /\ todo' = [todo EXCEPT ![r] = Params] /\ iteration' = iteration
        /\ start_iteration' = start_iteration /\ microbatch' = microbatch
        /\ hooks' = hooks /\ is_last_microbatch' = is_last_microbatch
        /\ failed' = failed /\ params_with_grad' = params_with_grad
        /\ param_gather_handle' = param_gather_handle
        /\ param_gather_dispatched' = param_gather_dispatched
        /\ grad_reduce_handle' = grad_reduce_handle /\ main_grad' = main_grad
        /\ params' = params /\ issued' = issued /\ job' = job
    BY <1>1, Zenon
     DEF ForwardModuleUnhooked, Goto, At, AfterForward, control, groupVars, gatherVars,
         loopVars
  <2>2. /\ "backward" \in Places /\ 1 \in Nat \ {0}
    BY Values, Zenon DEF Places, Collecting
  <2>3. TypeOK'
    BY <1>1, <2>1, <2>2, Zenon DEF TypeOK
  <2>4. /\ \A q \in Ranks : q # r => Same(q)
        /\ pc'[r] = "backward" /\ index'[r] = 1 /\ todo'[r] = Params
    BY <1>1, <2>1, <2>2, Zenon DEF TypeOK, Same
  <2>5. QED
    BY <2>1, <2>3, <2>4, Zenon DEF Alone
<1>3. Once(r)' /\ Hooked(r)'
  BY <1>1, <1>2, HookedKept, ZenonT(60) DEF RankInv, Once, Alone, Counted, Evaluating
<1>4. Position(r)'
  BY <1>1, <1>2, TypesAt, Configuration, ZenonT(60)
     DEF RankInv, Alone, Position, Loops, OverlapGradReduce
<1>5. ASSUME NEW h \in Groups
      PROVE  Registered(r, h)' /\ ReduceHandle(r, h)' /\ Outstanding(r, h)'
  <2>1. GroupParams(h) \ Params = {} /\ GroupParams(h) # {}
    BY <1>5, ConfigAssumption, Zenon DEF GroupParams
  <2>2. QED
    BY <1>1, <1>5, <2>1, <1>2, TypesAt, ZenonT(60)
       DEF RankInv, GroupInv, Registered, ReduceHandle, Outstanding, Started, Done,
           Collecting, OverlapGradReduce, Alone
<1>6. ASSUME NEW h \in Groups PROVE GatherHandle(r, h)' /\ Gathering(r, h)'
  <2>1. GatherHandle(r, h) /\ Gathering(r, h) /\ Position(r)
    BY <1>1, <1>6, Zenon DEF RankInv, GroupInv
  <2>2. Visited(r, h) \/ h = NextGroup(r)
    BY <1>1, <1>6, <2>1, <1>2, Configuration, Values, ZenonT(60)
       DEF Visited, NextGroup, Position
  <2>3. QED
    BY <1>1, <2>1, <2>2, <1>2, ZenonT(60) DEF GatherHandle, Gathering, Done
<1>7. ASSUME NEW x \in Params PROVE Buffer(r, x)'
  BY <1>1, <1>7, <1>2, ZenonT(60)
     DEF RankInv, Buffer, Done, Collecting, Count, OwnGrad, Started, OverlapGradReduce, Alone
<1>8. Keeps(r)
  <2>1. /\ pc[r] = "forward" /\ pc'[r] = "backward" /\ iteration' = iteration /\ issued' = issued
        /\ param_gather_dispatched' = param_gather_dispatched
        /\ params_with_grad' = params_with_grad
        /\ failed' = failed /\ params' = params /\ job' = job
    BY <1>1, <1>2, Zenon DEF Alone
  <2>2. Calls(r)' = Calls(r)
    BY <2>1, Zenon DEF Calls, Stepped, Counted, Evaluating
  <2>3. ASSUME NEW h \in Groups
        PROVE  /\ Reductions(r, h)' = Reductions(r, h) /\ (Gathered(r, h)' => Gathered(r, h))
               /\ Dispatched(r, h) => Dispatched(r, h)'
    BY <2>1, Zenon DEF Reductions, Reduced, Started, Stepped, Counted, Evaluating, Collecting,
                Gathered, Done, Dispatched, OverlapGradReduce
  <2>4. QED
    BY <2>1, <2>2, <2>3, KeepsIf, Zenon
<1>9. QED
  BY <1>8, <1>1, <1>3, <1>4, <1>5, <1>6, <1>7, <1>2, Zenon DEF RankInv, GroupInv

\* A rank that dispatches the gather of a group (start_param_sync).
LEMMA DispatchInv ==
  ASSUME Inv, NEW r \in Ranks, DispatchParamSync(r)
  PROVE  /\ Alone(r) /\ RankInv(r)' /\ Keeps(r)
         /\ ~param_gather_handle[r][NextGroup(r)] /\ NextGroup(r) \in Groups
         /\ pc' = pc /\ index' = index
<1>1. TypeOK /\ RankInv(r)
  BY Zenon DEF Inv
<1>2. pc[r] = "forward" /\ ~param_gather_dispatched[r][NextGroup(r)]
  BY Zenon DEF DispatchParamSync
<1>3. index[r] \in 1 .. Len(Modules) /\ NextGroup(r) \in Groups
  BY <1>1, <1>2, Configuration, Zenon DEF RankInv, Position, NextGroup
<1>4. PICK g \in Groups : g = NextGroup(r)
  BY <1>3, Zenon
<1>5. ~param_gather_handle[r][g] /\ Done(r, <<"param", g>>)
  BY <1>1, <1>2, <1>4, Zenon DEF RankInv, GroupInv, GatherHandle, Gathering
<1>6. /\ Alone(r)
      /\ issued'[r] = Append(issued[r], <<"param", g>>)
      /\ param_gather_handle'[r][g]
      /\ (\A h \in Groups : h # g => param_gather_handle'[r][h] = param_gather_handle[r][h])
      /\ param_gather_dispatched'[r][g]
      /\ (\A h \in Groups : h # g => param_gather_dispatched'[r][h] = param_gather_dispatched[r][h])
      /\ pc[r] = "forward" /\ hooks[r] /\ ~param_gather_dispatched[r][g]
      /\ pc' = pc /\ iteration' = iteration /\ start_iteration' = start_iteration
      /\ microbatch' = microbatch /\ index' = index /\ todo' = todo
      /\ hooks' = hooks /\ is_last_microbatch' = is_last_microbatch
      /\ failed' = failed /\ params_with_grad' = params_with_grad
      /\ grad_reduce_handle' = grad_reduce_handle /\ main_grad' = main_grad
      /\ params' = params
  <2>1. /\ pc[r] = "forward" /\ hooks[r] /\ ~param_gather_dispatched[r][g]
        /\ issued' = [issued EXCEPT ![r] = Append(issued[r], <<"param", g>>)]
        /\ param_gather_handle' = [param_gather_handle EXCEPT ![r][g] = TRUE]
        /\ param_gather_dispatched' = [param_gather_dispatched EXCEPT ![r][g] = TRUE]
        /\ pc' = pc /\ iteration' = iteration /\ start_iteration' = start_iteration
        /\ microbatch' = microbatch /\ index' = index /\ todo' = todo
        /\ hooks' = hooks /\ is_last_microbatch' = is_last_microbatch
        /\ failed' = failed /\ params_with_grad' = params_with_grad
        /\ grad_reduce_handle' = grad_reduce_handle /\ main_grad' = main_grad
        /\ params' = params /\ job' = job
    BY <1>1, <1>4, <1>5, Zenon
     DEF DispatchParamSync, Goto, At, control, groupVars, gatherVars, loopVars
  <2>2. /\ Append(issued[r], <<"param", g>>) \in Seq(Ops)
    BY <1>1, <1>4, Values, Zenon DEF TypeOK, Ops
  <2>3. TypeOK'
    BY <1>1, <1>4, <1>5, <2>1, <2>2, Zenon DEF TypeOK
  <2>4. /\ \A q \in Ranks : q # r => Same(q)
        /\ issued'[r] = Append(issued[r], <<"param", g>>)
        /\ param_gather_handle'[r][g]
        /\ (\A h \in Groups : h # g => param_gather_handle'[r][h] = param_gather_handle[r][h])
        /\ param_gather_dispatched'[r][g]
        /\ (\A h \in Groups : h # g =>
              param_gather_dispatched'[r][h] = param_gather_dispatched[r][h])
    BY <1>1, <1>4, <1>5, <2>1, <2>2, Zenon DEF TypeOK, Same
  <2>5. QED
    BY <2>1, <2>3, <2>4, Zenon DEF Alone
<1>7. Distinct(issued'[r]) /\ Range(issued'[r]) = Range(issued[r]) \cup {<<"param", g>>}
  <2>1. /\ issued[r] \in Seq(Ops) /\ Distinct(issued[r]) /\ <<"param", g>> \in Ops
        /\ <<"param", g>> \notin Range(issued[r])
    BY <1>1, <1>5, ZenonT(60) DEF TypeOK, RankInv, Once, Ops, Done
  <2>2. issued'[r] = Append(issued[r], <<"param", g>>)
    BY <1>1, <1>4, <1>5, <1>6, Zenon
  <2>3. QED
    BY <2>1, <2>2, AppendOnce, Zenon
<1>8. \A h \in Groups : /\ Done(r, <<"grad", h>>)' <=> Done(r, <<"grad", h>>)
                        /\ Done(r, <<"param", h>>)' <=> Done(r, <<"param", h>>) /\ h # g
  BY <1>7, Zenon DEF Done
<1>9. Once(r)' /\ Hooked(r)' /\ Position(r)'
  <2>1. Hooked(r)'
    BY <1>1, <1>4, <1>5, <1>6, HookedKept, ZenonT(60) DEF RankInv, Alone
  <2>2. Position(r)'
    BY <1>1, <1>4, <1>5, <1>6, ZenonT(60)
       DEF RankInv, Position, Alone, OverlapGradReduce, OverlapParamGather,
           UseDistributedOptimizer, use_forward_hook
  <2>3. QED
    BY <1>7, <2>1, <2>2, Zenon DEF Once
<1>10. ASSUME NEW h \in Groups PROVE GroupInv(r, h)'
  <2>1. GroupInv(r, h)
    BY <1>1, <1>10, Zenon DEF RankInv
  <2>2. /\ Done(r, <<"grad", h>>)' <=> Done(r, <<"grad", h>>)
        /\ Done(r, <<"param", h>>)' <=> Done(r, <<"param", h>>) /\ h # g
    BY <1>8, <1>10, Zenon
  <2>3. Registered(r, h)' /\ ReduceHandle(r, h)' /\ Outstanding(r, h)'
    BY <1>1, <1>4, <1>5, <2>1, <2>2, <1>6, ZenonT(60)
       DEF GroupInv, Registered, ReduceHandle, Outstanding, Started, OverlapGradReduce, Alone
  <2>4. GatherHandle(r, h)' /\ Gathering(r, h)'
    BY <1>1, <1>4, <1>5, <1>10, <2>1, <2>2, <1>6, ZenonT(60)
       DEF GroupInv, Gathering, GatherHandle, Visited
  <2>5. QED
    BY <2>3, <2>4, Zenon DEF GroupInv
<1>11. ASSUME NEW x \in Params PROVE Buffer(r, x)'
  <2>1. Buffer(r, x) /\ GroupOf[x] \in Groups
    BY <1>1, <1>11, Configuration, Zenon DEF RankInv
  <2>2. /\ main_grad' = main_grad /\ pc' = pc
        /\ Started(r, GroupOf[x])' <=> Started(r, GroupOf[x])
        /\ Count(r, x)' = Count(r, x)
    BY <1>1, <1>4, <1>5, <1>6, ZenonT(60) DEF Started, Count, OverlapGradReduce, Alone
  <2>3. QED
    BY <1>8, <1>11, <2>1, <2>2, BufferKept, ZenonT(60)
<1>12. Keeps(r)
  <2>1. /\ pc[r] = "forward" /\ pc' = pc /\ iteration' = iteration
        /\ \A h \in Groups : h # g => param_gather_dispatched'[r][h] = param_gather_dispatched[r][h]
        /\ params_with_grad' = params_with_grad
        /\ failed' = failed /\ params' = params /\ job' = job
    BY <1>1, <1>4, <1>5, <1>6, Zenon DEF Alone
  <2>2. Calls(r)' = Calls(r)
    BY <2>1, Zenon DEF Calls, Stepped, Counted, Evaluating
  <2>3. ASSUME NEW h \in Groups
        PROVE  /\ Reductions(r, h)' = Reductions(r, h) /\ (Gathered(r, h)' => Gathered(r, h))
               /\ Dispatched(r, h) => Dispatched(r, h)'
    BY <1>8, <2>1, <2>3, Zenon
       DEF Reductions, Reduced, Started, Stepped, Counted, Evaluating, Collecting,
           Gathered, Dispatched, OverlapGradReduce
  <2>4. QED
    BY <2>1, <2>2, <2>3, KeepsIf, Zenon
<1>13. QED
  BY <1>12, <1>1, <1>3, <1>4, <1>5, <1>9, <1>10, <1>11, <1>6, Zenon DEF RankInv

\* A rank whose wait for a gather is over, with the gather it then prefetches.
LEMMA GatheredInv ==
  ASSUME Inv, NEW r \in Ranks, ForwardModuleGathered(r)
  PROVE  /\ Alone(r) /\ RankInv(r)' /\ Keeps(r) /\ NextGroup(r) \in Groups
         /\ ~(AlsoNext(r, NextGroup(r)) /\ param_gather_handle[r][NextGroup(r) - 1])
<1>1. TypeOK /\ RankInv(r)
  BY Zenon DEF Inv
<1>2. pc[r] = "forward" /\ hooks[r]
  BY Zenon DEF ForwardModuleGathered
<1>3. index[r] \in 1 .. Len(Modules) /\ NextGroup(r) \in Groups
  BY <1>1, <1>2, Configuration, Zenon DEF RankInv, Position, NextGroup
<1>4. PICK g \in Groups : g = NextGroup(r)
  BY <1>3, Zenon
<1>5. AlsoNext(r, g) => /\ g - 1 \in Groups /\ g - 1 # g
                        /\ ~param_gather_handle[r][g - 1] /\ Done(r, <<"param", g - 1>>)
  <2>1. AlsoNext(r, g) => /\ g - 1 \in Groups
                          /\ ~param_gather_handle[r][g - 1] /\ Done(r, <<"param", g - 1>>)
    BY <1>1, <1>2, Zenon DEF RankInv, GroupInv, GatherHandle, Gathering, AlsoNext
  <2>2. g - 1 # g
    BY <1>4, TypesAt DEF Groups
  <2>3. QED
    BY <2>1, <2>2, Zenon
<1>6. /\ Alone(r)
      /\ pc[r] = "forward" /\ hooks[r] /\ param_gather_dispatched[r][g]
      /\ param_gather_handle[r][g] /\ Done(r, <<"param", g>>)
      /\ \A h \in Groups :
           /\ param_gather_handle'[r][h] <=> \/ h # g /\ param_gather_handle[r][h]
                                             \/ h = g - 1 /\ AlsoNext(r, g)
           /\ param_gather_dispatched'[r][h] <=> \/ param_gather_dispatched[r][h]
                                                 \/ h = g - 1 /\ AlsoNext(r, g)
      /\ AlsoNext(r, g) => issued'[r] = Append(issued[r], <<"param", g - 1>>)
      /\ ~AlsoNext(r, g) => issued'[r] = issued[r]
      /\ index[r] < Len(Modules) => /\ index'[r] = index[r] + 1 /\ pc'[r] = "forward"
                                    /\ todo'[r] = todo[r]
      /\ ~(index[r] < Len(Modules)) => /\ index'[r] = 1 /\ pc'[r] = "backward"
                                       /\ todo'[r] = Params
      /\ iteration' = iteration /\ microbatch' = microbatch
      /\ params_with_grad' = params_with_grad /\ grad_reduce_handle' = grad_reduce_handle
      /\ is_last_microbatch' = is_last_microbatch /\ hooks' = hooks
      /\ start_iteration' = start_iteration /\ main_grad' = main_grad
      /\ params' = params /\ failed' = failed
  <2>1. /\ pc[r] = "forward" /\ hooks[r] /\ param_gather_dispatched[r][g]
        /\ param_gather_handle[r][g] /\ Done(r, <<"param", g>>)
        /\ param_gather_handle' = [param_gather_handle EXCEPT
             ![r] = [h \in Groups |-> \/ GatherHandleCleared(r, g)[h]
                                      \/ h = g - 1 /\ AlsoNext(r, g)]]
        /\ param_gather_dispatched' = [param_gather_dispatched EXCEPT
             ![r] = [h \in Groups |-> \/ param_gather_dispatched[r][h]
                                      \/ h = g - 1 /\ AlsoNext(r, g)]]
        /\ issued' = IF AlsoNext(r, g)
                       THEN [issued EXCEPT ![r] = Append(issued[r], <<"param", g - 1>>)]
                       ELSE issued
        /\ AfterForward(r)
        /\ iteration' = iteration /\ microbatch' = microbatch
        /\ params_with_grad' = params_with_grad /\ grad_reduce_handle' = grad_reduce_handle
        /\ is_last_microbatch' = is_last_microbatch /\ hooks' = hooks
        /\ start_iteration' = start_iteration /\ main_grad' = main_grad
        /\ params' = params /\ failed' = failed /\ job' = job
    BY <1>1, <1>4, <1>5, Zenon DEF ForwardModuleGathered, AlsoNext, groupVars, loopVars
  <2>2. /\ index' \in [Ranks -> Nat \ {0}] /\ pc' \in [Ranks -> Places]
        /\ todo' \in [Ranks -> SUBSET Params]
        /\ \A q \in Ranks : q # r => index'[q] = index[q] /\ pc'[q] = pc[q] /\ todo'[q] = todo[q]
        /\ index[r] < Len(Modules) => /\ index'[r] = index[r] + 1 /\ pc'[r] = "forward"
                                      /\ todo'[r] = todo[r]
        /\ ~(index[r] < Len(Modules)) => /\ index'[r] = 1 /\ pc'[r] = "backward"
                                         /\ todo'[r] = Params
    <3>1. /\ index \in [Ranks -> Nat \ {0}] /\ pc \in [Ranks -> Places]
          /\ todo \in [Ranks -> SUBSET Params] /\ "backward" \in Places
      BY <1>1, <1>4, <1>5, Zenon DEF TypeOK, Places, Collecting
    <3>2. CASE index[r] < Len(Modules)
      <4>1. index' = [index EXCEPT ![r] = index[r] + 1] /\ pc' = pc /\ todo' = todo
        BY <1>1, <1>4, <1>5, <2>1, <3>2, Zenon DEF AfterForward, At
      <4>2. QED
        BY <2>1, <3>1, <3>2, <4>1
    <3>3. CASE ~(index[r] < Len(Modules))
      <4>1. /\ index' = [index EXCEPT ![r] = 1] /\ pc' = [pc EXCEPT ![r] = "backward"]
            /\ todo' = [todo EXCEPT ![r] = Params]
        BY <1>1, <1>4, <1>5, <2>1, <3>3, Zenon DEF AfterForward, At, Goto
      <4>2. QED
        BY <2>1, <3>1, <3>3, <4>1
    <3>4. QED
      BY <3>2, <3>3, Zenon
  <2>3. /\ param_gather_handle' \in [Ranks -> [Groups -> BOOLEAN]]
        /\ \A q \in Ranks : q # r => param_gather_handle'[q] = param_gather_handle[q]
        /\ \A h \in Groups :
             param_gather_handle'[r][h] <=> \/ h # g /\ param_gather_handle[r][h]
                                            \/ h = g - 1 /\ AlsoNext(r, g)
    BY <1>1, <1>4, <1>5, <2>1, Zenon DEF TypeOK, GatherHandleCleared
  <2>4. /\ param_gather_dispatched' \in [Ranks -> [Groups -> BOOLEAN]]
        /\ \A q \in Ranks : q # r => param_gather_dispatched'[q] = param_gather_dispatched[q]
        /\ \A h \in Groups :
             param_gather_dispatched'[r][h] <=> \/ param_gather_dispatched[r][h]
                                                \/ h = g - 1 /\ AlsoNext(r, g)
    BY <1>1, <1>4, <1>5, <2>1, Zenon DEF TypeOK
  <2>5. /\ issued' \in [Ranks -> Seq(Ops)]
        /\ \A q \in Ranks : q # r => issued'[q] = issued[q]
        /\ AlsoNext(r, g) => issued'[r] = Append(issued[r], <<"param", g - 1>>)
        /\ ~AlsoNext(r, g) => issued'[r] = issued[r]
    <3>1. /\ issued \in [Ranks -> Seq(Ops)]
          /\ AlsoNext(r, g) => <<"param", g - 1>> \in Ops
      BY <1>1, <1>4, <1>5, Zenon DEF TypeOK, AlsoNext, Ops
    <3>2. CASE AlsoNext(r, g)
      <4>1. issued' = [issued EXCEPT ![r] = Append(issued[r], <<"param", g - 1>>)]
        BY <1>1, <1>4, <1>5, <2>1, <3>2, Zenon
      <4>2. QED
        BY <3>1, <3>2, <4>1
    <3>3. CASE ~AlsoNext(r, g)
      <4>1. issued' = issued
        BY <1>1, <1>4, <1>5, <2>1, <3>3, Zenon
      <4>2. QED
        BY <3>1, <3>3, <4>1, Zenon
    <3>4. QED
      BY <3>2, <3>3, Zenon
  <2>6. TypeOK'
    BY <1>1, <1>4, <1>5, <2>1, <2>2, <2>3, <2>4, <2>5, Zenon DEF TypeOK
  <2>7. \A q \in Ranks : q # r => Same(q)
    BY <1>1, <1>4, <1>5, <2>1, <2>2, <2>3, <2>4, <2>5, Zenon DEF Same
  <2>8. QED
    BY <2>1, <2>2, <2>3, <2>4, <2>5, <2>6, <2>7, Zenon DEF Alone
<1>7. Once(r)' /\ \A h \in Groups :
        /\ Done(r, <<"grad", h>>)' <=> Done(r, <<"grad", h>>)
        /\ Done(r, <<"param", h>>)' <=> /\ Done(r, <<"param", h>>)
                                        /\ ~(h = g - 1 /\ AlsoNext(r, g))
  <2>1. CASE ~AlsoNext(r, g)
    <3>1. issued'[r] = issued[r]
      BY <1>1, <1>4, <2>1, <1>6, Zenon
    <3>2. QED
      BY <1>1, <2>1, <3>1, ZenonT(60) DEF Done, RankInv, Once
  <2>2. CASE AlsoNext(r, g)
    <3>1. issued'[r] = Append(issued[r], <<"param", g - 1>>)
      BY <1>1, <1>4, <1>5, <2>2, <1>6, Zenon
    <3>2. /\ issued[r] \in Seq(Ops) /\ Distinct(issued[r]) /\ <<"param", g - 1>> \in Ops
          /\ <<"param", g - 1>> \notin Range(issued[r])
      BY <1>1, <1>5, <2>2, ZenonT(60) DEF TypeOK, RankInv, Once, Ops, Done
    <3>3. Distinct(issued'[r]) /\ Range(issued'[r]) = Range(issued[r]) \cup {<<"param", g - 1>>}
      BY <3>1, <3>2, AppendOnce, Zenon
    <3>4. QED
      BY <2>2, <3>3, ZenonT(60) DEF Done, Once
  <2>3. QED
    BY <2>1, <2>2, Zenon
<1>8. Hooked(r)'
  BY <1>1, <1>4, <1>5, <1>6, HookedKept, ZenonT(60) DEF RankInv, Alone, Counted, Evaluating
<1>9. /\ index[r] < Len(Modules) => /\ pc'[r] = "forward" /\ index'[r] = index[r] + 1
                                    /\ todo'[r] = todo[r]
      /\ ~(index[r] < Len(Modules)) => /\ pc'[r] = "backward" /\ index'[r] = 1
                                       /\ todo'[r] = Params
      /\ microbatch' = microbatch /\ is_last_microbatch' = is_last_microbatch
      /\ params_with_grad' = params_with_grad /\ grad_reduce_handle' = grad_reduce_handle
      /\ main_grad' = main_grad /\ job' = job
  BY <1>1, <1>4, <1>5, <1>6, Zenon DEF Alone
<1>10. Position(r)'
  <2>1. Position(r)
    BY <1>1, Zenon DEF RankInv
  <2>2. CASE index[r] < Len(Modules)
    BY <1>1, <1>2, <1>9, <2>1, <2>2, Values, ZenonT(60)
       DEF Position, Loops, OverlapGradReduce
  <2>3. CASE ~(index[r] < Len(Modules))
    BY <1>1, <1>2, <1>9, <2>1, <2>3, TypesAt, Configuration, Zenon
     DEF Position, Loops, OverlapGradReduce
  <2>4. QED
    BY <2>2, <2>3, Zenon
<1>11. ASSUME NEW h \in Groups
      PROVE  /\ index[r] < Len(Modules) => (Visited(r, h)' => Visited(r, h) \/ h = g)
             /\ ~(index[r] < Len(Modules)) => Visited(r, h) \/ h = g
  BY <1>1, <1>3, <1>4, <1>9, <1>11, Configuration, Values, ZenonT(60)
     DEF Visited, NextGroup
<1>12. ~(index[r] < Len(Modules)) => ~AlsoNext(r, g)
  BY <1>1, <1>2, <1>5, <1>11, Zenon DEF AlsoNext, RankInv, GroupInv, GatherHandle
<1>13. ASSUME NEW h \in Groups PROVE GroupInv(r, h)'
  <2>1. GroupInv(r, h)
    BY <1>1, <1>13, Zenon DEF RankInv
  <2>2. /\ Done(r, <<"grad", h>>)' <=> Done(r, <<"grad", h>>)
        /\ Done(r, <<"param", h>>)' <=> /\ Done(r, <<"param", h>>)
                                        /\ ~(h = g - 1 /\ AlsoNext(r, g))
    BY <1>7, <1>13, Zenon
  <2>3. GroupParams(h) \ Params = {} /\ GroupParams(h) # {}
    BY <1>13, ConfigAssumption, Zenon DEF GroupParams
  <2>4. Registered(r, h)' /\ ReduceHandle(r, h)' /\ Outstanding(r, h)'
    BY <1>1, <1>2, <1>9, <2>1, <2>2, <2>3, TypesAt, ZenonT(60)
       DEF GroupInv, Registered, ReduceHandle, Outstanding, Started, OverlapGradReduce,
           Collecting
  <2>5. /\ param_gather_handle'[r][h] <=> \/ h # g /\ param_gather_handle[r][h]
                                          \/ h = g - 1 /\ AlsoNext(r, g)
        /\ param_gather_dispatched'[r][h] <=> \/ param_gather_dispatched[r][h]
                                              \/ h = g - 1 /\ AlsoNext(r, g)
        /\ hooks'[r] /\ param_gather_dispatched[r][g] /\ Done(r, <<"param", g>>)
    BY <1>1, <1>2, <1>4, <1>5, <1>13, <1>6, ZenonT(60)
  <2>6. AlsoNext(r, g) /\ h = g - 1 => ~Visited(r, h)
    BY <1>2, <2>1, Zenon DEF GroupInv, GatherHandle, AlsoNext
  <2>7. GatherHandle(r, h)'
    BY <1>2, <1>5, <1>9, <1>11, <1>12, <1>13, <2>1, <2>5, <2>6, Zenon DEF GroupInv, GatherHandle
  <2>8. Gathering(r, h)'
    BY <1>2, <1>5, <1>9, <1>11, <1>12, <1>13, <2>1, <2>2, <2>5, ZenonT(60)
     DEF GroupInv, Gathering, GatherHandle
  <2>9. QED
    BY <2>4, <2>7, <2>8, Zenon DEF GroupInv
<1>14. ASSUME NEW x \in Params PROVE Buffer(r, x)'
  <2>1. Buffer(r, x) /\ GroupOf[x] \in Groups
    BY <1>1, <1>14, Configuration, Zenon DEF RankInv
  <2>2. /\ pc[r] \in Collecting /\ Count(r, x)' = Count(r, x)
        /\ Started(r, GroupOf[x])' <=> Started(r, GroupOf[x])
    BY <1>2, <1>9, <1>14, ZenonT(60) DEF Started, Count, OverlapGradReduce, Collecting
  <2>3. QED
    BY <1>7, <1>14, <1>9, <2>1, <2>2, BufferKept, ZenonT(60)
<1>15. Keeps(r)
  <2>1. /\ pc[r] = "forward" /\ pc'[r] \in {"forward", "backward"} /\ iteration' = iteration
        /\ \A h \in Groups : param_gather_dispatched'[r][h] <=>
             \/ param_gather_dispatched[r][h] \/ (h = g - 1 /\ AlsoNext(r, g))
        /\ params_with_grad' = params_with_grad
        /\ failed' = failed /\ params' = params /\ job' = job
    BY <1>1, <1>2, <1>4, <1>5, <1>9, <1>6, Zenon
  <2>2. Calls(r)' = Calls(r)
    BY <2>1, Zenon DEF Calls, Stepped, Counted, Evaluating
  <2>3. ASSUME NEW h \in Groups
        PROVE  /\ Reductions(r, h)' = Reductions(r, h) /\ (Gathered(r, h)' => Gathered(r, h))
               /\ Dispatched(r, h) => Dispatched(r, h)'
    BY <1>7, <2>1, <2>3, ZenonT(60)
       DEF Reductions, Reduced, Started, Stepped, Counted, Evaluating, Collecting,
           Gathered, Dispatched, OverlapGradReduce
  <2>4. QED
    BY <2>1, <2>2, <2>3, KeepsIf, Zenon
<1>16. QED
  BY <1>15, <1>1, <1>3, <1>4, <1>5, <1>7, <1>8, <1>10, <1>13, <1>14, <1>6, Zenon DEF RankInv

\* A rank that accumulates a gradient, and may start its group's reduction.
LEMMA BackwardInv ==
  ASSUME Inv, NEW r \in Ranks, NEW p \in Params, BackwardHook(r, p)
  PROVE  Alone(r) /\ RankInv(r)' /\ Keeps(r) /\ (Registers(r) => RegisterAsserts(r, p))
<1>1. TypeOK /\ RankInv(r) /\ Position(r)
  BY Zenon DEF Inv, RankInv
<1>2. pc[r] = "backward" /\ p \in todo[r]
  BY Zenon DEF BackwardHook
<1>3. PICK g \in Groups : g = GroupOf[p]
  BY Configuration, Zenon
<1>4. OverlapGradReduce => (is_last_microbatch[r] <=> microbatch[r] = NumMicrobatches)
  BY <1>1, <1>2, Zenon DEF Position
<1>5. ASSUME NEW h \in Groups
      PROVE  /\ OverlapGradReduce /\ ~Registers(r) => params_with_grad[r][h] = {}
             /\ Registers(r) => params_with_grad[r][h] = GroupParams(h) \ todo[r]
             /\ ~OverlapGradReduce => ~Started(r, h)
             /\ grad_reduce_handle[r][h] <=> OverlapGradReduce /\ Started(r, h)
             /\ Done(r, <<"grad", h>>) \/ Started(r, h)
             /\ GroupParams(h) # {} /\ (p \in GroupParams(h) <=> h = g)
  <2>1. Registered(r, h) /\ ReduceHandle(r, h) /\ Outstanding(r, h)
    BY <1>1, <1>5, Zenon DEF RankInv, GroupInv
  <2>2. GroupParams(h) # {} /\ (p \in GroupParams(h) <=> h = g)
    BY <1>3, <1>5, ConfigAssumption, Zenon DEF GroupParams
  <2>3. QED
    BY <1>1, <1>2, <1>4, <2>1, <2>2, TypesAt, ZenonT(60)
       DEF Registered, ReduceHandle, Outstanding, Registers, Started
<1>6. ~Started(r, g) /\ Done(r, <<"grad", g>>) /\ ~grad_reduce_handle[r][g]
  <2>1. OverlapGradReduce => p \in GroupParams(g) /\ p \notin params_with_grad[r][g]
    BY <1>2, <1>3, <1>5, Zenon
  <2>2. ~Started(r, g)
    BY <1>3, <1>5, <2>1, Zenon DEF Started
  <2>3. QED
    BY <1>3, <1>5, <2>2, Zenon
<1>7. Registers(r) => RegisterAsserts(r, p)
  BY <1>2, <1>3, <1>5, <1>6, Zenon DEF RegisterAsserts
<1>8. HookStep(r, p, g)
  <2>1. /\ pc[r] = "backward" /\ p \in todo[r]
        /\ main_grad' = [main_grad EXCEPT ![r][p][r] = main_grad[r][p][r] + 1]
        /\ RegisterGradReady(r, p)
        /\ todo' = [todo EXCEPT ![r] = todo[r] \ {p}]
        /\ todo[r] = {p} => AfterBackward(r)
        /\ todo[r] # {p} => UNCHANGED <<pc, microbatch, is_last_microbatch>>
        /\ iteration' = iteration /\ index' = index /\ hooks' = hooks
        /\ param_gather_handle' = param_gather_handle
        /\ param_gather_dispatched' = param_gather_dispatched
        /\ start_iteration' = start_iteration /\ params' = params /\ failed' = failed
        /\ job' = job
    BY <1>1, <1>3, <1>7, Zenon DEF BackwardHook, Registers, gatherVars, loopVars
  <2>2. /\ todo' \in [Ranks -> SUBSET Params] /\ todo'[r] = todo[r] \ {p}
        /\ \A q \in Ranks : q # r => todo'[q] = todo[q]
    BY <1>1, <1>3, <1>7, <2>1, Zenon DEF TypeOK
  <2>3. /\ main_grad' \in [Ranks -> [Params -> [Ranks -> Nat]]]
        /\ \A q \in Ranks : q # r => main_grad'[q] = main_grad[q]
        /\ \A x \in Params : x # p => main_grad'[r][x] = main_grad[r][x]
        /\ \A q \in Ranks : main_grad'[r][p][q] = IF q = r THEN main_grad[r][p][q] + 1
                                                           ELSE main_grad[r][p][q]
    <3>1. main_grad \in [Ranks -> [Params -> [Ranks -> Nat]]]
      BY <1>1, <1>3, <1>7, Zenon DEF TypeOK
    <3>2. QED
      BY <2>1, <3>1
  <2>4. /\ Registers(r) => params_with_grad' =
             [params_with_grad EXCEPT ![r][g] = params_with_grad[r][g] \cup {p}]
        /\ ~Registers(r) => params_with_grad' = params_with_grad
        /\ Issues(r, p) => /\ issued' = [issued EXCEPT ![r] = Append(issued[r], <<"grad", g>>)]
                           /\ grad_reduce_handle' = [grad_reduce_handle EXCEPT ![r][g] = TRUE]
        /\ ~Issues(r, p) => issued' = issued /\ grad_reduce_handle' = grad_reduce_handle
    BY <1>1, <1>3, <1>7, <2>1, Zenon DEF RegisterGradReady, Registers, Issues
  <2>5. /\ params_with_grad' \in [Ranks -> [Groups -> SUBSET Params]]
        /\ \A q \in Ranks : q # r => params_with_grad'[q] = params_with_grad[q]
        /\ \A h \in Groups : h # g => params_with_grad'[r][h] = params_with_grad[r][h]
        /\ Registers(r) => params_with_grad'[r][g] = params_with_grad[r][g] \cup {p}
        /\ ~Registers(r) => params_with_grad'[r][g] = params_with_grad[r][g]
    <3>1. params_with_grad \in [Ranks -> [Groups -> SUBSET Params]]
      BY <1>1, <1>3, <1>7, Zenon DEF TypeOK
    <3>2. CASE Registers(r)
      BY <1>1, <1>3, <1>7, <2>4, <3>1, <3>2
    <3>3. CASE ~Registers(r)
      BY <1>1, <1>3, <1>7, <2>4, <3>1, <3>3, Zenon
    <3>4. QED
      BY <3>2, <3>3, Zenon
  <2>6. /\ grad_reduce_handle' \in [Ranks -> [Groups -> BOOLEAN]]
        /\ \A q \in Ranks : q # r => grad_reduce_handle'[q] = grad_reduce_handle[q]
        /\ \A h \in Groups : grad_reduce_handle'[r][h] <=>
             grad_reduce_handle[r][h] \/ (h = g /\ Issues(r, p))
    <3>1. grad_reduce_handle \in [Ranks -> [Groups -> BOOLEAN]]
      BY <1>1, <1>3, <1>7, Zenon DEF TypeOK
    <3>2. CASE Issues(r, p)
      <4>1. grad_reduce_handle' = [grad_reduce_handle EXCEPT ![r][g] = TRUE]
        BY <1>1, <1>3, <1>7, <2>4, <3>2, Zenon
      <4>2. QED
        BY <3>1, <3>2, <4>1, ZenonT(60)
    <3>3. CASE ~Issues(r, p)
      BY <1>1, <1>3, <1>7, <2>4, <3>1, <3>3, ZenonT(60)
    <3>4. QED
      BY <3>2, <3>3, Zenon
  <2>7. /\ issued' \in [Ranks -> Seq(Ops)]
        /\ \A q \in Ranks : q # r => issued'[q] = issued[q]
        /\ Issues(r, p) => issued'[r] = Append(issued[r], <<"grad", g>>)
        /\ ~Issues(r, p) => issued'[r] = issued[r]
    <3>1. issued \in [Ranks -> Seq(Ops)] /\ <<"grad", g>> \in Ops
      BY <1>1, <1>3, <1>7, Zenon DEF TypeOK, Ops
    <3>2. CASE Issues(r, p)
      <4>1. issued' = [issued EXCEPT ![r] = Append(issued[r], <<"grad", g>>)]
        BY <1>1, <1>3, <1>7, <2>4, <3>2, Zenon
      <4>2. QED
        BY <3>1, <3>2, <4>1
    <3>3. CASE ~Issues(r, p)
      BY <1>1, <1>3, <1>7, <2>4, <3>1, <3>3, Zenon
    <3>4. QED
      BY <3>2, <3>3, Zenon
  <2>8. /\ pc' \in [Ranks -> Places] /\ microbatch' \in [Ranks -> 1 .. NumMicrobatches]
        /\ is_last_microbatch' \in [Ranks -> BOOLEAN]
        /\ \A q \in Ranks : q # r => /\ pc'[q] = pc[q] /\ microbatch'[q] = microbatch[q]
                                     /\ is_last_microbatch'[q] = is_last_microbatch[q]
        /\ todo[r] # {p} =>
             /\ pc'[r] = "backward" /\ microbatch'[r] = microbatch[r]
             /\ is_last_microbatch'[r] = is_last_microbatch[r]
        /\ todo[r] = {p} /\ microbatch[r] < NumMicrobatches =>
             /\ pc'[r] = "forward" /\ microbatch'[r] = microbatch[r] + 1
             /\ is_last_microbatch'[r] <=> \/ is_last_microbatch[r]
                                           \/ microbatch[r] + 1 = NumMicrobatches
        /\ todo[r] = {p} /\ ~(microbatch[r] < NumMicrobatches) =>
             /\ pc'[r] = "finish" /\ microbatch'[r] = microbatch[r]
             /\ is_last_microbatch'[r] = is_last_microbatch[r]
    <3>1. /\ pc \in [Ranks -> Places] /\ microbatch \in [Ranks -> 1 .. NumMicrobatches]
          /\ is_last_microbatch \in [Ranks -> BOOLEAN]
          /\ "forward" \in Places /\ "finish" \in Places
      BY <1>1, <1>3, <1>7, Zenon DEF TypeOK, Places, Collecting
    <3>2. CASE todo[r] # {p}
      BY <1>1, <1>3, <1>7, <2>1, <3>1, <3>2, Zenon
    <3>3. CASE todo[r] = {p} /\ microbatch[r] < NumMicrobatches
      <4>1. /\ microbatch' = [microbatch EXCEPT ![r] = microbatch[r] + 1]
            /\ pc' = [pc EXCEPT ![r] = "forward"]
            /\ is_last_microbatch' = [is_last_microbatch EXCEPT
                 ![r] = is_last_microbatch[r] \/ microbatch[r] + 1 = NumMicrobatches]
        BY <1>1, <1>3, <1>7, <2>1, <3>3, Zenon DEF AfterBackward, Goto
      <4>2. microbatch[r] + 1 \in 1 .. NumMicrobatches
        BY <1>1, <1>3, <1>7, <3>1, <3>3, Configuration
      <4>3. /\ microbatch' \in [Ranks -> 1 .. NumMicrobatches] /\ microbatch'[r] = microbatch[r] + 1
            /\ \A q \in Ranks : q # r => microbatch'[q] = microbatch[q]
        BY <1>1, <1>3, <1>7, <3>1, <4>1, <4>2, Zenon
      <4>4. /\ is_last_microbatch' \in [Ranks -> BOOLEAN]
            /\ \A q \in Ranks : q # r => is_last_microbatch'[q] = is_last_microbatch[q]
            /\ is_last_microbatch'[r] <=> \/ is_last_microbatch[r]
                                          \/ microbatch[r] + 1 = NumMicrobatches
        BY <1>1, <1>3, <1>7, <3>1, <4>1, Zenon
      <4>5. /\ pc' \in [Ranks -> Places] /\ pc'[r] = "forward"
            /\ \A q \in Ranks : q # r => pc'[q] = pc[q]
        BY <1>1, <1>3, <1>7, <3>1, <4>1, Zenon
      <4>6. QED
        BY <3>3, <4>3, <4>4, <4>5, Zenon
    <3>4. CASE todo[r] = {p} /\ ~(microbatch[r] < NumMicrobatches)
      <4>1. /\ pc' = [pc EXCEPT ![r] = "finish"] /\ microbatch' = microbatch
            /\ is_last_microbatch' = is_last_microbatch
        BY <1>1, <1>3, <1>7, <2>1, <3>4, Zenon DEF AfterBackward, Goto
      <4>2. QED
        BY <3>1, <3>4, <4>1, Zenon
    <3>5. QED
      BY <3>2, <3>3, <3>4, Zenon
  <2>9. TypeOK'
    BY <1>1, <1>3, <1>7, <2>1, <2>2, <2>3, <2>5, <2>6, <2>7, <2>8, Zenon DEF TypeOK
  <2>10. \A q \in Ranks : q # r => Same(q)
    BY <1>1, <1>3, <1>7, <2>1, <2>2, <2>3, <2>5, <2>6, <2>7, <2>8, Zenon DEF Same
  <2>11. QED
    BY <2>1, <2>2, <2>3, <2>5, <2>6, <2>7, <2>8, <2>9, <2>10, Zenon DEF HookStep, Alone
<1>9. /\ Alone(r) /\ job' = job
      /\ \A x \in Params : x # p => main_grad'[r][x] = main_grad[r][x]
      /\ \A q \in Ranks : main_grad'[r][p][q] = IF q = r THEN main_grad[r][p][q] + 1
                                                         ELSE main_grad[r][p][q]
      /\ \A h \in Groups : h # g => params_with_grad'[r][h] = params_with_grad[r][h]
      /\ Registers(r) => params_with_grad'[r][g] = params_with_grad[r][g] \cup {p}
      /\ ~Registers(r) => params_with_grad'[r][g] = params_with_grad[r][g]
      /\ \A h \in Groups : grad_reduce_handle'[r][h] <=>
           grad_reduce_handle[r][h] \/ (h = g /\ Issues(r, p))
      /\ param_gather_handle' = param_gather_handle
      /\ param_gather_dispatched' = param_gather_dispatched /\ hooks' = hooks
      /\ iteration' = iteration /\ start_iteration' = start_iteration
  BY <1>8, Zenon DEF HookStep, Alone
<1>10. Once(r)' /\ \A h \in Groups :
         /\ Done(r, <<"param", h>>)' <=> Done(r, <<"param", h>>)
         /\ Done(r, <<"grad", h>>)' <=> /\ Done(r, <<"grad", h>>)
                                        /\ ~(h = g /\ Issues(r, p))
  <2>1. CASE ~Issues(r, p)
    <3>1. issued'[r] = issued[r]
      BY <1>8, <2>1, Zenon DEF HookStep
    <3>2. QED
      BY <1>1, <2>1, <3>1, ZenonT(60) DEF Done, RankInv, Once
  <2>2. CASE Issues(r, p)
    <3>1. issued'[r] = Append(issued[r], <<"grad", g>>)
      BY <1>8, <2>2, Zenon DEF HookStep
    <3>2. /\ issued[r] \in Seq(Ops) /\ Distinct(issued[r]) /\ <<"grad", g>> \in Ops
          /\ <<"grad", g>> \notin Range(issued[r])
      BY <1>1, <1>6, <2>2, ZenonT(60) DEF TypeOK, RankInv, Once, Ops, Done
    <3>3. Distinct(issued'[r]) /\ Range(issued'[r]) = Range(issued[r]) \cup {<<"grad", g>>}
      BY <3>1, <3>2, AppendOnce, Zenon
    <3>4. QED
      BY <2>2, <3>3, ZenonT(60) DEF Done, Once
  <2>3. QED
    BY <2>1, <2>2, Zenon
<1>11. /\ todo'[r] = todo[r] \ {p} /\ index'[r] = 1
       /\ todo[r] # {p} =>
            /\ pc'[r] = "backward" /\ microbatch'[r] = microbatch[r]
            /\ is_last_microbatch'[r] = is_last_microbatch[r]
       /\ todo[r] = {p} /\ microbatch[r] # NumMicrobatches =>
            /\ pc'[r] = "forward" /\ microbatch'[r] = microbatch[r] + 1
            /\ is_last_microbatch'[r] <=> \/ is_last_microbatch[r]
                                          \/ microbatch[r] + 1 = NumMicrobatches
       /\ todo[r] = {p} /\ microbatch[r] = NumMicrobatches =>
            pc'[r] = "finish" /\ microbatch'[r] = microbatch[r]
  BY <1>1, <1>2, <1>8, TypesAt, ZenonT(60) DEF Position, Loops, HookStep
<1>12. Hooked(r)'
  <2>1. pc'[r] \in {"backward", "forward", "finish"}
    BY <1>11, Zenon
  <2>2. QED
    BY <1>1, <1>2, <1>9, <2>1, HookedKept, Zenon DEF RankInv, Counted, Evaluating
<1>13. Position(r)'
  <2>1. CASE todo[r] # {p}
    <3>1. todo'[r] # {}
      BY <1>2, <1>11, <2>1, ZenonT(60)
    <3>2. QED
      BY <1>1, <1>2, <1>9, <1>11, <2>1, <3>1, Zenon DEF Position, Loops, OverlapGradReduce
  <2>2. CASE todo[r] = {p} /\ microbatch[r] # NumMicrobatches
    <3>1. todo'[r] = {} /\ 1 \in 1 .. Len(Modules)
      BY <1>1, <1>11, <2>2, Values, ZenonT(60)
    <3>2. OverlapGradReduce => (is_last_microbatch'[r] <=> microbatch'[r] = NumMicrobatches)
      BY <1>4, <1>11, <2>2, Zenon
    <3>3. QED
      BY <1>9, <1>11, <2>2, <3>1, <3>2, ZenonT(60) DEF Position, Loops, OverlapGradReduce
  <2>3. CASE todo[r] = {p} /\ microbatch[r] = NumMicrobatches
    <3>1. todo'[r] = {} /\ 1 \in Groups
      BY <1>1, <1>11, <2>3, Values, ZenonT(60)
    <3>2. QED
      BY <1>9, <1>11, <2>3, <3>1, ZenonT(60) DEF Position, Loops
  <2>4. QED
    BY <2>1, <2>2, <2>3, Zenon
<1>14. ASSUME NEW h \in Groups
       PROVE  /\ OverlapGradReduce => (Started(r, h)' <=> Started(r, h) \/ (h = g /\ Issues(r, p)))
              /\ ~OverlapGradReduce => ~Started(r, h)'
              /\ Registered(r, h)'
              /\ pc'[r] = "finish" /\ OverlapGradReduce => Started(r, h)'
  <2>1. /\ Registers(r) => params_with_grad'[r][h] = GroupParams(h) \ todo'[r]
        /\ ~Registers(r) => params_with_grad'[r][h] = params_with_grad[r][h]
    <3>1. /\ Registers(r) => params_with_grad[r][h] = GroupParams(h) \ todo[r]
          /\ p \in GroupParams(h) <=> h = g
      BY <1>5, <1>14, Zenon
    <3>2. /\ Registers(r) /\ h = g => params_with_grad'[r][h] = params_with_grad[r][h] \cup {p}
          /\ ~Registers(r) \/ h # g => params_with_grad'[r][h] = params_with_grad[r][h]
      BY <1>9, <1>14, Zenon
    <3>3. QED
      BY <1>2, <1>11, <3>1, <3>2, ZenonT(60)
  <2>2. OverlapGradReduce => (Started(r, h)' <=> Started(r, h) \/ (h = g /\ Issues(r, p)))
    <3>1. CASE Registers(r)
      <4>1. Issues(r, p) <=> params_with_grad[r][g] \cup {p} = GroupParams(g)
        BY <1>3, <3>1, Zenon DEF Issues, GroupReady
      <4>2. /\ params_with_grad'[r][h] = GroupParams(h) \ (todo[r] \ {p})
            /\ params_with_grad[r][h] = GroupParams(h) \ todo[r]
            /\ h = g <=> p \in GroupParams(h)
        BY <1>5, <1>11, <1>14, <2>1, <3>1, Zenon
      <4>3. CASE h = g
        BY <1>2, <1>9, <4>1, <4>2, <4>3, ZenonT(60) DEF Started, OverlapGradReduce
      <4>4. CASE h # g
        <5>1. params_with_grad'[r][h] = params_with_grad[r][h]
          BY <4>2, <4>4, ZenonT(60)
        <5>2. QED
          BY <1>9, <4>4, <5>1, Zenon DEF Started, OverlapGradReduce
      <4>5. QED
        BY <4>3, <4>4, Zenon
    <3>2. CASE ~Registers(r)
      BY <1>9, <2>1, <3>2, Zenon DEF Started, Issues, OverlapGradReduce
    <3>3. QED
      BY <3>1, <3>2, Zenon
  <2>3. ~OverlapGradReduce => ~Started(r, h)'
    <3>1. pc'[r] \in {"backward", "forward", "finish"} /\ ~(h < index'[r])
      BY <1>11, <1>14, GroupOrder, Values, ZenonT(60)
    <3>2. QED
      BY <1>9, <3>1, Zenon DEF Started, OverlapGradReduce
  <2>4. Registered(r, h)'
    <3>1. SUFFICES ASSUME OverlapGradReduce PROVE Registered(r, h)'
      BY <1>9, Zenon DEF Registered, OverlapGradReduce
    <3>2. microbatch[r] = NumMicrobatches <=> Registers(r)
      BY <1>4, <3>1, Zenon DEF Registers
    <3>3. microbatch[r] # NumMicrobatches => params_with_grad'[r][h] = {}
      BY <1>5, <1>14, <2>1, <3>1, <3>2, Zenon
    <3>4. CASE todo[r] # {p}
      BY <1>1, <1>11, <2>1, <3>2, <3>3, <3>4, TypesAt, ZenonT(60) DEF Registered
    <3>5. CASE todo[r] = {p}
      <4>1. GroupParams(h) \ todo'[r] = GroupParams(h)
        BY <1>11, <3>5, ZenonT(60)
      <4>2. QED
        BY <1>1, <1>11, <2>1, <3>2, <3>3, <3>5, <4>1, TypesAt, ZenonT(60) DEF Registered
    <3>6. QED
      BY <3>4, <3>5, Zenon
  <2>5. pc'[r] = "finish" /\ OverlapGradReduce => Started(r, h)'
    BY <1>9, <2>4, Zenon DEF Registered, Started, OverlapGradReduce
  <2>6. QED
    BY <2>2, <2>3, <2>4, <2>5, Zenon
<1>15. ASSUME NEW h \in Groups PROVE GroupInv(r, h)'
  <2>1. grad_reduce_handle'[r][h] <=> grad_reduce_handle[r][h] \/ (h = g /\ Issues(r, p))
    BY <1>9, <1>15, Zenon
  <2>2. h >= 1
    BY <1>15, GroupOrder, ZenonT(60)
  <2>3. Issues(r, p) => OverlapGradReduce
    BY Zenon DEF Issues, Registers
  <2>4. pc'[r] \in {"backward", "forward", "finish"}
    BY <1>11, Zenon
  <2>5. ReduceHandle(r, h)' /\ Outstanding(r, h)'
    BY <1>5, <1>9, <1>10, <1>11, <1>14, <1>15, <2>1, <2>2, <2>3, <2>4, ZenonT(60)
       DEF ReduceHandle, Outstanding, OverlapGradReduce, Collecting
  <2>6. GatherHandle(r, h)' /\ Gathering(r, h)'
    BY <1>1, <1>2, <1>9, <1>10, <1>15, <2>4, ZenonT(60)
     DEF RankInv, GroupInv, GatherHandle, Gathering
  <2>7. QED
    BY <1>14, <1>15, <2>5, <2>6, Zenon DEF GroupInv
<1>16. ASSUME NEW x \in Params PROVE Buffer(r, x)'
  <2>1. Buffer(r, x) /\ GroupOf[x] \in Groups /\ pc[r] \in Collecting
    BY <1>1, <1>2, <1>16, Configuration, Zenon DEF RankInv, Collecting
  <2>2. Count(r, x)' = IF x = p THEN Count(r, x) + 1 ELSE Count(r, x)
    <3>1. microbatch[r] \in Nat \ {0} /\ pc[r] = "backward"
      BY <1>1, <1>2, TypesAt, Zenon
    <3>2. Count(r, x) = IF x \in todo[r] THEN microbatch[r] - 1 ELSE microbatch[r]
      BY <3>1, Zenon DEF Count
    <3>3. Count(r, x)' = IF x # p /\ x \in todo[r] THEN microbatch[r] - 1 ELSE microbatch[r]
      <4>1. CASE todo[r] # {p}
        BY <1>11, <4>1, Zenon DEF Count
      <4>2. CASE todo[r] = {p}
        BY <1>11, <3>1, <4>2 DEF Count
      <4>3. QED
        BY <4>1, <4>2, Zenon
    <3>4. QED
      BY <1>2, <3>1, <3>2, <3>3
  <2>3. Issues(r, p) => /\ microbatch[r] = NumMicrobatches
                        /\ GroupOf[x] = g => (x = p \/ x \notin todo[r])
    BY <1>3, <1>4, <1>5, <1>16, ZenonT(60) DEF Issues, Registers, GroupReady, GroupParams
  <2>4. CASE x = p
    <3>1. main_grad[r][p] = OwnGrad(r, microbatch[r] - 1) /\ Count(r, p) = microbatch[r] - 1
      BY <1>2, <1>3, <1>6, <2>1, <2>4, Zenon DEF Buffer, Count
    <3>2. main_grad'[r][p] = OwnGrad(r, microbatch[r])
      <4>1. /\ main_grad'[r][p] = [q \in Ranks |-> main_grad'[r][p][q]]
            /\ \A q \in Ranks : main_grad[r][p][q] = IF q = r THEN microbatch[r] - 1 ELSE 0
        <5>1. main_grad'[r][p] \in [Ranks -> Nat]
          <6>1. TypeOK'
            BY <1>9, Zenon DEF Alone
          <6>2. QED
            BY <6>1, Zenon DEF TypeOK
        <5>2. main_grad'[r][p] = [q \in Ranks |-> main_grad'[r][p][q]]
          BY <5>1
        <5>3. QED
          BY <3>1, <5>2, Zenon DEF OwnGrad
      <4>2. \A q \in Ranks : main_grad'[r][p][q] = IF q = r THEN microbatch[r] ELSE 0
        <5>1. /\ microbatch[r] \in Nat
              /\ \A q \in Ranks : main_grad'[r][p][q] = IF q = r THEN main_grad[r][p][q] + 1
                                                                ELSE main_grad[r][p][q]
          BY <1>1, <1>9, TypesAt, Zenon
        <5>2. QED
          BY <4>1, <5>1
      <4>3. QED
        BY <4>1, <4>2, ZenonT(60) DEF OwnGrad
    <3>3. Count(r, p)' = microbatch[r]
      <4>1. microbatch[r] \in Nat /\ Count(r, p)' = Count(r, p) + 1
        BY <1>1, <2>2, <2>4, TypesAt, Zenon
      <4>2. QED
        BY <3>1, <4>1
    <3>4. QED
      BY <1>3, <1>6, <1>10, <1>14, <2>1, <2>3, <2>4, <3>2, <3>3, ZenonT(60) DEF Buffer, OwnGrad
  <2>5. CASE x # p
    <3>1. main_grad'[r][x] = main_grad[r][x]
      BY <1>9, <1>16, <2>5, Zenon
    <3>2. CASE ~(GroupOf[x] = g /\ Issues(r, p))
      <4>1. /\ Started(r, GroupOf[x])' <=> Started(r, GroupOf[x])
            /\ Done(r, <<"grad", GroupOf[x]>>)' <=> Done(r, <<"grad", GroupOf[x]>>)
        BY <1>5, <1>10, <1>14, <2>1, <3>2, Zenon
      <4>2. QED
        BY <1>16, <2>1, <2>2, <2>5, <3>1, <4>1, BufferKept, ZenonT(60)
    <3>3. CASE GroupOf[x] = g /\ Issues(r, p)
      <4>1. Count(r, x) = NumMicrobatches /\ ~Started(r, g)
        BY <1>2, <1>6, <2>3, <2>5, <3>3, ZenonT(60) DEF Count
      <4>2. main_grad[r][x] = OwnGrad(r, NumMicrobatches)
        BY <2>1, <3>3, <4>1, Zenon DEF Buffer
      <4>3. Started(r, g)' /\ ~Done(r, <<"grad", g>>)'
        BY <1>3, <1>10, <1>14, <3>3, Zenon DEF Issues, Registers
      <4>4. QED
        BY <3>1, <3>3, <4>2, <4>3, Zenon DEF Buffer, OwnGrad
    <3>4. QED
      BY <3>2, <3>3, Zenon
  <2>6. QED
    BY <2>4, <2>5, Zenon
<1>17. Keeps(r)
  <2>1. /\ pc[r] = "backward" /\ pc'[r] \in {"backward", "forward", "finish"}
        /\ iteration' = iteration /\ index'[r] = 1
        /\ param_gather_dispatched' = param_gather_dispatched
        /\ failed' = failed /\ params' = params /\ job' = job
    BY <1>2, <1>9, <1>11, <1>8, Zenon DEF HookStep
  <2>2. Calls(r)' = Calls(r)
    BY <2>1, ZenonT(60) DEF Calls, Stepped, Counted, Evaluating
  <2>3. ASSUME NEW h \in Groups
        PROVE  /\ Reductions(r, h)' = Reductions(r, h) /\ (Gathered(r, h)' => Gathered(r, h))
               /\ Dispatched(r, h) => Dispatched(r, h)'
    <3>1. Started(r, h)' /\ Done(r, <<"grad", h>>)' <=> Started(r, h) /\ Done(r, <<"grad", h>>)
      BY <1>5, <1>6, <1>9, <1>10, <1>14, <2>3, Zenon DEF OverlapGradReduce
    <3>2. ~(h < 1)
      BY <2>3, GroupOrder, ZenonT(60)
    <3>3. QED
      BY <1>10, <2>1, <2>3, <3>1, <3>2, ZenonT(60)
         DEF Reductions, Reduced, Stepped, Counted, Evaluating, Collecting, Gathered, Dispatched
  <2>4. QED
    BY <2>1, <2>2, <2>3, KeepsIf, Zenon
<1>18. QED
  BY <1>17, <1>7, <1>9, <1>10, <1>12, <1>13, <1>15, <1>16, Zenon DEF RankInv

\* finish_grad_sync without overlap: the reduction is started there.
LEMMA FinishByStartingInv ==
  ASSUME Inv, NEW r \in Ranks, FinishByStarting(r)
  PROVE  /\ Alone(r) /\ RankInv(r)' /\ Keeps(r) /\ index[r] \in Groups
         /\ ~grad_reduce_handle[r][index[r]]
<1>1. TypeOK /\ RankInv(r) /\ Position(r)
  BY Zenon DEF Inv, RankInv
<1>2. pc[r] = "finish" /\ ~OverlapGradReduce
  BY Zenon DEF FinishByStarting
<1>3. PICK g \in Groups : g = index[r]
  BY <1>1, <1>2, Zenon DEF Position, Loops
<1>4. ~grad_reduce_handle[r][g] /\ Done(r, <<"grad", g>>)
  BY <1>1, <1>2, <1>3, GroupOrder, ZenonT(60)
     DEF RankInv, GroupInv, ReduceHandle, Outstanding, Started
<1>5. /\ Alone(r)
      /\ pc'[r] = "finishing" /\ issued'[r] = Append(issued[r], <<"grad", g>>)
      /\ ~param_gather_dispatched'[r][g]
      /\ (\A h \in Groups : h # g => param_gather_dispatched'[r][h] = param_gather_dispatched[r][h])
      /\ pc[r] = "finish" /\ ~OverlapGradReduce /\ iteration' = iteration
      /\ start_iteration' = start_iteration /\ microbatch' = microbatch
      /\ index' = index /\ todo' = todo /\ hooks' = hooks
      /\ is_last_microbatch' = is_last_microbatch /\ failed' = failed
      /\ params_with_grad' = params_with_grad
      /\ param_gather_handle' = param_gather_handle
      /\ grad_reduce_handle' = grad_reduce_handle /\ main_grad' = main_grad
      /\ params' = params
  <2>1. /\ pc[r] = "finish" /\ ~OverlapGradReduce
        /\ pc' = [pc EXCEPT ![r] = "finishing"]
        /\ issued' = [issued EXCEPT ![r] = Append(issued[r], <<"grad", g>>)]
        /\ param_gather_dispatched' = [param_gather_dispatched EXCEPT ![r][g] = FALSE]
        /\ iteration' = iteration /\ start_iteration' = start_iteration
        /\ microbatch' = microbatch /\ index' = index /\ todo' = todo
        /\ hooks' = hooks /\ is_last_microbatch' = is_last_microbatch
        /\ failed' = failed /\ params_with_grad' = params_with_grad
        /\ param_gather_handle' = param_gather_handle
        /\ grad_reduce_handle' = grad_reduce_handle /\ main_grad' = main_grad
        /\ params' = params /\ job' = job
    BY <1>1, <1>3, <1>4, Zenon
     DEF FinishByStarting, Goto, At, GatherDue, control, groupVars, gatherVars, loopVars
  <2>2. /\ "finishing" \in Places /\ Append(issued[r], <<"grad", g>>) \in Seq(Ops)
    BY <1>1, <1>3, Values, ZenonT(60) DEF TypeOK, Ops, Places, Collecting
  <2>3. TypeOK'
    BY <1>1, <1>3, <1>4, <2>1, <2>2, Zenon DEF TypeOK
  <2>4. /\ \A q \in Ranks : q # r => Same(q)
        /\ pc'[r] = "finishing" /\ issued'[r] = Append(issued[r], <<"grad", g>>)
        /\ ~param_gather_dispatched'[r][g]
        /\ (\A h \in Groups : h # g =>
              param_gather_dispatched'[r][h] = param_gather_dispatched[r][h])
    BY <1>1, <1>3, <1>4, <2>1, <2>2, Zenon DEF TypeOK, Same
  <2>5. QED
    BY <2>1, <2>3, <2>4, Zenon DEF Alone
<1>6. /\ pc'[r] = "finishing" /\ index' = index /\ microbatch' = microbatch /\ todo' = todo
      /\ Alone(r) /\ job' = job /\ hooks' = hooks /\ iteration' = iteration
      /\ start_iteration' = start_iteration /\ params_with_grad' = params_with_grad
      /\ grad_reduce_handle' = grad_reduce_handle /\ main_grad' = main_grad
      /\ param_gather_handle' = param_gather_handle
      /\ issued'[r] = Append(issued[r], <<"grad", g>>)
      /\ \A h \in Groups : h # g => param_gather_dispatched'[r][h] = param_gather_dispatched[r][h]
  BY <1>1, <1>3, <1>4, <1>5, ZenonT(60) DEF Alone
<1>7. Distinct(issued'[r]) /\ Range(issued'[r]) = Range(issued[r]) \cup {<<"grad", g>>}
  <2>1. /\ issued[r] \in Seq(Ops) /\ Distinct(issued[r]) /\ <<"grad", g>> \in Ops
        /\ <<"grad", g>> \notin Range(issued[r])
    BY <1>1, <1>4, ZenonT(60) DEF TypeOK, RankInv, Once, Ops, Done
  <2>2. QED
    BY <1>6, <2>1, AppendOnce, Zenon
<1>8. \A h \in Groups : /\ Done(r, <<"param", h>>)' <=> Done(r, <<"param", h>>)
                        /\ Done(r, <<"grad", h>>)' <=> Done(r, <<"grad", h>>) /\ h # g
  BY <1>7, Zenon DEF Done
<1>9. Once(r)' /\ Hooked(r)' /\ Position(r)'
  <2>1. Hooked(r)'
    BY <1>1, <1>2, <1>6, HookedKept, ZenonT(60) DEF RankInv, Counted, Evaluating
  <2>2. Position(r)'
    BY <1>1, <1>2, <1>6, ZenonT(60) DEF Position, Loops, OverlapGradReduce
  <2>3. QED
    BY <1>7, <2>1, <2>2, Zenon DEF Once
<1>10. ASSUME NEW h \in Groups PROVE Started(r, h)' <=> Started(r, h) \/ h = g
  BY <1>1, <1>2, <1>3, <1>6, <1>10, GroupOrder, ZenonT(60)
     DEF Started, OverlapGradReduce
<1>11. ASSUME NEW h \in Groups PROVE GroupInv(r, h)'
  <2>1. GroupInv(r, h)
    BY <1>1, <1>11, Zenon DEF RankInv
  <2>2. Registered(r, h)' /\ ReduceHandle(r, h)'
    BY <1>2, <1>6, <2>1, ZenonT(60) DEF GroupInv, Registered, ReduceHandle, OverlapGradReduce
  <2>3. Outstanding(r, h)'
    <3>1. /\ Done(r, <<"grad", h>>)' <=> Done(r, <<"grad", h>>) /\ h # g
          /\ Started(r, h)' <=> Started(r, h) \/ h = g
      BY <1>8, <1>10, <1>11, Zenon
    <3>2. ~Done(r, <<"grad", h>>) => Started(r, h) /\ h >= index[r]
      BY <1>2, <2>1, Zenon DEF GroupInv, Outstanding
    <3>3. h = g => h >= index[r]
      BY <1>1, <1>3, GroupOrder, ZenonT(60)
    <3>4. QED
      BY <1>6, <3>1, <3>2, <3>3, Zenon DEF Outstanding, Collecting
  <2>4. GatherHandle(r, h)' /\ Gathering(r, h)'
    BY <1>2, <1>8, <1>11, <1>6, <2>1, ZenonT(60) DEF GroupInv, Gathering, GatherHandle
  <2>5. QED
    BY <2>2, <2>3, <2>4, Zenon DEF GroupInv
<1>12. ASSUME NEW x \in Params PROVE Buffer(r, x)'
  <2>1. Buffer(r, x) /\ GroupOf[x] \in Groups
    BY <1>1, <1>12, Configuration, Zenon DEF RankInv
  <2>2. /\ main_grad' = main_grad /\ pc[r] \in Collecting
        /\ Count(r, x) = NumMicrobatches /\ Count(r, x)' = NumMicrobatches
    BY <1>1, <1>2, <1>6, ZenonT(60) DEF Count, Collecting, Position
  <2>3. CASE GroupOf[x] = g
    <3>1. ~Started(r, g)
      BY <1>1, <1>2, <1>3, GroupOrder, ZenonT(60) DEF Started
    <3>2. main_grad[r][x] = OwnGrad(r, NumMicrobatches)
      BY <2>1, <2>2, <2>3, <3>1, Zenon DEF Buffer
    <3>3. QED
      BY <1>8, <1>10, <2>2, <2>3, <3>2, Zenon DEF Buffer, OwnGrad
  <2>4. CASE GroupOf[x] # g
    BY <1>8, <1>10, <1>12, <2>1, <2>2, <2>4, BufferKept, Zenon
  <2>5. QED
    BY <2>3, <2>4, Zenon
<1>13. Keeps(r)
  <2>1. /\ pc[r] = "finish" /\ pc'[r] = "finishing" /\ iteration' = iteration /\ index' = index
        /\ ~param_gather_dispatched'[r][g]
        /\ \A h \in Groups : h # g => param_gather_dispatched'[r][h] = param_gather_dispatched[r][h]
        /\ failed' = failed /\ params' = params /\ job' = job
    BY <1>1, <1>2, <1>3, <1>4, <1>6, <1>5, Zenon
  <2>2. Calls(r)' = Calls(r)
    BY <2>1, Zenon DEF Calls, Stepped, Counted, Evaluating
  <2>3. ASSUME NEW h \in Groups
        PROVE  /\ Reductions(r, h)' = Reductions(r, h) /\ (Gathered(r, h)' => Gathered(r, h))
               /\ Dispatched(r, h) => Dispatched(r, h)'
    <3>1. Started(r, h)' /\ Done(r, <<"grad", h>>)' <=> Started(r, h) /\ Done(r, <<"grad", h>>)
      <4>1. ~Started(r, g)
        BY <1>1, <1>2, <1>3, GroupOrder, ZenonT(60) DEF Started
      <4>2. QED
        BY <1>8, <1>10, <2>3, <4>1, Zenon
    <3>2. Dispatched(r, h) => Dispatched(r, h)'
      BY <1>1, <1>3, <2>1, <2>3, GroupOrder, ZenonT(60) DEF Dispatched
    <3>3. QED
      BY <1>8, <2>1, <2>3, <3>1, <3>2, ZenonT(60)
         DEF Reductions, Reduced, Stepped, Counted, Evaluating, Collecting, Gathered
  <2>4. QED
    BY <2>1, <2>2, <2>3, KeepsIf, Zenon
<1>14. QED
  BY <1>13, <1>3, <1>4, <1>9, <1>11, <1>12, <1>6, Zenon DEF RankInv

\* A rank whose wait for a reduction is over.
LEMMA FinishStartedInv ==
  ASSUME Inv, NEW r \in Ranks, FinishStarted(r)
  PROVE  Alone(r) /\ RankInv(r)' /\ Keeps(r)
<1>1. TypeOK /\ RankInv(r) /\ Position(r)
  BY Zenon DEF Inv, RankInv
<1>2. ASSUME index[r] < NumGroups
      PROVE  /\ Alone(r)
             /\ pc'[r] = "finish" /\ index'[r] = index[r] + 1
             /\ pc[r] = "finishing" /\ Done(r, <<"grad", index[r]>>)
             /\ iteration' = iteration /\ start_iteration' = start_iteration
             /\ microbatch' = microbatch /\ todo' = todo /\ hooks' = hooks
             /\ is_last_microbatch' = is_last_microbatch /\ failed' = failed
             /\ params_with_grad' = params_with_grad
             /\ param_gather_handle' = param_gather_handle
             /\ param_gather_dispatched' = param_gather_dispatched
             /\ grad_reduce_handle' = grad_reduce_handle /\ main_grad' = main_grad
             /\ params' = params /\ issued' = issued
  <2>1. /\ pc[r] = "finishing" /\ Done(r, <<"grad", index[r]>>)
        /\ pc' = [pc EXCEPT ![r] = "finish"]
        /\ index' = [index EXCEPT ![r] = index[r] + 1] /\ iteration' = iteration
        /\ start_iteration' = start_iteration /\ microbatch' = microbatch
        /\ todo' = todo /\ hooks' = hooks /\ is_last_microbatch' = is_last_microbatch
        /\ failed' = failed /\ params_with_grad' = params_with_grad
        /\ param_gather_handle' = param_gather_handle
        /\ param_gather_dispatched' = param_gather_dispatched
        /\ grad_reduce_handle' = grad_reduce_handle /\ main_grad' = main_grad
        /\ params' = params /\ issued' = issued /\ job' = job
    BY <1>1, <1>2, Zenon
     DEF FinishStarted, Goto, At, ReduceAwaited, control, groupVars, gatherVars, loopVars
  <2>2. /\ "finish" \in Places /\ index[r] + 1 \in Nat \ {0}
    BY <1>1, Values, Zenon DEF TypeOK, Places, Collecting
  <2>3. TypeOK'
    BY <1>1, <1>2, <2>1, <2>2, Zenon DEF TypeOK
  <2>4. /\ \A q \in Ranks : q # r => Same(q)
        /\ pc'[r] = "finish" /\ index'[r] = index[r] + 1
    BY <1>1, <1>2, <2>1, <2>2, Zenon DEF TypeOK, Same
  <2>5. QED
    BY <2>1, <2>3, <2>4, Zenon DEF Alone
<1>3. ASSUME ~(index[r] < NumGroups)
      PROVE  /\ Alone(r)
             /\ pc'[r] = "step" /\ index'[r] = 1
             /\ pc[r] = "finishing" /\ Done(r, <<"grad", index[r]>>)
             /\ iteration' = iteration /\ start_iteration' = start_iteration
             /\ microbatch' = microbatch /\ todo' = todo /\ hooks' = hooks
             /\ is_last_microbatch' = is_last_microbatch /\ failed' = failed
             /\ params_with_grad' = params_with_grad
             /\ param_gather_handle' = param_gather_handle
             /\ param_gather_dispatched' = param_gather_dispatched
             /\ grad_reduce_handle' = grad_reduce_handle /\ main_grad' = main_grad
             /\ params' = params /\ issued' = issued
  <2>1. /\ pc[r] = "finishing" /\ Done(r, <<"grad", index[r]>>)
        /\ pc' = [pc EXCEPT ![r] = "step"] /\ index' = [index EXCEPT ![r] = 1]
        /\ iteration' = iteration /\ start_iteration' = start_iteration
        /\ microbatch' = microbatch /\ todo' = todo /\ hooks' = hooks
        /\ is_last_microbatch' = is_last_microbatch /\ failed' = failed
        /\ params_with_grad' = params_with_grad
        /\ param_gather_handle' = param_gather_handle
        /\ param_gather_dispatched' = param_gather_dispatched
        /\ grad_reduce_handle' = grad_reduce_handle /\ main_grad' = main_grad
        /\ params' = params /\ issued' = issued /\ job' = job
    BY <1>1, <1>3, Zenon
     DEF FinishStarted, Goto, At, ReduceAwaited, control, groupVars, gatherVars, loopVars
  <2>2. /\ "step" \in Places /\ 1 \in Nat \ {0}
    BY Values, Zenon DEF Places, Collecting
  <2>3. TypeOK'
    BY <1>1, <1>3, <2>1, <2>2, Zenon DEF TypeOK
  <2>4. /\ \A q \in Ranks : q # r => Same(q)
        /\ pc'[r] = "step" /\ index'[r] = 1
    BY <1>1, <1>3, <2>1, <2>2, Zenon DEF TypeOK, Same
  <2>5. QED
    BY <2>1, <2>3, <2>4, Zenon DEF Alone
<1>4. /\ pc[r] = "finishing" /\ Done(r, <<"grad", index[r]>>) /\ Alone(r) /\ job' = job
      /\ index[r] < NumGroups => pc'[r] = "finish" /\ index'[r] = index[r] + 1
      /\ ~(index[r] < NumGroups) => pc'[r] = "step" /\ index'[r] = 1
      /\ microbatch' = microbatch /\ todo' = todo /\ main_grad' = main_grad /\ issued' = issued
      /\ hooks' = hooks /\ iteration' = iteration /\ start_iteration' = start_iteration
      /\ grad_reduce_handle' = grad_reduce_handle
      /\ param_gather_handle' = param_gather_handle
      /\ param_gather_dispatched' = param_gather_dispatched
  BY <1>1, <1>2, <1>3, ZenonT(60) DEF Alone
<1>5. ~OverlapGradReduce /\ index[r] \in Groups /\ microbatch[r] = NumMicrobatches /\ todo[r] = {}
  BY <1>1, <1>4, Zenon DEF Position, Loops
<1>6. Once(r)' /\ Hooked(r)'
  BY <1>1, <1>4, HookedKept, ZenonT(60) DEF RankInv, Once, Counted, Evaluating
<1>7. LoopAdvance(index[r], index'[r])
  BY <1>4, <1>5, LoopOrder, Zenon
<1>8. Position(r)'
  <2>1. CASE index[r] < NumGroups
    <3>1. pc'[r] = "finish" /\ index'[r] \in Groups
      BY <1>4, <1>7, <2>1, Zenon DEF LoopAdvance
    <3>2. QED
      BY <1>4, <1>5, <3>1, ZenonT(60) DEF Position, Loops, OverlapGradReduce
  <2>2. CASE ~(index[r] < NumGroups)
    BY <1>4, <1>5, <2>2, ZenonT(60) DEF Position, Loops, OverlapGradReduce
  <2>3. QED
    BY <2>1, <2>2, Zenon
<1>9. ASSUME NEW h \in Groups
      PROVE  IF index[r] < NumGroups
               THEN /\ pc'[r] = "finish" /\ (h < index'[r] <=> h <= index[r])
                    /\ h >= index'[r] <=> h > index[r]
               ELSE pc'[r] = "step" /\ h <= index[r]
  BY <1>4, <1>7, <1>9, Zenon DEF LoopAdvance
<1>10. ASSUME NEW h \in Groups PROVE Started(r, h)' <=> Started(r, h)
  <2>1. /\ Started(r, h) <=> h <= index[r]
        /\ pc'[r] = "finish" => (Started(r, h)' <=> h < index'[r])
        /\ pc'[r] = "step" => Started(r, h)'
    BY <1>4, <1>5, Zenon DEF Started, OverlapGradReduce
  <2>2. QED
    BY <1>9, <1>10, <2>1, Zenon
<1>11. ASSUME NEW h \in Groups PROVE GroupInv(r, h)'
  <2>1. GroupInv(r, h)
    BY <1>1, <1>11, Zenon DEF RankInv
  <2>2. Registered(r, h)' /\ ReduceHandle(r, h)'
    BY <1>4, <1>5, <2>1, ZenonT(60) DEF GroupInv, Registered, ReduceHandle, OverlapGradReduce
  <2>3. Outstanding(r, h)'
    <3>1. ~Done(r, <<"grad", h>>) => Started(r, h) /\ h > index[r]
      <4>1. ~Done(r, <<"grad", h>>) => Started(r, h) /\ h >= index[r] /\ h # index[r]
        BY <1>4, <2>1, Zenon DEF GroupInv, Outstanding
      <4>2. QED
        BY <1>11, <1>7, <4>1, Zenon DEF LoopAdvance
    <3>2. h > index[r] => pc'[r] = "finish" /\ h >= index'[r]
      BY <1>11, <1>7, <1>9, Zenon DEF LoopAdvance
    <3>3. QED
      BY <1>4, <1>10, <1>11, <3>1, <3>2, Zenon DEF Outstanding, Collecting, Done
  <2>4. GatherHandle(r, h)' /\ Gathering(r, h)'
    BY <1>4, <1>11, <2>1, ZenonT(60) DEF GroupInv, Gathering, GatherHandle, Done
  <2>5. QED
    BY <2>2, <2>3, <2>4, Zenon DEF GroupInv
<1>12. ASSUME NEW x \in Params PROVE Buffer(r, x)'
  <2>1. Buffer(r, x) /\ GroupOf[x] \in Groups
    BY <1>1, <1>12, Configuration, Zenon DEF RankInv
  <2>2. pc[r] \in Collecting /\ Count(r, x)' = Count(r, x)
    BY <1>4, <1>5, ZenonT(60) DEF Count, Collecting
  <2>3. QED
    BY <1>4, <1>10, <1>12, <2>1, <2>2, BufferKept, Zenon DEF Done
<1>13. Keeps(r)
  <2>1. /\ pc[r] = "finishing" /\ pc'[r] \in {"finish", "step"}
        /\ index[r] < NumGroups => pc'[r] = "finish" /\ index'[r] = index[r] + 1
        /\ ~(index[r] < NumGroups) => pc'[r] = "step" /\ index'[r] = 1
        /\ iteration' = iteration /\ issued' = issued
        /\ param_gather_dispatched' = param_gather_dispatched
        /\ failed' = failed /\ params' = params /\ job' = job
    BY <1>1, <1>4, <1>2, <1>3, Zenon
  <2>2. Calls(r)' = Calls(r)
    BY <2>1, ZenonT(60) DEF Calls, Stepped, Counted, Evaluating
  <2>3. ASSUME NEW h \in Groups
        PROVE  /\ Reductions(r, h)' = Reductions(r, h) /\ (Gathered(r, h)' => Gathered(r, h))
               /\ Dispatched(r, h) => Dispatched(r, h)'
    <3>1. Dispatched(r, h) => Dispatched(r, h)'
      <4>1. /\ Dispatched(r, h) => (h <= index[r] => ~param_gather_dispatched[r][h])
            /\ pc'[r] = "finish" =>
                 ((h < index'[r] => ~param_gather_dispatched[r][h]) => Dispatched(r, h)')
            /\ pc'[r] = "step" => (~param_gather_dispatched[r][h] => Dispatched(r, h)')
        BY <2>1, ZenonT(60) DEF Dispatched
      <4>2. QED
        BY <1>9, <2>3, <4>1, Zenon
    <3>2. QED
      BY <1>10, <2>1, <2>3, <3>1, ZenonT(60)
         DEF Reductions, Reduced, Stepped, Counted, Evaluating, Collecting, Gathered, Done
  <2>4. QED
    BY <2>1, <2>2, <2>3, KeepsIf, Zenon
<1>14. QED
  BY <1>13, <1>4, <1>6, <1>8, <1>11, <1>12, Zenon DEF RankInv

\* A rank in its loop over the groups' finish_grad_sync.
LEMMA FinishGradSyncInv ==
  ASSUME Inv, NEW r \in Ranks, FinishGradSync(r)
  PROVE  /\ Alone(r) /\ RankInv(r)' /\ index[r] \in Groups
         /\ grad_reduce_handle[r][index[r]] /\ (Supported(job) => Keeps(r))
<1>1. TypeOK /\ RankInv(r) /\ Position(r)
  BY Zenon DEF Inv, RankInv
<1>2. pc[r] = "finish" /\ OverlapGradReduce
  BY Zenon DEF FinishGradSync
<1>3. PICK g \in Groups : g = index[r]
  BY <1>1, <1>2, Zenon DEF Position, Loops
<1>4. grad_reduce_handle[r][g]
  BY <1>1, <1>2, <1>3, GroupOrder, ZenonT(60) DEF RankInv, GroupInv, ReduceHandle
<1>5. CASE UseDpuReduce /\ UseDistributedOptimizer
  <2>1. Fail(r)
    BY <1>5, Zenon DEF FinishGradSync
  <2>2. QED
    BY <1>2, <1>3, <1>4, <1>5, <2>1, FailInv, Zenon
       DEF Supported, UseDpuReduce, UseDistributedOptimizer, OverlapGradReduce
<1>6. CASE ~(UseDpuReduce /\ UseDistributedOptimizer)
  <2>1. ASSUME index[r] < NumGroups
        PROVE  /\ Alone(r)
               /\ ~param_gather_dispatched'[r][g]
               /\ (\A h \in Groups : h # g =>
                     param_gather_dispatched'[r][h] = param_gather_dispatched[r][h])
               /\ ~grad_reduce_handle'[r][g]
               /\ (\A h \in Groups : h # g => grad_reduce_handle'[r][h] = grad_reduce_handle[r][h])
               /\ index'[r] = index[r] + 1
               /\ pc[r] = "finish" /\ OverlapGradReduce /\ Done(r, <<"grad", g>>)
               /\ pc' = pc /\ iteration' = iteration /\ start_iteration' = start_iteration
               /\ microbatch' = microbatch /\ todo' = todo /\ hooks' = hooks
               /\ is_last_microbatch' = is_last_microbatch /\ failed' = failed
               /\ params_with_grad' = params_with_grad
               /\ param_gather_handle' = param_gather_handle /\ main_grad' = main_grad
               /\ params' = params /\ issued' = issued
    <3>1. /\ pc[r] = "finish" /\ OverlapGradReduce /\ Done(r, <<"grad", g>>)
          /\ param_gather_dispatched' = [param_gather_dispatched EXCEPT ![r][g] = FALSE]
          /\ grad_reduce_handle' = [grad_reduce_handle EXCEPT ![r][g] = FALSE]
          /\ index' = [index EXCEPT ![r] = index[r] + 1] /\ pc' = pc
          /\ iteration' = iteration /\ start_iteration' = start_iteration
          /\ microbatch' = microbatch /\ todo' = todo /\ hooks' = hooks
          /\ is_last_microbatch' = is_last_microbatch /\ failed' = failed
          /\ params_with_grad' = params_with_grad
          /\ param_gather_handle' = param_gather_handle /\ main_grad' = main_grad
          /\ params' = params /\ issued' = issued /\ job' = job
      BY <1>1, <1>3, <1>4, <1>6, <2>1, Zenon
       DEF FinishGradSync, Goto, At, GatherDue, ReduceHandleCleared, NextOfLoop,
           ReduceAwaited, control, groupVars, gatherVars, loopVars
    <3>2. /\ index[r] + 1 \in Nat \ {0}
      BY <1>1, Values, Zenon DEF TypeOK
    <3>3. TypeOK'
      BY <1>1, <1>3, <1>4, <1>6, <2>1, <3>1, <3>2, Zenon DEF TypeOK
    <3>4. /\ \A q \in Ranks : q # r => Same(q)
          /\ ~param_gather_dispatched'[r][g]
          /\ (\A h \in Groups : h # g =>
                param_gather_dispatched'[r][h] = param_gather_dispatched[r][h])
          /\ ~grad_reduce_handle'[r][g]
          /\ (\A h \in Groups : h # g => grad_reduce_handle'[r][h] = grad_reduce_handle[r][h])
          /\ index'[r] = index[r] + 1
      BY <1>1, <1>3, <1>4, <1>6, <2>1, <3>1, <3>2, Zenon DEF TypeOK, Same
    <3>5. QED
      BY <3>1, <3>3, <3>4, Zenon DEF Alone
  <2>2. ASSUME ~(index[r] < NumGroups)
        PROVE  /\ Alone(r)
               /\ ~param_gather_dispatched'[r][g]
               /\ (\A h \in Groups : h # g =>
                     param_gather_dispatched'[r][h] = param_gather_dispatched[r][h])
               /\ ~grad_reduce_handle'[r][g]
               /\ (\A h \in Groups : h # g => grad_reduce_handle'[r][h] = grad_reduce_handle[r][h])
               /\ pc'[r] = "step" /\ index'[r] = 1
               /\ pc[r] = "finish" /\ OverlapGradReduce /\ Done(r, <<"grad", g>>)
               /\ iteration' = iteration /\ start_iteration' = start_iteration
               /\ microbatch' = microbatch /\ todo' = todo /\ hooks' = hooks
               /\ is_last_microbatch' = is_last_microbatch /\ failed' = failed
               /\ params_with_grad' = params_with_grad
               /\ param_gather_handle' = param_gather_handle /\ main_grad' = main_grad
               /\ params' = params /\ issued' = issued
    <3>1. /\ pc[r] = "finish" /\ OverlapGradReduce /\ Done(r, <<"grad", g>>)
          /\ param_gather_dispatched' = [param_gather_dispatched EXCEPT ![r][g] = FALSE]
          /\ grad_reduce_handle' = [grad_reduce_handle EXCEPT ![r][g] = FALSE]
          /\ pc' = [pc EXCEPT ![r] = "step"] /\ index' = [index EXCEPT ![r] = 1]
          /\ iteration' = iteration /\ start_iteration' = start_iteration
          /\ microbatch' = microbatch /\ todo' = todo /\ hooks' = hooks
          /\ is_last_microbatch' = is_last_microbatch /\ failed' = failed
          /\ params_with_grad' = params_with_grad
          /\ param_gather_handle' = param_gather_handle /\ main_grad' = main_grad
          /\ params' = params /\ issued' = issued /\ job' = job
      BY <1>1, <1>3, <1>4, <1>6, <2>2, Zenon
       DEF FinishGradSync, Goto, At, GatherDue, ReduceHandleCleared, NextOfLoop,
           ReduceAwaited, control, groupVars, gatherVars, loopVars
    <3>2. /\ "step" \in Places /\ 1 \in Nat \ {0}
      BY Values, Zenon DEF Places, Collecting
    <3>3. TypeOK'
      BY <1>1, <1>3, <1>4, <1>6, <2>2, <3>1, <3>2, Zenon DEF TypeOK
    <3>4. /\ \A q \in Ranks : q # r => Same(q)
          /\ ~param_gather_dispatched'[r][g]
          /\ (\A h \in Groups : h # g =>
                param_gather_dispatched'[r][h] = param_gather_dispatched[r][h])
          /\ ~grad_reduce_handle'[r][g]
          /\ (\A h \in Groups : h # g => grad_reduce_handle'[r][h] = grad_reduce_handle[r][h])
          /\ pc'[r] = "step" /\ index'[r] = 1
      BY <1>1, <1>3, <1>4, <1>6, <2>2, <3>1, <3>2, Zenon DEF TypeOK, Same
    <3>5. QED
      BY <3>1, <3>3, <3>4, Zenon DEF Alone
  <2>3. /\ Done(r, <<"grad", g>>) /\ Alone(r) /\ job' = job
        /\ index[r] < NumGroups => pc'[r] = "finish" /\ index'[r] = index[r] + 1
        /\ ~(index[r] < NumGroups) => pc'[r] = "step" /\ index'[r] = 1
        /\ ~grad_reduce_handle'[r][g]
        /\ \A h \in Groups : h # g => grad_reduce_handle'[r][h] = grad_reduce_handle[r][h]
        /\ \A h \in Groups : h # g => param_gather_dispatched'[r][h] = param_gather_dispatched[r][h]
        /\ microbatch' = microbatch /\ todo' = todo /\ main_grad' = main_grad /\ issued' = issued
        /\ hooks' = hooks /\ iteration' = iteration /\ start_iteration' = start_iteration
        /\ params_with_grad' = params_with_grad /\ param_gather_handle' = param_gather_handle
    BY <1>1, <1>2, <1>3, <1>4, <1>6, <2>1, <2>2, ZenonT(60) DEF Alone
  <2>4. microbatch[r] = NumMicrobatches /\ todo[r] = {}
    BY <1>1, <1>2, Zenon DEF Position
  <2>5. Once(r)' /\ Hooked(r)'
    BY <1>1, <1>2, <2>3, HookedKept, ZenonT(60) DEF RankInv, Once, Counted, Evaluating
  <2>6. LoopAdvance(g, index'[r])
    BY <1>3, <2>3, LoopOrder, Zenon
  <2>7. Position(r)'
    <3>1. CASE index[r] < NumGroups
      <4>1. pc'[r] = "finish" /\ index'[r] \in Groups
        BY <1>3, <2>3, <2>6, <3>1, Zenon DEF LoopAdvance
      <4>2. QED
        BY <1>2, <2>3, <2>4, <4>1, ZenonT(60) DEF Position, Loops, OverlapGradReduce
    <3>2. CASE ~(index[r] < NumGroups)
      BY <1>2, <2>3, <2>4, <3>2, ZenonT(60) DEF Position, Loops, OverlapGradReduce
    <3>3. QED
      BY <3>1, <3>2, Zenon
  <2>8. ASSUME NEW h \in Groups
        PROVE  IF g < NumGroups
                 THEN /\ pc'[r] = "finish"
                      /\ h < index'[r] <=> h < g \/ h = g
                      /\ h >= index'[r] <=> h >= g /\ h # g
                 ELSE pc'[r] = "step" /\ (h < g \/ h = g)
    <3>1. /\ g < NumGroups => pc'[r] = "finish"
          /\ ~(g < NumGroups) => pc'[r] = "step"
      BY <1>3, <2>3, Zenon
    <3>2. QED
      BY <2>6, <2>8, <3>1, Zenon DEF LoopAdvance
  <2>9. ASSUME NEW h \in Groups PROVE GroupInv(r, h)'
    <3>1. GroupInv(r, h)
      BY <1>1, <2>9, Zenon DEF RankInv
    <3>2. Registered(r, h)'
      BY <1>2, <2>3, <3>1, ZenonT(60) DEF GroupInv, Registered, OverlapGradReduce
    <3>3. Outstanding(r, h)'
      <4>1. Done(r, <<"grad", h>>)' <=> Done(r, <<"grad", h>>)
        BY <2>3, Zenon DEF Done
      <4>2. ~Done(r, <<"grad", h>>) => Started(r, h)' /\ h # g /\ h >= index[r]
        BY <1>2, <1>3, <2>3, <3>1, Zenon DEF GroupInv, Outstanding, Started, OverlapGradReduce
      <4>3. h # g /\ h >= index[r] => index[r] < NumGroups /\ h >= index[r] + 1
        BY <1>1, <1>3, <2>9, GroupOrder, ZenonT(60)
      <4>4. QED
        BY <2>3, <4>1, <4>2, <4>3, Zenon DEF Outstanding, Collecting
    <3>4. ReduceHandle(r, h)'
      <4>1. /\ grad_reduce_handle[r][h] <=> h >= g
            /\ h >= g <=> ~(h < g)
        BY <1>2, <1>3, <2>9, <3>1, GroupOrder, Zenon DEF GroupInv, ReduceHandle
      <4>2. grad_reduce_handle'[r][h] <=> h >= g /\ h # g
        BY <2>3, <2>9, <4>1, Zenon
      <4>3. QED
        BY <1>2, <2>3, <2>8, <2>9, <4>1, <4>2, ZenonT(60) DEF ReduceHandle, OverlapGradReduce
    <3>5. GatherHandle(r, h)' /\ Gathering(r, h)'
      BY <1>2, <2>3, <3>1, Zenon DEF GroupInv, Gathering, GatherHandle, Done
    <3>6. QED
      BY <3>2, <3>4, <3>5, <3>3, Zenon DEF GroupInv
  <2>10. ASSUME NEW x \in Params PROVE Buffer(r, x)'
    <3>1. Buffer(r, x) /\ GroupOf[x] \in Groups
      BY <1>1, <2>10, Configuration, Zenon DEF RankInv
    <3>2. /\ pc[r] \in Collecting /\ Count(r, x)' = Count(r, x)
          /\ Started(r, GroupOf[x])' <=> Started(r, GroupOf[x])
      BY <1>2, <2>3, <2>4, ZenonT(60) DEF Count, Collecting, Started, OverlapGradReduce
    <3>3. QED
      BY <2>3, <2>10, <3>1, <3>2, BufferKept, Zenon DEF Done
  <2>11. Keeps(r)
    <3>1. /\ failed' = failed /\ params' = params /\ pc'[r] \in {"finish", "step"}
          /\ ~param_gather_dispatched'[r][g]
      BY <1>1, <1>2, <1>3, <1>4, <1>6, <2>3, <2>1, <2>2, ZenonT(60)
    <3>2. Calls(r)' = Calls(r)
      BY <1>2, <2>3, <3>1, Zenon DEF Calls, Stepped, Counted, Evaluating
    <3>3. ASSUME NEW h \in Groups
          PROVE  /\ Reductions(r, h)' = Reductions(r, h) /\ (Gathered(r, h)' => Gathered(r, h))
                 /\ Dispatched(r, h) => Dispatched(r, h)'
      <4>1. Started(r, h)' /\ Done(r, <<"grad", h>>)' <=> Started(r, h) /\ Done(r, <<"grad", h>>)
        BY <1>2, <2>3, Zenon DEF Started, Done, OverlapGradReduce
      <4>2. Dispatched(r, h) => Dispatched(r, h)'
        <5>1. /\ Dispatched(r, h) => (h < g => ~param_gather_dispatched[r][h])
              /\ pc'[r] = "finish" =>
                   ((h < index'[r] => ~param_gather_dispatched'[r][h]) => Dispatched(r, h)')
              /\ pc'[r] = "step" => (~param_gather_dispatched'[r][h] => Dispatched(r, h)')
          BY <1>2, <1>3, ZenonT(60) DEF Dispatched
        <5>2. QED
          BY <2>3, <2>8, <3>1, <3>3, <5>1, ZenonT(60)
      <4>3. Reductions(r, h)' = Reductions(r, h)
        BY <1>2, <2>3, <3>1, <4>1, ZenonT(60)
         DEF Reductions, Reduced, Stepped, Counted, Evaluating, Collecting
      <4>4. QED
        BY <2>3, <3>1, <3>3, <4>2, <4>3, Zenon DEF Gathered, Done
    <3>4. QED
      BY <1>2, <2>3, <3>1, <3>2, <3>3, KeepsIf, Zenon
  <2>12. QED
    BY <1>3, <1>4, <2>11, <2>3, <2>5, <2>7, <2>9, <2>10, Zenon DEF RankInv
<1>7. QED
  BY <1>5, <1>6, Zenon

\* A rank that steps its optimizer, or skips the step.
LEMMA OptimizerInv ==
  ASSUME Inv, NEW r \in Ranks, OptimizerStep(r)
  PROVE  /\ Alone(r) /\ RankInv(r)' /\ failed' = failed
         /\ iteration[r] \in skips => params' = params
         /\ iteration[r] \notin skips => params'[r] = Advanced(r)
         /\ pc[r] = "step" /\ pc'[r] = (IF iteration[r] \in skips THEN "stepped" ELSE AfterStep)
         /\ index' = index /\ iteration' = iteration
         /\ param_gather_dispatched' = param_gather_dispatched /\ issued' = issued
<1>1. TypeOK /\ RankInv(r) /\ Position(r)
  BY Zenon DEF Inv, RankInv
<1>2. ASSUME iteration[r] \in skips
      PROVE  /\ Alone(r)
             /\ pc'[r] = "stepped"
             /\ pc[r] = "step" /\ iteration' = iteration
             /\ start_iteration' = start_iteration /\ microbatch' = microbatch
             /\ index' = index /\ todo' = todo /\ hooks' = hooks
             /\ is_last_microbatch' = is_last_microbatch /\ failed' = failed
             /\ params_with_grad' = params_with_grad
             /\ param_gather_handle' = param_gather_handle
             /\ param_gather_dispatched' = param_gather_dispatched
             /\ grad_reduce_handle' = grad_reduce_handle /\ main_grad' = main_grad
             /\ params' = params /\ issued' = issued
  <2>1. /\ pc[r] = "step" /\ pc' = [pc EXCEPT ![r] = "stepped"]
        /\ iteration' = iteration /\ start_iteration' = start_iteration
        /\ microbatch' = microbatch /\ index' = index /\ todo' = todo
        /\ hooks' = hooks /\ is_last_microbatch' = is_last_microbatch
        /\ failed' = failed /\ params_with_grad' = params_with_grad
        /\ param_gather_handle' = param_gather_handle
        /\ param_gather_dispatched' = param_gather_dispatched
        /\ grad_reduce_handle' = grad_reduce_handle /\ main_grad' = main_grad
        /\ params' = params /\ issued' = issued /\ job' = job
    BY <1>1, <1>2, Zenon DEF OptimizerStep, Goto, control, groupVars, gatherVars, loopVars
  <2>2. "stepped" \in Places
    BY Zenon DEF Places, Collecting, Stepped, Counted, Evaluating
  <2>3. TypeOK'
    BY <1>1, <1>2, <2>1, <2>2, Zenon DEF TypeOK
  <2>4. /\ \A q \in Ranks : q # r => Same(q)
        /\ pc'[r] = "stepped"
    BY <1>1, <1>2, <2>1, <2>2, Zenon DEF TypeOK, Same
  <2>5. QED
    BY <2>1, <2>3, <2>4, Zenon DEF Alone
<1>3. ASSUME iteration[r] \notin skips
      PROVE  /\ Alone(r)
             /\ pc'[r] = AfterStep /\ params'[r] = Advanced(r)
             /\ pc[r] = "step" /\ iteration' = iteration
             /\ start_iteration' = start_iteration /\ microbatch' = microbatch
             /\ index' = index /\ todo' = todo /\ hooks' = hooks
             /\ is_last_microbatch' = is_last_microbatch /\ failed' = failed
             /\ params_with_grad' = params_with_grad
             /\ param_gather_handle' = param_gather_handle
             /\ param_gather_dispatched' = param_gather_dispatched
             /\ grad_reduce_handle' = grad_reduce_handle /\ main_grad' = main_grad
             /\ issued' = issued
  <2>1. /\ pc[r] = "step" /\ pc' = [pc EXCEPT ![r] = AfterStep]
        /\ params' = [params EXCEPT ![r] = Advanced(r)] /\ iteration' = iteration
        /\ start_iteration' = start_iteration /\ microbatch' = microbatch
        /\ index' = index /\ todo' = todo /\ hooks' = hooks
        /\ is_last_microbatch' = is_last_microbatch /\ failed' = failed
        /\ params_with_grad' = params_with_grad
        /\ param_gather_handle' = param_gather_handle
        /\ param_gather_dispatched' = param_gather_dispatched
        /\ grad_reduce_handle' = grad_reduce_handle /\ main_grad' = main_grad
        /\ issued' = issued /\ job' = job
    BY <1>1, <1>3, Zenon
     DEF OptimizerStep, Goto, Advanced, control, groupVars, gatherVars, loopVars
  <2>2. /\ AfterStep \in Places /\ Advanced(r) \in [Groups -> [Ranks -> Nat]]
    <3>1. AfterStep \in Places
      BY Zenon DEF AfterStep, Places, Collecting, Stepped, Counted, Evaluating
    <3>2. Advanced(r) \in [Groups -> [Ranks -> Nat]]
      BY <1>1, <1>3 DEF TypeOK, Advanced
    <3>3. QED
      BY <3>1, <3>2, Zenon
  <2>3. TypeOK'
    BY <1>1, <1>3, <2>1, <2>2, Zenon DEF TypeOK
  <2>4. /\ \A q \in Ranks : q # r => Same(q)
        /\ pc'[r] = AfterStep /\ params'[r] = Advanced(r)
    BY <1>1, <1>3, <2>1, <2>2, Zenon DEF TypeOK, Same
  <2>5. QED
    BY <2>1, <2>3, <2>4, Zenon DEF Alone
<1>4. /\ pc[r] = "step" /\ Alone(r) /\ job' = job
      /\ pc'[r] = (IF iteration[r] \in skips THEN "stepped" ELSE AfterStep)
      /\ index' = index /\ microbatch' = microbatch /\ todo' = todo
      /\ iteration' = iteration /\ start_iteration' = start_iteration /\ hooks' = hooks
      /\ is_last_microbatch' = is_last_microbatch
      /\ params_with_grad' = params_with_grad /\ param_gather_handle' = param_gather_handle
      /\ param_gather_dispatched' = param_gather_dispatched
      /\ grad_reduce_handle' = grad_reduce_handle /\ main_grad' = main_grad /\ issued' = issued
  BY <1>1, <1>2, <1>3, Zenon DEF Alone
<1>5. /\ pc'[r] \in {"sync", "stepped"}
      /\ pc'[r] = "sync" => UseDistributedOptimizer /\ ~OverlapParamGather
  BY <1>4, Zenon DEF AfterStep
<1>6. Once(r)' /\ Hooked(r)'
  BY <1>1, <1>4, <1>5, HookedKept, ZenonT(60) DEF RankInv, Once, Counted, Evaluating
<1>7. Position(r)'
  BY <1>1, <1>4, <1>5, GroupOrder, Values, ZenonT(60)
     DEF Position, Loops, OverlapGradReduce, UseDistributedOptimizer, OverlapParamGather
<1>8. \A h \in Groups : GroupInv(r, h)'
  BY <1>1, <1>4, <1>5, Zenon
     DEF RankInv, GroupInv, Registered, ReduceHandle, Outstanding, GatherHandle, Gathering,
         Done, OverlapGradReduce, Collecting
<1>9. \A x \in Params : Buffer(r, x)'
  BY <1>1, <1>4, <1>5, Zenon DEF RankInv, Buffer, Done, Collecting
<1>10. QED
  BY <1>2, <1>3, <1>4, <1>6, <1>7, <1>8, <1>9, Zenon DEF RankInv

\* A rank that starts a synchronous gather after the step, or while hooks are off.
LEMMA StartParamSyncInv ==
  ASSUME Inv, NEW r \in Ranks, StartParamSync(r)
  PROVE  /\ Alone(r) /\ RankInv(r)' /\ Keeps(r) /\ index[r] \in Groups
         /\ ~param_gather_handle[r][index[r]]
<1>1. TypeOK /\ RankInv(r) /\ Position(r)
  BY Zenon DEF Inv, RankInv
<1>2. pc[r] \in {"sync", "force"}
  BY Zenon DEF StartParamSync
<1>3. PICK g \in Groups : g = index[r]
  BY <1>1, <1>2, Zenon DEF Position, Loops
<1>4. ~param_gather_handle[r][g] /\ Done(r, <<"param", g>>)
  BY <1>1, <1>2, <1>3, ZenonT(60) DEF RankInv, GroupInv, GatherHandle, Gathering
<1>5. /\ Alone(r)
      /\ pc'[r] = (IF pc[r] = "sync" THEN "syncing" ELSE "forcing")
      /\ issued'[r] = Append(issued[r], <<"param", g>>)
      /\ param_gather_dispatched'[r][g]
      /\ (\A h \in Groups : h # g => param_gather_dispatched'[r][h] = param_gather_dispatched[r][h])
      /\ pc[r] \in {"sync", "force"} /\ iteration' = iteration
      /\ start_iteration' = start_iteration /\ microbatch' = microbatch
      /\ index' = index /\ todo' = todo /\ hooks' = hooks
      /\ is_last_microbatch' = is_last_microbatch /\ failed' = failed
      /\ params_with_grad' = params_with_grad
      /\ param_gather_handle' = param_gather_handle
      /\ grad_reduce_handle' = grad_reduce_handle /\ main_grad' = main_grad
      /\ params' = params
  <2>1. /\ pc[r] \in {"sync", "force"}
        /\ pc' = [pc EXCEPT ![r] = (IF pc[r] = "sync" THEN "syncing" ELSE "forcing")]
        /\ issued' = [issued EXCEPT ![r] = Append(issued[r], <<"param", g>>)]
        /\ param_gather_dispatched' = [param_gather_dispatched EXCEPT ![r][g] = TRUE]
        /\ iteration' = iteration /\ start_iteration' = start_iteration
        /\ microbatch' = microbatch /\ index' = index /\ todo' = todo
        /\ hooks' = hooks /\ is_last_microbatch' = is_last_microbatch
        /\ failed' = failed /\ params_with_grad' = params_with_grad
        /\ param_gather_handle' = param_gather_handle
        /\ grad_reduce_handle' = grad_reduce_handle /\ main_grad' = main_grad
        /\ params' = params /\ job' = job
    BY <1>1, <1>3, <1>4, Zenon
     DEF StartParamSync, Goto, At, control, groupVars, gatherVars, loopVars
  <2>2. /\ (IF pc[r] = "sync" THEN "syncing" ELSE "forcing") \in Places
        /\ Append(issued[r], <<"param", g>>) \in Seq(Ops)
    BY <1>1, <1>3, Values, ZenonT(60) DEF TypeOK, Ops, Places, Stepped, Counted, Evaluating
  <2>3. TypeOK'
    BY <1>1, <1>3, <1>4, <2>1, <2>2, Zenon DEF TypeOK
  <2>4. /\ \A q \in Ranks : q # r => Same(q)
        /\ pc'[r] = (IF pc[r] = "sync" THEN "syncing" ELSE "forcing")
        /\ issued'[r] = Append(issued[r], <<"param", g>>)
        /\ param_gather_dispatched'[r][g]
        /\ (\A h \in Groups : h # g =>
              param_gather_dispatched'[r][h] = param_gather_dispatched[r][h])
    BY <1>1, <1>3, <1>4, <2>1, <2>2, Zenon DEF TypeOK, Same
  <2>5. QED
    BY <2>1, <2>3, <2>4, Zenon DEF Alone
<1>6. /\ pc'[r] = (IF pc[r] = "sync" THEN "syncing" ELSE "forcing")
      /\ index' = index /\ microbatch' = microbatch /\ todo' = todo
      /\ Alone(r) /\ job' = job /\ hooks' = hooks /\ iteration' = iteration
      /\ start_iteration' = start_iteration /\ params_with_grad' = params_with_grad
      /\ grad_reduce_handle' = grad_reduce_handle /\ main_grad' = main_grad
      /\ param_gather_handle' = param_gather_handle /\ param_gather_dispatched'[r][g]
      /\ issued'[r] = Append(issued[r], <<"param", g>>)
      /\ \A h \in Groups : h # g => param_gather_dispatched'[r][h] = param_gather_dispatched[r][h]
  BY <1>1, <1>3, <1>4, <1>5, ZenonT(60) DEF Alone
<1>7. Distinct(issued'[r]) /\ Range(issued'[r]) = Range(issued[r]) \cup {<<"param", g>>}
  <2>1. /\ issued[r] \in Seq(Ops) /\ Distinct(issued[r]) /\ <<"param", g>> \in Ops
        /\ <<"param", g>> \notin Range(issued[r])
    BY <1>1, <1>4, Zenon DEF TypeOK, RankInv, Once, Ops, Done
  <2>2. QED
    BY <1>6, <2>1, AppendOnce, Zenon
<1>8. \A h \in Groups : /\ Done(r, <<"grad", h>>)' <=> Done(r, <<"grad", h>>)
                        /\ Done(r, <<"param", h>>)' <=> Done(r, <<"param", h>>) /\ h # g
  BY <1>7, Zenon DEF Done
<1>9. Hooked(r)'
  BY <1>1, <1>2, <1>6, HookedKept, ZenonT(60) DEF RankInv, Counted, Evaluating
<1>10. Position(r)'
  BY <1>1, <1>2, <1>6, Zenon DEF Position, Loops, OverlapGradReduce, UseDistributedOptimizer,
                          OverlapParamGather, use_forward_hook
<1>11. ASSUME NEW h \in Groups PROVE GroupInv(r, h)'
  <2>1. GroupInv(r, h)
    BY <1>1, <1>11, Zenon DEF RankInv
  <2>2. Registered(r, h)' /\ ReduceHandle(r, h)' /\ Outstanding(r, h)'
    BY <1>2, <1>6, <1>8, <1>11, <2>1, ZenonT(60)
       DEF GroupInv, Registered, ReduceHandle, Outstanding, OverlapGradReduce, Collecting
  <2>3. GatherHandle(r, h)' /\ Gathering(r, h)'
    BY <1>2, <1>3, <1>6, <1>8, <1>11, <2>1, ZenonT(60) DEF GroupInv, Gathering, GatherHandle
  <2>4. QED
    BY <2>2, <2>3, Zenon DEF GroupInv
<1>12. ASSUME NEW x \in Params PROVE Buffer(r, x)'
  <2>1. Buffer(r, x) /\ GroupOf[x] \in Groups
    BY <1>1, <1>12, Configuration, Zenon DEF RankInv
  <2>2. pc'[r] \notin Collecting
    BY <1>6, Zenon DEF Collecting
  <2>3. QED
    BY <1>6, <1>8, <1>12, <2>1, <2>2, BufferKept, ZenonT(60)
<1>13. Keeps(r)
  <2>1. failed' = failed /\ params' = params
    BY <1>1, <1>3, <1>4, <1>5, Zenon
  <2>2. Calls(r)' = Calls(r) /\ pc'[r] # "failed"
    BY <1>2, <1>6, ZenonT(60) DEF Calls, Stepped, Counted, Evaluating
  <2>3. ASSUME NEW h \in Groups
        PROVE  /\ Reductions(r, h)' = Reductions(r, h) /\ (Due(r, h) => Due(r, h)')
               /\ Dispatched(r, h) => Dispatched(r, h)'
    <3>1. Reductions(r, h)' = Reductions(r, h)
      BY <1>2, <1>6, ZenonT(60) DEF Reductions, Reduced, Stepped, Counted, Evaluating
    <3>2. Dispatched(r, h) => Dispatched(r, h)'
      BY <1>1, <1>2, <1>3, <1>6, <2>3, GroupOrder, ZenonT(60) DEF Dispatched
    <3>3. Begun(Calls(r))' <=> Begun(Calls(r))
      BY <1>6, <2>2, Zenon DEF Begun, skips
    <3>4. Gathered(r, h)' => Gathered(r, h)
      BY <1>6, <1>8, <2>3, Zenon DEF Gathered
    <3>5. h >= index[r] => h > index[r] \/ (h = index[r] /\ ~Done(r, <<"param", h>>)')
      <4>1. h = index[r] => ~Done(r, <<"param", h>>)'
        BY <1>3, <1>8, Zenon
      <4>2. h >= index[r] => h > index[r] \/ h = index[r]
        BY <1>3, <2>3, GroupOrder, Zenon
      <4>3. QED
        BY <4>1, <4>2, Zenon
    <3>6. Due(r, h) => Due(r, h)'
      BY <1>2, <1>6, <3>3, <3>4, <3>5, Zenon
         DEF Due, UseDistributedOptimizer, OverlapParamGather
    <3>7. QED
      BY <3>1, <3>2, <3>6, Zenon
  <2>4. QED
    BY <2>1, <2>2, <2>3, Zenon DEF Keeps
<1>14. QED
  BY <1>13, <1>3, <1>4, <1>6, <1>7, <1>9, <1>10, <1>11, <1>12, Zenon DEF RankInv, Once

\* A rank whose synchronous gather is over.
LEMMA ParamSyncedInv ==
  ASSUME Inv, NEW r \in Ranks, ParamSynced(r)
  PROVE  Alone(r) /\ RankInv(r)' /\ Keeps(r)
<1>1. TypeOK /\ RankInv(r) /\ Position(r)
  BY Zenon DEF Inv, RankInv
<1>2. ASSUME index[r] < NumGroups
      PROVE  /\ Alone(r)
             /\ pc'[r] = (IF pc[r] = "syncing" THEN "sync" ELSE "force")
             /\ index'[r] = index[r] + 1
             /\ pc[r] \in {"syncing", "forcing"} /\ Done(r, <<"param", index[r]>>)
             /\ iteration' = iteration /\ start_iteration' = start_iteration
             /\ microbatch' = microbatch /\ todo' = todo /\ hooks' = hooks
             /\ is_last_microbatch' = is_last_microbatch /\ failed' = failed
             /\ params_with_grad' = params_with_grad
             /\ param_gather_handle' = param_gather_handle
             /\ param_gather_dispatched' = param_gather_dispatched
             /\ grad_reduce_handle' = grad_reduce_handle /\ main_grad' = main_grad
             /\ params' = params /\ issued' = issued
  <2>1. /\ pc[r] \in {"syncing", "forcing"} /\ Done(r, <<"param", index[r]>>)
        /\ pc' = [pc EXCEPT ![r] = (IF pc[r] = "syncing" THEN "sync" ELSE "force")]
        /\ index' = [index EXCEPT ![r] = index[r] + 1] /\ iteration' = iteration
        /\ start_iteration' = start_iteration /\ microbatch' = microbatch
        /\ todo' = todo /\ hooks' = hooks /\ is_last_microbatch' = is_last_microbatch
        /\ failed' = failed /\ params_with_grad' = params_with_grad
        /\ param_gather_handle' = param_gather_handle
        /\ param_gather_dispatched' = param_gather_dispatched
        /\ grad_reduce_handle' = grad_reduce_handle /\ main_grad' = main_grad
        /\ params' = params /\ issued' = issued /\ job' = job
    BY <1>1, <1>2, Zenon DEF ParamSynced, Goto, At, control, groupVars, gatherVars, loopVars
  <2>2. /\ (IF pc[r] = "syncing" THEN "sync" ELSE "force") \in Places
        /\ index[r] + 1 \in Nat \ {0}
    BY <1>1, Values, ZenonT(60) DEF TypeOK, Places, Stepped, Counted, Evaluating
  <2>3. TypeOK'
    BY <1>1, <1>2, <2>1, <2>2, Zenon DEF TypeOK
  <2>4. /\ \A q \in Ranks : q # r => Same(q)
        /\ pc'[r] = (IF pc[r] = "syncing" THEN "sync" ELSE "force")
        /\ index'[r] = index[r] + 1
    BY <1>1, <1>2, <2>1, <2>2, Zenon DEF TypeOK, Same
  <2>5. QED
    BY <2>1, <2>3, <2>4, Zenon DEF Alone
<1>3. ASSUME ~(index[r] < NumGroups)
      PROVE  /\ Alone(r)
             /\ pc'[r] = (IF pc[r] = "syncing" THEN "stepped" ELSE "evaluate")
             /\ index'[r] = 1
             /\ pc[r] \in {"syncing", "forcing"} /\ Done(r, <<"param", index[r]>>)
             /\ iteration' = iteration /\ start_iteration' = start_iteration
             /\ microbatch' = microbatch /\ todo' = todo /\ hooks' = hooks
             /\ is_last_microbatch' = is_last_microbatch /\ failed' = failed
             /\ params_with_grad' = params_with_grad
             /\ param_gather_handle' = param_gather_handle
             /\ param_gather_dispatched' = param_gather_dispatched
             /\ grad_reduce_handle' = grad_reduce_handle /\ main_grad' = main_grad
             /\ params' = params /\ issued' = issued
  <2>1. /\ pc[r] \in {"syncing", "forcing"} /\ Done(r, <<"param", index[r]>>)
        /\ pc' = [pc EXCEPT ![r] = (IF pc[r] = "syncing" THEN "stepped" ELSE "evaluate")]
        /\ index' = [index EXCEPT ![r] = 1] /\ iteration' = iteration
        /\ start_iteration' = start_iteration /\ microbatch' = microbatch
        /\ todo' = todo /\ hooks' = hooks /\ is_last_microbatch' = is_last_microbatch
        /\ failed' = failed /\ params_with_grad' = params_with_grad
        /\ param_gather_handle' = param_gather_handle
        /\ param_gather_dispatched' = param_gather_dispatched
        /\ grad_reduce_handle' = grad_reduce_handle /\ main_grad' = main_grad
        /\ params' = params /\ issued' = issued /\ job' = job
    BY <1>1, <1>3, Zenon DEF ParamSynced, Goto, At, control, groupVars, gatherVars, loopVars
  <2>2. /\ (IF pc[r] = "syncing" THEN "stepped" ELSE "evaluate") \in Places
        /\ 1 \in Nat \ {0}
    BY Values, ZenonT(60) DEF Places, Stepped, Counted, Evaluating
  <2>3. TypeOK'
    BY <1>1, <1>3, <2>1, <2>2, Zenon DEF TypeOK
  <2>4. /\ \A q \in Ranks : q # r => Same(q)
        /\ pc'[r] = (IF pc[r] = "syncing" THEN "stepped" ELSE "evaluate")
        /\ index'[r] = 1
    BY <1>1, <1>3, <2>1, <2>2, Zenon DEF TypeOK, Same
  <2>5. QED
    BY <2>1, <2>3, <2>4, Zenon DEF Alone
<1>4. /\ pc[r] \in {"syncing", "forcing"} /\ Done(r, <<"param", index[r]>>)
      /\ index[r] < NumGroups => /\ pc'[r] = (IF pc[r] = "syncing" THEN "sync" ELSE "force")
                                 /\ index'[r] = index[r] + 1
      /\ ~(index[r] < NumGroups) =>
           /\ pc'[r] = (IF pc[r] = "syncing" THEN "stepped" ELSE "evaluate")
           /\ index'[r] = 1
      /\ microbatch' = microbatch /\ todo' = todo /\ Alone(r) /\ job' = job /\ hooks' = hooks
      /\ iteration' = iteration /\ start_iteration' = start_iteration
      /\ params_with_grad' = params_with_grad /\ grad_reduce_handle' = grad_reduce_handle
      /\ main_grad' = main_grad /\ param_gather_handle' = param_gather_handle
      /\ param_gather_dispatched' = param_gather_dispatched /\ issued' = issued
  BY <1>1, <1>2, <1>3, ZenonT(60) DEF Alone
<1>5. index[r] \in Groups
  BY <1>1, <1>4, Zenon DEF Position, Loops
<1>6. pc'[r] \in {"sync", "force", "stepped", "evaluate"}
  BY <1>4, Zenon
<1>7. Hooked(r)'
  BY <1>1, <1>4, HookedKept, ZenonT(60) DEF RankInv, Counted, Evaluating
<1>8. LoopAdvance(index[r], index'[r])
  BY <1>4, <1>5, LoopOrder, Zenon
<1>9. Position(r)'
  <2>1. /\ todo[r] = {} /\ (pc[r] = "syncing" => UseDistributedOptimizer /\ ~OverlapParamGather)
        /\ pc[r] = "forcing" => use_forward_hook
    BY <1>1, <1>4, Zenon DEF Position
  <2>2. CASE index[r] < NumGroups
    <3>1. /\ pc'[r] = (IF pc[r] = "syncing" THEN "sync" ELSE "force") /\ index'[r] \in Groups
      BY <1>4, <1>8, <2>2, Zenon DEF LoopAdvance
    <3>2. QED
      BY <1>4, <2>1, <3>1, ZenonT(60)
         DEF Position, Loops, UseDistributedOptimizer, OverlapParamGather, use_forward_hook
  <2>3. CASE ~(index[r] < NumGroups)
    BY <1>4, <2>1, <2>3, ZenonT(60) DEF Position, Loops
  <2>4. QED
    BY <2>2, <2>3, Zenon
<1>10. ASSUME NEW h \in Groups PROVE GroupInv(r, h)'
  <2>1. GroupInv(r, h)
    BY <1>1, <1>10, Zenon DEF RankInv
  <2>2. Registered(r, h)' /\ ReduceHandle(r, h)' /\ Outstanding(r, h)'
    BY <1>4, <1>6, <2>1, ZenonT(60)
       DEF GroupInv, Registered, ReduceHandle, Outstanding, OverlapGradReduce, Collecting, Done
  <2>3. GatherHandle(r, h)' /\ Gathering(r, h)'
    BY <1>4, <1>6, <2>1, ZenonT(60) DEF GroupInv, Gathering, GatherHandle, Done
  <2>4. QED
    BY <2>2, <2>3, Zenon DEF GroupInv
<1>11. \A x \in Params : Buffer(r, x)'
  BY <1>1, <1>4, <1>6, ZenonT(60) DEF RankInv, Buffer, Done, Collecting
<1>12. Keeps(r)
  <2>1. failed' = failed /\ params' = params
    BY <1>1, <1>2, <1>3, Zenon
  <2>2. Calls(r)' = Calls(r) /\ pc'[r] # "failed"
    BY <1>4, <1>6, ZenonT(60) DEF Calls, Stepped, Counted, Evaluating
  <2>3. ASSUME NEW h \in Groups
        PROVE  /\ Reductions(r, h)' = Reductions(r, h) /\ (Due(r, h) => Due(r, h)')
               /\ Dispatched(r, h) => Dispatched(r, h)'
    <3>1. Reductions(r, h)' = Reductions(r, h)
      BY <1>4, <1>6, ZenonT(60) DEF Reductions, Reduced, Stepped, Counted, Evaluating
    <3>2. Dispatched(r, h) => Dispatched(r, h)'
      <4>1. CASE index[r] < NumGroups
        <5>1. /\ pc'[r] = (IF pc[r] = "syncing" THEN "sync" ELSE "force")
              /\ h < index'[r] <=> h <= index[r]
          BY <1>4, <1>8, <2>3, <4>1, Zenon DEF LoopAdvance
        <5>2. QED
          BY <1>4, <5>1, ZenonT(60) DEF Dispatched
      <4>2. CASE ~(index[r] < NumGroups)
        <5>1. /\ pc'[r] = (IF pc[r] = "syncing" THEN "stepped" ELSE "evaluate")
              /\ h <= index[r] /\ (pc[r] = "syncing" => ~use_forward_hook)
          BY <1>1, <1>4, <1>8, <2>3, <4>2, Zenon DEF Position, use_forward_hook, LoopAdvance
        <5>2. QED
          BY <1>4, <5>1, ZenonT(60) DEF Dispatched
      <4>3. QED
        BY <4>1, <4>2, Zenon
    <3>3. Begun(Calls(r))' <=> Begun(Calls(r))
      BY <1>4, <2>2, Zenon DEF Begun, skips
    <3>4. Gathered(r, h)' => Gathered(r, h)
      BY <1>4, Zenon DEF Gathered, Done
    <3>5. h > index[r] => index[r] < NumGroups /\ h >= index[r] + 1
      BY <1>1, <1>5, <2>3, GroupOrder, ZenonT(60)
    <3>6. Due(r, h) => Due(r, h)'
      BY <1>4, <3>3, <3>4, <3>5, Zenon DEF Due, UseDistributedOptimizer, OverlapParamGather
    <3>7. QED
      BY <3>1, <3>2, <3>6, Zenon
  <2>4. QED
    BY <2>1, <2>2, <2>3, Zenon DEF Keeps
<1>13. QED
  BY <1>12, <1>1, <1>4, <1>7, <1>9, <1>10, <1>11, Zenon DEF RankInv, Once

\* An iteration that is not skipped begins the successful steps.
LEMMA BegunNext ==
  ASSUME NEW n \in Nat
  PROVE  Begun(n + 1) <=> Begun(n) \/ n \notin skips
<1>1. \A j \in Int : j \in 0 .. (n + 1) - 1 <=> j \in 0 .. n - 1 \/ j = n
  OBVIOUS
<1>2. QED
  BY <1>1 DEF Begun

\* A rank that enables its forward hooks, if that is due.
LEMMA EnableInv ==
  ASSUME Inv, NEW r \in Ranks, EnableForwardPreHook(r)
  PROVE  /\ Alone(r) /\ RankInv(r)' /\ Keeps(r)
         /\ ~(FirstStep(r) /\ iteration[r] \notin skips /\ use_forward_hook /\ hooks[r])
<1>1. TypeOK /\ RankInv(r) /\ Position(r) /\ Hooked(r)
  BY Zenon DEF Inv, RankInv
<1>2. pc[r] = "stepped"
  BY Zenon DEF EnableForwardPreHook
<1>3. /\ Begun(iteration[r]) => start_iteration[r] < iteration[r]
      /\ ~Begun(iteration[r]) => start_iteration[r] = iteration[r]
      /\ hooks[r] <=> use_forward_hook /\ Begun(iteration[r])
  BY <1>1, <1>2, ZenonT(60) DEF Hooked, Ended, Counted, Evaluating
<1>4. FirstStep(r) <=> ~Begun(iteration[r])
  BY <1>1, <1>3, TypesAt DEF FirstStep
<1>5. ~(FirstStep(r) /\ iteration[r] \notin skips /\ use_forward_hook /\ hooks[r])
  BY <1>3, <1>4, Zenon
<1>6. /\ Alone(r)
      /\ pc'[r] = (IF iteration[r] \in evaluations THEN "disable" ELSE "next")
      /\ start_iteration'[r] = StartAfter(r) /\ (hooks'[r] <=> HooksAfter(r))
      /\ pc[r] = "stepped" /\ iteration' = iteration /\ microbatch' = microbatch
      /\ index' = index /\ todo' = todo
      /\ is_last_microbatch' = is_last_microbatch /\ failed' = failed
      /\ params_with_grad' = params_with_grad
      /\ param_gather_handle' = param_gather_handle
      /\ param_gather_dispatched' = param_gather_dispatched
      /\ grad_reduce_handle' = grad_reduce_handle /\ main_grad' = main_grad
      /\ params' = params /\ issued' = issued
  <2>1. /\ pc[r] = "stepped"
        /\ pc' = [pc EXCEPT ![r] = (IF iteration[r] \in evaluations THEN "disable" ELSE "next")]
        /\ start_iteration' = [start_iteration EXCEPT ![r] = StartAfter(r)]
        /\ hooks' = [hooks EXCEPT ![r] = HooksAfter(r)] /\ iteration' = iteration
        /\ microbatch' = microbatch /\ index' = index /\ todo' = todo
        /\ is_last_microbatch' = is_last_microbatch /\ failed' = failed
        /\ params_with_grad' = params_with_grad
        /\ param_gather_handle' = param_gather_handle
        /\ param_gather_dispatched' = param_gather_dispatched
        /\ grad_reduce_handle' = grad_reduce_handle /\ main_grad' = main_grad
        /\ params' = params /\ issued' = issued /\ job' = job
    BY <1>1, <1>5, Zenon
     DEF EnableForwardPreHook, Goto, At, StartAfter, HooksAfter, FirstStep, control,
         groupVars, gatherVars, loopVars
  <2>2. /\ (IF iteration[r] \in evaluations THEN "disable" ELSE "next") \in Places
        /\ StartAfter(r) \in Nat /\ HooksAfter(r) \in BOOLEAN
    BY <1>1, <1>5, Values, ZenonT(60)
       DEF Places, Collecting, Stepped, Counted, Evaluating, TypeOK, StartAfter, HooksAfter
  <2>3. TypeOK'
    BY <1>1, <1>5, <2>1, <2>2, Zenon DEF TypeOK
  <2>4. /\ \A q \in Ranks : q # r => Same(q)
        /\ pc'[r] = (IF iteration[r] \in evaluations THEN "disable" ELSE "next")
        /\ start_iteration'[r] = StartAfter(r) /\ (hooks'[r] <=> HooksAfter(r))
    BY <1>1, <1>5, <2>1, <2>2, Zenon DEF TypeOK, Same
  <2>5. QED
    BY <2>1, <2>3, <2>4, Zenon DEF Alone
<1>7. /\ Alone(r) /\ job' = job
      /\ pc'[r] = (IF iteration[r] \in evaluations THEN "disable" ELSE "next")
      /\ start_iteration'[r] = StartAfter(r) /\ (hooks'[r] <=> HooksAfter(r))
      /\ microbatch' = microbatch /\ todo' = todo /\ index' = index /\ iteration' = iteration
      /\ params_with_grad' = params_with_grad /\ grad_reduce_handle' = grad_reduce_handle
      /\ main_grad' = main_grad /\ param_gather_handle' = param_gather_handle
      /\ param_gather_dispatched' = param_gather_dispatched /\ issued' = issued
  BY <1>1, <1>5, <1>6, Zenon DEF Alone
<1>8. Hooked(r)'
  <2>1. Ended(r)' = iteration[r] + 1
    BY <1>7, Zenon DEF Ended, Counted
  <2>2. Begun(Ended(r))' <=> Begun(iteration[r] + 1)
    BY <1>7, <2>1, Zenon DEF Begun, skips
  <2>3. Begun(Ended(r))' <=> Begun(iteration[r]) \/ iteration[r] \notin skips
    BY <1>1, <2>2, TypesAt, BegunNext, Zenon
  <2>4. /\ Begun(iteration[r]) \/ iteration[r] \notin skips => start_iteration'[r] < iteration[r] + 1
        /\ ~(Begun(iteration[r]) \/ iteration[r] \notin skips)
           => start_iteration'[r] = iteration[r] + 1
    BY <1>1, <1>3, <1>4, <1>7, TypesAt DEF StartAfter
  <2>5. hooks'[r] <=> use_forward_hook /\ (Begun(iteration[r]) \/ iteration[r] \notin skips)
    BY <1>3, <1>4, <1>7, ZenonT(60) DEF HooksAfter
  <2>6. QED
    BY <1>7, <2>1, <2>3, <2>4, <2>5, ZenonT(60)
     DEF Hooked, Evaluating, evaluations, use_forward_hook, UseDistributedOptimizer,
         OverlapParamGather
<1>9. Position(r)'
  BY <1>1, <1>2, <1>7, ZenonT(60) DEF Position, Loops
<1>10. \A h \in Groups : GroupInv(r, h)'
  BY <1>1, <1>2, <1>7, ZenonT(60)
     DEF RankInv, GroupInv, Registered, ReduceHandle, Outstanding, GatherHandle, Gathering,
         Done, OverlapGradReduce, Collecting
<1>11. \A x \in Params : Buffer(r, x)'
  BY <1>1, <1>2, <1>7, ZenonT(60) DEF RankInv, Buffer, Done, Collecting
<1>12. Keeps(r)
  <2>1. /\ pc[r] = "stepped" /\ pc'[r] \in {"disable", "next"} /\ iteration' = iteration
        /\ param_gather_dispatched' = param_gather_dispatched /\ issued' = issued
        /\ failed' = failed /\ params' = params /\ job' = job
    BY <1>1, <1>2, <1>5, <1>7, <1>6, Zenon
  <2>2. Calls(r)' = Calls(r)
    BY <2>1, Zenon DEF Calls, Stepped, Counted, Evaluating
  <2>3. ASSUME NEW h \in Groups
        PROVE  /\ Reductions(r, h)' = Reductions(r, h) /\ (Gathered(r, h)' => Gathered(r, h))
               /\ Dispatched(r, h) => Dispatched(r, h)'
    BY <2>1, Zenon
       DEF Reductions, Reduced, Stepped, Counted, Evaluating, Collecting, Gathered, Done,
           Dispatched
  <2>4. QED
    BY <2>1, <2>2, <2>3, KeepsIf, Zenon
<1>13. QED
  BY <1>12, <1>1, <1>5, <1>7, <1>8, <1>9, <1>10, <1>11, Zenon DEF RankInv, Once

\* A rank that disables its forward hooks, before it evaluates.
LEMMA DisableInv ==
  ASSUME Inv, NEW r \in Ranks, DisableForwardPreHook(r)
  PROVE  Alone(r) /\ RankInv(r)' /\ (Supported(job) => Keeps(r))
<1>1. TypeOK /\ RankInv(r) /\ Position(r) /\ Hooked(r)
  BY Zenon DEF Inv, RankInv
<1>2. CASE use_forward_hook /\ ~hooks[r]
  <2>1. Fail(r) /\ pc[r] = "disable"
    BY <1>2, Zenon DEF DisableForwardPreHook
  <2>2. iteration[r] \in evaluations /\ ~Begun(iteration[r] + 1)
    BY <1>1, <1>2, <2>1, ZenonT(60) DEF Hooked, Ended, Counted, Evaluating
  <2>3. Supported(job) => \E i \in 0 .. iteration[r] : i \notin skips
    BY <1>2, <2>2, Zenon DEF Supported, use_forward_hook, UseDistributedOptimizer,
                             OverlapParamGather, evaluations, skips
  <2>4. 0 .. iteration[r] = 0 .. (iteration[r] + 1) - 1
    BY <1>1, TypesAt
  <2>5. ~Supported(job)
    BY <2>2, <2>3, <2>4, Zenon DEF Begun
  <2>6. QED
    BY <2>1, <2>5, FailInv, Zenon
<1>3. CASE ~(use_forward_hook /\ ~hooks[r])
  <2>1. /\ Alone(r)
        /\ pc'[r] = (IF use_forward_hook THEN "force" ELSE "evaluate")
        /\ ~hooks'[r]
        /\ pc[r] = "disable" /\ iteration' = iteration
        /\ start_iteration' = start_iteration /\ microbatch' = microbatch
        /\ index' = index /\ todo' = todo
        /\ is_last_microbatch' = is_last_microbatch /\ failed' = failed
        /\ params_with_grad' = params_with_grad
        /\ param_gather_handle' = param_gather_handle
        /\ param_gather_dispatched' = param_gather_dispatched
        /\ grad_reduce_handle' = grad_reduce_handle /\ main_grad' = main_grad
        /\ params' = params /\ issued' = issued
    <3>1. /\ pc[r] = "disable"
          /\ pc' = [pc EXCEPT ![r] = (IF use_forward_hook THEN "force" ELSE "evaluate")]
          /\ hooks' = [hooks EXCEPT ![r] = FALSE] /\ iteration' = iteration
          /\ start_iteration' = start_iteration /\ microbatch' = microbatch
          /\ index' = index /\ todo' = todo /\ is_last_microbatch' = is_last_microbatch
          /\ failed' = failed /\ params_with_grad' = params_with_grad
          /\ param_gather_handle' = param_gather_handle
          /\ param_gather_dispatched' = param_gather_dispatched
          /\ grad_reduce_handle' = grad_reduce_handle /\ main_grad' = main_grad
          /\ params' = params /\ issued' = issued /\ job' = job
      BY <1>1, <1>3, Zenon
       DEF DisableForwardPreHook, Goto, At, control, groupVars, gatherVars, loopVars
    <3>2. /\ (IF use_forward_hook THEN "force" ELSE "evaluate") \in Places
      BY <1>1, <1>3, Zenon DEF Places, Collecting, Stepped, Counted, Evaluating
    <3>3. TypeOK'
      BY <1>1, <1>3, <3>1, <3>2, Zenon DEF TypeOK
    <3>4. /\ \A q \in Ranks : q # r => Same(q)
          /\ pc'[r] = (IF use_forward_hook THEN "force" ELSE "evaluate") /\ ~hooks'[r]
      BY <1>1, <1>3, <3>1, <3>2, Zenon DEF TypeOK, Same
    <3>5. QED
      BY <3>1, <3>3, <3>4, Zenon DEF Alone
  <2>2. /\ pc[r] = "disable" /\ Alone(r) /\ job' = job
        /\ pc'[r] = (IF use_forward_hook THEN "force" ELSE "evaluate")
        /\ ~hooks'[r] /\ start_iteration' = start_iteration
        /\ microbatch' = microbatch /\ todo' = todo /\ index' = index /\ iteration' = iteration
        /\ params_with_grad' = params_with_grad /\ grad_reduce_handle' = grad_reduce_handle
        /\ main_grad' = main_grad /\ param_gather_handle' = param_gather_handle
        /\ param_gather_dispatched' = param_gather_dispatched /\ issued' = issued
    BY <1>1, <1>3, <2>1, Zenon DEF Alone
  <2>3. Hooked(r)'
    <3>1. Ended(r)' = Ended(r)
      BY <2>2, Zenon DEF Ended, Counted, Evaluating
    <3>2. Begun(Ended(r))' <=> Begun(Ended(r))
      BY <2>2, <3>1, Zenon DEF Begun, skips
    <3>3. use_forward_hook' <=> use_forward_hook
      BY <2>2, Zenon DEF use_forward_hook, UseDistributedOptimizer, OverlapParamGather
    <3>4. QED
      BY <1>1, <1>3, <2>2, <3>1, <3>2, <3>3, ZenonT(60) DEF Hooked, Evaluating, evaluations
  <2>4. Position(r)'
    BY <1>1, <2>2, GroupOrder, Values, ZenonT(60)
       DEF Position, Loops, use_forward_hook, UseDistributedOptimizer, OverlapParamGather
  <2>5. \A h \in Groups : GroupInv(r, h)'
    BY <1>1, <2>2, Zenon
       DEF RankInv, GroupInv, Registered, ReduceHandle, Outstanding, GatherHandle, Gathering,
           Done, OverlapGradReduce, Collecting
  <2>6. \A x \in Params : Buffer(r, x)'
    BY <1>1, <2>2, Zenon DEF RankInv, Buffer, Done, Collecting
  <2>7. Keeps(r)
    <3>1. /\ pc'[r] \in {"force", "evaluate"} /\ failed' = failed /\ params' = params
          /\ index'[r] = 1
      BY <1>1, <1>3, <2>2, <2>1, ZenonT(60) DEF Position, Loops
    <3>2. Calls(r)' = Calls(r)
      BY <2>2, <3>1, Zenon DEF Calls, Stepped, Counted, Evaluating
    <3>3. ASSUME NEW h \in Groups
          PROVE  /\ Reductions(r, h)' = Reductions(r, h) /\ (Gathered(r, h)' => Gathered(r, h))
                 /\ Dispatched(r, h) => Dispatched(r, h)'
      <4>1. ~(h < 1)
        BY <3>3, GroupOrder, ZenonT(60)
      <4>2. Dispatched(r, h)'
        BY <2>2, <3>1, <4>1, Zenon DEF Dispatched, use_forward_hook, UseDistributedOptimizer,
                                OverlapParamGather
      <4>3. QED
        BY <2>2, <3>1, <4>2, ZenonT(60)
         DEF Reductions, Reduced, Stepped, Counted, Evaluating, Gathered, Done
    <3>4. QED
      BY <2>2, <3>1, <3>2, <3>3, KeepsIf, ZenonT(60)
  <2>8. QED
    BY <1>1, <2>7, <2>2, <2>3, <2>4, <2>5, <2>6, Zenon DEF RankInv, Once
<1>4. QED
  BY <1>2, <1>3, Zenon

\* A rank that evaluates and enables its hooks again.
LEMMA EvaluateInv ==
  ASSUME Inv, NEW r \in Ranks, Evaluate(r)
  PROVE  Alone(r) /\ RankInv(r)' /\ Keeps(r)
<1>1. TypeOK /\ RankInv(r)
  BY Zenon DEF Inv
<1>2. /\ Alone(r)
      /\ pc'[r] = "next" /\ (hooks'[r] <=> use_forward_hook)
      /\ pc[r] = "evaluate" /\ iteration' = iteration
      /\ start_iteration' = start_iteration /\ microbatch' = microbatch
      /\ index' = index /\ todo' = todo
      /\ is_last_microbatch' = is_last_microbatch /\ failed' = failed
      /\ params_with_grad' = params_with_grad
      /\ param_gather_handle' = param_gather_handle
      /\ param_gather_dispatched' = param_gather_dispatched
      /\ grad_reduce_handle' = grad_reduce_handle /\ main_grad' = main_grad
      /\ params' = params /\ issued' = issued
  <2>1. /\ pc[r] = "evaluate" /\ pc' = [pc EXCEPT ![r] = "next"]
        /\ hooks' = [hooks EXCEPT ![r] = use_forward_hook] /\ iteration' = iteration
        /\ start_iteration' = start_iteration /\ microbatch' = microbatch
        /\ index' = index /\ todo' = todo /\ is_last_microbatch' = is_last_microbatch
        /\ failed' = failed /\ params_with_grad' = params_with_grad
        /\ param_gather_handle' = param_gather_handle
        /\ param_gather_dispatched' = param_gather_dispatched
        /\ grad_reduce_handle' = grad_reduce_handle /\ main_grad' = main_grad
        /\ params' = params /\ issued' = issued /\ job' = job
    BY <1>1, Zenon DEF Evaluate, Goto, At, control, groupVars, gatherVars, loopVars
  <2>2. /\ "next" \in Places /\ use_forward_hook \in BOOLEAN
    BY <1>1, Zenon DEF Places, Collecting, Stepped, Counted, Evaluating, use_forward_hook
  <2>3. TypeOK'
    BY <1>1, <2>1, <2>2, Zenon DEF TypeOK
  <2>4. /\ \A q \in Ranks : q # r => Same(q)
        /\ pc'[r] = "next" /\ (hooks'[r] <=> use_forward_hook)
    BY <1>1, <2>1, <2>2, Zenon DEF TypeOK, Same
  <2>5. QED
    BY <2>1, <2>3, <2>4, Zenon DEF Alone
<1>3. Once(r)' /\ Position(r)' /\ Hooked(r)'
  BY <1>1, <1>2, ZenonT(60) DEF TypeOK, RankInv, Once, Position, Hooked, Ended, Loops,
       Counted, Evaluating, Begun, OverlapGradReduce, OverlapParamGather,
       UseDistributedOptimizer, use_forward_hook, skips, evaluations, Alone
<1>4. \A h \in Groups : GroupInv(r, h)'
  BY <1>1, <1>2, ZenonT(60) DEF TypeOK, RankInv, GroupInv, Registered, ReduceHandle,
       Outstanding, GatherHandle, Gathering, Started, Done, Loops, Counted, Evaluating,
       Collecting, OverlapGradReduce, Alone
<1>5. \A x \in Params : Buffer(r, x)'
  BY <1>1, <1>2, ZenonT(60) DEF TypeOK, RankInv, Buffer, Done, Collecting, Alone
<1>6. Keeps(r)
  <2>1. /\ pc[r] = "evaluate" /\ pc'[r] = "next" /\ iteration' = iteration
        /\ param_gather_dispatched' = param_gather_dispatched /\ issued' = issued
        /\ failed' = failed /\ params' = params /\ job' = job
    BY <1>1, <1>2, Zenon DEF Alone
  <2>2. Calls(r)' = Calls(r)
    BY <2>1, Zenon DEF Calls, Stepped, Counted, Evaluating
  <2>3. ASSUME NEW h \in Groups
        PROVE  /\ Reductions(r, h)' = Reductions(r, h) /\ (Gathered(r, h)' => Gathered(r, h))
               /\ Dispatched(r, h) => Dispatched(r, h)'
    BY <2>1, Zenon
       DEF Reductions, Reduced, Stepped, Counted, Evaluating, Collecting, Gathered, Done,
           Dispatched
  <2>4. QED
    BY <2>1, <2>2, <2>3, KeepsIf, Zenon
<1>7. QED
  BY <1>6, <1>1, <1>2, <1>3, <1>4, <1>5, Zenon DEF RankInv

\* The next iteration begins.
LEMMA NextIterationInv ==
  ASSUME Inv, NEW r \in Ranks, NextIteration(r)
  PROVE  Alone(r) /\ RankInv(r)' /\ Keeps(r)
<1>1. TypeOK /\ RankInv(r)
  BY Zenon DEF Inv
<1>2. /\ Alone(r)
      /\ pc'[r] = (IF iteration[r] + 1 < MaxIterations THEN "zero" ELSE "done")
      /\ iteration'[r] = iteration[r] + 1
      /\ pc[r] = "next" /\ start_iteration' = start_iteration
      /\ microbatch' = microbatch /\ index' = index /\ todo' = todo
      /\ hooks' = hooks /\ is_last_microbatch' = is_last_microbatch
      /\ failed' = failed /\ params_with_grad' = params_with_grad
      /\ param_gather_handle' = param_gather_handle
      /\ param_gather_dispatched' = param_gather_dispatched
      /\ grad_reduce_handle' = grad_reduce_handle /\ main_grad' = main_grad
      /\ params' = params /\ issued' = issued
  <2>1. /\ pc[r] = "next"
        /\ pc' = [pc EXCEPT ![r] = (IF iteration[r] + 1 < MaxIterations THEN "zero" ELSE "done")]
        /\ iteration' = [iteration EXCEPT ![r] = iteration[r] + 1]
        /\ start_iteration' = start_iteration /\ microbatch' = microbatch
        /\ index' = index /\ todo' = todo /\ hooks' = hooks
        /\ is_last_microbatch' = is_last_microbatch /\ failed' = failed
        /\ params_with_grad' = params_with_grad
        /\ param_gather_handle' = param_gather_handle
        /\ param_gather_dispatched' = param_gather_dispatched
        /\ grad_reduce_handle' = grad_reduce_handle /\ main_grad' = main_grad
        /\ params' = params /\ issued' = issued /\ job' = job
    BY <1>1, Zenon DEF NextIteration, Goto, At, control, groupVars, gatherVars, loopVars
  <2>2. /\ (IF iteration[r] + 1 < MaxIterations THEN "zero" ELSE "done") \in Places
        /\ iteration[r] + 1 \in Nat
    BY <1>1, Values, ZenonT(60) DEF TypeOK, Places, Stepped, Counted, Evaluating
  <2>3. TypeOK'
    BY <1>1, <2>1, <2>2, Zenon DEF TypeOK
  <2>4. /\ \A q \in Ranks : q # r => Same(q)
        /\ pc'[r] = (IF iteration[r] + 1 < MaxIterations THEN "zero" ELSE "done")
        /\ iteration'[r] = iteration[r] + 1
    BY <1>1, <2>1, <2>2, Zenon DEF TypeOK, Same
  <2>5. QED
    BY <2>1, <2>3, <2>4, Zenon DEF Alone
<1>3. Once(r)' /\ Position(r)' /\ Hooked(r)'
  BY <1>1, <1>2, ZenonT(60) DEF TypeOK, RankInv, Once, Position, Hooked, Ended,
       Loops, Counted, Evaluating, Begun, OverlapGradReduce, OverlapParamGather,
       UseDistributedOptimizer, use_forward_hook, skips, evaluations, Alone
<1>4. \A h \in Groups : GroupInv(r, h)'
  BY <1>1, <1>2, Zenon DEF TypeOK, RankInv, GroupInv, Registered,
       ReduceHandle, Outstanding, GatherHandle, Gathering, Started, Done, Loops, Counted,
       Evaluating, Collecting, OverlapGradReduce, Alone
<1>5. \A x \in Params : Buffer(r, x)'
  BY <1>1, <1>2, Zenon DEF TypeOK, RankInv, Buffer, Done, Collecting, Alone
<1>6. Keeps(r)
  <2>1. /\ pc[r] = "next" /\ pc'[r] \in {"zero", "done"} /\ iteration'[r] = iteration[r] + 1
        /\ param_gather_dispatched' = param_gather_dispatched /\ issued' = issued
        /\ failed' = failed /\ params' = params /\ job' = job
    BY <1>1, <1>2, Zenon DEF Alone
  <2>2. Calls(r)' = Calls(r)
    BY <2>1, Zenon DEF Calls, Stepped, Counted, Evaluating
  <2>3. ASSUME NEW h \in Groups
        PROVE  /\ Reductions(r, h)' = Reductions(r, h) /\ (Gathered(r, h)' => Gathered(r, h))
               /\ Dispatched(r, h) => Dispatched(r, h)'
    BY <2>1, Zenon
       DEF Reductions, Reduced, Stepped, Counted, Evaluating, Collecting, Gathered, Done,
           Dispatched
  <2>4. QED
    BY <2>1, <2>2, <2>3, KeepsIf, Zenon
<1>7. QED
  BY <1>6, <1>1, <1>2, <1>3, <1>4, <1>5, Zenon DEF RankInv

\* The other ranks keep their part of the invariant.
LEMMA FrameInv ==
  ASSUME NEW q \in Ranks, Same(q), job' = job, RankInv(q)
  PROVE  RankInv(q)'
<1>1. Once(q)' /\ Position(q)'
  BY Zenon DEF RankInv, Once, Position, Same, OverlapGradReduce, UseDistributedOptimizer,
               OverlapParamGather, use_forward_hook
<1>2. Hooked(q)'
  <2>1. CASE pc[q] = "failed"
    BY <2>1, Zenon DEF Same, Hooked
  <2>2. CASE pc[q] # "failed"
    BY <2>2, HookedKept, Zenon DEF Same, RankInv
  <2>3. QED
    BY <2>1, <2>2, Zenon
<1>3. ASSUME NEW g \in Groups PROVE GroupInv(q, g)'
  <2>1. GroupInv(q, g)
    BY <1>3, Zenon DEF RankInv
  <2>2. Started(q, g)' <=> Started(q, g)
    BY Zenon DEF Started, Same, OverlapGradReduce
  <2>3. Registered(q, g)' /\ ReduceHandle(q, g)' /\ Outstanding(q, g)'
    BY <2>1, <2>2, Zenon
     DEF GroupInv, Registered, ReduceHandle, Outstanding, Done, Same, OverlapGradReduce
  <2>4. GatherHandle(q, g)' /\ Gathering(q, g)'
    BY <2>1, Zenon DEF GroupInv, GatherHandle, Gathering, Visited, Done, Same
  <2>5. QED
    BY <2>3, <2>4, Zenon DEF GroupInv
<1>4. ASSUME NEW x \in Params PROVE Buffer(q, x)'
  <2>1. Buffer(q, x)
    BY <1>4, Zenon DEF RankInv
  <2>2. /\ Started(q, GroupOf[x])' <=> Started(q, GroupOf[x])
        /\ Count(q, x)' = Count(q, x)
    BY Zenon DEF Started, Count, Same, OverlapGradReduce
  <2>3. QED
    BY <1>4, <2>1, <2>2, BufferKept, Zenon DEF Same, Done
<1>5. QED
  BY <1>1, <1>2, <1>3, <1>4, Zenon DEF RankInv

-----------------------------------------------------------------------------
(* The collectives.                                                        *)

\* What performing a collective changes.
LEMMA PerformEffect ==
  ASSUME Inv, NEW op \in Ops, Perform(op)
  PROVE  /\ issued' \in [Ranks -> Seq(Ops)]
         /\ \A r \in Ranks : /\ ~Done(r, op) /\ Once(r)'
                             /\ \A x \in Ops : Done(r, x)' <=> Done(r, x) \/ x = op
<1>1. SUFFICES ASSUME NEW r \in Ranks
               PROVE  /\ issued'[r] \in Seq(Ops) /\ ~Done(r, op) /\ Once(r)'
                      /\ \A x \in Ops : Done(r, x)' <=> Done(r, x) \/ x = op
  <2>1. /\ issued' = [r \in Ranks |-> issued'[r]]
        /\ \A r \in Ranks : issued'[r] \in Seq(Ops)
    BY <1>1, Zenon DEF Perform
  <2>2. issued' \in [Ranks -> Seq(Ops)]
    BY <2>1, Zenon
  <2>3. QED
    BY <1>1, <2>2, Zenon
<1>2. issued[r] \in Seq(Ops) /\ Distinct(issued[r])
  BY Zenon DEF Inv, TypeOK, RankInv, Once
<1>3. op \in Range(issued[r])
  <2>1. CASE ByName
    BY <2>1, Zenon DEF Perform, Matched, Done
  <2>2. CASE ~ByName
    <3>1. issued[r] # <<>> /\ Head(issued[r]) = op
      BY <2>2, Zenon DEF Perform, Matched
    <3>2. 1 \in DOMAIN issued[r] /\ issued[r][1] = op
      BY <1>2, <3>1
    <3>3. QED
      BY <3>2, Zenon DEF Range
  <2>3. QED
    BY <2>1, <2>2, Zenon
<1>4. issued'[r] = Without(issued[r], op)
  BY Zenon DEF Perform
<1>5. issued'[r] \in Seq(Ops) /\ Distinct(issued'[r]) /\ Range(issued'[r]) = Range(issued[r]) \ {op}
  BY <1>2, <1>3, <1>4, WithoutOnce, Zenon
<1>6. QED
  BY <1>3, <1>5, Zenon DEF Done, Once

\* A collective changes no rank's control state.
Still ==
  /\ pc' = pc /\ iteration' = iteration /\ microbatch' = microbatch /\ index' = index
  /\ todo' = todo /\ hooks' = hooks /\ start_iteration' = start_iteration
  /\ params_with_grad' = params_with_grad /\ is_last_microbatch' = is_last_microbatch
  /\ param_gather_handle' = param_gather_handle
  /\ param_gather_dispatched' = param_gather_dispatched
  /\ grad_reduce_handle' = grad_reduce_handle /\ failed' = failed /\ job' = job

\* What a collective preserves because it performs an operation and nothing else.
LEMMA StillInv ==
  ASSUME Still, NEW r \in Ranks, RankInv(r),
         \A h \in Groups : /\ Done(r, <<"grad", h>>) => Done(r, <<"grad", h>>)'
                           /\ Done(r, <<"param", h>>) => Done(r, <<"param", h>>)'
  PROVE  /\ Position(r)' /\ Hooked(r)'
         /\ \A h \in Groups : GroupInv(r, h)' /\ (Started(r, h)' <=> Started(r, h))
<1>1. Position(r)'
  BY Zenon DEF Still, RankInv, Position, OverlapGradReduce, UseDistributedOptimizer,
               OverlapParamGather, use_forward_hook
<1>2. Hooked(r)'
  <2>1. CASE pc[r] = "failed"
    BY <2>1, Zenon DEF Still, Hooked
  <2>2. CASE pc[r] # "failed"
    BY <2>2, HookedKept, Zenon DEF Still, RankInv
  <2>3. QED
    BY <2>1, <2>2, Zenon
<1>3. ASSUME NEW h \in Groups PROVE GroupInv(r, h)' /\ (Started(r, h)' <=> Started(r, h))
  <2>1. GroupInv(r, h)
    BY <1>3, Zenon DEF RankInv
  <2>2. Started(r, h)' <=> Started(r, h)
    BY Zenon DEF Still, Started, OverlapGradReduce
  <2>3. Registered(r, h)' /\ ReduceHandle(r, h)' /\ Outstanding(r, h)'
    BY <1>3, <2>1, <2>2, Zenon
       DEF Still, GroupInv, Registered, ReduceHandle, Outstanding, OverlapGradReduce
  <2>4. GatherHandle(r, h)' /\ Gathering(r, h)'
    BY <1>3, <2>1, Zenon DEF Still, GroupInv, GatherHandle, Gathering, Visited
  <2>5. QED
    BY <2>2, <2>3, <2>4, Zenon DEF GroupInv
<1>4. QED
  BY <1>1, <1>2, <1>3, Zenon

\* An all-gather changes parameters only.
LEMMA GatherInv ==
  ASSUME Inv, NEW g \in Groups, GatherParams(g)
  PROVE  /\ Inv' /\ Still /\ main_grad' = main_grad
         /\ \A r \in Ranks, h \in Groups :
              /\ Started(r, h)' <=> Started(r, h)
              /\ Done(r, <<"grad", h>>)' <=> Done(r, <<"grad", h>>)
              /\ Done(r, <<"param", h>>)' <=> Done(r, <<"param", h>>) \/ h = g
              /\ ~Done(r, <<"param", g>>)
<1>1. TypeOK
  BY Zenon DEF Inv
<1>2. /\ Still /\ main_grad' = main_grad /\ Perform(<<"param", g>>)
      /\ params' = [r \in Ranks |-> [params[r] EXCEPT ![g] =
                                       [q \in Ranks |-> params[q][g][q]]]]
  BY Zenon DEF GatherParams, Still, control, groupVars, gatherVars, loopVars
<1>3. \A h \in Groups : <<"grad", h>> \in Ops /\ <<"param", h>> \in Ops
  BY Zenon DEF Ops
<1>4. /\ issued' \in [Ranks -> Seq(Ops)]
      /\ \A r \in Ranks : /\ ~Done(r, <<"param", g>>) /\ Once(r)'
                          /\ \A x \in Ops : Done(r, x)' <=> Done(r, x) \/ x = <<"param", g>>
  BY <1>2, <1>3, PerformEffect, Zenon
<1>5. ASSUME NEW r \in Ranks, NEW h \in Groups
      PROVE  /\ Started(r, h)' <=> Started(r, h)
             /\ Done(r, <<"grad", h>>)' <=> Done(r, <<"grad", h>>)
             /\ Done(r, <<"param", h>>)' <=> Done(r, <<"param", h>>) \/ h = g
  <2>1. <<"grad", h>> # <<"param", g>> /\ (<<"param", h>> = <<"param", g>> <=> h = g)
    BY Zenon
  <2>2. QED
    BY <1>2, <1>3, <1>4, <1>5, <2>1, Zenon DEF Still, Started, OverlapGradReduce
<1>6. TypeOK'
  <2>1. params \in [Ranks -> [Groups -> [Ranks -> Nat]]]
    BY <1>1, Zenon DEF TypeOK
  <2>2. params' \in [Ranks -> [Groups -> [Ranks -> Nat]]]
    BY <1>2, <2>1
  <2>3. QED
    BY <1>1, <1>2, <1>4, <2>2, Zenon DEF Still, TypeOK
<1>7. ASSUME NEW r \in Ranks PROVE RankInv(r)'
  <2>1. RankInv(r)
    BY <1>7, Zenon DEF Inv
  <2>2. Position(r)' /\ Hooked(r)' /\ \A h \in Groups : GroupInv(r, h)'
    BY <1>2, <1>5, <1>7, <2>1, StillInv, Zenon
  <2>3. ASSUME NEW x \in Params PROVE Buffer(r, x)'
    <3>1. Buffer(r, x) /\ GroupOf[x] \in Groups
      BY <2>1, <2>3, Configuration, Zenon DEF RankInv
    <3>2. Count(r, x)' = Count(r, x)
      BY <1>2, Zenon DEF Still, Count
    <3>3. QED
      BY <1>2, <1>5, <1>7, <2>3, <3>1, <3>2, BufferKept, Zenon DEF Still
  <2>4. QED
    BY <1>4, <1>7, <2>2, <2>3, Zenon DEF RankInv
<1>8. QED
  BY <1>2, <1>4, <1>5, <1>6, <1>7, Zenon DEF Inv

\* The initial state satisfies the invariant.
LEMMA InitInv ==
  ASSUME Init
  PROVE  Inv
<1>1. TypeOK
  <2>1. "zero" \in Places /\ 1 \in 1 .. NumMicrobatches /\ <<>> \in Seq(Ops)
    BY Configuration DEF Places
  <2>2. QED
    BY <2>1 DEF Init, TypeOK
<1>2. ASSUME NEW r \in Ranks PROVE RankInv(r)
  <2>1. /\ pc[r] = "zero" /\ issued[r] = <<>> /\ todo[r] = {} /\ index[r] = 1 /\ ~hooks[r]
        /\ iteration[r] = 0 /\ start_iteration[r] = 0
        /\ \A g \in Groups : ~param_gather_handle[r][g] /\ ~grad_reduce_handle[r][g]
    BY <1>2, Zenon DEF Init
  <2>2. \A op : Done(r, op)
    BY <2>1 DEF Done, Range
  <2>3. Once(r)
    BY <2>1 DEF Once, Distinct
  <2>4. Position(r)
    BY <2>1, Zenon DEF Position, Loops
  <2>5. Hooked(r)
    BY <2>1 DEF Hooked, Ended, Begun, Counted, Evaluating
  <2>6. \A g \in Groups : GroupInv(r, g)
    BY <2>1, <2>2, Zenon
     DEF GroupInv, Registered, ReduceHandle, Outstanding, GatherHandle, Gathering
  <2>7. \A p \in Params : Buffer(r, p)
    BY <2>1, <2>2, Zenon DEF Buffer, Collecting
  <2>8. QED
    BY <2>3, <2>4, <2>5, <2>6, <2>7, Zenon DEF RankInv
<1>3. QED
  BY <1>1, <1>2, Zenon DEF Inv

(* How the sums and the steps are counted; CountingHolds, below, proves it. *)
Counting ==
  /\ \A p \in Params :
       (\A r \in Ranks : main_grad[r][p] = OwnGrad(r, NumMicrobatches)) => Sum(p) = FullGrad
  /\ StepsBefore(0) = 0
  /\ \A n \in Nat : /\ StepsBefore(n) \in Nat
                    /\ n \in skips => StepsBefore(n + 1) = StepsBefore(n)
                    /\ n \notin skips => StepsBefore(n + 1) = StepsBefore(n) + 1

\* A reduction leaves the sum of all ranks' gradients in every rank's buffers.
LEMMA ReduceInv ==
  ASSUME Inv, Counting, NEW g \in Groups, ReduceGradients(g)
  PROVE  /\ Inv' /\ Still /\ params' = params
         /\ \A r \in Ranks, h \in Groups : /\ Started(r, h)' <=> Started(r, h)
                                           /\ Done(r, <<"grad", h>>)' <=> Done(r, <<"grad", h>>) \/ h = g
                                           /\ Done(r, <<"param", h>>)' <=> Done(r, <<"param", h>>)
                                           /\ ~Done(r, <<"grad", g>>)
<1>1. TypeOK
  BY Zenon DEF Inv
<1>2. /\ Still /\ params' = params
      /\ Perform(<<"grad", g>>)
      /\ main_grad' = [r \in Ranks |-> [p \in Params |->
                         IF GroupOf[p] = g THEN Sum(p) ELSE main_grad[r][p]]]
  BY Zenon DEF ReduceGradients, Still, control, groupVars, gatherVars, loopVars
<1>3. \A h \in Groups : <<"grad", h>> \in Ops /\ <<"param", h>> \in Ops
  BY Zenon DEF Ops
<1>4. /\ issued' \in [Ranks -> Seq(Ops)]
      /\ \A r \in Ranks : /\ ~Done(r, <<"grad", g>>) /\ Once(r)'
                          /\ \A x \in Ops : Done(r, x)' <=> Done(r, x) \/ x = <<"grad", g>>
  BY <1>2, <1>3, PerformEffect, Zenon
<1>5. ASSUME NEW r \in Ranks, NEW h \in Groups
      PROVE  /\ Started(r, h)' <=> Started(r, h)
             /\ Done(r, <<"grad", h>>)' <=> Done(r, <<"grad", h>>) \/ h = g
             /\ Done(r, <<"param", h>>)' <=> Done(r, <<"param", h>>)
  <2>1. <<"param", h>> # <<"grad", g>> /\ (<<"grad", h>> = <<"grad", g>> <=> h = g)
    BY Zenon
  <2>2. QED
    BY <1>2, <1>3, <1>4, <1>5, <2>1, Zenon DEF Still, Started, OverlapGradReduce
<1>6. ASSUME NEW p \in Params, GroupOf[p] = g PROVE Sum(p) = FullGrad
  <2>1. \A r \in Ranks : main_grad[r][p] = OwnGrad(r, NumMicrobatches)
    BY <1>4, <1>6, Zenon DEF Inv, RankInv, Buffer
  <2>2. QED
    BY <1>6, <2>1, Zenon DEF Counting
<1>7. ASSUME NEW r \in Ranks, NEW p \in Params
      PROVE  main_grad'[r][p] = IF GroupOf[p] = g THEN FullGrad ELSE main_grad[r][p]
  BY <1>2, <1>6, <1>7, Zenon
<1>8. TypeOK'
  <2>1. main_grad' \in [Ranks -> [Params -> [Ranks -> Nat]]]
    <3>1. FullGrad \in [Ranks -> Nat] /\ main_grad \in [Ranks -> [Params -> [Ranks -> Nat]]]
      BY <1>1, Configuration, Zenon DEF FullGrad, TypeOK
    <3>2. main_grad' = [r \in Ranks |-> [p \in Params |->
                          IF GroupOf[p] = g THEN FullGrad ELSE main_grad[r][p]]]
      BY <1>2, <1>6, Zenon
    <3>3. QED
      BY <3>1, <3>2, Zenon
  <2>2. QED
    BY <1>1, <1>2, <1>4, <2>1, Zenon DEF Still, TypeOK
<1>9. ASSUME NEW r \in Ranks PROVE RankInv(r)'
  <2>1. RankInv(r)
    BY <1>9, Zenon DEF Inv
  <2>2. Position(r)' /\ Hooked(r)' /\ \A h \in Groups : GroupInv(r, h)'
    BY <1>2, <1>5, <1>9, <2>1, StillInv, Zenon
  <2>3. ASSUME NEW x \in Params PROVE Buffer(r, x)'
    <3>1. Buffer(r, x) /\ GroupOf[x] \in Groups
      BY <2>1, <2>3, Configuration, Zenon DEF RankInv
    <3>2. CASE GroupOf[x] = g
      <4>1. pc[r] \in Collecting => Started(r, g)
        BY <1>4, <1>9, <2>1, ZenonT(60) DEF RankInv, GroupInv, Outstanding, Collecting
      <4>2. QED
        BY <1>2, <1>5, <1>7, <1>9, <2>3, <3>2, <4>1, Zenon DEF Still, Buffer, FullGrad
    <3>3. CASE GroupOf[x] # g
      <4>1. Count(r, x)' = Count(r, x)
        BY <1>2, Zenon DEF Still, Count
      <4>2. QED
        BY <1>2, <1>5, <1>7, <1>9, <2>3, <3>1, <3>3, <4>1, BufferKept, Zenon DEF Still
    <3>4. QED
      BY <3>2, <3>3, Zenon
  <2>4. QED
    BY <1>4, <1>9, <2>2, <2>3, Zenon DEF RankInv
<1>10. QED
  BY <1>2, <1>4, <1>5, <1>8, <1>9, Zenon DEF Inv

\* A rank's step preserves its own part of the invariant.
LEMMA RankStepInv ==
  ASSUME Inv, NEW r \in Ranks, RankNext(r)
  PROVE  Alone(r) /\ RankInv(r)' /\ (Supported(job) => Keeps(r) \/ OptimizerStep(r))
<1>1. CASE ForwardModuleUnhooked(r)
  BY <1>1, ForwardNextInv, ForwardLastInv, Zenon
<1>2. CASE \E p \in Params : BackwardHook(r, p)
  BY <1>2, BackwardInv, Zenon
<1>3. CASE ZeroGradBuffer(r) \/ DispatchParamSync(r) \/ ForwardModuleGathered(r)
  BY <1>3, ZeroInv, DispatchInv, GatheredInv, Zenon
<1>4. CASE FinishByStarting(r) \/ FinishStarted(r) \/ FinishGradSync(r) \/ OptimizerStep(r)
  BY <1>4, FinishByStartingInv, FinishStartedInv, FinishGradSyncInv, OptimizerInv, Zenon
<1>5. CASE StartParamSync(r) \/ ParamSynced(r) \/ EnableForwardPreHook(r)
  BY <1>5, StartParamSyncInv, ParamSyncedInv, EnableInv, Zenon
<1>6. CASE DisableForwardPreHook(r) \/ Evaluate(r) \/ NextIteration(r)
  BY <1>6, DisableInv, EvaluateInv, NextIterationInv, Zenon
<1>7. QED
  BY <1>1, <1>2, <1>3, <1>4, <1>5, <1>6, Zenon DEF RankNext

\* Every step preserves the invariant.
LEMMA NextInv ==
  ASSUME Inv, Counting, [Next]_vars
  PROVE  Inv'
<1>1. CASE \E r \in Ranks : RankNext(r)
  <2>1. PICK r \in Ranks : RankNext(r)
    BY <1>1, Zenon
  <2>2. Alone(r) /\ RankInv(r)'
    BY <2>1, RankStepInv, Zenon
  <2>3. ASSUME NEW q \in Ranks, q # r PROVE RankInv(q)'
    BY <2>2, <2>3, FrameInv, Zenon DEF Alone, Inv
  <2>4. QED
    BY <2>2, <2>3, Zenon DEF Inv, Alone
<1>2. CASE CollectiveNext
  BY <1>2, ReduceInv, GatherInv, Zenon DEF CollectiveNext
<1>3. CASE UNCHANGED vars
  <2>1. TypeOK'
    BY <1>3, Zenon DEF Inv, TypeOK, vars, control, groupVars, gatherVars, loopVars
  <2>2. job' = job /\ \A q \in Ranks : Same(q)
    BY <1>3, Zenon DEF vars, control, groupVars, gatherVars, loopVars, Same
  <2>3. QED
    BY <2>1, <2>2, FrameInv, Zenon DEF Inv
<1>4. QED
  BY <1>1, <1>2, <1>3, Zenon DEF Next

-----------------------------------------------------------------------------
(* Steps and gathers of the parameters, in the jobs the code supports.     *)

\* A step that leaves parameters and gathers alone keeps the shards as they are.
LEMMA ShardsKept ==
  ASSUME NEW r \in Ranks, NEW h \in Groups, job' = job, params'[r] = params[r],
         Calls(r)' = Calls(r), Due(r, h) => Due(r, h)', Shards(r, h)
  PROVE  Shards(r, h)'
<1>1. StepsBefore(Calls(r))' = StepsBefore(Calls(r))
  BY Zenon DEF StepsBefore, skips
<1>2. QED
  BY <1>1, Zenon DEF Shards, Fresh

\* A step of one rank leaves another rank's shards alone.
LEMMA FrameData ==
  ASSUME NEW q \in Ranks, Same(q), job' = job, NEW h \in Groups,
         Dispatched(q, h), Shards(q, h)
  PROVE  Dispatched(q, h)' /\ Shards(q, h)' /\ Reductions(q, h)' = Reductions(q, h)
<1>1. Dispatched(q, h)'
  BY Zenon DEF Dispatched, Same, use_forward_hook, UseDistributedOptimizer, OverlapParamGather
<1>2. Calls(q)' = Calls(q) /\ Reductions(q, h)' = Reductions(q, h)
  BY Zenon DEF Calls, Reductions, Reduced, Started, Done, Same, OverlapGradReduce
<1>3. Begun(Calls(q))' <=> Begun(Calls(q))
  BY <1>2, Zenon DEF Begun, skips
<1>4. Due(q, h) => Due(q, h)'
  BY <1>3, Zenon DEF Due, Gathered, Done, Same, UseDistributedOptimizer, OverlapParamGather
<1>5. QED
  BY <1>1, <1>2, <1>4, ShardsKept, Zenon DEF Same

\* The optimizer updates its own shard, and makes the gathers due.
LEMMA OptimizerData ==
  ASSUME Inv, Counting, NEW r \in Ranks, OptimizerStep(r), NEW h \in Groups,
         Dispatched(r, h), Shards(r, h)
  PROVE  /\ failed' = failed /\ pc'[r] # "failed"
         /\ Dispatched(r, h)' /\ Shards(r, h)' /\ Reductions(r, h)' = Reductions(r, h)
<1>1. TypeOK /\ RankInv(r)
  BY Zenon DEF Inv
<1>2. /\ pc[r] = "step" /\ pc'[r] = (IF iteration[r] \in skips THEN "stepped" ELSE AfterStep)
      /\ index' = index /\ iteration' = iteration
      /\ param_gather_dispatched' = param_gather_dispatched /\ issued' = issued
      /\ failed' = failed /\ job' = job
      /\ iteration[r] \in skips => params' = params
      /\ iteration[r] \notin skips => params'[r] = Advanced(r)
  BY <1>1, OptimizerInv, Zenon DEF Alone
<1>3. /\ pc'[r] \in {"sync", "stepped"}
      /\ pc'[r] = "sync" <=> /\ UseDistributedOptimizer /\ ~OverlapParamGather
                           /\ iteration[r] \notin skips
  BY <1>2, Zenon DEF AfterStep
<1>4. index'[r] = 1 /\ iteration[r] \in Nat /\ h >= index'[r]
  <2>1. index[r] = 1 /\ iteration[r] \in Nat
    BY <1>1, <1>2, TypesAt, Zenon DEF RankInv, Position, Loops
  <2>2. h >= 1
    BY GroupOrder, Zenon
  <2>3. QED
    BY <1>2, <2>1, <2>2, Zenon
<1>5. Calls(r) = iteration[r] /\ Calls(r)' = iteration[r] + 1
  BY <1>2, <1>3, Zenon DEF Calls, Stepped, Counted, Evaluating
<1>6. Dispatched(r, h)' /\ Reductions(r, h)' = Reductions(r, h)
  <2>1. GroupInv(r, h)
    BY <1>1, Zenon DEF RankInv
  <2>2. Started(r, h)
    BY <1>2, <2>1, Zenon DEF GroupInv, Registered, Started
  <2>3. Done(r, <<"grad", h>>)
    BY <1>2, <2>1, ZenonT(60) DEF GroupInv, Outstanding, Collecting
  <2>4. Reductions(r, h) = iteration[r] + 1 /\ Reductions(r, h)' = iteration[r] + 1
    BY <1>2, <1>3, <2>2, <2>3, ZenonT(60) DEF Reductions, Reduced, Stepped, Collecting
  <2>5. QED
    BY <1>3, <2>4, Zenon DEF Dispatched
<1>7. /\ StepsBefore(Calls(r))' = StepsBefore(iteration[r] + 1)
      /\ Begun(Calls(r))' <=> Begun(iteration[r] + 1)
  BY <1>2, <1>5, Zenon DEF StepsBefore, Begun, skips
<1>8. ~param_gather_dispatched[r][h]
  BY <1>2, Zenon DEF Dispatched
<1>9. (iteration[r] \notin skips \/ Due(r, h)) /\ UseDistributedOptimizer => Due(r, h)'
  <2>1. iteration[r] \notin skips \/ Begun(iteration[r]) => Begun(Calls(r))'
    BY <1>4, <1>7, BegunNext, Zenon
  <2>2. OverlapParamGather /\ Due(r, h) => Begun(iteration[r])
    BY <1>5, Zenon DEF Due
  <2>3. ~OverlapParamGather => ~Due(r, h)
    BY <1>2, Zenon DEF Due
  <2>4. QED
    BY <1>2, <1>3, <1>4, <1>8, <2>1, <2>2, <2>3, Zenon
       DEF Due, Gathered, UseDistributedOptimizer, OverlapParamGather
<1>10. Due(r, h) => UseDistributedOptimizer
  BY Zenon DEF Due
<1>11. /\ params[r][h] \in [Ranks -> Nat] /\ StepsBefore(iteration[r]) \in Nat
       /\ params[r][h][r] = StepsBefore(iteration[r])
       /\ params[r][h] = [q \in Ranks |-> StepsBefore(iteration[r])] \/ Due(r, h)
  <2>1. params[r][h] \in [Ranks -> Nat]
    BY <1>1, Zenon DEF TypeOK
  <2>2. StepsBefore(iteration[r]) \in Nat
    BY <1>4, Zenon DEF Counting
  <2>3. QED
    BY <1>5, <2>1, <2>2, Zenon DEF Shards, Fresh
<1>12. CASE iteration[r] \in skips
  <2>1. StepsBefore(Calls(r))' = StepsBefore(iteration[r])
    BY <1>4, <1>7, <1>12, Zenon DEF Counting
  <2>2. QED
    BY <1>2, <1>6, <1>9, <1>10, <1>11, <1>12, <1>3, <2>1, Zenon DEF Shards, Fresh
<1>13. CASE iteration[r] \notin skips
  <2>1. StepsBefore(Calls(r))' = StepsBefore(iteration[r]) + 1
    BY <1>4, <1>7, <1>13, Zenon DEF Counting
  <2>2. params'[r][h] = [q \in Ranks |-> IF UseDistributedOptimizer /\ q # r
                                          THEN params[r][h][q] ELSE params[r][h][q] + 1]
    BY <1>2, <1>13, Zenon DEF Advanced
  <2>3. params'[r][h][r] = StepsBefore(Calls(r))'
    BY <1>11, <2>1, <2>2, ZenonT(60)
  <2>4. UseDistributedOptimizer => Due(r, h)'
    BY <1>9, <1>13, Zenon
  <2>5. ~UseDistributedOptimizer =>
          params'[r][h] = [q \in Ranks |-> StepsBefore(iteration[r]) + 1]
    BY <1>10, <1>11, <2>2, ZenonT(60)
  <2>6. QED
    BY <1>2, <1>3, <1>6, <2>1, <2>3, <2>4, <2>5, Zenon DEF Shards, Fresh
<1>14. QED
  BY <1>12, <1>13, Zenon

\* Between the reduction and the next, a rank that waits for a gather has called
\* the optimizer as often as it has reduced.
LEMMA CallsWhileGathering ==
  ASSUME Inv, NEW r \in Ranks, pc[r] # "failed", NEW g \in Groups, ~Done(r, <<"param", g>>)
  PROVE  Calls(r) = Reductions(r, g)
<1>1. GroupInv(r, g)
  BY Zenon DEF Inv, RankInv
<1>2. pc[r] \in {"forward", "syncing", "forcing"}
  BY <1>1, Zenon DEF GroupInv, Gathering
<1>3. CASE pc[r] = "forward"
  <2>1. ~Started(r, g)
    BY <1>1, <1>3, ConfigAssumption, ZenonT(60) DEF GroupInv, Registered, Started
  <2>2. QED
    BY <1>3, <2>1, ZenonT(60) DEF Calls, Reductions, Reduced, Stepped, Counted, Evaluating
<1>4. CASE pc[r] # "forward"
  BY <1>2, <1>4, Zenon DEF Calls, Reductions, Reduced, Stepped, Counted, Evaluating
<1>5. QED
  BY <1>3, <1>4, Zenon

\* A gather brings every rank's shard up to date.
LEMMA GatherData ==
  ASSUME DataInv, NEW g \in Groups, GatherParams(g)
  PROVE  DataInv'
<1>1. Inv /\ TypeOK
  BY Zenon DEF DataInv, Inv
<1>2. /\ Inv' /\ Still
      /\ \A r \in Ranks, h \in Groups :
           /\ Started(r, h)' <=> Started(r, h)
           /\ Done(r, <<"grad", h>>)' <=> Done(r, <<"grad", h>>)
           /\ Done(r, <<"param", h>>)' <=> Done(r, <<"param", h>>) \/ h = g
           /\ ~Done(r, <<"param", g>>)
  BY <1>1, GatherInv, Zenon
<1>3. params' = [r \in Ranks |-> [params[r] EXCEPT ![g] = [q \in Ranks |-> params[q][g][q]]]]
  BY Zenon DEF GatherParams
<1>4. ASSUME NEW r \in Ranks, NEW h \in Groups
      PROVE  Calls(r)' = Calls(r) /\ Reductions(r, h)' = Reductions(r, h) /\ Dispatched(r, h)'
  <2>1. Reduced(r, h)' <=> Reduced(r, h)
    BY <1>2, <1>4, Zenon DEF Reduced, Still
  <2>2. Dispatched(r, h)
    BY <1>4, Zenon DEF DataInv
  <2>3. QED
    BY <1>2, <2>1, <2>2, Zenon DEF Still, Calls, Reductions, Dispatched, use_forward_hook,
                                   UseDistributedOptimizer, OverlapParamGather
<1>5. ASSUME NEW r \in Ranks, NEW q \in Ranks PROVE Calls(q) = Calls(r)
  <2>1. /\ Reductions(q, g) = Reductions(r, g) /\ pc[q] # "failed" /\ pc[r] # "failed"
        /\ ~Done(q, <<"param", g>>) /\ ~Done(r, <<"param", g>>)
    BY <1>2, <1>5, Zenon DEF DataInv
  <2>2. QED
    BY <1>1, <1>5, <2>1, CallsWhileGathering, Zenon
<1>6. ASSUME NEW r \in Ranks PROVE Shards(r, g)'
  <2>1. params'[r][g] = [q \in Ranks |-> params[q][g][q]]
    <3>1. params[r] \in [Groups -> [Ranks -> Nat]]
      BY <1>1, <1>6, Zenon DEF TypeOK
    <3>2. QED
      BY <1>3, <1>6, <3>1, ZenonT(60)
  <2>2. \A q \in Ranks : params[q][g][q] = StepsBefore(Calls(r))
    BY <1>5, <1>6, Zenon DEF DataInv, Shards
  <2>3. StepsBefore(Calls(r))' = StepsBefore(Calls(r))
    BY <1>2, <1>4, <1>6, Zenon DEF Still, StepsBefore, skips
  <2>4. params'[r][g] = [q \in Ranks |-> StepsBefore(Calls(r))']
    BY <2>1, <2>2, <2>3, Zenon
  <2>5. QED
    BY <1>6, <2>4, Zenon DEF Shards, Fresh
<1>7. ASSUME NEW r \in Ranks, NEW h \in Groups, h # g PROVE Shards(r, h)'
  <2>1. params'[r][h] = params[r][h]
    <3>1. params[r] \in [Groups -> [Ranks -> Nat]]
      BY <1>1, <1>7, Zenon DEF TypeOK
    <3>2. QED
      BY <1>3, <1>7, <3>1, ZenonT(60)
  <2>2. Shards(r, h) /\ (Done(r, <<"param", h>>)' <=> Done(r, <<"param", h>>))
    BY <1>2, <1>7, Zenon DEF DataInv
  <2>3. /\ StepsBefore(Calls(r))' = StepsBefore(Calls(r))
        /\ Begun(Calls(r))' <=> Begun(Calls(r))
    BY <1>2, <1>4, <1>7, Zenon DEF Still, StepsBefore, Begun, skips
  <2>4. Due(r, h) => Due(r, h)'
    BY <1>2, <2>2, <2>3, Zenon DEF Still, Due, Gathered, UseDistributedOptimizer,
                                   OverlapParamGather
  <2>5. QED
    BY <2>1, <2>2, <2>3, <2>4, Zenon DEF Shards, Fresh
<1>8. /\ AssertionsHold' /\ \A r \in Ranks : pc'[r] # "failed"
      /\ \A r, q \in Ranks, h \in Groups : Reductions(r, h)' = Reductions(q, h)'
  <2>1. AssertionsHold' /\ \A r \in Ranks : pc'[r] # "failed"
    BY <1>2, Zenon DEF Still, DataInv, AssertionsHold
  <2>2. ASSUME NEW r \in Ranks, NEW q \in Ranks, NEW h \in Groups
        PROVE  Reductions(r, h)' = Reductions(q, h)'
    <3>1. Reductions(r, h) = Reductions(q, h)
      BY <2>2, Zenon DEF DataInv
    <3>2. QED
      BY <1>4, <2>2, <3>1, Zenon
  <2>3. QED
    BY <2>1, <2>2, Zenon
<1>9. \A r \in Ranks, h \in Groups : Dispatched(r, h)' /\ Shards(r, h)'
  BY <1>4, <1>6, <1>7, Zenon
<1>10. QED
  BY <1>2, <1>8, <1>9, Zenon DEF DataInv

\* A reduction is counted on every rank at once.
LEMMA ReduceData ==
  ASSUME DataInv, Counting, NEW g \in Groups, ReduceGradients(g)
  PROVE  DataInv'
<1>1. Inv /\ TypeOK
  BY Zenon DEF DataInv, Inv
<1>2. /\ Inv' /\ Still /\ params' = params
      /\ \A r \in Ranks, h \in Groups :
           /\ Started(r, h)' <=> Started(r, h)
           /\ Done(r, <<"grad", h>>)' <=> Done(r, <<"grad", h>>) \/ h = g
           /\ Done(r, <<"param", h>>)' <=> Done(r, <<"param", h>>)
           /\ ~Done(r, <<"grad", g>>)
  BY <1>1, ReduceInv, Zenon
<1>3. ASSUME NEW r \in Ranks
      PROVE  /\ Reductions(r, g) = iteration[r] /\ Reductions(r, g)' = iteration[r] + 1
             /\ \A h \in Groups : h # g => Reductions(r, h)' = Reductions(r, h)
  <2>1. Outstanding(r, g) /\ pc[r] # "failed" /\ ~Done(r, <<"grad", g>>)
    BY <1>1, <1>2, <1>3, Zenon DEF DataInv, Inv, RankInv, GroupInv
  <2>2. pc[r] \in Collecting \ {"step"} /\ Started(r, g)
    BY <2>1, Zenon DEF Outstanding
  <2>3. pc[r] \notin Stepped
    BY <2>2, Zenon DEF Collecting, Stepped, Counted, Evaluating
  <2>4. /\ ~Reduced(r, g) /\ Reduced(r, g)'
        /\ \A h \in Groups : h # g => (Reduced(r, h)' <=> Reduced(r, h))
    BY <1>2, <1>3, <2>1, <2>2, <2>3, Zenon DEF Still, Reduced
  <2>5. QED
    BY <1>2, <2>4, Zenon DEF Still, Reductions
<1>4. ASSUME NEW r \in Ranks, NEW q \in Ranks, NEW h \in Groups
      PROVE  Reductions(r, h)' = Reductions(q, h)'
  <2>1. Reductions(r, h) = Reductions(q, h) /\ Reductions(r, g) = Reductions(q, g)
    BY <1>4, Zenon DEF DataInv
  <2>2. QED
    BY <1>3, <1>4, <2>1, Zenon
<1>5. ASSUME NEW r \in Ranks, NEW h \in Groups PROVE Dispatched(r, h)' /\ Shards(r, h)'
  <2>1. Dispatched(r, h) /\ Shards(r, h)
    BY <1>5, Zenon DEF DataInv
  <2>2. Dispatched(r, h)' /\ Calls(r)' = Calls(r)
    BY <1>2, <2>1, Zenon DEF Still, Dispatched, Calls, use_forward_hook,
                             UseDistributedOptimizer, OverlapParamGather
  <2>3. Begun(Calls(r))' <=> Begun(Calls(r))
    BY <1>2, <2>2, Zenon DEF Still, Begun, skips
  <2>4. Due(r, h) => Due(r, h)'
    BY <1>2, <1>5, <2>3, Zenon DEF Still, Due, Gathered, UseDistributedOptimizer,
                                   OverlapParamGather
  <2>5. QED
    BY <1>2, <1>5, <2>1, <2>2, <2>4, ShardsKept, Zenon DEF Still
<1>6. AssertionsHold' /\ \A r \in Ranks : pc'[r] # "failed"
  BY <1>2, Zenon DEF Still, DataInv, AssertionsHold
<1>7. QED
  BY <1>2, <1>4, <1>5, <1>6, Zenon DEF DataInv

\* A rank's step keeps the shards in order.
LEMMA RankData ==
  ASSUME DataInv, Counting, Supported(job), NEW r \in Ranks, RankNext(r), Inv'
  PROVE  DataInv'
<1>1. Alone(r) /\ (Keeps(r) \/ OptimizerStep(r)) /\ Inv /\ job' = job
  BY RankStepInv, Zenon DEF DataInv, Alone
<1>2. ASSUME NEW h \in Groups
      PROVE  /\ failed' = failed /\ pc'[r] # "failed"
             /\ Dispatched(r, h)' /\ Shards(r, h)' /\ Reductions(r, h)' = Reductions(r, h)
  <2>1. Dispatched(r, h) /\ Shards(r, h)
    BY <1>2, Zenon DEF DataInv
  <2>2. CASE Keeps(r)
    BY <1>1, <1>2, <2>1, <2>2, ShardsKept, Zenon DEF Keeps
  <2>3. CASE OptimizerStep(r)
    BY <1>1, <1>2, <2>1, <2>3, OptimizerData, Zenon
  <2>4. QED
    BY <1>1, <2>2, <2>3, Zenon
<1>3. ASSUME NEW q \in Ranks, q # r, NEW h \in Groups
      PROVE  Dispatched(q, h)' /\ Shards(q, h)' /\ Reductions(q, h)' = Reductions(q, h)
  BY <1>1, <1>3, FrameData, Zenon DEF DataInv, Alone
<1>4. failed' = failed /\ pc'[r] # "failed"
  <2>1. 1 \in Groups
    BY Values, Zenon
  <2>2. QED
    BY <1>2, <2>1, Zenon
<1>5. \A q \in Ranks : pc'[q] # "failed"
  BY <1>1, <1>4, Zenon DEF DataInv, Alone, Same
<1>6. \A q \in Ranks, h \in Groups :
        Dispatched(q, h)' /\ Shards(q, h)' /\ Reductions(q, h)' = Reductions(q, h)
  BY <1>2, <1>3, Zenon
<1>7. AssertionsHold'
  BY <1>4, Zenon DEF DataInv, AssertionsHold
<1>8. ASSUME NEW p \in Ranks, NEW q \in Ranks, NEW h \in Groups
      PROVE  Reductions(p, h)' = Reductions(q, h)'
  <2>1. Reductions(p, h) = Reductions(q, h)
    BY <1>8, Zenon DEF DataInv
  <2>2. QED
    BY <1>6, <1>8, <2>1, Zenon
<1>9. QED
  BY <1>5, <1>6, <1>7, <1>8, Zenon DEF DataInv

\* Initially no step has been made and no gather is due.
LEMMA InitData ==
  ASSUME Init, Counting
  PROVE  DataInv
<1>1. Inv
  BY InitInv, Zenon
<1>2. ASSUME NEW r \in Ranks, NEW g \in Groups
      PROVE  /\ pc[r] = "zero" /\ iteration[r] = 0 /\ ~failed[r]
             /\ params[r][g] = [q \in Ranks |-> 0]
  BY <1>2, ZenonT(60) DEF Init
<1>3. StepsBefore(0) = 0
  BY Zenon DEF Counting
<1>4. 1 \in Groups
  BY Values, Zenon
<1>5. ASSUME NEW r \in Ranks, NEW g \in Groups
      PROVE  Dispatched(r, g) /\ Shards(r, g) /\ Reductions(r, g) = 0
  <2>1. Calls(r) = 0 /\ Reductions(r, g) = 0 /\ Dispatched(r, g)
    BY <1>2, <1>5, Zenon
     DEF Calls, Reductions, Reduced, Dispatched, Stepped, Counted, Evaluating,
                      Collecting
  <2>2. QED
    BY <1>2, <1>3, <1>5, <2>1, ZenonT(60) DEF Shards, Fresh
<1>6. QED
  BY <1>1, <1>2, <1>4, <1>5, Zenon DEF DataInv, AssertionsHold

\* Every step of a supported job preserves the invariant of the shards.
LEMMA NextData ==
  ASSUME \A j \in Jobs : Supported(j), DataInv, Counting, [Next]_vars
  PROVE  DataInv'
<1>1. Inv /\ Supported(job)
  BY Zenon DEF DataInv, Inv, TypeOK
<1>2. Inv'
  BY <1>1, NextInv, Zenon
<1>3. CASE \E r \in Ranks : RankNext(r)
  BY <1>1, <1>2, <1>3, RankData, Zenon
<1>4. CASE CollectiveNext
  BY <1>4, ReduceData, GatherData, Zenon DEF CollectiveNext
<1>5. CASE UNCHANGED vars
  <2>1. job' = job /\ \A q \in Ranks : Same(q)
    BY <1>5, Zenon DEF vars, control, groupVars, gatherVars, loopVars, Same
  <2>2. ASSUME NEW q \in Ranks, NEW h \in Groups
        PROVE  Dispatched(q, h)' /\ Shards(q, h)' /\ Reductions(q, h)' = Reductions(q, h)
    BY <2>1, <2>2, FrameData, Zenon DEF DataInv
  <2>3. AssertionsHold' /\ \A q \in Ranks : pc'[q] # "failed"
    BY <2>1, Zenon DEF DataInv, AssertionsHold, Same
  <2>4. ASSUME NEW r \in Ranks, NEW q \in Ranks, NEW h \in Groups
        PROVE  Reductions(r, h)' = Reductions(q, h)'
    <3>1. Reductions(r, h) = Reductions(q, h)
      BY <2>4, Zenon DEF DataInv
    <3>2. QED
      BY <2>2, <2>4, <3>1, Zenon
  <2>5. QED
    BY <1>2, <2>2, <2>3, <2>4, Zenon DEF DataInv
<1>6. QED
  BY <1>3, <1>4, <1>5, Zenon DEF Next

\* The parameters of a group are up to date unless its gather is due.
LEMMA FreshToRead ==
  ASSUME DataInv, NEW r \in Ranks, pc[r] = "forward", NEW g \in Groups,
         hooks[r] => Gathered(r, g)
  PROVE  Fresh(r, g, iteration[r])
<1>1. Calls(r) = iteration[r]
  BY Zenon DEF Calls, Stepped, Counted, Evaluating
<1>2. hooks[r] <=> use_forward_hook /\ Begun(iteration[r])
  BY Zenon DEF DataInv, Inv, RankInv, Hooked, Ended, Counted, Evaluating
<1>3. ~Due(r, g)
  BY <1>1, <1>2, Zenon DEF Due, use_forward_hook
<1>4. QED
  BY <1>1, <1>3, Zenon DEF DataInv, Shards

\* Where a rank stands determines which of its steps it takes.
LEMMA ReadingSteps ==
  ASSUME NEW r \in Ranks, RankNext(r)
  PROVE  /\ pc[r] = "forward" => \/ DispatchParamSync(r) \/ ForwardModuleUnhooked(r)
                                 \/ ForwardModuleGathered(r)
         /\ pc[r] = "evaluate" => Evaluate(r)
<1>1. /\ ZeroGradBuffer(r) => pc[r] = "zero"
      /\ (\E p \in Params : BackwardHook(r, p)) => pc[r] = "backward"
      /\ FinishByStarting(r) => pc[r] = "finish"
      /\ FinishStarted(r) => pc[r] = "finishing"
      /\ FinishGradSync(r) => pc[r] = "finish"
      /\ OptimizerStep(r) => pc[r] = "step"
      /\ StartParamSync(r) => pc[r] \in {"sync", "force"}
      /\ ParamSynced(r) => pc[r] \in {"syncing", "forcing"}
  BY Zenon DEF ZeroGradBuffer, BackwardHook, FinishByStarting, FinishStarted, FinishGradSync,
               OptimizerStep, StartParamSync, ParamSynced
<1>2. /\ EnableForwardPreHook(r) => pc[r] = "stepped"
      /\ DisableForwardPreHook(r) => pc[r] = "disable"
      /\ NextIteration(r) => pc[r] = "next"
      /\ DispatchParamSync(r) \/ ForwardModuleUnhooked(r) \/ ForwardModuleGathered(r)
         => pc[r] = "forward"
      /\ Evaluate(r) => pc[r] = "evaluate"
  BY Zenon DEF EnableForwardPreHook, DisableForwardPreHook, NextIteration, DispatchParamSync,
               ForwardModuleUnhooked, ForwardModuleGathered, Evaluate
<1>3. QED
  BY <1>1, <1>2, Zenon DEF RankNext

\* A rank that computes with its parameters finds the last step's in every shard.
LEMMA RankReadsLatest ==
  ASSUME DataInv, NEW r \in Ranks, RankNext(r)
  PROVE  /\ pc[r] = "forward" /\ ~failed'[r] /\ <<pc'[r], index'[r]>> # <<pc[r], index[r]>>
            => Fresh(r, NextGroup(r), iteration[r])
         /\ pc[r] = "evaluate" => \A g \in Groups : Fresh(r, g, iteration[r] + 1)
<1>1. Inv /\ TypeOK /\ RankInv(r) /\ Hooked(r)
  BY Zenon DEF DataInv, Inv, RankInv
<1>2. ASSUME pc[r] = "forward", <<pc'[r], index'[r]>> # <<pc[r], index[r]>>
      PROVE  Fresh(r, NextGroup(r), iteration[r])
  <2>1. PICK g \in Groups : g = NextGroup(r)
    BY <1>1, <1>2, Configuration, Zenon DEF RankInv, Position, NextGroup
  <2>2. Gathering(r, g)
    BY <1>1, Zenon DEF RankInv, GroupInv
  <2>3. ~DispatchParamSync(r)
    BY <1>1, <1>2, DispatchInv, Zenon
  <2>4. CASE ForwardModuleUnhooked(r)
    <3>1. hooks[r] => param_gather_dispatched[r][g] /\ ~param_gather_handle[r][g]
      BY <2>1, <2>4, Zenon DEF ForwardModuleUnhooked
    <3>2. hooks[r] => Gathered(r, g)
      BY <1>2, <2>2, <3>1, ZenonT(60) DEF Gathered, Gathering
    <3>3. QED
      BY <1>2, <2>1, <3>2, FreshToRead, Zenon
  <2>5. CASE ForwardModuleGathered(r)
    <3>1. Gathered(r, g)
      BY <2>1, <2>5, Zenon DEF ForwardModuleGathered, Gathered
    <3>2. QED
      BY <1>2, <2>1, <3>1, FreshToRead, Zenon
  <2>6. QED
    BY <1>2, <2>3, <2>4, <2>5, ReadingSteps, Zenon
<1>3. ASSUME pc[r] = "evaluate", NEW g \in Groups PROVE Fresh(r, g, iteration[r] + 1)
  <2>1. Calls(r) = iteration[r] + 1
    BY <1>3, Zenon DEF Calls, Stepped, Counted, Evaluating
  <2>2. use_forward_hook => Gathered(r, g)
    BY <1>1, <1>3, ZenonT(60) DEF DataInv, Dispatched, Gathered, RankInv, GroupInv, Gathering
  <2>3. ~Due(r, g)
    BY <1>3, <2>2, Zenon DEF Due, use_forward_hook
  <2>4. QED
    BY <1>3, <2>1, <2>3, Zenon DEF DataInv, Shards
<1>4. QED
  BY <1>2, <1>3, Zenon

-----------------------------------------------------------------------------
(* The counting, from the library's facts on finite sets.                  *)
INSTANCE FiniteSetTheorems

\* The ranks' own gradients, added up, are all the microbatches of all ranks.
LEMMA SumFull ==
  ASSUME NEW p \in Params, \A r \in Ranks : main_grad[r][p] = OwnGrad(r, NumMicrobatches)
  PROVE  Sum(p) = FullGrad
<1>1. SUFFICES ASSUME NEW q \in Ranks
               PROVE  Cardinality(UNION {{r} \X (1 .. main_grad[r][p][q]) : r \in Ranks})
                        = NumMicrobatches
  BY Zenon DEF Sum, FullGrad
<1> DEFINE S == UNION {{r} \X (1 .. main_grad[r][p][q]) : r \in Ranks}
           T == {q} \X (1 .. NumMicrobatches)
<1>2. \A r \in Ranks : main_grad[r][p][q] = IF q = r THEN NumMicrobatches ELSE 0
  BY Zenon DEF OwnGrad
<1>3. S = T
  <2>1. ASSUME NEW x \in S PROVE x \in T
    <3>1. PICK r \in Ranks : x \in {r} \X (1 .. main_grad[r][p][q])
      BY <2>1, Zenon
    <3>2. 1 .. 0 = {}
      OBVIOUS
    <3>3. QED
      BY <1>2, <3>1, <3>2, Zenon
  <2>2. ASSUME NEW x \in T PROVE x \in S
    BY <1>2, <2>2, Zenon
  <2>3. QED
    BY <2>1, <2>2, Zenon
<1>4. Cardinality(T) = NumMicrobatches
  <2>1. NumMicrobatches \in Nat
    BY Configuration, Zenon
  <2>2. IsFiniteSet(1 .. NumMicrobatches) /\ Cardinality(1 .. NumMicrobatches) = NumMicrobatches
    BY <2>1, FS_Interval
  <2>3. IsFiniteSet({q}) /\ Cardinality({q}) = 1
    BY FS_Singleton, Zenon
  <2>4. Cardinality({q} \X (1 .. NumMicrobatches))
          = Cardinality({q}) * Cardinality(1 .. NumMicrobatches)
    <3> DEFINE I == 1 .. NumMicrobatches
               Q == {q}
    <3>1. IsFiniteSet(Q) /\ IsFiniteSet(I)
      BY <2>2, <2>3, Zenon
    <3> HIDE DEF I, Q
    <3>2. Cardinality(Q \X I) = Cardinality(Q) * Cardinality(I)
      BY <3>1, FS_Product, Zenon
    <3>3. QED
      BY <3>2, Zenon DEF I, Q
  <2>5. QED
    BY <2>1, <2>2, <2>3, <2>4
<1>5. QED
  BY <1>3, <1>4, Zenon

\* The successful steps are counted one by one.
LEMMA StepsBeforeNext ==
  ASSUME NEW n \in Nat
  PROVE  /\ StepsBefore(n) \in Nat
         /\ n \in skips => StepsBefore(n + 1) = StepsBefore(n)
         /\ n \notin skips => StepsBefore(n + 1) = StepsBefore(n) + 1
<1> DEFINE S == {j \in 0 .. n - 1 : j \notin skips}
           T == {j \in 0 .. (n + 1) - 1 : j \notin skips}
<1>1. IsFiniteSet(S) /\ Cardinality(S) \in Nat
  <2>1. IsFiniteSet(0 .. n - 1)
    BY FS_Interval
  <2>2. S \in SUBSET (0 .. n - 1)
    BY Zenon
  <2>3. QED
    BY <2>1, <2>2, FS_Subset, FS_CardinalityType, Zenon
<1>2. \A j : j \in 0 .. (n + 1) - 1 <=> j \in 0 .. n - 1 \/ j = n
  OBVIOUS
<1>3. n \in skips => T = S
  BY <1>2, Zenon
<1>4. n \notin skips => T = S \cup {n} /\ n \notin S
  <2>1. n \notin 0 .. n - 1
    OBVIOUS
  <2>2. QED
    BY <1>2, <2>1, Zenon
<1>5. n \notin skips => Cardinality(T) = Cardinality(S) + 1
  <2> HIDE DEF S, T
  <2>1. QED
    BY <1>1, <1>4, FS_AddElement, Zenon
<1>6. QED
  BY <1>1, <1>3, <1>5, Zenon DEF StepsBefore

\* What the steps assume of the counting holds in every state.
LEMMA CountingHolds == Counting
<1>1. StepsBefore(0) = 0
  <2>1. {j \in 0 .. 0 - 1 : j \notin skips} = {}
    OBVIOUS
  <2>2. QED
    BY <2>1, FS_EmptySet, Zenon DEF StepsBefore
<1>2. QED
  BY <1>1, SumFull, StepsBeforeNext, Zenon DEF Counting

-----------------------------------------------------------------------------
\* On every rank the buckets, the handles of their collectives, the registered
\* parameters, the hooks and the buffers agree with how far the training loop has
\* got, whatever the job.
THEOREM BucketInvariant == Spec => []Inv
<1>1. Init => Inv
  BY InitInv, Zenon
<1>2. Inv /\ [Next]_vars => Inv'
  BY NextInv, CountingHolds, Zenon
<1>3. QED
  BY <1>1, <1>2, PTL DEF Spec

\* The optimizer steps on buffers that hold every microbatch of every rank once.
THEOREM StepsOnCompleteGradients == Spec => []GradientsComplete
<1>1. Inv => GradientsComplete
  <2>1. SUFFICES ASSUME Inv, NEW r \in Ranks, pc[r] = "step", NEW p \in Params
                 PROVE  main_grad[r][p] = FullGrad
    BY Zenon DEF GradientsComplete, FullGrad
  <2>2. GroupInv(r, GroupOf[p]) /\ Buffer(r, p)
    BY <2>1, Configuration, Zenon DEF Inv, RankInv
  <2>3. Started(r, GroupOf[p])
    BY <2>1, <2>2, Zenon DEF GroupInv, Registered, Started
  <2>4. Done(r, <<"grad", GroupOf[p]>>) /\ pc[r] \in Collecting
    BY <2>1, <2>2, Zenon DEF GroupInv, Outstanding, Collecting
  <2>5. QED
    BY <2>2, <2>3, <2>4, Zenon DEF Buffer
<1>2. QED
  BY <1>1, BucketInvariant, PTL

\* While a reduction is in flight its buffers hold this rank's own complete gradient.
THEOREM BuffersQuietInFlight == Spec => []NothingAddedInFlight
<1>1. Inv => NothingAddedInFlight
  BY Zenon DEF Inv, RankInv, Buffer, OwnGrad, NothingAddedInFlight
<1>2. QED
  BY <1>1, BucketInvariant, PTL

\* In the jobs the code supports, ranks agree on the reductions made, every rank's own
\* shard is the outcome of the last step, and any other shard is, or is due a gather.
THEOREM ShardInvariant ==
  ASSUME \A j \in Jobs : Supported(j)
  PROVE  Spec => []DataInv
<1>1. Init => DataInv
  BY InitData, CountingHolds, Zenon
<1>2. DataInv /\ [Next]_vars => DataInv'
  BY NextData, CountingHolds, Zenon
<1>3. QED
  BY <1>1, <1>2, PTL DEF Spec

\* In the jobs the code supports no assertion of the bucket groups or of the hook
\* bookkeeping fails and no exception is raised.
THEOREM SupportedJobsRun ==
  ASSUME \A j \in Jobs : Supported(j)
  PROVE  Spec => []AssertionsHold
<1>1. DataInv => AssertionsHold
  BY Zenon DEF DataInv
<1>2. QED
  BY <1>1, ShardInvariant, PTL

\* In the jobs the code supports a module, in training or in evaluation, computes with
\* parameters in which every rank's shard is the outcome of the last successful step.
THEOREM ParametersAreFresh ==
  ASSUME \A j \in Jobs : Supported(j)
  PROVE  Spec => ForwardReadsLatest
<1> DEFINE Reads(r) ==
      /\ pc[r] = "forward" /\ ~failed'[r] /\ <<pc'[r], index'[r]>> # <<pc[r], index[r]>>
         => Fresh(r, NextGroup(r), iteration[r])
      /\ pc[r] = "evaluate" /\ pc'[r] # "evaluate"
         => \A g \in Groups : Fresh(r, g, iteration[r] + 1)
<1>1. ASSUME DataInv, Next, NEW r \in Ranks PROVE Reads(r)
  <2>1. CASE RankNext(r)
    BY <1>1, <2>1, RankReadsLatest, Zenon
  <2>2. ASSUME NEW q \in Ranks, q # r, RankNext(q) PROVE Reads(r)
    <3>1. pc'[r] = pc[r] /\ index'[r] = index[r]
      BY <1>1, <2>2, RankStepInv, Zenon DEF DataInv, Alone, Same
    <3>2. QED
      BY <3>1, Zenon
  <2>3. CASE CollectiveNext
    <3>1. pc' = pc /\ index' = index
      BY <2>3, Zenon DEF CollectiveNext, ReduceGradients, GatherParams, control
    <3>2. QED
      BY <3>1, Zenon
  <2>4. QED
    BY <1>1, <2>1, <2>2, <2>3, Zenon DEF Next
<1>2. DataInv /\ [Next]_vars => [\A r \in Ranks : Reads(r)]_vars
  BY <1>1, Zenon
<1>3. QED
  BY <1>2, ShardInvariant, PTL DEF Spec, ForwardReadsLatest
=============================================================================
