------------------------------ MODULE TensorKeys ------------------------------
(* How a collective of Megatron or SGLang becomes keys on the BytePS server:  *)
(* the stable name, the declaration with the number of workers, the hashed    *)
(* key, the partitions of InitTensor, the registration of the group, the init *)
(* push that is also a barrier, and the pushes and sums of each partition.    *)
(*                                                                            *)
(* The server is its counting contract (BytePSServer has the details): a key  *)
(* waits for as many init pushes, and then for as many pushes per round, as   *)
(* were registered for it. The local stages of a machine are reduced to "the  *)
(* root pushes a partition once every local rank has enqueued its key".       *)
EXTENDS Integers, Sequences, FiniteSets, SequencesExt, TLC

CONSTANTS
  Jobs,            \* the jobs considered, records with the fields
                   \*   frontend: "megatron" or "sglang"
                   \*   sizes: the parallel sizes tp, cp, dp, pp
                   \*   local_size: BYTEPS_LOCAL_SIZE, ranks of one machine
                   \*   orders: orders in which a rank may issue its collectives
                   \*   passes: passes over the collectives between two suspends
                   \*   resumes: bound on suspend and resume
  PartitionBytes,  \* GetPartitionBound()
  KeysPerTensor,   \* 2^16 in the code
  HashSpace,       \* 1000000000 in the code
  Hash(_)          \* std::hash<std::string>

VARIABLES
  job,        \* which of the jobs runs
  order,      \* per rank: the collectives of a pass, in the order it issues them
  pass,       \* per rank: the pass it is in
  declared,   \* per rank: _DECLARED_BPS_GROUPS, from names to workers
  contexts,   \* per rank: _name_to_cxt
  tasks,      \* per rank: the push_pull of each collective of this pass
  server,     \* the key states that exist
  resumed,    \* number of suspends so far
  error       \* the check that failed, or "none"

vars == <<job, order, pass, declared, contexts, tasks, server, resumed, error>>

-------------------------------------------------------------------------------
(* Ranks, machines and groups.                                                *)

RanksOf(j) == [tp : 0 .. j.sizes.tp - 1, cp : 0 .. j.sizes.cp - 1,
               dp : 0 .. j.sizes.dp - 1, pp : 0 .. j.sizes.pp - 1]
Ranks == RanksOf(job)

RankNumber(r) ==
  r.tp + job.sizes.tp * (r.cp + job.sizes.cp * (r.dp + job.sizes.dp * r.pp))

Machine(r) == RankNumber(r) \div job.local_size
Local(r) == {q \in Ranks : Machine(q) = Machine(r)}

(* The local communicator's root is the last local rank.                      *)
IsRootDevice(r) == RankNumber(r) % job.local_size = job.local_size - 1

(* DMLC_NUM_WORKER; a job with at least one worker counts as distributed.     *)
GetNumWorker == Cardinality({Machine(r) : r \in Ranks})

(* The process group a collective is called with: SGLang's tensor-parallel    *)
(* group, Megatron's data-parallel group with context parallelism, or its     *)
(* tensor-parallel group.                                                     *)
GroupIn(j, r, c) ==
  {q \in RanksOf(j) :
     /\ q.pp = r.pp
     /\ j.frontend = "megatron" /\ c.scope = "dp" => q.tp = r.tp
     /\ j.frontend = "megatron" /\ c.scope = "tp" => q.dp = r.dp /\ q.cp = r.cp}
Group(r, c) == GroupIn(job, r, c)

NameWithoutTpRank(j, r, c) ==
  IF j.frontend = "sglang" THEN <<"sglang", GroupIn(j, r, c), c.logical, c.bytes>>
  ELSE IF c.scope = "dp" THEN <<"dp", r.pp, c.logical>>
       ELSE <<"tp", r.dp, r.pp, r.cp, c.logical>>

NameWithoutShape(j, r, c) ==
  IF j.frontend = "sglang" THEN <<"sglang", GroupIn(j, r, c), c.logical>>
  ELSE IF c.scope = "dp" THEN <<"dp", r.tp, r.pp, c.logical>>
       ELSE <<"tp", r.dp, r.pp, r.cp, c.logical>>

(* SGLang puts the group's ranks and the tensor's shape in the name, Megatron *)
(* the coordinates that tell the groups apart.                                *)
NameIn(j, r, c) ==
  IF j.frontend = "sglang" THEN <<"sglang", GroupIn(j, r, c), c.logical, c.bytes>>
  ELSE IF c.scope = "dp" THEN <<"dp", r.tp, r.pp, c.logical>>
       ELSE <<"tp", r.dp, r.pp, r.cp, c.logical>>
BuildGroupName(r, c) == NameIn(job, r, c)

GroupSize(r, c) == Cardinality(Group(r, c))

(* SGLang declares the number of machines, Megatron the size of the group.    *)
ExpectedWorkers(r, c) ==
  IF job.frontend = "sglang" THEN GetNumWorker ELSE GroupSize(r, c)

-------------------------------------------------------------------------------
(* Contexts, keys and partitions.                                             *)

KeyByDeclarationOrder(ctxs, n) == Cardinality(DOMAIN ctxs)

DeclaredKey(ctxs, n) == Hash(n) % HashSpace

NewContext(ctxs, n) ==
  [key |-> DeclaredKey(ctxs, n), expected |-> -1, keys |-> <<>>,
   initialized |-> FALSE, locked |-> FALSE]

IsTensorDeclared(ctxs, n) ==
  IF n \in DOMAIN ctxs THEN ctxs ELSE n :> NewContext(ctxs, n) @@ ctxs

(* The lengths PartitionTensor and InitTensor cut a tensor into.              *)
PartitionTensor[size \in Nat] ==
  LET len == IF size > PartitionBytes THEN PartitionBytes ELSE size
  IN IF size = 0 THEN <<>> ELSE <<len>> \o PartitionTensor[size - len]

KeyListOneMore(key, size) ==
  [i \in 1 .. size \div PartitionBytes + 1 |-> key * KeysPerTensor + i - 1]

(* The keys of a tensor: its declared key shifted, and one key per partition. *)
KeyList(key, size) ==
  [i \in DOMAIN PartitionTensor[size] |-> key * KeysPerTensor + i - 1]

MaxPartitions ==
  LET lengths == {Len(PartitionTensor[c.bytes]) : c \in UNION {ToSet(o) : o \in job.orders}}
  IN CHOOSE m \in lengths : \A l \in lengths : l <= m

NoKeyState == [expected |-> 0, stored |-> 0, requests |-> <<>>, merged |-> {}]
GetKeyState(k) == IF k \in DOMAIN server THEN server[k] ELSE NoKeyState

Context(r, i) == contexts[r][BuildGroupName(r, order[r][i])]
Key(r, i, p) == Context(r, i).keys[p]
Lens(r, i) == PartitionTensor[order[r][i].bytes]

NoTask == [at |-> "idle", part |-> 0, finished |-> {}]

Init ==
  /\ job \in Jobs
  /\ order \in [Ranks -> job.orders]
  /\ pass = [r \in Ranks |-> 1]
  /\ declared = [r \in Ranks |-> <<>>]
  /\ contexts = [r \in Ranks |-> <<>>]
  /\ tasks = [r \in Ranks |-> [i \in DOMAIN order[r] |-> NoTask]]
  /\ server = <<>>
  /\ resumed = 0
  /\ error = "none"

-------------------------------------------------------------------------------
(* The Python side.                                                           *)

(* The next collective of rank r: those before it are issued, and the         *)
(* synchronous ones among them are over.                                      *)
IsNext(r, i) ==
  /\ tasks[r][i].at = "idle"
  /\ \A j \in 1 .. i - 1 :
       IF order[r][j].async THEN tasks[r][j].at \notin {"idle", "caller"}
                            ELSE tasks[r][j].at = "done"

Fail(reason) ==
  /\ error' = reason
  /\ UNCHANGED <<job, order, pass, declared, contexts, tasks, server, resumed>>

(* declare_and_cache_byteps_group, then DoPushPull: the task of a tensor that *)
(* is initialized is enqueued by the caller, the first one by a thread of its *)
(* own. A tensor-parallel group of one rank is bypassed.                      *)
StartPushPull(r, i) ==
  LET c == order[r][i]
      n == BuildGroupName(r, c)
      w == ExpectedWorkers(r, c)
      ctxs == IsTensorDeclared(contexts[r], n)
      cached == n \in DOMAIN declared[r]
  IN /\ IsNext(r, i)
     /\ IF c.scope = "tp" /\ GroupSize(r, c) = 1
        THEN /\ tasks' = [tasks EXCEPT ![r][i].at = "done"]
             /\ UNCHANGED <<job, order, pass, declared, contexts, server, resumed, error>>
        ELSE IF cached /\ declared[r][n] # w
        THEN Fail("inconsistent group size")
        ELSE /\ declared' = [declared EXCEPT ![r] = n :> w @@ @]
             /\ contexts' = [contexts EXCEPT ![r] =
                  IF cached THEN ctxs ELSE [ctxs EXCEPT ![n].expected = w]]
             /\ tasks' = [tasks EXCEPT ![r][i].at =
                  IF ctxs[n].initialized THEN "caller" ELSE "lock"]
             /\ UNCHANGED <<job, order, pass, server, resumed, error>>

-------------------------------------------------------------------------------
(* InitTensor.                                                                *)

ContextFreeGlobally(r, i) ==
  \A n \in DOMAIN contexts[r] : ~contexts[r][n].locked

(* init_mutex belongs to the context of one tensor.                           *)
ContextFree(r, i) == ~Context(r, i).locked

(* The thread takes the mutex. A context that is initialized by now is left   *)
(* alone; otherwise the keys are listed and their number checked, and only    *)
(* the root of the machine has anything to tell the server.                   *)
InitTensor(r, i) ==
  LET n == BuildGroupName(r, order[r][i])
      bytes == order[r][i].bytes
      keys == KeyList(Context(r, i).key, bytes)
  IN /\ tasks[r][i].at = "lock"
     /\ ContextFree(r, i)
     /\ IF Context(r, i).initialized
        THEN /\ tasks' = [tasks EXCEPT ![r][i].at = "enqueue"]
             /\ UNCHANGED <<job, order, pass, declared, contexts, server, resumed, error>>
        ELSE IF Len(keys) # (bytes + PartitionBytes - 1) \div PartitionBytes
        THEN Fail("keys do not cover the tensor")
        ELSE /\ tasks' = [tasks EXCEPT ![r][i] =
                  [@ EXCEPT !.at = IF IsRootDevice(r) THEN "register" ELSE "enqueue",
                            !.part = 1]]
             /\ contexts' = [contexts EXCEPT ![r][n] =
                  [@ EXCEPT !.keys = keys, !.locked = IsRootDevice(r),
                            !.initialized = ~IsRootDevice(r)]]
             /\ UNCHANGED <<job, order, pass, declared, server, resumed, error>>

(* The number of workers InitTensor registers for the keys of the context.    *)
Registered(r, i) ==
  IF Context(r, i).expected > 0 THEN Context(r, i).expected ELSE GetNumWorker

(* One blocking kGroupRegister push; the server keeps the first number and    *)
(* checks the others against it.                                              *)
RegisterExpectedWorkers(r, i) ==
  LET t == tasks[r][i]
      k == Key(r, i, t.part)
      state == GetKeyState(k)
      last == t.part = Len(Context(r, i).keys)
  IN /\ t.at = "register"
     /\ IF state.expected \in {0, Registered(r, i)}
        THEN /\ server' = k :> [state EXCEPT !.expected = Registered(r, i)] @@ server
             /\ tasks' = [tasks EXCEPT ![r][i] =
                  [@ EXCEPT !.at = IF last THEN "init" ELSE "register",
                            !.part = IF last THEN 1 ELSE t.part + 1]]
             /\ UNCHANGED <<job, order, pass, declared, contexts, resumed, error>>
        ELSE Fail("inconsistent expected_workers")

(* A task's init push of its last partition.                                  *)
LastInit(r, i) == tasks[r][i].part = Len(Context(r, i).keys)

(* The tasks after the server's answer to the init push of some of them ...   *)
InitAnswered(answered) ==
  [r \in Ranks |-> [i \in DOMAIN tasks[r] |->
     IF <<r, i>> \notin answered THEN tasks[r][i]
     ELSE [tasks[r][i] EXCEPT !.at = IF LastInit(r, i) THEN "enqueue" ELSE "init",
                              !.part = @ + 1]]]

(* ... and the contexts: initialized after the last partition, mutex released. *)
Initialized(answered) ==
  [r \in Ranks |-> [n \in DOMAIN contexts[r] |->
     IF \E i \in DOMAIN order[r] : /\ <<r, i>> \in answered /\ LastInit(r, i)
                                   /\ n = BuildGroupName(r, order[r][i])
     THEN [contexts[r][n] EXCEPT !.initialized = TRUE, !.locked = FALSE]
     ELSE contexts[r][n]]]

(* The partitions of key k that rank q has enqueued and that are not summed.  *)
Enqueued(q, k) ==
  {a \in {q} \X (DOMAIN tasks[q]) \X (1 .. MaxPartitions) :
     /\ tasks[q][a[2]].at = "push"
     /\ a[3] \in (DOMAIN Context(q, a[2]).keys) \ tasks[q][a[2]].finished
     /\ Key(q, a[2], a[3]) = k}

(* What a full set of pushes sums: a root's partition and what its local      *)
(* ranks reduced into it.                                                     *)
Contributions(k, pushes) ==
  pushes \cup UNION {Enqueued(q, k) :
                       q \in UNION {Local(a[1]) \ {a[1]} : a \in pushes}}

(* The tasks ts once the partitions of a sum are back at their ranks.         *)
Finished(ts, sum) ==
  [r \in Ranks |-> [i \in DOMAIN ts[r] |->
     LET back == ts[r][i].finished \cup
                   {p \in 1 .. MaxPartitions : <<r, i, p>> \in sum}
     IN IF ts[r][i].at # "push" THEN ts[r][i]
        ELSE [ts[r][i] EXCEPT
                !.finished = back,
                !.at = IF back = DOMAIN Lens(r, i) THEN "done" ELSE "push"]]]

(* A push of data for key k: the last one of the registered number completes  *)
(* the sum.                                                                   *)
DataPush(k, push, ts) ==
  LET state == GetKeyState(k)
      arrived == Append(state.requests, push)
      full == Len(arrived) = state.expected
      sum == Contributions(k, ToSet(arrived))
  IN /\ server' = [server EXCEPT ![k].requests = IF full THEN <<>> ELSE arrived,
                                 ![k].merged = IF full THEN sum ELSE @]
     /\ tasks' = IF full THEN Finished(ts, sum) ELSE ts

(* A push that reaches a key without a buffer waits for the others. The last  *)
(* one allocates the buffer with its own length and answers them all. If the  *)
(* key already has a buffer, the server takes it for a push of data.          *)
InitPush(r, i) ==
  LET t == tasks[r][i]
      k == Key(r, i, t.part)
      state == GetKeyState(k)
      arrived == Append(state.requests, <<r, i, t.part>>)
      full == Len(arrived) = state.expected
      answered == {<<a[1], a[2]>> : a \in ToSet(arrived)}
  IN /\ t.at = "init"
     /\ IF state.stored # 0
        THEN /\ DataPush(k, <<r, i, t.part>>, InitAnswered({<<r, i>>}))
             /\ contexts' = Initialized({<<r, i>>})
        ELSE IF full
        THEN /\ server' = [server EXCEPT ![k].requests = <<>>,
                                         ![k].stored = Lens(r, i)[t.part]]
             /\ tasks' = InitAnswered(answered)
             /\ contexts' = Initialized(answered)
        ELSE /\ server' = [server EXCEPT ![k].requests = arrived]
             /\ tasks' = [tasks EXCEPT ![r][i].at = "wait"]
             /\ UNCHANGED contexts
     /\ UNCHANGED <<job, order, pass, declared, resumed, error>>

-------------------------------------------------------------------------------
(* EnqueueTensor and the partitions' way through the server.                  *)

EnqueueTensor(r, i) ==
  /\ tasks[r][i].at \in {"enqueue", "caller"}
  /\ IF Len(Lens(r, i)) = Len(Context(r, i).keys)
     THEN /\ tasks' = [tasks EXCEPT ![r][i].at = "push"]
          /\ UNCHANGED <<job, order, pass, declared, contexts, server, resumed, error>>
     ELSE Fail("partitions do not match the keys")

(* The ready tables of the local stages: each local rank has signalled key k. *)
LocalRanksReady(r, k) == \A q \in Local(r) : Enqueued(q, k) # {}

(* The root of a machine pushes a partition.                                  *)
PushPartition(r, i, p) ==
  LET k == Key(r, i, p)
  IN /\ IsRootDevice(r)
     /\ <<r, i, p>> \in Enqueued(r, k)
     /\ <<r, i, p>> \notin ToSet(GetKeyState(k).requests)
     /\ LocalRanksReady(r, k)
     /\ DataPush(k, <<r, i, p>>, tasks)
     /\ UNCHANGED <<job, order, pass, declared, contexts, resumed, error>>

-------------------------------------------------------------------------------
(* Passes, and suspend and resume.                                            *)

RankIsThrough(r) == \A i \in DOMAIN tasks[r] : tasks[r][i].at = "done"

NextPass(r) ==
  /\ RankIsThrough(r) /\ pass[r] < job.passes
  /\ pass' = [pass EXCEPT ![r] = @ + 1]
  /\ tasks' = [tasks EXCEPT ![r] = [i \in DOMAIN @ |-> NoTask]]
  /\ UNCHANGED <<job, order, declared, contexts, server, resumed, error>>

(* byteps_suspend and byteps_resume of the whole job: Finalize waits for all  *)
(* nodes, the servers start again, and ReDeclareTensor declares the names,    *)
(* without the workers that were registered for them. The Python caches are   *)
(* not cleared.                                                               *)
SuspendAndResume ==
  /\ resumed < job.resumes
  /\ \A r \in Ranks : RankIsThrough(r) /\ pass[r] = job.passes
  /\ resumed' = resumed + 1
  /\ pass' = [r \in Ranks |-> 1]
  /\ contexts' = [r \in Ranks |->
       [n \in DOMAIN contexts[r] |-> NewContext(contexts[r], n)]]
  /\ tasks' = [r \in Ranks |-> [i \in DOMAIN tasks[r] |-> NoTask]]
  /\ server' = <<>>
  /\ UNCHANGED <<job, order, declared, error>>

RankNext(r) ==
  /\ error = "none" /\ r \in Ranks
  /\ \/ NextPass(r)
     \/ \E i \in DOMAIN tasks[r] :
          \/ StartPushPull(r, i) \/ InitTensor(r, i)
          \/ RegisterExpectedWorkers(r, i) \/ InitPush(r, i) \/ EnqueueTensor(r, i)
          \/ \E p \in 1 .. MaxPartitions : PushPartition(r, i, p)

Next == (\E r \in Ranks : RankNext(r)) \/ (error = "none" /\ SuspendAndResume)

(* Every rank's threads keep running, and so does the server.                 *)
Spec == /\ Init /\ [][Next]_vars
        /\ \A r \in UNION {RanksOf(j) : j \in Jobs} : WF_vars(RankNext(r))

-------------------------------------------------------------------------------
(* Properties.                                                                *)

(* The ranks of one group use the same key for the same collective, whatever  *)
(* the order in which each of them declared its tensors (IsTensorDeclared     *)
(* hashes the name instead of counting).                                      *)
KeysAgree ==
  \A r, q \in Ranks : \A c \in ToSet(order[r]) :
    LET n == BuildGroupName(r, c)
        m == BuildGroupName(q, c)
    IN q \in Group(r, c) /\ n \in DOMAIN contexts[r] /\ m \in DOMAIN contexts[q]
       => contexts[r][n].key = contexts[q][m].key

(* A sum the server hands out is made of one partition of one collective, and *)
(* of exactly the ranks of its group: no other group's tensor ever shares the *)
(* key, and the number registered for it is neither too small nor too large.  *)
SumsAreOneGroups ==
  \A k \in DOMAIN server : \A <<r, i, p>> \in server[k].merged :
    LET sum == server[k].merged
    IN /\ {a[1] : a \in sum} = Group(r, order[r][i])
       /\ Cardinality(sum) = Cardinality(Group(r, order[r][i]))
       /\ \A <<q, j, s>> \in sum : order[q][j] = order[r][i] /\ s = p

(* Every push of a key has the length of the buffer the server allocated.     *)
LengthsAgree ==
  \A k \in DOMAIN server : \A <<r, i, p>> \in server[k].merged :
    Lens(r, i)[p] = server[k].stored

(* No check of the worker, of the server or of the Python wrappers fails.     *)
NoErrors == error = "none"

(* Every rank comes to the end of every pass: neither the blocking init       *)
(* pushes, taken in a different order on each rank, nor the wait for the      *)
(* registered number of workers can stop it, before or after a resume.        *)
EveryPassEnds ==
  <>[](\A r \in Ranks : RankIsThrough(r) /\ pass[r] = job.passes)
===============================================================================
