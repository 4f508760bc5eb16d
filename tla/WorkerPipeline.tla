--------------------------- MODULE WorkerPipeline ---------------------------
(***************************************************************************)
(* The worker side of one push_pull on one machine: the LocalSize worker   *)
(* processes (one per GPU) move every partition of a tensor through the    *)
(* stages of its queue list                                                *)
(*                                                                         *)
(*   REDUCE, COPYD2H, [PCIE_REDUCE], PUSH, PULL, COPYH2D, BROADCAST        *)
(*                                                                         *)
(* (operations.cc GetPushQueueList and GetPullQueueList).  Each stage is a *)
(* thread of each process that polls its BytePSScheduledQueue; the         *)
(* processes agree through signals on Unix sockets, counted by ReadyTables,*)
(* and through the host buffer they share.  Copies between GPU and host    *)
(* are asynchronous: the thread records an event and hands the entry to    *)
(* the next queue, whose getTask skips it until the event is ready.        *)
(*                                                                         *)
(* The GPUs of a PCIe switch form one NCCL communicator.  GPU r reduces,   *)
(* copies and gathers the slice of the partition numbered by its rank in   *)
(* the switch.  A value is abstracted to the set of contributions summed   *)
(* into it: <<rank, round>>, or <<Remote, round>> for the other machines.  *)
(*                                                                         *)
(* NCCL, CUDA streams and the parameter server are external: modelled by   *)
(* what core_loops.cc relies on.                                           *)
(***************************************************************************)
EXTENDS Integers, FiniteSets, Sequences, SequencesExt

CONSTANT
    Machines   \* the machines considered, records with the fields
               \*   local_size: processes (GPUs) of the machine
               \*   pcie_size: GPUs per PCIe switch, BYTEPS_PCIE_SWITCH_SIZE
               \*   tensor_of: from the partition keys, positive, to the tensors
               \*   group_size: BYTEPS_NCCL_GROUP_SIZE
               \*   credit: BYTEPS_SCHEDULING_CREDIT in partitions, 0: no scheduling
               \*   rounds: bound, push_pulls of every tensor

ASSUME LayoutAssumption ==
    \A m \in Machines :
        /\ m.local_size \in Nat \ {0} /\ m.pcie_size \in 1..m.local_size
        /\ m.local_size % m.pcie_size = 0
        /\ DOMAIN m.tensor_of \subseteq Nat \ {0}

VARIABLES
    machine, \* which of the machines it is
    p,       \* p[r]: the process of local rank r, a record (see Init)
    host,    \* host[w][k][s]: slice s of partition k in switch w's host buffer
    server,  \* server[k]: [op, value, pushes, pulls], the root's outstanding
             \* request, the value last pushed and the rounds pushed and pulled
    error    \* the BPS_CHECK that aborted a process, or "none"

vars == <<machine, p, host, server, error>>

LocalSize == machine.local_size
PcieSize == machine.pcie_size
TensorOf == machine.tensor_of
Keys == DOMAIN TensorOf
GroupSize == machine.group_size
Credit == machine.credit
Rounds == machine.rounds

Ranks == 0..(LocalSize - 1)
Root == LocalSize - 1
Switch(r) == r \div PcieSize
LastSwitch == Switch(Root)
Slices == 0..(PcieSize - 1)
NcclRank(r) == r % PcieSize
Peers(r) == {q \in Ranks : Switch(q) = Switch(r)}
Tensors == {TensorOf[k] : k \in Keys}
Remote == -1

(* The last member of a communicator is its root. *)
IsRootDevice(r) == r = Root
IsSignalRoot(r) == NcclRank(r) = PcieSize - 1
IsReducerRoot(r) == Switch(r) = LastSwitch
SignalRoot(r) == Switch(r) * PcieSize + PcieSize - 1
ReducerRoot(r) == LastSwitch * PcieSize + NcclRank(r)
IsCrossPcieSwitch == LocalSize > PcieSize

GetPushQueueList(r) ==
    (IF IsSignalRoot(r) THEN <<"REDUCE">> ELSE <<"COORDINATE_REDUCE", "REDUCE">>)
    \o <<"COPYD2H">>
    \o (IF IsCrossPcieSwitch THEN <<"PCIE_REDUCE">> ELSE <<>>)
    \o (IF IsRootDevice(r) THEN <<"PUSH">> ELSE <<"COORDINATE_PUSH">>)

GetPullQueueList(r) ==
    (IF IsRootDevice(r) THEN <<"PULL">> ELSE <<>>)
    \o <<"COPYH2D">>
    \o (IF IsSignalRoot(r) THEN <<"BROADCAST">>
                           ELSE <<"COORDINATE_BROADCAST", "BROADCAST">>)

QueueList(r) == GetPushQueueList(r) \o GetPullQueueList(r)

Coordinators == {"COORDINATE_REDUCE", "COORDINATE_PUSH", "COORDINATE_BROADCAST"}
Tables == {"REDUCE", "PCIE_REDUCE", "PUSH", "COPYH2D", "BROADCAST"}
Stages == Coordinators \cup Tables \cup {"COPYD2H", "PULL"}

-----------------------------------------------------------------------------
(* The ready tables and which queues consult one. *)

ReadyCount(t) ==
    CASE t \in {"REDUCE", "BROADCAST"} -> PcieSize - 1
      [] t = "PUSH" -> LocalSize - 1
      [] t = "PCIE_REDUCE" -> LocalSize \div PcieSize - 1
      [] t = "COPYH2D" -> 1

HasTableNoCopy(r, s) ==
    \/ s \in {"REDUCE", "BROADCAST"} /\ IsSignalRoot(r)
    \/ s = "PCIE_REDUCE" /\ IsReducerRoot(r)
    \/ s = "PUSH" /\ IsRootDevice(r)

HasTable(r, s) ==
    \/ s \in {"REDUCE", "BROADCAST"} /\ IsSignalRoot(r)
    \/ s = "PCIE_REDUCE" /\ IsReducerRoot(r)
    \/ s = "PUSH" /\ IsRootDevice(r)
    \/ s = "COPYH2D" /\ ~IsRootDevice(r)

IsKeyReady(R, r, s, k) == HasTable(r, s) => R.table[s][k] = ReadyCount(s)

IsScheduled(r, s) == s = "REDUCE" /\ IsSignalRoot(r) /\ Credit > 0

(* Adds to the queue; a scheduled queue is sorted by key, for every caller *)
(* passes the same priority.                                               *)
AddTask(R, r, s, k) ==
    LET q == Append(R.queue[s], k)
    IN [R EXCEPT !.queue[s] = IF IsScheduled(r, s) THEN SortSeq(q, <) ELSE q]

TakableEarly(R, r, s, n) ==
    LET ready == SelectSeq(R.queue[s], LAMBDA k : IsKeyReady(R, r, s, k))
        most  == IF IsScheduled(r, s) /\ R.credits < n THEN R.credits ELSE n
    IN SubSeq(ready, 1, IF Len(ready) < most THEN Len(ready) ELSE most)

(* getTask, called n times in a row: an entry is skipped while its event   *)
(* is not ready, its key is not ready, or no credit is left.               *)
Takable(R, r, s, n) ==
    LET ready == SelectSeq(R.queue[s], LAMBDA k :
                     R.task[k].event = "none" /\ IsKeyReady(R, r, s, k))
        most  == IF IsScheduled(r, s) /\ R.credits < n THEN R.credits ELSE n
    IN SubSeq(ready, 1, IF Len(ready) < most THEN Len(ready) ELSE most)

GetTasksFree(R, r, s, ks) ==
    [R EXCEPT !.queue[s] = SelectSeq(@, LAMBDA k : k \notin ToSet(ks)),
              !.table[s] = [k \in Keys |-> IF k \in ToSet(ks) /\ HasTable(r, s)
                                           THEN 0 ELSE @[k]]]

GetTasks(R, r, s, ks) ==
    [R EXCEPT !.queue[s] = SelectSeq(@, LAMBDA k : k \notin ToSet(ks)),
              !.table[s] = [k \in Keys |-> IF k \in ToSet(ks) /\ HasTable(r, s)
                                           THEN 0 ELSE @[k]],
              !.credits = IF IsScheduled(r, s) THEN @ - Len(ks) ELSE @]

(* AddReadyCount on an arriving signal, with its check.                    *)
AddReadyCount(R, t, k) == [R EXCEPT !.table[t][k] = @ + 1]
CountOverflows(R, t, k) == R.table[t][k] >= ReadyCount(t)

ReportFinishNot(R, r, s) == R

(* reportFinish on the stage's queue, then on to the next stage; past the  *)
(* last one the callback counts the partition as done.                     *)
ReportFinish(R, r, s) ==
    IF IsScheduled(r, s) THEN [R EXCEPT !.credits = @ + 1] ELSE R

FinishOrProceed(R, r, k) ==
    LET at == R.task[k].stage
        R1 == ReportFinish(R, r, QueueList(r)[at])
    IN IF at = Len(QueueList(r))
       THEN [R1 EXCEPT !.task[k].stage = 0]
       ELSE AddTask([R1 EXCEPT !.task[k].stage = at + 1], r,
                    QueueList(r)[at + 1], k)

Abort(check) == error' = check /\ UNCHANGED <<machine, p, host, server>>

-----------------------------------------------------------------------------
(* The program: a tensor is pushed again once its last push_pull returned. *)

Idle(r, t) == \A k \in Keys : TensorOf[k] = t => p[r].task[k].stage = 0

EnqueueTensor(r, t) ==
    LET parts == SelectSeq(SortSeq(SetToSeq(Keys), <), LAMBDA k : TensorOf[k] = t)
        s     == QueueList(r)[1]
        Put(R, k) == AddTask([R EXCEPT !.task[k] =
                        [stage |-> 1, event |-> "compute", round |-> @.round + 1]],
                        r, s, k)
    IN /\ Idle(r, t)
       /\ \A k \in ToSet(parts) : p[r].task[k].round < Rounds
       /\ p' = [p EXCEPT ![r] = FoldLeft(Put, @, parts)]
       /\ UNCHANGED <<machine, host, server, error>>

(* The kernels that compute the tensor finish: the event all partitions    *)
(* share is ready.                                                         *)
ComputeDone(r, t) ==
    /\ \E k \in Keys : TensorOf[k] = t /\ p[r].task[k].event = "compute"
    /\ p' = [p EXCEPT ![r].task = [k \in Keys |->
                IF TensorOf[k] = t THEN [@[k] EXCEPT !.event = "none"] ELSE @[k]]]
    /\ UNCHANGED <<machine, host, server, error>>

-----------------------------------------------------------------------------
(* Signals towards a communicator's root. *)

SignalOf(s) ==
    CASE s = "COORDINATE_REDUCE" -> "REDUCE"
      [] s = "COORDINATE_PUSH" -> "PUSH"
      [] s = "COORDINATE_BROADCAST" -> "BROADCAST"

RootOf(r, t) ==
    CASE t \in {"REDUCE", "BROADCAST"} -> SignalRoot(r)
      [] t = "PUSH" -> Root
      [] t = "PCIE_REDUCE" -> ReducerRoot(r)

Take(r, s, k) == GetTasks(p[r], r, s, <<k>>)

SendSignal(R, t, k) == [R EXCEPT !.sent[t] = Append(@, k)]

SignalFirst == <<"signal", "proceed">>

(* A coordinate loop first hands the entry to the next queue and then      *)
(* signals the root, "to guarantee the entry is available when             *)
(* getTask(key)" runs: two steps of the thread, in this order.             *)
CoordinateSteps == <<"proceed", "signal">>

CoordinateStep(R, r, s, k, step) ==
    IF step = "proceed" THEN FinishOrProceed(R, r, k)
                        ELSE SendSignal(R, SignalOf(s), k)

CoordinateTake(r, s) ==
    /\ p[r].coord[s] = 0 /\ Takable(p[r], r, s, 1) # <<>>
    /\ LET k == Takable(p[r], r, s, 1)[1]
       IN p' = [p EXCEPT ![r] =
                   [CoordinateStep(Take(r, s, k), r, s, k, CoordinateSteps[1])
                    EXCEPT !.coord[s] = k]]
    /\ UNCHANGED <<machine, host, server, error>>

CoordinateEnd(r, s) ==
    /\ p[r].coord[s] # 0
    /\ p' = [p EXCEPT ![r] =
                [CoordinateStep(@, r, s, @.coord[s], CoordinateSteps[2])
                 EXCEPT !.coord[s] = 0]]
    /\ UNCHANGED <<machine, host, server, error>>

(* The listen thread of the communicator's root counts the signal.         *)
Listen(r, t) ==
    /\ p[r].sent[t] # <<>>
    /\ LET k == Head(p[r].sent[t])
           d == RootOf(r, t)
           q == [p EXCEPT ![r].sent[t] = Tail(@)]
       IN IF CountOverflows(p[d], t, k)
          THEN Abort("ready count")
          ELSE /\ p' = [q EXCEPT ![d] = AddReadyCount(@, t, k)]
               /\ UNCHANGED <<machine, host, server, error>>

-----------------------------------------------------------------------------
(* NCCL.  A group is a sequence of <<op, key>>.  An operation moves its    *)
(* data once every GPU of the switch has posted it.                        *)

OpsOf(op, ks) == [i \in DOMAIN ks |-> <<op, ks[i]>>]

(* The reduce-scatter leaves GPU q its slice of the switch's sum, the      *)
(* all-gather gives every GPU the slices of all.                           *)
NcclResult(P, q, op, k) ==
    IF op = "REDUCE"
    THEN [P[q].out[k] EXCEPT ![NcclRank(q)] =
             {<<x, P[x].task[k].round>> : x \in Peers(q)}]
    ELSE [s \in Slices |-> P[Switch(q) * PcieSize + s].out[k][s]]

(* Posts a group on GPU r and enqueues it for the synchronizing thread.    *)
EnqueueGroup(P, r, group) ==
    LET Posted == [P EXCEPT ![r].posted = [o \in DOMAIN @ |->
                      IF o \in ToSet(group) THEN @[o] + 1 ELSE @[o]],
                            ![r].groups = Append(@, group)]
        Moves(o) == /\ o \in ToSet(group)
                    /\ \A q \in Peers(r) :
                          Posted[q].posted[o] = Posted[r].posted[o]
        After(q, k) ==
            IF Moves(<<"REDUCE", k>>) THEN NcclResult(P, q, "REDUCE", k)
            ELSE IF Moves(<<"BROADCAST", k>>) THEN NcclResult(P, q, "BROADCAST", k)
            ELSE P[q].out[k]
    IN [q \in Ranks |-> IF q \in Peers(r)
           THEN [Posted[q] EXCEPT !.out = [k \in Keys |-> After(q, k)]]
           ELSE Posted[q]]

(* The signal root takes up to GroupSize tasks of each kind, tells the     *)
(* others of the switch and posts the group.                               *)
RunRootNcclLoopOnce(r) ==
    LET R      == p[r]
        red    == Takable(R, r, "REDUCE", GroupSize)
        bcast  == Takable(R, r, "BROADCAST", GroupSize)
        group  == OpsOf("REDUCE", red) \o OpsOf("BROADCAST", bcast)
        R1     == GetTasks(GetTasks(R, r, "REDUCE", red), r, "BROADCAST", bcast)
        Told   == [q \in Ranks |-> IF q = r THEN R1
                      ELSE IF q \in Peers(r)
                           THEN [p[q] EXCEPT !.toNccl = Append(@, group)]
                           ELSE p[q]]
    IN /\ IsSignalRoot(r)
       /\ group # <<>>
       /\ p' = EnqueueGroup(Told, r, group)
       /\ UNCHANGED <<machine, host, server, error>>

(* getTask(key) finds the entry, and every entry it passes is ready.       *)
FoundByKey(R, s, k) ==
    /\ k \in ToSet(R.queue[s])
    /\ \A i \in DOMAIN R.queue[s] :
          (\A j \in 1..(i - 1) : R.queue[s][j] # k) =>
             R.task[R.queue[s][i]].event = "none"

RunNonRootNcclLoopOnce(r) ==
    LET group == Head(p[r].toNccl)
        KeysOf(op) == SelectSeq(group, LAMBDA o : o[1] = op)
        Ks(op)  == [i \in DOMAIN KeysOf(op) |-> KeysOf(op)[i][2]]
        R1      == GetTasks(GetTasks([p[r] EXCEPT !.toNccl = Tail(@)],
                                     r, "REDUCE", Ks("REDUCE")),
                            r, "BROADCAST", Ks("BROADCAST"))
    IN /\ p[r].toNccl # <<>>
       /\ IF \A o \in ToSet(group) : FoundByKey(p[r], o[1], o[2])
          THEN /\ p' = EnqueueGroup([p EXCEPT ![r] = R1], r, group)
               /\ UNCHANGED <<machine, host, server, error>>
          ELSE Abort("getTask(key)")

(* The oldest group is finished once all its operations have run.          *)
RunSyncNcclOnce(r) ==
    /\ p[r].groups # <<>>
    /\ LET group == Head(p[r].groups)
           Proceed(R, o) == FinishOrProceed(R, r, o[2])
       IN /\ \A o \in ToSet(group) : \A q \in Peers(r) :
                p[q].posted[o] >= p[r].posted[o]
          /\ p' = [p EXCEPT ![r] = FoldLeft(Proceed, [@ EXCEPT !.groups = Tail(@)], group)]
    /\ UNCHANGED <<machine, host, server, error>>

-----------------------------------------------------------------------------
(* The copies.  The event of an asynchronous copy is ready when the copy   *)
(* has happened.                                                           *)

StartCopy(R, r, s, k, kind) ==
    FinishOrProceed([GetTasks(R, r, s, <<k>>) EXCEPT !.task[k].event = kind], r, k)

RunCopyDevice2HostLoopOnce(r) ==
    /\ Takable(p[r], r, "COPYD2H", 1) # <<>>
    /\ p' = [p EXCEPT ![r] =
                StartCopy(@, r, "COPYD2H", Takable(@, r, "COPYD2H", 1)[1], "d2h")]
    /\ UNCHANGED <<machine, host, server, error>>

(* To the switch's own host buffer. *)
Device2HostDone(r, k) ==
    /\ p[r].task[k].event = "d2h"
    /\ host' = [host EXCEPT ![Switch(r)][k][NcclRank(r)] = p[r].out[k][NcclRank(r)]]
    /\ p' = [p EXCEPT ![r].task[k].event = "none"]
    /\ UNCHANGED <<machine, server, error>>

(* The last switch's rank adds the first switch's slice to its own buffer. *)
RunPcieReduceLoopOnce(r) ==
    /\ Takable(p[r], r, "PCIE_REDUCE", 1) # <<>>
    /\ LET k == Takable(p[r], r, "PCIE_REDUCE", 1)[1]
           R == FinishOrProceed(Take(r, "PCIE_REDUCE", k), r, k)
       IN IF IsReducerRoot(r)
          THEN /\ host' = [host EXCEPT ![LastSwitch][k][NcclRank(r)] =
                              @ \cup host[0][k][NcclRank(r)]]
               /\ p' = [p EXCEPT ![r] = R]
          ELSE /\ p' = [p EXCEPT ![r] = SendSignal(R, "PCIE_REDUCE", k)]
               /\ UNCHANGED host
    /\ UNCHANGED <<machine, server, error>>

Host2DeviceOwnBuffer(r, k) ==
    /\ p[r].task[k].event = "h2d"
    /\ p' = [p EXCEPT ![r].task[k].event = "none",
                      ![r].out[k][NcclRank(r)] = host[Switch(r)][k][NcclRank(r)]]
    /\ UNCHANGED <<machine, host, server, error>>

(* Copying back, from the last switch's buffer.                            *)
Host2DeviceDone(r, k) ==
    /\ p[r].task[k].event = "h2d"
    /\ p' = [p EXCEPT ![r].task[k].event = "none",
                      ![r].out[k][NcclRank(r)] = host[LastSwitch][k][NcclRank(r)]]
    /\ UNCHANGED <<machine, host, server, error>>

RunRootCopyHost2DeviceLoopOnce ==
    /\ Takable(p[Root], Root, "COPYH2D", 1) # <<>>
    /\ LET k == Takable(p[Root], Root, "COPYH2D", 1)[1]
       IN p' = [q \in Ranks |-> IF q = Root
                   THEN StartCopy(p[Root], Root, "COPYH2D", k, "h2d")
                   ELSE [p[q] EXCEPT !.toCopy = Append(@, k)]]
    /\ UNCHANGED <<machine, host, server, error>>

RunNonRootCopyListenLoopOnce(r) ==
    /\ p[r].toCopy # <<>>
    /\ IF CountOverflows(p[r], "COPYH2D", Head(p[r].toCopy))
       THEN Abort("ready count")
       ELSE /\ p' = [p EXCEPT ![r] = AddReadyCount([@ EXCEPT !.toCopy = Tail(@)],
                                         "COPYH2D", Head(@.toCopy))]
            /\ UNCHANGED <<machine, host, server, error>>

RunNonRootCopyHost2DeviceLoopOnce(r) ==
    /\ ~IsRootDevice(r)
    /\ Takable(p[r], r, "COPYH2D", 1) # <<>>
    /\ p' = [p EXCEPT ![r] =
                StartCopy(@, r, "COPYH2D", Takable(@, r, "COPYH2D", 1)[1], "h2d")]
    /\ UNCHANGED <<machine, host, server, error>>

-----------------------------------------------------------------------------
(* Push and pull by the root device.  The request reads or writes the host *)
(* buffer while it is outstanding; its callback moves the entry on.        *)

RunPushLoopOnce ==
    /\ Takable(p[Root], Root, "PUSH", 1) # <<>>
    /\ LET k == Takable(p[Root], Root, "PUSH", 1)[1]
       IN /\ p' = [p EXCEPT ![Root] = Take(Root, "PUSH", k)]
          /\ server' = [server EXCEPT ![k].op = "push"]
    /\ UNCHANGED <<machine, host, error>>

PushDone(k) ==
    /\ server[k].op = "push"
    /\ server' = [server EXCEPT ![k] = [@ EXCEPT !.op = "none",
                               !.value = host[LastSwitch][k], !.pushes = @ + 1]]
    /\ p' = [p EXCEPT ![Root] = FinishOrProceed(@, Root, k)]
    /\ UNCHANGED <<machine, host, error>>

RunPullLoopOnce ==
    /\ Takable(p[Root], Root, "PULL", 1) # <<>>
    /\ LET k == Takable(p[Root], Root, "PULL", 1)[1]
       IN /\ p' = [p EXCEPT ![Root] = Take(Root, "PULL", k)]
          /\ server' = [server EXCEPT ![k].op = "pull"]
    /\ UNCHANGED <<machine, host, error>>

PullDone(k) ==
    /\ server[k].op = "pull"
    /\ host' = [host EXCEPT ![LastSwitch][k] = [s \in Slices |->
                   server[k].value[s] \cup {<<Remote, p[Root].task[k].round>>}]]
    /\ server' = [server EXCEPT ![k].op = "none", ![k].pulls = @ + 1]
    /\ p' = [p EXCEPT ![Root] = FinishOrProceed(@, Root, k)]
    /\ UNCHANGED <<machine, error>>

-----------------------------------------------------------------------------
Ops == {"REDUCE", "BROADCAST"} \X Keys
Blank == [k \in Keys |-> [s \in Slices |-> {}]]

Init ==
    /\ machine \in Machines
    /\ p = [r \in Ranks |->
              [task   |-> [k \in Keys |-> [stage |-> 0, event |-> "none", round |-> 0]],
               queue  |-> [s \in Stages |-> <<>>],
               table  |-> [t \in Tables |-> [k \in Keys |-> 0]],
               credits |-> Credit,
               coord  |-> [s \in Coordinators |-> 0],
               sent   |-> [t \in Tables |-> <<>>],
               toNccl |-> <<>>,
               toCopy |-> <<>>,
               groups |-> <<>>,
               posted |-> [o \in Ops |-> 0],
               out    |-> Blank]]
    /\ host = [w \in 0..LastSwitch |-> Blank]
    /\ server = [k \in Keys |->
                   [op |-> "none", value |-> Blank[k], pushes |-> 0, pulls |-> 0]]
    /\ error = "none"

(* The threads of a process.                                               *)
Threads(r) ==
    \/ \E s \in Coordinators : CoordinateTake(r, s) \/ CoordinateEnd(r, s)
    \/ \E t \in Tables : Listen(r, t)
    \/ RunRootNcclLoopOnce(r)
    \/ RunNonRootNcclLoopOnce(r)
    \/ RunSyncNcclOnce(r)
    \/ RunCopyDevice2HostLoopOnce(r)
    \/ RunPcieReduceLoopOnce(r)
    \/ RunNonRootCopyListenLoopOnce(r)
    \/ RunNonRootCopyHost2DeviceLoopOnce(r)

Next ==
    /\ error = "none"
    /\ \/ \E r \in Ranks, t \in Tensors : EnqueueTensor(r, t) \/ ComputeDone(r, t)
       \/ \E r \in Ranks : Threads(r)
       \/ \E r \in Ranks, k \in Keys : Device2HostDone(r, k) \/ Host2DeviceDone(r, k)
       \/ RunRootCopyHost2DeviceLoopOnce
       \/ RunPushLoopOnce
       \/ RunPullLoopOnce
       \/ \E k \in Keys : PushDone(k) \/ PullDone(k)

(* Every thread polls its queue for ever, a kernel, a copy and a request   *)
(* end, and the program issues its push_pulls.  No step can be repeated    *)
(* for ever (each moves a partition of a bounded number of rounds on), so  *)
(* fairness to every thread is the same as never stopping altogether.      *)
Spec == Init /\ [][Next]_vars /\ WF_vars(Next)

-----------------------------------------------------------------------------
Sum(n) == {<<r, n>> : r \in Ranks}

(* What the root pushes for a partition is, in every slice, the sum of     *)
(* this round's gradients of all local GPUs: no slice of an earlier round, *)
(* none missing (the asynchronous copies, PUSH_READY and the PCIe          *)
(* reduction are all in time).                                             *)
PushedIsSum ==
    \A k \in Keys, s \in Slices :
        server[k].pushes > 0 => server[k].value[s] = Sum(server[k].pushes)

(* When a push_pull returns, the tensor holds in every slice the global    *)
(* sum of its own round, and holds it until the next push_pull.            *)
OutputIsSum ==
    \A r \in Ranks, k \in Keys :
        LET t == p[r].task[k]
        IN t.stage = 0 /\ t.round > 0 =>
              \A s \in Slices : p[r].out[k][s] = Sum(t.round) \cup {<<Remote, t.round>>}

(* No BPS_CHECK aborts a process: a ready count never passes its bound,    *)
(* and a DO_REDUCE or DO_BROADCAST finds its entry queued and ready.       *)
NoAbort == error = "none"

(* The credits of a signal root plus the partitions it is reducing make up *)
(* the credit it started with.                                             *)
Reducing(r) ==
    {k \in Keys : /\ p[r].task[k].stage > 0
                  /\ QueueList(r)[p[r].task[k].stage] = "REDUCE"
                  /\ k \notin ToSet(p[r].queue["REDUCE"])}

CreditsConserved ==
    \A r \in Ranks : IsScheduled(r, "REDUCE") =>
        p[r].credits + Cardinality(Reducing(r)) = Credit

(* Every push_pull of every rank returns: the stages, the signals and the  *)
(* credits never wait for each other in a circle.                          *)
EveryRoundReturns ==
    <>(\A r \in Ranks, k \in Keys : p[r].task[k].stage = 0 /\ p[r].task[k].round = Rounds)

(* The machine is one worker: it pushes a partition's round exactly when   *)
(* all its processes have entered it, and none leaves before the pull.     *)
Worker == INSTANCE LocalReduce WITH
    ranks   <- Ranks,
    keys    <- Keys,
    entered <- [r \in Ranks |-> [k \in Keys |-> p[r].task[k].round]],
    left    <- [r \in Ranks |-> [k \in Keys |->
                  IF p[r].task[k].stage = 0 THEN p[r].task[k].round
                                            ELSE p[r].task[k].round - 1]],
    pushes  <- [k \in Keys |-> server[k].pushes],
    pulls   <- [k \in Keys |-> server[k].pulls]

ActsAsOneWorker == Worker!Spec
====
