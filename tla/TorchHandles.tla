---------------------------- MODULE TorchHandles ----------------------------
(***************************************************************************)
(* The PyTorch plugin's asynchronous calls: push_pull_async returns a      *)
(* handle at once, the first call of a name runs StartTask in a detached   *)
(* thread because InitTensor blocks until every worker has initialized the *)
(* name, later calls run it in the caller, and synchronize waits for the   *)
(* handle.  suspend (or shutdown) stops the background loops, deletes the  *)
(* queues, waits for the other workers and clears the contexts.            *)
(*                                                                         *)
(* A worker is one process that is its machine's root.  The pipeline and   *)
(* the servers are abstracted to what they do for this module: the n-th    *)
(* task of a name on every worker form one sum (WorkerPipeline and         *)
(* BytePSServer show it).                                                  *)
(***************************************************************************)
EXTENDS Integers, Sequences

CONSTANTS
    Workers,
    Calls,       \* the push_pull_async calls of the program, 1..n
    Program,     \* Program[w]: the order in which w makes them
    NameOf,      \* NameOf[c]: the name given, "" for none
    SuspendPoints, \* after how many calls the program may suspend, 0: never
    Drain        \* whether it synchronizes all its handles first

ASSUME ProgramAssumption ==
    /\ Calls \subseteq Nat
    /\ Program \in [Workers -> Seq(Calls)]
    /\ \A w \in Workers : \A i, j \in 1..Len(Program[w]) :
          i # j => Program[w][i] # Program[w][j]
    /\ SuspendPoints \subseteq Nat
    /\ Drain \in BOOLEAN

VARIABLES
    suspendAt,   \* after how many calls it does, the same on every worker
    next,        \* next[w]: how many calls w has made
    handle,      \* handle[w][c]: none, pending, done, released
    thread,      \* thread[w][c]: none, init, waiting, enqueue, ended, dangling
    context,     \* context[w][n]: new, locked, initialized
    initPush,    \* initPush[n]: the workers whose init push arrived
    line,        \* line[w][n]: the calls enqueued, in order
    summed,      \* summed[w][c]: which call of every worker was summed
    phase,       \* phase[w]: up, stopping, cleaned
    resumed,     \* whether the suspend is over
    error        \* what a thread of a process touched after it was deleted

vars == <<suspendAt, next, handle, thread, context, initPush, line, summed, phase, resumed, error>>

(* The name of the operation.                                              *)
GetOpName(c) == IF NameOf[c] = "" THEN "noname.0" ELSE NameOf[c]
Names == {GetOpName(c) : c \in Calls}

(* What a call needs of the program to be paired with the same call of     *)
(* every other worker: each worker makes every call, under a name, the     *)
(* calls of a name in the same order (in which they are numbered), and all *)
(* have made the same calls when they suspend.                             *)
MadeFirst(w, s) == {Program[w][i] : i \in {j \in 1..Len(Program[w]) : j <= s}}
Ordered ==
    /\ \A c \in Calls : NameOf[c] # ""
    /\ \A w \in Workers :
          /\ \A c \in Calls : \E i \in 1..Len(Program[w]) : Program[w][i] = c
          /\ \A i, j \in 1..Len(Program[w]) :
                i < j /\ NameOf[Program[w][i]] = NameOf[Program[w][j]]
                  => Program[w][i] < Program[w][j]
    /\ \A v, w \in Workers, s \in SuspendPoints : MadeFirst(v, s) = MadeFirst(w, s)

NoSum == [v \in Workers |-> 0]

Init ==
    /\ suspendAt \in SuspendPoints
    /\ next = [w \in Workers |-> 0]
    /\ handle = [w \in Workers |-> [c \in Calls |-> "none"]]
    /\ thread = [w \in Workers |-> [c \in Calls |-> "none"]]
    /\ context = [w \in Workers |-> [n \in Names |-> "new"]]
    /\ initPush = [n \in Names |-> {}]
    /\ line = [w \in Workers |-> [n \in Names |-> <<>>]]
    /\ summed = [w \in Workers |-> [c \in Calls |-> NoSum]]
    /\ phase = [w \in Workers |-> "up"]
    /\ resumed = FALSE
    /\ error = "none"

-----------------------------------------------------------------------------

(* EnqueueTensor returns OK without a task once the process is stopping.   *)
EnqueueTensor(w, c) ==
    line' = IF phase[w] = "up"
            THEN [line EXCEPT ![w][GetOpName(c)] = Append(@, c)]
            ELSE line

(* InitTensor: at most one thread per context, and nothing to do once it   *)
(* is initialized.                                                         *)
InitTensor(w, c) ==
    LET n == GetOpName(c)
    IN /\ thread[w][c] = "init"
       /\ context[w][n] # "locked"
       /\ IF context[w][n] = "initialized"
          THEN /\ thread' = [thread EXCEPT ![w][c] = "enqueue"]
               /\ UNCHANGED <<context, initPush>>
          ELSE /\ context' = [context EXCEPT ![w][n] = "locked"]
               /\ thread' = [thread EXCEPT ![w][c] = "waiting"]
               /\ initPush' = [initPush EXCEPT ![n] = @ \cup {w}]
       /\ UNCHANGED <<suspendAt, next, handle, line, summed, phase, resumed, error>>

InitializedKeepsLock(w, c) ==
    /\ thread[w][c] = "waiting"
    /\ initPush[GetOpName(c)] = Workers
    /\ thread' = [thread EXCEPT ![w][c] = "enqueue"]
    /\ UNCHANGED <<suspendAt, next, handle, context, initPush, line, summed, phase, resumed, error>>

(* The blocking init push returns when all workers have sent theirs.       *)
Initialized(w, c) ==
    /\ thread[w][c] = "waiting"
    /\ initPush[GetOpName(c)] = Workers
    /\ context' = [context EXCEPT ![w][GetOpName(c)] = "initialized"]
    /\ thread' = [thread EXCEPT ![w][c] = "enqueue"]
    /\ UNCHANGED <<suspendAt, next, handle, initPush, line, summed, phase, resumed, error>>

(* The rest of StartTask in the detached thread.  Its context is gone if   *)
(* Shutdown has cleared it meanwhile.                                      *)
StartTask(w, c) ==
    /\ thread[w][c] \in {"enqueue", "dangling"}
    /\ thread' = [thread EXCEPT ![w][c] = "ended"]
    /\ IF thread[w][c] = "dangling"
       THEN error' = "cleared context" /\ UNCHANGED line
       ELSE EnqueueTensor(w, c) /\ UNCHANGED error
    /\ UNCHANGED <<suspendAt, next, handle, context, initPush, summed, phase, resumed>>

(* The program keeps one call of a name in flight, and suspends where all  *)
(* workers do.                                                             *)
ProgramAllows(w, c) ==
    /\ phase[w] = "up"
    /\ \A d \in Calls : NameOf[d] = NameOf[c] /\ NameOf[c] # "" =>
          handle[w][d] # "pending" /\ handle[w][d] # "done"

DoPushPull(w) ==
    /\ next[w] < Len(Program[w])
    /\ next[w] # suspendAt \/ suspendAt = 0 \/ resumed
    /\ LET c == Program[w][next[w] + 1]
       IN /\ ProgramAllows(w, c)
          /\ handle' = [handle EXCEPT ![w][c] = "pending"]
          /\ IF context[w][GetOpName(c)] = "initialized"
             THEN EnqueueTensor(w, c) /\ UNCHANGED thread
             ELSE thread' = [thread EXCEPT ![w][c] = "init"] /\ UNCHANGED line
    /\ next' = [next EXCEPT ![w] = @ + 1]
    /\ UNCHANGED <<suspendAt, context, initPush, summed, phase, resumed, error>>

(* The pipeline finishes the n-th task of a name, and its callback marks   *)
(* the handle.  An answer that arrives when the queues are deleted has its *)
(* callback call reportFinish on one of them.                              *)
Finish(w, c) ==
    LET n == GetOpName(c)
    IN /\ handle[w][c] = "pending"
       /\ \E i \in DOMAIN line[w][n] :
             /\ line[w][n][i] = c
             /\ \A v \in Workers : Len(line[v][n]) >= i
             /\ summed' = [summed EXCEPT ![w][c] = [v \in Workers |-> line[v][n][i]]]
       /\ handle' = [handle EXCEPT ![w][c] = "done"]
       /\ error' = IF phase[w] = "cleaned" THEN "deleted queue" ELSE error
       /\ UNCHANGED <<suspendAt, next, thread, context, initPush, line, phase, resumed>>

PollHandleEarly(w, c) == handle[w][c] \in {"pending", "done"}

(* synchronize: WaitAndClear polls until the handle is done and releases it. *)
PollHandle(w, c) == handle[w][c] = "done"

Synchronize(w, c) ==
    /\ PollHandle(w, c)
    /\ handle' = [handle EXCEPT ![w][c] = "released"]
    /\ UNCHANGED <<suspendAt, next, thread, context, initPush, line, summed, phase, resumed, error>>

-----------------------------------------------------------------------------
(* Shutdown: the flag, then the loops are joined and the queues deleted,   *)
(* then the barrier of ps::Finalize, then the contexts are cleared.        *)

Suspend(w) ==
    /\ suspendAt > 0 /\ next[w] = suspendAt
    /\ phase[w] = "up" /\ ~resumed
    /\ Drain => \A c \in Calls : handle[w][c] \in {"none", "released"}
    /\ phase' = [phase EXCEPT ![w] = "stopping"]
    /\ UNCHANGED <<suspendAt, next, handle, thread, context, initPush, line, summed, resumed, error>>

DeleteQueues(w) ==
    /\ phase[w] = "stopping"
    /\ phase' = [phase EXCEPT ![w] = "cleaned"]
    /\ UNCHANGED <<suspendAt, next, handle, thread, context, initPush, line, summed, resumed, error>>

(* The barrier, the clearing of every process and byteps_resume, after     *)
(* which the program goes on.  A detached thread that is left over still   *)
(* holds its cleared context.                                              *)
FinalizeAndResume ==
    /\ \A w \in Workers : phase[w] = "cleaned"
    /\ context' = [w \in Workers |-> [n \in Names |-> "new"]]
    /\ initPush' = [n \in Names |-> {}]
    /\ line' = [w \in Workers |-> [n \in Names |-> <<>>]]
    /\ phase' = [w \in Workers |-> "up"]
    /\ resumed' = TRUE
    /\ thread' = [w \in Workers |-> [c \in Calls |->
                    IF thread[w][c] = "none" THEN "none"
                    ELSE IF thread[w][c] = "ended" THEN "ended" ELSE "dangling"]]
    /\ UNCHANGED <<suspendAt, next, handle, summed, error>>

CallNext(w, c) ==
    \/ InitTensor(w, c) \/ Initialized(w, c) \/ StartTask(w, c)
    \/ Finish(w, c) \/ Synchronize(w, c)

Next ==
    /\ error = "none"
    /\ \/ \E w \in Workers : DoPushPull(w) \/ Suspend(w) \/ DeleteQueues(w)
       \/ \E w \in Workers, c \in Calls :
             CallNext(w, c)
       \/ FinalizeAndResume

Spec == Init /\ [][Next]_vars

(* The program, the threads and the loops all go on.                       *)
Running(A) == error = "none" /\ A

FairSpec ==
    /\ Spec
    /\ \A w \in Workers :
          /\ WF_vars(Running(DoPushPull(w)))
          /\ WF_vars(Running(Suspend(w)))
          /\ WF_vars(Running(DeleteQueues(w)))
          /\ \A c \in Calls : WF_vars(Running(CallNext(w, c)))
    /\ WF_vars(Running(FinalizeAndResume))

-----------------------------------------------------------------------------
(* What a call returns is the sum of the same call of every worker.        *)
CallsPairUp ==
    \A w \in Workers, c \in Calls :
        handle[w][c] \in {"done", "released"} => summed[w][c] = [v \in Workers |-> c]

(* No thread uses a queue or a context that Shutdown has deleted.          *)
NoUseAfterShutdown == error = "none"

(* Every handle is synchronized in the end, those issued before a suspend  *)
(* and those whose name is initialized again after it.                     *)
EveryCallReturns ==
    <>(\A w \in Workers, c \in Calls : handle[w][c] = "released")
====
