------------------------------ MODULE ServerEngine ------------------------------
(***************************************************************************)
(* The engine threads of the server and their queues: GetThreadID assigns  *)
(* a key to a thread (byteps/byteps/server/server.h), the request handler  *)
(* pushes the messages of a round to that thread's PriorityQueue           *)
(* (byteps/byteps/server/queue.h), the thread pops and executes them.      *)
(*                                                                         *)
(* BytePSServer abstracts all this to one queue per key; ImplementsKeyQueues *)
(* is the justification.                                                   *)
(***************************************************************************)
EXTENDS Integers, Sequences, FiniteSets, Functions

CONSTANTS
  Keys,         \* ps keys, numbers
  Size,         \* Size[k]: the length of k's tensor
  ThreadNum,    \* engine_thread_num_
  NumWorkers,   \* pushes per round
  Schedule,     \* enable_schedule_
  MaxRound      \* bound: MaxRound[k] rounds of key k

ASSUME EngineAssumption ==
  /\ Keys \subseteq Nat
  /\ Size \in [Keys -> Nat \ {0}]
  /\ ThreadNum \in Nat \ {0}
  /\ NumWorkers \in Nat \ {0}
  /\ Schedule \in BOOLEAN
  /\ MaxRound \in [Keys -> Nat]

VARIABLES
  timestamp_,   \* the id of the next message
  hash_cache,   \* hash_cache[k]: the thread of key k, -1 if none yet
  acc_load,     \* acc_load[t]: accumulated tensor size of thread t
  queue,        \* queue[t]: the vector queue_ of thread t
  push_cnt,     \* push_cnt[t][k]: pushes of k since its last ClearCounter
  request,      \* request[k]: pushes of the current round handled so far
  handler,      \* what remains to be done of the push being handled
  executing,    \* executing[t]: the message thread t is working on
  rounds        \* rounds[k]: completed rounds of k

vars == <<timestamp_, hash_cache, acc_load, queue, push_cnt, request, handler,
          executing, rounds>>

Threads == 0..(ThreadNum - 1)

Ops == {"COPY_FIRST", "SUM_RECV", "ALL_RECV"}

NoMessage == [id |-> -1, key |-> -1, ops |-> "NONE"]

\* The handler is between two requests.
Ready == [todo |-> "request", key |-> -1]

Init ==
  /\ timestamp_ = 0
  /\ hash_cache = [k \in Keys |-> -1]
  /\ acc_load = [t \in Threads |-> 0]
  /\ queue = [t \in Threads |-> <<>>]
  /\ push_cnt = [t \in Threads |-> [k \in Keys |-> 0]]
  /\ request = [k \in Keys |-> 0]
  /\ handler = Ready
  /\ executing = [t \in Threads |-> NoMessage]
  /\ rounds = [k \in Keys |-> 0]

-----------------------------------------------------------------------------
(***************************************************************************)
(* PriorityQueue.                                                          *)
(***************************************************************************)

\* a comes later than b, under the counters cnt.
ComparePriority(a, b, cnt) ==
  IF cnt[a.key] = cnt[b.key] THEN a.id > b.id ELSE cnt[a.key] > cnt[b.key]

\* The ancestors of position i, itself included, in a heap.
PathFrom(i) == {j \in 1..i : \E p \in 0..i : i \div 2^p = j}

\* std::push_heap: move value up from the hole while its parent comes later.
SiftUp(s, hole, value, cnt) ==
  LET Stop[i \in 1..hole] ==
        IF i > 1 /\ ComparePriority(s[i \div 2], value, cnt) THEN Stop[i \div 2] ELSE i
      top == Stop[hole]
      passed == {i \in PathFrom(hole) : i > top}
  IN  [i \in DOMAIN s |-> IF i = top THEN value
                          ELSE IF i \in passed THEN s[i \div 2] ELSE s[i]]

\* std::pop_heap: move the hole at the root down to a leaf, filling it with the
\* earlier child, then place value there and move it up.
SiftDown(s, value, cnt) ==
  LET Child(i) == IF 2 * i + 1 > Len(s) \/ ComparePriority(s[2 * i + 1], s[2 * i], cnt)
                  THEN 2 * i ELSE 2 * i + 1
      Leaf[i \in 1..Len(s)] == IF 2 * i > Len(s) THEN i ELSE Leaf[Child(i)]
      filled == PathFrom(Leaf[1]) \ {Leaf[1]}
  IN  SiftUp([i \in DOMAIN s |-> IF i \in filled THEN s[Child(i)] ELSE s[i]],
             Leaf[1], value, cnt)

\* Mutant: the newest message is taken first.
PushedInFront(s, m, cnt) == <<m>> \o s

\* The vector after Push(m), with cnt the counters after the increment.
Pushed(s, m, cnt) ==
  IF Schedule THEN SiftUp(Append(s, m), Len(s) + 1, m, cnt) ELSE Append(s, m)

\* What WaitAndPop takes, and what it leaves.
Popped(s) == Head(s)
Remaining(s, cnt) ==
  IF Schedule /\ Len(s) > 1 THEN SiftDown(SubSeq(s, 1, Len(s) - 1), s[Len(s)], cnt)
  ELSE Tail(s)

-----------------------------------------------------------------------------

\* Mutant: the load decides every time, a key has no thread of its own.
GetThreadIDUncached(k) ==
  CHOOSE t \in Threads :
    /\ \A u \in Threads : acc_load[t] <= acc_load[u]
    /\ \A u \in 0..(t - 1) : acc_load[t] < acc_load[u]

\* The thread of key k: the one it has, or the least loaded one.
GetThreadID(k) ==
  IF hash_cache[k] # -1 THEN hash_cache[k]
  ELSE CHOOSE t \in Threads :
         /\ \A u \in Threads : acc_load[t] <= acc_load[u]
         /\ \A u \in 0..(t - 1) : acc_load[t] < acc_load[u]

\* engine_queues_[t]->Push of a message of key k.
Push(t, k, ops) ==
  LET m == [id |-> timestamp_, key |-> k, ops |-> ops]
      cnt == IF Schedule THEN [push_cnt[t] EXCEPT ![k] = @ + 1] ELSE push_cnt[t]
  IN  /\ timestamp_' = timestamp_ + 1
      /\ push_cnt' = [push_cnt EXCEPT ![t] = cnt]
      /\ queue' = [queue EXCEPT ![t] = Pushed(@, m, cnt)]

\* The messages of key k waiting in any queue, and the threads working on k.
Waiting(k) == {m \in UNION {Range(queue[t]) : t \in Threads} : m.key = k}
WorkingOn(k) == {t \in Threads : executing[t].key = k}

\* A push request of key k.  A worker pushes the next round once its pull of the
\* last one is answered, and the first pulls are answered inside ALL_RECV: by
\* then the thread has taken every message of the last round.
HandlePush(k) ==
  LET t == GetThreadID(k)
      last == request[k] + 1 = NumWorkers
  IN  /\ handler = Ready
      /\ rounds[k] < MaxRound[k]
      /\ request[k] = 0 => Waiting(k) = {}
      /\ hash_cache' = [hash_cache EXCEPT ![k] = t]
      /\ acc_load' = [acc_load EXCEPT ![t] =
                        IF hash_cache[k] = -1 THEN @ + Size[k] ELSE @]
      /\ Push(t, k, IF request[k] = 0 THEN "COPY_FIRST" ELSE "SUM_RECV")
      /\ request' = [request EXCEPT ![k] = @ + 1]
      /\ handler' = IF last THEN [todo |-> "ALL_RECV", key |-> k] ELSE Ready
      /\ UNCHANGED <<executing, rounds>>

\* The last push of a round goes on to push ALL_RECV ...
HandleLastPush ==
  LET k == handler.key
  IN  /\ handler.todo = "ALL_RECV"
      /\ Push(hash_cache[k], k, "ALL_RECV")
      /\ handler' = [handler EXCEPT !.todo = "ClearCounter"]
      /\ UNCHANGED <<hash_cache, acc_load, request, executing, rounds>>

\* ... and then clears the counter and the request buffer.
HandleClearCounter ==
  LET k == handler.key
  IN  /\ handler.todo = "ClearCounter"
      /\ push_cnt' = [push_cnt EXCEPT ![hash_cache[k]][k] = 0]
      /\ request' = [request EXCEPT ![k] = 0]
      /\ rounds' = [rounds EXCEPT ![k] = @ + 1]
      /\ handler' = Ready
      /\ UNCHANGED <<timestamp_, hash_cache, acc_load, queue, executing>>

\* Mutant: the thread waits until a second message arrives.
WaitAndPopLate(t) ==
  /\ executing[t] = NoMessage
  /\ Len(queue[t]) > 1
  /\ executing' = [executing EXCEPT ![t] = Popped(queue[t])]
  /\ queue' = [queue EXCEPT ![t] = Remaining(@, push_cnt[t])]
  /\ UNCHANGED <<timestamp_, hash_cache, acc_load, push_cnt, request, handler,
                 rounds>>

\* Thread t takes a message.
WaitAndPop(t) ==
  /\ executing[t] = NoMessage
  /\ queue[t] # <<>>
  /\ executing' = [executing EXCEPT ![t] = Popped(queue[t])]
  /\ queue' = [queue EXCEPT ![t] = Remaining(@, push_cnt[t])]
  /\ UNCHANGED <<timestamp_, hash_cache, acc_load, push_cnt, request, handler,
                 rounds>>

\* Thread t is done with it.
Execute(t) ==
  /\ executing[t] # NoMessage
  /\ executing' = [executing EXCEPT ![t] = NoMessage]
  /\ UNCHANGED <<timestamp_, hash_cache, acc_load, queue, push_cnt, request,
                 handler, rounds>>

\* Every key has had its rounds and the engine is idle.
Done ==
  /\ \A k \in Keys : rounds[k] = MaxRound[k]
  /\ \A t \in Threads : queue[t] = <<>> /\ executing[t] = NoMessage
  /\ UNCHANGED vars

Next ==
  \/ \E k \in Keys : HandlePush(k)
  \/ HandleLastPush
  \/ HandleClearCounter
  \/ \E t \in Threads : WaitAndPop(t) \/ Execute(t)
  \/ Done

Spec == Init /\ [][Next]_vars

\* The engine threads keep running, and so does the handler of a request.
FairSpec ==
  /\ Spec
  /\ WF_vars(HandleLastPush \/ HandleClearCounter)
  /\ \A t \in Threads : WF_vars(WaitAndPop(t) \/ Execute(t))

-----------------------------------------------------------------------------
(***************************************************************************)
(* Properties.                                                             *)
(***************************************************************************)

\* The operations on key k still waiting, in the order they were issued.
InOrder(k) ==
  LET At(i) == CHOOSE m \in Waiting(k) :
                 Cardinality({n \in Waiting(k) : n.id < m.id}) = i - 1
  IN  [i \in 1..Cardinality(Waiting(k)) |-> At(i).ops]

\* The threads and their queues look like one queue per key: the messages of a
\* key are executed one at a time and in the order the handler issued them,
\* whatever the other keys of the same thread do.
AbstractKeyQueues ==
  INSTANCE KeyQueues WITH
    engine_queue <- [k \in Keys |-> InOrder(k)],
    engine <- [k \in Keys |->
                 IF WorkingOn(k) = {} THEN "NONE"
                 ELSE executing[CHOOSE t \in WorkingOn(k) : TRUE].ops]
ImplementsKeyQueues == AbstractKeyQueues!Spec

\* Two threads never work on the same key: nothing else keeps them from writing
\* the same buffer, no lock is held while copying and summing.
OneThreadPerKey == \A k \in Keys : Cardinality(WorkingOn(k)) <= 1

\* Every message is executed: a key that waits for its ALL_RECV gets it.
EveryMessageExecuted ==
  \A k \in Keys : Waiting(k) # {} ~> Waiting(k) = {}
=============================================================================
