----------------------------- MODULE BytePSServer -----------------------------
(***************************************************************************)
(* The summation service of byteps/byteps/server/server.cc in its default  *)
(* mode (synchronous, non-blocking engine), together with the ps workers   *)
(* that drive it.                                                          *)
(*                                                                         *)
(* A ps worker is the root process of one machine.  It issues push_pull    *)
(* operations on keys; round r of key k is its r-th push_pull on k.  The   *)
(* payload a worker pushes in a round is abstracted to the pair            *)
(* <<worker, round>>, and the content of a buffer to the set of payloads   *)
(* summed into it.  The init push of InitTensor carries no data: it is     *)
(* round 0.                                                                *)
(*                                                                         *)
(* A worker has at most one request outstanding per key, so the network is *)
(* not a variable: stage[k][w] says which message of the exchange between  *)
(* w and the server about k is on its way or being held.                   *)
(***************************************************************************)
EXTENDS Integers, Sequences, FiniteSets

CONSTANTS
  Workers,      \* ps workers
  Keys,         \* ps keys; their numeric order is the order of the program
  Group,        \* Group[k]: the workers that push_pull key k
  Overlap,      \* TRUE: asynchronous handles, all keys of a pass in flight
  MaxRound      \* bound on the rounds per key

ASSUME ConstantsAssumption ==
  /\ IsFiniteSet(Workers)
  /\ Keys \subseteq Nat
  /\ Group \in [Keys -> SUBSET Workers]
  /\ \A k \in Keys : Group[k] # {}
  /\ Overlap \in BOOLEAN
  /\ MaxRound \in Nat

VARIABLES
  \* KeyState, one per key
  expected_workers,  \* -1 until a kGroupRegister request sets it
  tensor,            \* store.tensor has been allocated
  store,             \* content of store.tensor
  merged,            \* update.merged.tensor points at store.tensor
  request,           \* update.request: the pushes collected so far
  is_push_finished,
  q_pull_reqmeta,    \* pulls waiting for the engine
  seen_sender,
  pull_cnt,
  \* the engine
  engine_queue,      \* messages of key k in the queue of its engine thread
  engine,            \* the message of key k being executed
  \* the workers
  stage,             \* stage[k][w], where w's push_pull on k stands
  round,             \* round[k][w], push_pulls on k that w has started
  result,            \* result[k][w], what w's last pull on k received
  \* history, read by no action
  epoch              \* rounds of k whose pushes have all been collected

serverVars == <<expected_workers, tensor, merged, request, is_push_finished,
                q_pull_reqmeta, seen_sender, pull_cnt>>
engineVars == <<store, engine_queue, engine>>
workerVars == <<stage, round, result>>
vars == <<serverVars, engineVars, workerVars, epoch>>

-----------------------------------------------------------------------------

Payload == Workers \X Nat

\* idle; the kGroupRegister, init push, push or pull request on its way; the
\* init push or the pull held by the server; the pull response posted.
Stage == {"idle", "register", "init", "initWait", "push", "pull", "pullWait",
          "posted"}

EngineMessage == [op : {"COPY_FIRST", "SUM_RECV", "ALL_RECV"},
                  src : SUBSET Payload]

NoMessage == [op |-> "NONE", src |-> {}]

\* Mutant: the registered group size is ignored.
GetExpectedWorkersUnregistered(k) == Cardinality(Workers)

GetExpectedWorkers(k) ==
  IF expected_workers[k] = -1 THEN Cardinality(Workers)
                              ELSE expected_workers[k]

\* The number of push_pulls on k that w has completed.
Completed(k, w) == IF stage[k][w] = "idle" THEN round[k][w] ELSE round[k][w] - 1

\* The sum of round r of key k.
Sum(k, r) == {<<w, r>> : w \in Group[k]}

-----------------------------------------------------------------------------

Init ==
  /\ expected_workers = [k \in Keys |-> -1]
  /\ tensor = [k \in Keys |-> FALSE]
  /\ store = [k \in Keys |-> {}]
  /\ merged = [k \in Keys |-> FALSE]
  /\ request = [k \in Keys |-> {}]
  /\ is_push_finished = [k \in Keys |-> FALSE]
  /\ q_pull_reqmeta = [k \in Keys |-> {}]
  /\ seen_sender = [k \in Keys |-> {}]
  /\ pull_cnt = [k \in Keys |-> 0]
  /\ engine_queue = [k \in Keys |-> <<>>]
  /\ engine = [k \in Keys |-> NoMessage]
  /\ stage = [k \in Keys |-> [w \in Workers |-> "idle"]]
  /\ round = [k \in Keys |-> [w \in Workers |-> 0]]
  /\ result = [k \in Keys |-> [w \in Workers |-> {}]]
  /\ epoch = [k \in Keys |-> 0]

(***************************************************************************)
(* Workers.                                                                *)
(***************************************************************************)

\* A pass of the program visits every key once.  Synchronous calls visit them
\* in key order; with asynchronous handles a pass has all its keys in flight
\* and ends when every handle is synchronized.
ProgramAllows(w, k) ==
  \A j \in Keys :
    w \in Group[j] =>
      Completed(j, w) >= IF ~Overlap /\ j < k THEN round[k][w] + 1
                                              ELSE round[k][w]

\* push_pull: the first one on a key runs InitTensor, which registers the size
\* of the group (that of all workers if none was declared) and then sends the
\* init push.
StartPushPull(w, k) ==
  /\ w \in Group[k]
  /\ stage[k][w] = "idle"
  /\ round[k][w] < MaxRound
  /\ ProgramAllows(w, k)
  /\ round' = [round EXCEPT ![k][w] = @ + 1]
  /\ stage' = [stage EXCEPT ![k][w] =
                 IF round[k][w] > 0 THEN "push" ELSE "register"]
  /\ UNCHANGED <<serverVars, engineVars, result, epoch>>

(***************************************************************************)
(* The request handler.  It holds the mutex of the key throughout.  The    *)
(* response to a push travels together with the request the worker sends   *)
(* next: stage moves to that request when the response is sent.            *)
(***************************************************************************)

\* A kGroupRegister request.  A second registration must agree with the first
\* (a CHECK, see ChecksHold).
HandleGroupRegister(w, k) ==
  /\ stage[k][w] = "register"
  /\ expected_workers' = [expected_workers EXCEPT ![k] =
                            IF @ = -1 THEN Cardinality(Group[k]) ELSE @]
  /\ stage' = [stage EXCEPT ![k][w] = "init"]
  /\ UNCHANGED <<tensor, merged, request, is_push_finished, q_pull_reqmeta,
                 seen_sender, pull_cnt, engineVars, round, result, epoch>>

\* The meta information of w's push request on k.
PushMeta(w, k) == <<w, IF stage[k][w] = "init" THEN 0 ELSE round[k][w]>>

\* The stage a worker reaches when its push request with meta m is answered.
Acknowledged(m) == IF m[2] = 0 THEN "push" ELSE "pull"

\* Mutant: the first init push is answered at once, there is no barrier.
HandleInitPushAtOnce(w, k) ==
  /\ stage[k][w] \in {"init", "push"}
  /\ ~tensor[k]
  /\ tensor' = [tensor EXCEPT ![k] = TRUE]
  /\ stage' = [stage EXCEPT ![k][w] = Acknowledged(PushMeta(w, k))]
  /\ UNCHANGED <<expected_workers, merged, request, is_push_finished,
                 q_pull_reqmeta, seen_sender, pull_cnt, engineVars, round,
                 result, epoch>>

\* A push request while store.tensor is null: hold it until every worker's
\* has arrived, then allocate the zeroed store and answer all of them.
HandleInitPush(w, k) ==
  LET held == request[k] \cup {PushMeta(w, k)}
  IN  /\ stage[k][w] \in {"init", "push"}
      /\ ~tensor[k]
      /\ IF Cardinality(held) < GetExpectedWorkers(k)
         THEN /\ request' = [request EXCEPT ![k] = held]
              /\ stage' = [stage EXCEPT ![k][w] = "initWait"]
              /\ UNCHANGED tensor
         ELSE /\ tensor' = [tensor EXCEPT ![k] = TRUE]
              /\ request' = [request EXCEPT ![k] = {}]
              /\ stage' = [stage EXCEPT ![k] =
                             [v \in Workers |->
                                IF <<v, 0>> \in held THEN "push"
                                ELSE IF \E m \in held : m[1] = v
                                THEN "pull" ELSE stage[k][v]]]
      /\ UNCHANGED <<expected_workers, merged, is_push_finished,
                     q_pull_reqmeta, seen_sender, pull_cnt, engineVars, round,
                     result, epoch>>

\* Mutant: ALL_RECV is queued ahead of the last SUM_RECV.
HandlePushAllRecvFirst(w, k) ==
  LET meta == PushMeta(w, k)
      op == IF request[k] = {} THEN "COPY_FIRST" ELSE "SUM_RECV"
      message == [op |-> op, src |-> {meta}]
      collected == request[k] \cup {meta}
      last == Cardinality(collected) = GetExpectedWorkers(k)
  IN  /\ stage[k][w] \in {"init", "push"}
      /\ tensor[k]
      /\ request' = [request EXCEPT ![k] = IF last THEN {} ELSE collected]
      /\ engine_queue' =
           [engine_queue EXCEPT ![k] =
              IF last THEN @ \o <<[op |-> "ALL_RECV", src |-> {}], message>>
                      ELSE Append(@, message)]
      /\ epoch' = [epoch EXCEPT ![k] = IF last THEN @ + 1 ELSE @]
      /\ stage' = [stage EXCEPT ![k][w] = Acknowledged(meta)]
      /\ UNCHANGED <<expected_workers, tensor, merged, is_push_finished,
                     q_pull_reqmeta, seen_sender, pull_cnt, store, engine,
                     round, result>>

\* Mutant: the round is closed one push early.
HandlePushOneEarly(w, k) ==
  LET meta == PushMeta(w, k)
      op == IF request[k] = {} THEN "COPY_FIRST" ELSE "SUM_RECV"
      queue == Append(engine_queue[k], [op |-> op, src |-> {meta}])
      collected == request[k] \cup {meta}
      last == Cardinality(collected) = GetExpectedWorkers(k) - 1
  IN  /\ stage[k][w] \in {"init", "push"}
      /\ tensor[k]
      /\ request' = [request EXCEPT ![k] = IF last THEN {} ELSE collected]
      /\ engine_queue' =
           [engine_queue EXCEPT ![k] =
              IF last THEN Append(queue, [op |-> "ALL_RECV", src |-> {}])
                      ELSE queue]
      /\ epoch' = [epoch EXCEPT ![k] = IF last THEN @ + 1 ELSE @]
      /\ stage' = [stage EXCEPT ![k][w] = Acknowledged(meta)]
      /\ UNCHANGED <<expected_workers, tensor, merged, is_push_finished,
                     q_pull_reqmeta, seen_sender, pull_cnt, store, engine,
                     round, result>>

\* A push request once the store exists.  The first of a round is to be
\* copied over the store, the others added to it; it is answered at once, and
\* the last one also queues ALL_RECV and closes the collection.
HandlePush(w, k) ==
  LET meta == PushMeta(w, k)
      op == IF request[k] = {} THEN "COPY_FIRST" ELSE "SUM_RECV"
      queue == Append(engine_queue[k], [op |-> op, src |-> {meta}])
      collected == request[k] \cup {meta}
      last == Cardinality(collected) = GetExpectedWorkers(k)
  IN  /\ stage[k][w] \in {"init", "push"}
      /\ tensor[k]
      /\ request' = [request EXCEPT ![k] = IF last THEN {} ELSE collected]
      /\ engine_queue' =
           [engine_queue EXCEPT ![k] =
              IF last THEN Append(queue, [op |-> "ALL_RECV", src |-> {}])
                      ELSE queue]
      /\ epoch' = [epoch EXCEPT ![k] = IF last THEN @ + 1 ELSE @]
      /\ stage' = [stage EXCEPT ![k][w] = Acknowledged(meta)]
      /\ UNCHANGED <<expected_workers, tensor, merged, is_push_finished,
                     q_pull_reqmeta, seen_sender, pull_cnt, store, engine,
                     round, result>>

\* Mutant: seen_sender is not cleared when the round closes.
SendPullResponsesKeepSeen(k, S) ==
  LET cnt == pull_cnt[k] + Cardinality(S)
      full == cnt = GetExpectedWorkers(k)
  IN  /\ is_push_finished' = [is_push_finished EXCEPT ![k] = ~full]
      /\ pull_cnt' = [pull_cnt EXCEPT ![k] = IF full THEN 0 ELSE cnt]
      /\ seen_sender' = [seen_sender EXCEPT ![k] = @ \cup S]
      /\ stage' = [stage EXCEPT ![k] =
                     [v \in Workers |-> IF v \in S THEN "posted"
                                               ELSE stage[k][v]]]

\* Mutant: is_push_finished stays set when the round closes.
SendPullResponsesKeepOpen(k, S) ==
  LET cnt == pull_cnt[k] + Cardinality(S)
      full == cnt = GetExpectedWorkers(k)
  IN  /\ is_push_finished' = [is_push_finished EXCEPT ![k] = TRUE]
      /\ pull_cnt' = [pull_cnt EXCEPT ![k] = IF full THEN 0 ELSE cnt]
      /\ seen_sender' = [seen_sender EXCEPT ![k] =
                           IF full THEN {} ELSE @ \cup S]
      /\ stage' = [stage EXCEPT ![k] =
                     [v \in Workers |-> IF v \in S THEN "posted"
                                               ELSE stage[k][v]]]

\* Mutant: pull_cnt is counted down.
SendPullResponsesCountDown(k, S) ==
  /\ is_push_finished' = [is_push_finished EXCEPT ![k] = TRUE]
  /\ pull_cnt' = [pull_cnt EXCEPT ![k] = @ - Cardinality(S)]
  /\ seen_sender' = [seen_sender EXCEPT ![k] = @ \cup S]
  /\ stage' = [stage EXCEPT ![k] =
                 [v \in Workers |-> IF v \in S THEN "posted" ELSE stage[k][v]]]

\* Post the pull responses to the workers in S and account for them; the one
\* that makes pull_cnt reach the group size closes the round.  A posted
\* response is zero-copy: it refers to the store, Transmit reads it.
SendPullResponses(k, S) ==
  LET cnt == pull_cnt[k] + Cardinality(S)
      full == cnt = GetExpectedWorkers(k)
  IN  /\ is_push_finished' = [is_push_finished EXCEPT ![k] = ~full]
      /\ pull_cnt' = [pull_cnt EXCEPT ![k] = IF full THEN 0 ELSE cnt]
      /\ seen_sender' = [seen_sender EXCEPT ![k] =
                           IF full THEN {} ELSE @ \cup S]
      /\ stage' = [stage EXCEPT ![k] =
                     [v \in Workers |-> IF v \in S THEN "posted"
                                               ELSE stage[k][v]]]

\* Mutant: whoever has not been answered is answered, is_push_finished or not.
HandlePullAtOnce(w, k) ==
  /\ stage[k][w] = "pull"
  /\ tensor[k]
  /\ IF w \notin seen_sender[k]
     THEN /\ SendPullResponses(k, {w})
          /\ UNCHANGED q_pull_reqmeta
     ELSE /\ q_pull_reqmeta' = [q_pull_reqmeta EXCEPT ![k] = @ \cup {w}]
          /\ stage' = [stage EXCEPT ![k][w] = "pullWait"]
          /\ UNCHANGED <<is_push_finished, seen_sender, pull_cnt>>
  /\ UNCHANGED <<expected_workers, tensor, merged, request, engineVars, round,
                 result, epoch>>

\* A pull request: answered if the round is open and this worker has not had
\* its response yet, queued for the engine otherwise.
HandlePull(w, k) ==
  /\ stage[k][w] = "pull"
  /\ tensor[k]
  /\ IF is_push_finished[k] /\ w \notin seen_sender[k]
     THEN /\ SendPullResponses(k, {w})
          /\ UNCHANGED q_pull_reqmeta
     ELSE /\ q_pull_reqmeta' = [q_pull_reqmeta EXCEPT ![k] = @ \cup {w}]
          /\ stage' = [stage EXCEPT ![k][w] = "pullWait"]
          /\ UNCHANGED <<is_push_finished, seen_sender, pull_cnt>>
  /\ UNCHANGED <<expected_workers, tensor, merged, request, engineVars, round,
                 result, epoch>>

(***************************************************************************)
(* The engine thread of the key.  Copying and summing are done without any *)
(* lock; taking the message and finishing the write are separate steps.    *)
(***************************************************************************)

\* WaitAndPop, and for ALL_RECV the first critical section, which points
\* merged.tensor at the store.
EnginePop(k) ==
  /\ engine[k] = NoMessage
  /\ engine_queue[k] # <<>>
  /\ engine' = [engine EXCEPT ![k] = Head(engine_queue[k])]
  /\ engine_queue' = [engine_queue EXCEPT ![k] = Tail(@)]
  /\ merged' = [merged EXCEPT ![k] = @ \/ Head(engine_queue[k]).op = "ALL_RECV"]
  /\ UNCHANGED <<expected_workers, tensor, request, is_push_finished,
                 q_pull_reqmeta, seen_sender, pull_cnt, store, workerVars,
                 epoch>>

\* Mutant: the first push of a round is added instead of copied.
WrittenWithoutCopy(k) ==
  IF engine[k].op \in {"COPY_FIRST", "SUM_RECV"} THEN store[k] \cup engine[k].src
                                                 ELSE store[k]

\* The store once the copy or sum being executed on it is complete.
Written(k) ==
  CASE engine[k].op = "COPY_FIRST" -> engine[k].src
    [] engine[k].op = "SUM_RECV"   -> store[k] \cup engine[k].src
    [] OTHER                       -> store[k]

\* COPY_FIRST or SUM_RECV completes.
EngineWrite(k) ==
  /\ engine[k].op \in {"COPY_FIRST", "SUM_RECV"}
  /\ store' = [store EXCEPT ![k] = Written(k)]
  /\ engine' = [engine EXCEPT ![k] = NoMessage]
  /\ UNCHANGED <<serverVars, engine_queue, workerVars, epoch>>

\* Mutant: the round is opened but the queued pulls are not answered.
EngineAllRecvWithoutDrain(k) ==
  /\ engine[k].op = "ALL_RECV"
  /\ SendPullResponses(k, {})
  /\ engine' = [engine EXCEPT ![k] = NoMessage]
  /\ UNCHANGED <<expected_workers, tensor, merged, request, q_pull_reqmeta,
                 store, engine_queue, round, result, epoch>>

\* ALL_RECV: open the round and answer the queued pulls of the workers not
\* answered yet.  No more workers than the group has can be in the queue, so
\* the loop's early exit leaves nobody else behind.
EngineAllRecv(k) ==
  LET S == q_pull_reqmeta[k] \ seen_sender[k]
  IN  /\ engine[k].op = "ALL_RECV"
      /\ SendPullResponses(k, S)
      /\ q_pull_reqmeta' = [q_pull_reqmeta EXCEPT ![k] = @ \ S]
      /\ engine' = [engine EXCEPT ![k] = NoMessage]
      /\ UNCHANGED <<expected_workers, tensor, merged, request, store,
                     engine_queue, round, result, epoch>>

\* The van reads the buffer of a posted response and the worker receives it.
\* A read that overlaps a write may see the buffer before or after it.
Transmit(w, k) ==
  /\ stage[k][w] = "posted"
  /\ \E data \in {store[k], Written(k)} :
       result' = [result EXCEPT ![k][w] = data]
  /\ stage' = [stage EXCEPT ![k][w] = "idle"]
  /\ UNCHANGED <<serverVars, engineVars, round, epoch>>

AllDone == \A k \in Keys : \A w \in Group[k] : Completed(k, w) = MaxRound

\* Every worker has run its MaxRound rounds.
Done == AllDone /\ UNCHANGED vars

HandlerNext(w, k) ==
  \/ HandleGroupRegister(w, k)
  \/ HandleInitPush(w, k)
  \/ HandlePush(w, k)
  \/ HandlePull(w, k)

EngineNext(k) ==
  \/ EnginePop(k)
  \/ EngineWrite(k)
  \/ EngineAllRecv(k)

Next ==
  \/ \E k \in Keys, w \in Workers : StartPushPull(w, k)
  \/ \E k \in Keys, w \in Workers : HandlerNext(w, k)
  \/ \E k \in Keys : EngineNext(k)
  \/ \E k \in Keys, w \in Workers : Transmit(w, k)
  \/ Done

Spec == Init /\ [][Next]_vars

\* The receive thread of the server, its engine threads, the van and the
\* workers' own threads all keep running.
Fairness ==
  \A k \in Keys :
    /\ WF_vars(EngineNext(k))
    /\ \A w \in Workers : /\ WF_vars(StartPushPull(w, k))
                          /\ WF_vars(HandlerNext(w, k))
                          /\ WF_vars(Transmit(w, k))

FairSpec == Spec /\ Fairness

-----------------------------------------------------------------------------
(***************************************************************************)
(* Properties.                                                             *)
(***************************************************************************)

\* The type of every key's state, of the engine and of the workers; pull_cnt never
\* goes below zero.
TypeOK ==
  /\ expected_workers \in [Keys -> Int]
  /\ tensor \in [Keys -> BOOLEAN]
  /\ store \in [Keys -> SUBSET Payload]
  /\ merged \in [Keys -> BOOLEAN]
  /\ request \in [Keys -> SUBSET Payload]
  /\ is_push_finished \in [Keys -> BOOLEAN]
  /\ q_pull_reqmeta \in [Keys -> SUBSET Workers]
  /\ seen_sender \in [Keys -> SUBSET Workers]
  /\ pull_cnt \in [Keys -> Nat]
  /\ engine_queue \in [Keys -> Seq(EngineMessage)]
  /\ engine \in [Keys -> EngineMessage \cup {NoMessage}]
  /\ stage \in [Keys -> [Workers -> Stage]]
  /\ round \in [Keys -> [Workers -> Nat]]
  /\ result \in [Keys -> [Workers -> SUBSET Payload]]
  /\ epoch \in [Keys -> Nat]

\* Messages of key k the engine has not finished, the one it executes first.
Pending(k) == IF engine[k] = NoMessage THEN engine_queue[k]
                                       ELSE <<engine[k]>> \o engine_queue[k]

\* w's push of round r on k has reached the server.
Pushed(k, w, r) ==
  \/ round[k][w] > r
  \/ round[k][w] = r /\ stage[k][w] \in {"pull", "pullWait", "posted", "idle"}

\* A pull is answered only after every worker of the group has pushed the same
\* round and the engine has merged all those pushes: is_push_finished is
\* never left over from an earlier round, and ALL_RECV never overtakes a
\* SUM_RECV.
PullAfterMerge ==
  \A k \in Keys : \A w \in Group[k] :
    stage[k][w] = "posted" =>
      /\ \A v \in Group[k] : Pushed(k, v, round[k][w])
      /\ \A i \in 1..Len(Pending(k)) :
           \A m \in Pending(k)[i].src : m[2] > round[k][w]

\* seen_sender and pull_cnt describe exactly the workers answered in the open
\* round: nobody is answered twice in a round, nobody's answer is charged to
\* the next round, and both are reset before the next ALL_RECV runs.
ServiceAccounting ==
  \A k \in Keys :
    /\ pull_cnt[k] = Cardinality(seen_sender[k])
    /\ seen_sender[k] =
         IF is_push_finished[k]
         THEN {w \in Group[k] : \/ round[k][w] > epoch[k]
                                \/ stage[k][w] \in {"posted", "idle"}}
         ELSE {}

\* No pull is left behind: while a round is open every queued pull is a later
\* round's, and while none is open a queued pull still has an ALL_RECV, or a
\* push of some worker, to come.
NoStrandedPull ==
  \A k \in Keys : \A w \in q_pull_reqmeta[k] :
    IF is_push_finished[k] THEN w \in seen_sender[k]
    ELSE \/ \E i \in 1..Len(Pending(k)) : Pending(k)[i].op = "ALL_RECV"
         \/ \E v \in Group[k] : ~Pushed(k, v, round[k][w])

\* The CHECKs of the handler and of SendPullResponse hold whenever they are
\* reached: re-registration agrees with the first one, a pull finds the store
\* allocated, a response finds merged.tensor set.  The init push also acts as
\* the barrier InitTensor relies on: it is never merged as data.
ChecksHold ==
  \A k \in Keys :
    /\ expected_workers[k] \in {-1, Cardinality(Group[k])}
    /\ \A w \in Group[k] : stage[k][w] \in {"push", "pull"} => tensor[k]
    /\ is_push_finished[k] => tensor[k] /\ merged[k]
    /\ \A m \in store[k] : m[2] > 0

\* push_pull returns the sum over the group of the tensors of its own round.
PullReturnsSum ==
  \A k \in Keys : \A w \in Group[k] :
    Completed(k, w) > 0 => result[k][w] = Sum(k, Completed(k, w))

\* The buffer a posted zero-copy response refers to does not change before it
\* has been transmitted.
PostedBufferStable ==
  [][\A k \in Keys : \A w \in Group[k] :
       stage[k][w] = "posted" /\ stage'[k][w] = "posted"
         => store'[k] = store[k] /\ engine[k].op # "COPY_FIRST"]_vars

\* Every push_pull a worker starts completes.
EveryPushPullCompletes ==
  \A k \in Keys : \A w \in Group[k] :
    stage[k][w] # "idle" ~> stage[k][w] = "idle"

\* The callers see an all-reduce: the parameter server with its queues, its
\* engine and its single buffer per key implements AllReduce.
AbstractAllReduce ==
  INSTANCE AllReduce WITH
    called <- round,
    returned <- [k \in Keys |-> [w \in Workers |-> Completed(k, w)]],
    value <- result
ImplementsAllReduce == AbstractAllReduce!Spec

\* Between two operations of a worker on a key lies an operation on another
\* key of (at least) the same group.
Separated ==
  /\ ~Overlap
  /\ \A k \in Keys : \E j \in Keys \ {k} : Group[k] \subseteq Group[j]
=============================================================================
