--------------------------- MODULE ServerLifecycle ---------------------------
(***************************************************************************)
(* One server process from start to shutdown (byteps_server), beside the   *)
(* scheduler and the workers it shares three ps-lite barriers with: the    *)
(* one inside StartPS, the one after the request handler is set, and the   *)
(* one inside Finalize.  In the server run the main thread, the van's      *)
(* receiver, the KVServer's customer thread (the handler) and the engine   *)
(* threads, one per queue.  Every worker does push_pulls of one            *)
(* initialized key and shuts down: after its pull is answered when Drain,  *)
(* or at any time after its request is sent (BytePSGlobal::Shutdown does   *)
(* not wait for requests; an application that synchronizes its handles     *)
(* does).  The barrier itself is taken as one (see Postoffice).            *)
(*                                                                         *)
(* The server is synchronous, with one push_pull per worker (BytePSServer  *)
(* has the rounds; the resets after the last pull are never read), or      *)
(* asynchronous (BYTEPS_ENABLE_ASYNC), with Rounds of them: the handler    *)
(* adds every push to the stored tensor at once and answers every pull     *)
(* with whatever is stored.  A tensor is the set of the pushes             *)
(* <<worker, round>> in it; a response to a pull is zero-copy and reads    *)
(* the tensor when it is transmitted.                                      *)
(***************************************************************************)
EXTENDS Integers, Sequences, FiniteSets

CONSTANTS Workers, Engines, KeyEngine, Drain, Rounds
ASSUME ConstantsAssumption ==
    /\ KeyEngine \in Engines
    /\ Workers # {} /\ Workers \cap {"server", "scheduler"} = {}
    /\ Drain \in BOOLEAN /\ Rounds \in Nat

VARIABLES
    sync,      \* sync_mode_
    main,      \* where byteps_server() is
    barrier,   \* barrier[b]: the nodes that have reached barrier b
    worker,    \* where each worker is
    net,       \* requests <<worker, kind>> on the way to the server
    customer,  \* the customer thread's recv_queue_
    handler,   \* whether request_handle_ is set
    objects,   \* the live ones among "van", "customer", "server", "reducer"
    queue,     \* engine_queues_
    engine,    \* engine[e]: "wait", "answer" (inside ALL_RECV) or "ended"
    request,   \* update.request
    finished,  \* is_push_finished
    waiting,   \* q_pull_reqmeta
    store,     \* store.tensor
    round,     \* round[w]: how often w has pushed
    seen,      \* seen[w]: what its last pull returned
    error

data == <<sync, store, round, seen>>
vars == <<main, barrier, worker, net, customer, handler, objects, queue, engine,
          request, finished, waiting, error, data>>

Nodes == Workers \cup {"server", "scheduler"}
Passed(b) == barrier[b] = Nodes
Reach(b, n) == barrier' = [barrier EXCEPT ![b] = @ \cup {n}]
Require(names, what) == error' = IF names \subseteq objects THEN error ELSE what
Task(op, src) == [op |-> op, src |-> src]

Init ==
    /\ sync \in BOOLEAN
    /\ store = {}
    /\ round = [w \in Workers |-> 0]
    /\ seen = [w \in Workers |-> {}]
    /\ main = "engine"
    /\ barrier = [b \in {"StartPS", "Barrier", "Finalize"} |-> {}]
    /\ worker = [w \in Workers |-> "start"]
    /\ net = {}
    /\ customer = <<>>
    /\ handler = FALSE
    /\ objects = {}
    /\ queue = [e \in Engines |-> <<>>]
    /\ engine = [e \in Engines |-> "none"]
    /\ request = {}
    /\ finished = FALSE
    /\ waiting = {}
    /\ error = "none"

-----------------------------------------------------------------------------
(* byteps_server().                                                        *)

StartEngine ==
    /\ main = "engine"
    /\ main' = "StartPS"
    /\ objects' = {"reducer", "van"}
    /\ engine' = [e \in Engines |-> "wait"]
    /\ Reach("StartPS", "server")
    /\ UNCHANGED <<worker, net, customer, handler, queue, request, finished,
                   waiting, error, data>>

NewServer ==
    /\ main = "StartPS" /\ Passed("StartPS")
    /\ main' = "KVServer"
    /\ objects' = objects \cup {"server", "customer"}
    /\ UNCHANGED <<barrier, worker, net, customer, handler, queue, engine,
                   request, finished, waiting, error, data>>

BarrierBeforeHandle ==
    /\ main = "KVServer"
    /\ IF "server" \in barrier["Barrier"]
       THEN main' = "Barrier" /\ handler' = TRUE /\ UNCHANGED barrier
       ELSE Reach("Barrier", "server") /\ UNCHANGED <<main, handler>>
    /\ UNCHANGED <<worker, net, customer, objects, queue, engine, request,
                   finished, waiting, error, data>>

SetRequestHandle ==
    /\ main = "KVServer"
    /\ handler' = TRUE
    /\ main' = "Barrier"
    /\ Reach("Barrier", "server")
    /\ UNCHANGED <<worker, net, customer, objects, queue, engine, request,
                   finished, waiting, error, data>>

Finalize ==
    /\ main = "Barrier" /\ Passed("Barrier")
    /\ main' = "Finalize"
    /\ Reach("Finalize", "server")
    /\ UNCHANGED <<worker, net, customer, handler, objects, queue, engine,
                   request, finished, waiting, error, data>>

(* Van::Stop joins the receiver; what has not been received never is.      *)
StopVan ==
    /\ main = "Finalize" /\ Passed("Finalize")
    /\ main' = "delete"
    /\ objects' = objects \ {"van"}
    /\ net' = {}
    /\ UNCHANGED <<barrier, worker, customer, handler, queue, engine, request,
                   finished, waiting, error, data>>

(* ~Customer ends the customer thread once its queue is empty.             *)
DeleteServer ==
    /\ main = "delete" /\ customer = <<>>
    /\ main' = "delete reducer"
    /\ objects' = objects \ {"server", "customer"}
    /\ UNCHANGED <<barrier, worker, net, customer, handler, queue, engine,
                   request, finished, waiting, error, data>>

TerminateFirst ==
    [e \in Engines |-> IF e = KeyEngine THEN Append(queue[e], Task("TERMINATE", {}))
                                        ELSE queue[e]]
TerminateAll == [e \in Engines |-> Append(queue[e], Task("TERMINATE", {}))]

Terminate ==
    /\ main = "delete reducer"
    /\ main' = "join"
    /\ objects' = objects \ {"reducer"}
    /\ queue' = TerminateAll
    /\ UNCHANGED <<barrier, worker, net, customer, handler, engine, request,
                   finished, waiting, error, data>>

JoinEngines ==
    /\ main = "join"
    /\ \A e \in Engines : engine[e] = "ended"
    /\ main' = "end"
    /\ UNCHANGED <<barrier, worker, net, customer, handler, objects, queue,
                   engine, request, finished, waiting, error, data>>

-----------------------------------------------------------------------------
(* Workers (GetOrInitPS, the push and pull loops, Shutdown) and scheduler. *)

WorkerInit(w) ==
    /\ \/ /\ worker[w] = "start"
          /\ Reach("StartPS", w)
          /\ worker' = [worker EXCEPT ![w] = "StartPS"]
       \/ /\ worker[w] = "StartPS" /\ Passed("StartPS")
          /\ Reach("Barrier", w)
          /\ worker' = [worker EXCEPT ![w] = "Barrier"]
    /\ UNCHANGED <<main, net, customer, handler, objects, queue, engine, request,
                   finished, waiting, error, data>>

WorkerPush(w) ==
    /\ \/ worker[w] = "Barrier" /\ Passed("Barrier")
       \/ worker[w] = "answered" /\ ~sync /\ round[w] < Rounds
    /\ worker' = [worker EXCEPT ![w] = "push"]
    /\ round' = [round EXCEPT ![w] = @ + 1]
    /\ net' = net \cup {<<w, "push">>}
    /\ UNCHANGED <<main, barrier, customer, handler, objects, queue, engine,
                   request, finished, waiting, error, sync, store, seen>>

WorkerPull(w) ==
    /\ worker[w] = "acked"
    /\ worker' = [worker EXCEPT ![w] = "pull"]
    /\ net' = net \cup {<<w, "pull">>}
    /\ UNCHANGED <<main, barrier, customer, handler, objects, queue, engine,
                   request, finished, waiting, error, data>>

WorkerShutdown(w) ==
    /\ worker[w] \in {"answered"} \cup IF Drain THEN {} ELSE {"push", "acked", "pull", "response"}
    /\ worker' = [worker EXCEPT ![w] = "Finalize"]
    /\ Reach("Finalize", w)
    /\ UNCHANGED <<main, net, customer, handler, objects, queue, engine, request,
                   finished, waiting, error, data>>

WorkerEnd(w) ==
    /\ worker[w] = "Finalize" /\ Passed("Finalize")
    /\ worker' = [worker EXCEPT ![w] = "end"]
    /\ UNCHANGED <<main, barrier, net, customer, handler, objects, queue, engine,
                   request, finished, waiting, error, data>>

Scheduler ==
    /\ \E b \in DOMAIN barrier :
          /\ "scheduler" \notin barrier[b]
          /\ b = "Barrier" => Passed("StartPS")
          /\ b = "Finalize" => Passed("Barrier")
          /\ Reach(b, "scheduler")
    /\ UNCHANGED <<main, worker, net, customer, handler, objects, queue, engine,
                   request, finished, waiting, error, data>>

(* The acknowledgement of a push, or the response to a pull, is posted.    *)
Reply(w, pc) == [worker EXCEPT ![w] = IF @ \in {"push", "pull"} THEN pc ELSE @]

-----------------------------------------------------------------------------
(* The server's threads.                                                   *)

(* Van::ProcessDataMsg waits for the customer to exist.                    *)
Receive ==
    /\ {"van", "customer"} \subseteq objects
    /\ \E r \in net :
          /\ net' = net \ {r}
          /\ customer' = Append(customer, r)
    /\ UNCHANGED <<main, barrier, worker, handler, objects, queue, engine,
                   request, finished, waiting, error, data>>

(* A posted response to a pull goes out.                                   *)
Transmit(w) ==
    /\ worker[w] = "response" /\ "van" \in objects
    /\ worker' = [worker EXCEPT ![w] = "answered"]
    /\ seen' = [seen EXCEPT ![w] = store]
    /\ UNCHANGED <<main, barrier, net, customer, handler, objects, queue, engine,
                   request, finished, waiting, error, sync, store, round>>

Pushed(w) == <<w, round[w]>>

(* The key's queue with the tasks of w's push.                             *)
PushTasks(w) ==
    LET op == IF request = {} THEN "COPY_FIRST" ELSE "SUM_RECV"
        tasks == Append(queue[KeyEngine], Task(op, {Pushed(w)}))
    IN IF request \cup {w} = Workers THEN Append(tasks, Task("ALL_RECV", {})) ELSE tasks

(* A pull before the round ends waits for the engine.                      *)
AnswerAnyPull == TRUE
AnswerNow == ~sync \/ finished

(* The asynchronous handler adds to the stored tensor.                     *)
PushLost(w) == store
PushCopied(w) == {Pushed(w)}
AddToStore(w) == store \cup {Pushed(w)}

HandlePush(w) ==
    /\ IF sync
       THEN /\ queue' = [queue EXCEPT ![KeyEngine] = PushTasks(w)]
            /\ request' = IF request \cup {w} = Workers THEN {} ELSE request \cup {w}
            /\ Require({"van"}, "Response after Van::Stop")
            /\ UNCHANGED store
       ELSE /\ store' = AddToStore(w)
            /\ Require({"van", "reducer"}, "Response after Van::Stop")
            /\ UNCHANGED <<queue, request>>
    /\ worker' = Reply(w, "acked")
    /\ UNCHANGED waiting

HandlePull(w) ==
    /\ IF AnswerNow
       THEN /\ worker' = Reply(w, "response")
            /\ Require({"van"}, "Response after Van::Stop")
            /\ UNCHANGED waiting
       ELSE /\ waiting' = waiting \cup {w}
            /\ UNCHANGED <<worker, error>>
    /\ UNCHANGED <<queue, request, store>>

(* The handler holds state->mu, as the engine does throughout ALL_RECV.    *)
Handle ==
    /\ customer /= <<>> /\ "customer" \in objects
    /\ engine[KeyEngine] /= "answer"
    /\ LET w == Head(customer)[1]
       IN IF ~handler
          THEN /\ error' = "CHECK(request_handle_)"
               /\ UNCHANGED <<queue, request, worker, waiting, store>>
          ELSE IF Head(customer)[2] = "push" THEN HandlePush(w) ELSE HandlePull(w)
    /\ customer' = Tail(customer)
    /\ UNCHANGED <<main, barrier, net, handler, objects, engine, finished,
                   sync, round, seen>>

EngineTask(e) ==
    LET task == Head(queue[e])
    IN /\ engine[e] = "wait" /\ queue[e] /= <<>>
       /\ queue' = [queue EXCEPT ![e] = Tail(@)]
       /\ engine' = [engine EXCEPT ![e] =
                       CASE task.op = "TERMINATE" -> "ended"
                         [] task.op = "ALL_RECV"  -> "answer"
                         [] OTHER -> "wait"]
       /\ finished' = (finished \/ task.op = "ALL_RECV")
       /\ IF task.op \in {"COPY_FIRST", "SUM_RECV"}
          THEN /\ store' = IF task.op = "SUM_RECV" THEN store \cup task.src ELSE task.src
               /\ Require({"reducer"}, "bps_reducer_ is deleted")
          ELSE UNCHANGED <<store, error>>
       /\ UNCHANGED <<main, barrier, worker, net, customer, handler, objects,
                      request, waiting, sync, round, seen>>

(* ALL_RECV answers the pulls that wait, one after the other.              *)
EngineAnswer(e) ==
    /\ engine[e] = "answer"
    /\ IF waiting = {}
       THEN engine' = [engine EXCEPT ![e] = "wait"] /\ UNCHANGED <<waiting, worker, error>>
       ELSE \E w \in waiting :
               /\ waiting' = waiting \ {w}
               /\ worker' = Reply(w, "response")
               /\ Require({"server", "van"}, "byteps_server_ is deleted")
               /\ UNCHANGED engine
    /\ UNCHANGED <<main, barrier, net, customer, handler, objects, queue,
                   request, finished, data>>

-----------------------------------------------------------------------------
Step ==
    \/ StartEngine \/ NewServer \/ SetRequestHandle \/ Finalize
    \/ StopVan \/ DeleteServer \/ Terminate \/ JoinEngines
    \/ \E w \in Workers : \/ WorkerInit(w) \/ WorkerPush(w) \/ WorkerPull(w)
                          \/ WorkerShutdown(w) \/ WorkerEnd(w) \/ Transmit(w)
    \/ Scheduler \/ Receive \/ Handle
    \/ \E e \in Engines : EngineTask(e) \/ EngineAnswer(e)

Next == error = "none" /\ Step

(* Every thread runs and every message arrives.                            *)
Spec == Init /\ [][Next]_vars /\ WF_vars(Next)

-----------------------------------------------------------------------------
(* No request meets a server without its handler, no thread uses the       *)
(* server, the reducer or the van after the main thread has deleted it.    *)
NoUseAfterDelete == error = "none"

(* Once all nodes have reached the Finalize barrier no request is on the   *)
(* way, in a queue or unanswered: Van::Stop and the deletes lose none.     *)
NothingDropped ==
    Passed("Finalize") => /\ net = {} /\ customer = <<>> /\ waiting = {}
                          /\ \A e \in Engines : \A i \in DOMAIN queue[e] : queue[e][i].op = "TERMINATE"

(* A pull returns all that the worker has pushed so far, and, from a       *)
(* synchronous server, all that every worker has pushed.                   *)
SeesOwnPushes ==
    \A w \in Workers : worker[w] = "answered" =>
        /\ \A r \in 1..round[w] : <<w, r>> \in seen[w]
        /\ sync => seen[w] = {<<v, 1>> : v \in Workers}

(* What a worker pulls never goes back, and never runs ahead of what the   *)
(* workers have pushed.                                                    *)
ReadsAreMonotone ==
    [][\A w \in Workers :
         /\ seen[w] \subseteq seen'[w]
         /\ \A x \in seen'[w] : x[2] <= round'[x[1]]]_vars

(* The server and all workers end.                                         *)
EveryoneEnds == <>(main = "end" /\ \A w \in Workers : worker[w] = "end")
====
