------------------------ MODULE ServerLifecycleProofs ------------------------
(***************************************************************************)
(* Safety of a server from start to shutdown, for any number of workers,   *)
(* engine threads and asynchronous rounds, when every worker waits for its *)
(* results before it shuts down: the steps of the server's threads, and    *)
(* the theorems.                                                           *)
(***************************************************************************)
EXTENDS ServerLifecycleInvariant

-----------------------------------------------------------------------------
(* The threads of the server.                                              *)

\* An engine answers only when the round is over.
LEMMA AnsweringStep ==
  ASSUME Inv, Step
  PROVE  Answering'
<1> USE DEF Inv
<1>1. CASE StartEngine
  BY <1>1 DEF StartEngine, Answering
<1>2. ASSUME NEW e \in Engines, EngineTask(e) PROVE Answering'
  <2>1. /\ \A f \in Engines : f # e => engine'[f] = engine[f]
        /\ engine'[e] = "answer" => finished'
        /\ finished => finished'
    BY <1>2, Zenon DEF EngineTask, TypeOK
  <2>2. QED
    BY <2>1, Zenon DEF Answering
<1>3. ASSUME NEW e \in Engines, EngineAnswer(e) PROVE Answering'
  <2>1. \A f \in Engines : engine'[f] = "answer" => engine[f] = "answer"
    BY <1>3, Zenon DEF EngineAnswer, TypeOK
  <2>2. UNCHANGED finished
    BY <1>3, Zenon DEF EngineAnswer
  <2>3. QED
    BY <2>1, <2>2, Zenon DEF Answering
<1>4. CASE UNCHANGED <<engine, finished>>
  BY <1>4, Zenon DEF Answering
<1>5. QED
  BY <1>1, <1>2, <1>3, <1>4, Zenon DEF Step, NewServer, SetRequestHandle, Finalize, StopVan,
     DeleteServer, Terminate, JoinEngines, Scheduler, WorkerInit, WorkerPush, WorkerPull,
     WorkerShutdown, WorkerEnd, Transmit, Receive, Handle

\* A worker that waits for the server keeps it, and all it uses, alive.
LEMMA Serving ==
  ASSUME Phases, NEW w \in Workers, worker[w] \notin EarlyStates \cup {"Finalize", "end"}
  PROVE  handler /\ objects = {"reducer", "van", "server", "customer"}
         /\ main \in {"Barrier", "Finalize"}
<1>1. handler /\ (main \in {"Barrier", "Finalize"} \/ Ending)
  BY Zenon DEF Phases, Passed, Nodes
<1>2. ~Ending
  BY Zenon DEF Phases, Passed, Nodes
<1>3. objects = {"reducer", "van", "server", "customer"}
  BY <1>1, <1>2, Zenon DEF Phases
<1>4. QED
  BY <1>1, <1>2, <1>3, Zenon

\* A request that arrives is queued for the customer thread.
LEMMA ReceiveStep ==
  ASSUME Inv, Receive
  PROVE  Phases' /\ Located' /\ Round' /\ Content' /\ UNCHANGED error
<1> USE DEF Inv
<1>1. UNCHANGED <<main, barrier, worker, handler, objects, queue, request, finished,
                  waiting, error, sync, store, round, seen>>
  BY Zenon DEF Receive, data
<1>2. Phases' /\ Round' /\ Content'
  <2>1. \A w \in Workers : SamePlace(w)
    BY <1>1, Zenon DEF SamePlace
  <2>2. QED
    BY <1>1, <2>1, PhasesFrame, RoundFrame, ContentFrame, Zenon
<1>3. PICK r \in net : net' = net \ {r} /\ customer' = Append(customer, r)
  BY Zenon DEF Receive
<1>4. customer \in Seq(Requests) /\ r \in Requests
  BY Zenon DEF TypeOK
<1>5. /\ Len(customer) \in Nat
      /\ \A i \in 1..Len(customer) : i \in 1..Len(customer') /\ customer'[i] = customer[i]
      /\ customer'[Len(customer) + 1] = r /\ Len(customer) + 1 \in 1..Len(customer')
      /\ \A i \in 1..Len(customer') : i \in 1..Len(customer) \/ i = Len(customer) + 1
  BY <1>3, <1>4, Appended
<1>6. \A v : AtCustomer(v)' <=> AtCustomer(v) \/ v = r[1]
  BY <1>5, Zenon DEF AtCustomer
<1>7. worker[r[1]] = r[2] /\ ~AtCustomer(r[1])
  BY Zenon DEF Located
<1>8. \A q \in net' : worker'[q[1]] = q[2] /\ ~AtCustomer(q[1])'
  <2>1. \A q \in net' : q \in net /\ worker[q[1]] = q[2] /\ ~AtCustomer(q[1])
    BY <1>3, Zenon DEF Located
  <2>2. \A q \in net' : q[1] # r[1]
    <3>1. \A q \in net' : q \in Requests /\ q # r
      BY <1>3, Zenon DEF TypeOK
    <3>2. \A q \in Requests : q[1] = r[1] /\ q[2] = r[2] => q = r
      BY <1>4 DEF Requests
    <3>3. QED
      BY <1>7, <2>1, <3>1, <3>2, Zenon
  <2>3. QED
    BY <1>1, <1>6, <2>1, <2>2, Zenon
<1>9. \A i \in 1..Len(customer') :
        /\ worker'[customer'[i][1]] = customer'[i][2]
        /\ \A j \in 1..Len(customer') : customer'[j][1] = customer'[i][1] => i = j
  <2>1. \A i \in 1..Len(customer) : customer[i][1] # r[1]
    BY <1>7, Zenon DEF AtCustomer
  <2>2. \A i \in 1..Len(customer) :
          /\ worker'[customer[i][1]] = customer[i][2]
          /\ \A j \in 1..Len(customer) : customer[j][1] = customer[i][1] => i = j
    BY <1>1, Zenon DEF Located
  <2>3. \A i \in 1..Len(customer') : worker'[customer'[i][1]] = customer'[i][2]
    BY <1>1, <1>5, <1>7, <2>2, Zenon
  <2>4. ASSUME NEW i \in 1..Len(customer'), NEW j \in 1..Len(customer'),
               customer'[j][1] = customer'[i][1]
        PROVE  i = j
    <3>1. CASE i \in 1..Len(customer) /\ j \in 1..Len(customer)
      BY <1>5, <2>2, <2>4, <3>1, Zenon
    <3>2. CASE i = Len(customer) + 1 \/ j = Len(customer) + 1
      BY <1>5, <2>1, <2>4, <3>2, Zenon
    <3>3. QED
      BY <1>5, <3>1, <3>2, Zenon
  <2>5. QED
    BY <2>3, <2>4, Zenon
<1>10. \A w \in waiting : worker'[w] = "pull" /\ ~AtCustomer(w)' /\ <<w, "pull">> \notin net'
  <2>1. \A w \in waiting : worker[w] = "pull" /\ ~AtCustomer(w) /\ <<w, "pull">> \notin net
    BY Zenon DEF Located
  <2>2. r = <<r[1], r[2]>>
    BY <1>4 DEF Requests
  <2>3. QED
    BY <1>1, <1>3, <1>6, <1>7, <2>1, <2>2, Zenon
<1>11. QED
  BY <1>1, <1>2, <1>8, <1>9, <1>10, Zenon DEF Located

\* The head of the customer's queue is the request of a worker that waits for it.
LEMMA HeadRequest ==
  ASSUME Inv, Handle
  PROVE  /\ Head(customer)[1] \in Workers /\ Head(customer)[2] \in {"push", "pull"}
         /\ worker[Head(customer)[1]] = Head(customer)[2]
         /\ AtCustomer(Head(customer)[1])
         /\ handler /\ objects = {"reducer", "van", "server", "customer"}
         /\ main \in {"Barrier", "Finalize"}
<1> USE DEF Inv
<1>1. Head(customer) = customer[1] /\ 1 \in 1..Len(customer)
  BY Popped, Zenon DEF Handle, TypeOK
<1>2. /\ customer[1][1] \in Workers /\ customer[1][2] \in {"push", "pull"}
      /\ worker[customer[1][1]] \in {"push", "pull"}
  BY <1>1, Waits, Zenon
<1>3. worker[customer[1][1]] = customer[1][2]
  BY <1>1, Zenon DEF Located
<1>4. AtCustomer(customer[1][1])
  BY <1>1, Zenon DEF AtCustomer
<1>5. worker[customer[1][1]] \notin EarlyStates \cup {"Finalize", "end"}
  BY <1>2 DEF EarlyStates
<1>6. /\ handler /\ objects = {"reducer", "van", "server", "customer"}
      /\ main \in {"Barrier", "Finalize"}
  BY <1>2, <1>5, Serving, Zenon
<1>7. QED
  BY <1>1, <1>2, <1>3, <1>4, <1>6, Zenon

\* The rest of a queue whose elements have distinct workers.
LEMMA RestOfQueue ==
  ASSUME NEW S, NEW s \in Seq(S), s # <<>>,
         \A i, j \in 1..Len(s) : s[j][1] = s[i][1] => i = j
  PROVE  /\ \A i \in 1..Len(Tail(s)) :
              Tail(s)[i][1] # Head(s)[1] /\ \E k \in 1..Len(s) : Tail(s)[i] = s[k]
         /\ \A i \in 1..Len(s) :
              s[i][1] = Head(s)[1] \/ \E k \in 1..Len(Tail(s)) : Tail(s)[k] = s[i]
         /\ \A i, j \in 1..Len(Tail(s)) : Tail(s)[j][1] = Tail(s)[i][1] => i = j
<1> DEFINE t == Tail(s)
<1>1. /\ Head(s) = s[1] /\ 1 \in 1..Len(s)
      /\ \A i \in 1..Len(t) : i \in Nat /\ i + 1 \in 1..Len(s) /\ t[i] = s[i + 1]
      /\ \A i \in 1..Len(s) : i = 1 \/ (i - 1 \in 1..Len(t) /\ t[i - 1] = s[i])
  BY Popped
<1> HIDE DEF t
<1>2. \A i \in 1..Len(t) : t[i][1] # Head(s)[1] /\ \E k \in 1..Len(s) : t[i] = s[k]
  <2> SUFFICES ASSUME NEW i \in 1..Len(t)
               PROVE  t[i][1] # Head(s)[1] /\ \E k \in 1..Len(s) : t[i] = s[k]
    OBVIOUS
  <2>1. i + 1 # 1 /\ i + 1 \in 1..Len(s) /\ t[i] = s[i + 1]
    BY <1>1
  <2>2. s[i + 1][1] # s[1][1]
    BY <1>1, <2>1
  <2>3. QED
    BY <1>1, <2>1, <2>2, Zenon
<1>3. \A i \in 1..Len(s) : s[i][1] = Head(s)[1] \/ \E k \in 1..Len(t) : t[k] = s[i]
  BY <1>1, Zenon
<1>4. \A i, j \in 1..Len(t) : t[j][1] = t[i][1] => i = j
  <2> SUFFICES ASSUME NEW i \in 1..Len(t), NEW j \in 1..Len(t), t[j][1] = t[i][1]
               PROVE  i = j
    BY Zenon
  <2>1. /\ i + 1 \in 1..Len(s) /\ t[i] = s[i + 1] /\ j + 1 \in 1..Len(s) /\ t[j] = s[j + 1]
        /\ i \in Nat /\ j \in Nat
    BY <1>1, Zenon
  <2>2. i + 1 = j + 1
    BY <2>1
  <2>3. QED
    BY <2>1, <2>2
<1>5. QED
  BY <1>2, <1>3, <1>4, Zenon DEF t

\* The request of w is no longer with the customer; the others are.
OthersRemain(w) ==
  /\ \A i \in 1..Len(customer') :
       customer'[i][1] # w /\ \E k \in 1..Len(customer) : customer'[i] = customer[k]
  /\ \A i \in 1..Len(customer) :
       customer[i][1] = w \/ \E k \in 1..Len(customer') : customer'[k] = customer[i]
  /\ \A i, j \in 1..Len(customer') : customer'[j][1] = customer'[i][1] => i = j

\* The handler takes one request.
LEMMA TakeRequest ==
  ASSUME TypeOK, Located, Handle
  PROVE  OthersRemain(Head(customer)[1])
<1>1. \A i, j \in 1..Len(customer) : customer[j][1] = customer[i][1] => i = j
  BY Zenon DEF Located
<1>2. customer \in Seq(Requests) /\ customer # <<>> /\ customer' = Tail(customer)
  BY Zenon DEF TypeOK, Handle
<1> DEFINE t == Tail(customer)
           w == Head(customer)[1]
<1>3. /\ \A i \in 1..Len(t) : t[i][1] # w /\ \E k \in 1..Len(customer) : t[i] = customer[k]
      /\ \A i \in 1..Len(customer) :
           customer[i][1] = w \/ \E k \in 1..Len(t) : t[k] = customer[i]
      /\ \A i, j \in 1..Len(t) : t[j][1] = t[i][1] => i = j
  BY <1>1, <1>2, RestOfQueue
<1>4. customer' = t
  BY <1>2, Zenon
<1> HIDE DEF t, w
<1>5. OthersRemain(w)
  BY <1>3, <1>4, Zenon DEF OthersRemain
<1>6. QED
  BY <1>5, Zenon DEF w

\* The handler answers the request it takes, or its worker waits.
LEMMA HandleLocated ==
  ASSUME TypeOK, Located, UNCHANGED net, NEW w \in Workers, AtCustomer(w), OthersRemain(w),
         \A v \in Workers : v # w => worker'[v] = worker[v],
         \/ UNCHANGED waiting
         \/ waiting' = waiting \cup {w} /\ worker'[w] = "pull"
  PROVE  Located'
<1>1. /\ \A i \in 1..Len(customer) : worker[customer[i][1]] = customer[i][2]
      /\ \A i \in 1..Len(customer) : customer[i][1] \in Workers
  BY Waits, Zenon DEF Located
<1>2. /\ \A i \in 1..Len(customer') :
           customer'[i][1] # w /\ \E k \in 1..Len(customer) : customer'[i] = customer[k]
      /\ \A i \in 1..Len(customer) :
           customer[i][1] = w \/ \E k \in 1..Len(customer') : customer'[k] = customer[i]
      /\ \A i, j \in 1..Len(customer') : customer'[j][1] = customer'[i][1] => i = j
  BY Zenon DEF OthersRemain
<1>3. ASSUME NEW i \in 1..Len(customer') PROVE worker'[customer'[i][1]] = customer'[i][2]
  <2>1. PICK k \in 1..Len(customer) : customer'[i] = customer[k]
    BY <1>2, Zenon
  <2>2. customer'[i][1] # w /\ customer[k][1] \in Workers
    BY <1>1, <1>2, Zenon
  <2>3. QED
    BY <1>1, <2>1, <2>2, ZenonT(60)
<1>4. \A v : AtCustomer(v)' <=> AtCustomer(v) /\ v # w
  <2>1. ASSUME NEW v, AtCustomer(v)' PROVE AtCustomer(v) /\ v # w
    BY <1>2, <2>1 DEF AtCustomer
  <2>2. ASSUME NEW v, AtCustomer(v), v # w PROVE AtCustomer(v)'
    BY <1>2, <2>2 DEF AtCustomer
  <2>3. QED
    BY <2>1, <2>2, Zenon
<1>5. \A i \in 1..Len(customer') :
        /\ worker'[customer'[i][1]] = customer'[i][2]
        /\ \A j \in 1..Len(customer') : customer'[j][1] = customer'[i][1] => i = j
  BY <1>2, <1>3, Zenon
<1>6. \A r \in net' : worker'[r[1]] = r[2] /\ ~AtCustomer(r[1])'
  <2>1. \A r \in net : r[1] \in Workers /\ r[1] # w /\ worker[r[1]] = r[2]
                        /\ ~AtCustomer(r[1])
    BY Waits, Zenon DEF Located
  <2>2. QED
    BY <1>4, <2>1, Zenon
<1>7. \A v \in waiting' : worker'[v] = "pull" /\ ~AtCustomer(v)' /\ <<v, "pull">> \notin net'
  <2>1. \A v \in waiting : /\ v \in Workers /\ v # w /\ worker[v] = "pull"
                            /\ ~AtCustomer(v) /\ <<v, "pull">> \notin net
    BY Waits, Zenon DEF Located
  <2>2. <<w, "pull">> \notin net
    <3>1. <<w, "pull">>[1] = w
      OBVIOUS
    <3>2. QED
      BY <3>1, Zenon DEF Located
  <2>3. QED
    BY <1>4, <2>1, <2>2, Zenon
<1>8. QED
  BY <1>5, <1>6, <1>7, Zenon DEF Located

\* What a push adds to the key's queue.
LEMMA PushTasksShape ==
  ASSUME TypeOK, NEW w \in Workers
  PROVE  LET q == queue[KeyEngine]
             qn == PushTasks(w)
             n == Len(q) + 1
         IN /\ \A i \in 1..Len(q) : i \in 1..Len(qn) /\ qn[i] = q[i]
            /\ n \in 1..Len(qn) /\ qn[n].src = {Pushed(w)}
            /\ qn[n].op = IF request = {} THEN "COPY_FIRST" ELSE "SUM_RECV"
            /\ \A i \in 1..Len(qn) :
                 \/ i \in 1..Len(q)
                 \/ i = n
                 \/ /\ i = Len(qn) /\ request \cup {w} = Workers
                    /\ qn[i].op = "ALL_RECV" /\ qn[i].src = {}
<1> DEFINE q == queue[KeyEngine]
           op == IF request = {} THEN "COPY_FIRST" ELSE "SUM_RECV"
           t == Task(op, {Pushed(w)})
           all == Task("ALL_RECV", {})
           q1 == Append(q, t)
           q2 == Append(q1, all)
<1>1. q \in Seq(Tasks)
  BY ConstantsAssumption, Zenon DEF TypeOK
<1>2. t \in Tasks /\ t.op = op /\ t.src = {Pushed(w)}
  BY DEF Task, Tasks, Ops, Pushed, TypeOK
<1>3. all \in Tasks /\ all.op = "ALL_RECV" /\ all.src = {}
  BY DEF Task, Tasks, Ops
<1>4. PushTasks(w) = IF request \cup {w} = Workers THEN q2 ELSE q1
  BY Zenon DEF PushTasks
<1> HIDE DEF q, t, all, op
<1>5. /\ q1 \in Seq(Tasks) /\ Len(q) \in Nat /\ Len(q1) = Len(q) + 1
      /\ \A i \in 1..Len(q) : i \in 1..Len(q1) /\ q1[i] = q[i]
      /\ q1[Len(q) + 1] = t
      /\ \A i \in 1..Len(q1) : i \in 1..Len(q) \/ i = Len(q) + 1
  BY <1>1, <1>2, Appended
<1> HIDE DEF q1
<1>6. /\ Len(q2) = Len(q1) + 1
      /\ \A i \in 1..Len(q1) : i \in 1..Len(q2) /\ q2[i] = q1[i]
      /\ q2[Len(q1) + 1] = all
      /\ \A i \in 1..Len(q2) : i \in 1..Len(q1) \/ i = Len(q1) + 1
  BY <1>3, <1>5, Appended
<1> HIDE DEF q2
<1>7. Len(q) + 1 \in 1..Len(q1)
  BY <1>5
<1>8. /\ \A i \in 1..Len(q) : i \in 1..Len(PushTasks(w)) /\ PushTasks(w)[i] = q[i]
      /\ Len(q) + 1 \in 1..Len(PushTasks(w)) /\ PushTasks(w)[Len(q) + 1] = t
      /\ \A i \in 1..Len(PushTasks(w)) :
           \/ i \in 1..Len(q)
           \/ i = Len(q) + 1
           \/ /\ i = Len(PushTasks(w)) /\ request \cup {w} = Workers
              /\ PushTasks(w)[i] = all
  <2>1. CASE request \cup {w} = Workers
    BY <1>4, <1>5, <1>6, <1>7, <2>1, Zenon
  <2>2. CASE request \cup {w} # Workers
    BY <1>4, <1>5, <1>7, <2>2, Zenon
  <2>3. QED
    BY <2>1, <2>2, Zenon
<1>9. QED
  BY <1>2, <1>3, <1>8, Zenon DEF q, op

\* The reply moves a worker that waits for it.
LEMMA Replied ==
  ASSUME TypeOK, NEW w \in Workers, NEW pc, worker[w] \in {"push", "pull"}, worker' = Reply(w, pc)
  PROVE  worker'[w] = pc /\ \A v \in Workers : v # w => worker'[v] = worker[v]
BY Zenon DEF TypeOK, Reply

\* A push in a round: the engine gets its tasks.
LEMMA PushRound ==
  ASSUME Inv, sync, NEW w \in Workers, worker[w] = "push", main \notin {"join", "end"},
         queue' = [queue EXCEPT ![KeyEngine] = PushTasks(w)],
         request' = IF request \cup {w} = Workers THEN {} ELSE request \cup {w},
         worker'[w] = "acked", \A v \in Workers : v # w => worker'[v] = worker[v],
         UNCHANGED <<main, sync, finished, store, round, seen>>
  PROVE  Round' /\ Content'
<1> USE DEF Inv
<1>1. \A v \in Workers : Past(v)' <=> Past(v) \/ v = w
  <2>1. "acked" \notin EarlyStates \cup {"push"}
    BY DEF EarlyStates
  <2>2. QED
    BY <2>1, Zenon DEF Past
<1>2. ~Past(w) /\ request = {v \in Workers : Past(v)} /\ ~finished
  BY Zenon DEF Past, Round
<1>3. /\ worker[w] \notin EarlyStates /\ round[w] = 1 /\ Pushed(w) = <<w, 1>>
      /\ worker'[w] \notin EarlyStates \cup LateStates \cup {"answered"}
  <2>1. worker[w] \notin EarlyStates /\ worker'[w] \notin EarlyStates \cup LateStates \cup {"answered"}
    BY DEF EarlyStates, LateStates
  <2>2. QED
    BY <2>1, Zenon DEF Round, Pushed
<1>4. \A v \in Workers : v \in request \cup {w} <=> Past(v)'
  BY <1>1, <1>2, Zenon
<1> DEFINE q == queue[KeyEngine]
           qn == queue'[KeyEngine]
           n == Len(q) + 1
<1>5. qn = PushTasks(w) /\ \A e \in Engines : e # KeyEngine => queue'[e] = queue[e]
  BY ConstantsAssumption, Zenon DEF TypeOK
<1>6. /\ \A i \in 1..Len(q) : i \in 1..Len(qn) /\ qn[i] = q[i]
      /\ n \in 1..Len(qn) /\ qn[n].src = {<<w, 1>>}
      /\ qn[n].op = IF request = {} THEN "COPY_FIRST" ELSE "SUM_RECV"
      /\ \A i \in 1..Len(qn) :
           \/ i \in 1..Len(q)
           \/ i = n
           \/ /\ i = Len(qn) /\ request \cup {w} = Workers
              /\ qn[i].op = "ALL_RECV" /\ qn[i].src = {}
  <2>1. LET t == PushTasks(w)
        IN /\ \A i \in 1..Len(q) : i \in 1..Len(t) /\ t[i] = q[i]
           /\ n \in 1..Len(t) /\ t[n].src = {Pushed(w)}
           /\ t[n].op = IF request = {} THEN "COPY_FIRST" ELSE "SUM_RECV"
           /\ \A i \in 1..Len(t) :
                \/ i \in 1..Len(q)
                \/ i = n
                \/ /\ i = Len(t) /\ request \cup {w} = Workers
                   /\ t[i].op = "ALL_RECV" /\ t[i].src = {}
    BY PushTasksShape, Zenon
  <2> HIDE DEF q, qn, n
  <2>2. QED
    BY <1>3, <1>5, <2>1, Zenon
<1>7. \A i \in 1..Len(q) :
        /\ q[i].op \notin {"TERMINATE", "ALL_RECV"}
        /\ q[i].op = "COPY_FIRST" => i = 1 /\ store = {}
        /\ \E v \in Workers : q[i].src = {<<v, 1>>}
  <2>1. \A i \in 1..Len(q) : q[i].op # "TERMINATE" /\ q[i].op # "ALL_RECV"
    BY <1>2, ConstantsAssumption, Zenon DEF Round
  <2>2. \A i \in 1..Len(q) : q[i] \in Tasks
    <3>1. q \in Seq(Tasks)
      BY ConstantsAssumption, Zenon DEF TypeOK
    <3>2. QED
      BY <3>1, ElementOfSeq, Zenon
  <2>3. \A i \in 1..Len(q) : q[i].op \in {"COPY_FIRST", "SUM_RECV"}
    BY <2>1, <2>2 DEF Tasks, Ops
  <2>4. QED
    BY <2>1, <2>3, Zenon DEF Round
<1> HIDE DEF q, qn
<1>8. request = {} => n = 1 /\ store = {}
  <2> SUFFICES ASSUME request = {} PROVE n = 1 /\ store = {}
    OBVIOUS
  <2>1. \A x \in Workers \X Nat : x \notin store /\ ~Queued(x)
    <3>1. \A x \in Workers \X Nat : ~Past(x[1])
      BY <1>2
    <3>2. QED
      BY <3>1, Zenon DEF Content
  <2>2. store = {}
    BY <2>1, Zenon DEF TypeOK
  <2>3. \A i \in 1..Len(q) : FALSE
    <3>1. \A v \in Workers : <<v, 1>> \in Workers \X Nat
      OBVIOUS
    <3>2. \A i \in 1..Len(q) : \E v \in Workers : <<v, 1>> \in q[i].src
      BY <1>7, Zenon
    <3>3. \A i \in 1..Len(q) : \E v \in Workers : Queued(<<v, 1>>)
      BY <3>2, Zenon DEF Queued, q
    <3>4. QED
      BY <2>1, <3>1, <3>3, Zenon
  <2>4. Len(q) \in Nat
    BY ConstantsAssumption, LenProperties, Zenon DEF TypeOK, q
  <2>5. QED
    BY <2>2, <2>3, <2>4
<1>9. Len(qn) \in Nat
  BY <1>5, PushTasksType, LenProperties, Zenon
<1> HIDE DEF n
<1>10. Round'
  <2>1. \A e \in Engines : \A i \in 1..Len(queue'[e]) :
          /\ queue'[e][i].op = "TERMINATE" => queue'[e][i].src = {}
          /\ queue'[e][i].op # "TERMINATE" => e = KeyEngine /\ sync /\ ~finished
    <3>1. \A i \in 1..Len(qn) : qn[i].op # "TERMINATE"
      BY <1>6, <1>7
    <3>2. ASSUME NEW e \in Engines, e # KeyEngine, NEW i \in 1..Len(queue'[e])
          PROVE  queue'[e][i].op = "TERMINATE" /\ queue'[e][i].src = {}
      <4>1. queue'[e] = queue[e]
        BY <1>5, <3>2, Zenon
      <4>2. QED
        BY <3>2, <4>1, Zenon DEF Round
    <3>3. QED
      BY <1>2, <3>1, <3>2, Zenon DEF qn
  <2>2. \A i \in 1..Len(qn) :
          /\ qn[i].op = "ALL_RECV" => /\ qn[i].src = {} /\ i = Len(qn)
                                      /\ \A v \in Workers : Past(v)'
          /\ qn[i].op = "COPY_FIRST" => i = 1 /\ store = {}
          /\ qn[i].op \in {"COPY_FIRST", "SUM_RECV"} => \E v \in Workers : qn[i].src = {<<v, 1>>}
    <3> SUFFICES ASSUME NEW i \in 1..Len(qn)
                 PROVE  /\ qn[i].op = "ALL_RECV" => /\ qn[i].src = {} /\ i = Len(qn)
                                                    /\ \A v \in Workers : Past(v)'
                        /\ qn[i].op = "COPY_FIRST" => i = 1 /\ store = {}
                        /\ qn[i].op \in {"COPY_FIRST", "SUM_RECV"} =>
                             \E v \in Workers : qn[i].src = {<<v, 1>>}
      BY Zenon
    <3>1. CASE i \in 1..Len(q)
      <4>1. qn[i] = q[i]
        BY <1>6, <3>1, Zenon
      <4>2. /\ q[i].op # "ALL_RECV"
            /\ q[i].op = "COPY_FIRST" => i = 1 /\ store = {}
            /\ \E v \in Workers : q[i].src = {<<v, 1>>}
        BY <1>7, <3>1, Zenon
      <4>3. QED
        BY <4>1, <4>2, Zenon
    <3>2. CASE i = n
      <4>1. qn[i].op # "ALL_RECV" /\ (qn[i].op = "COPY_FIRST" => request = {})
        BY <1>6, <3>2
      <4>2. QED
        BY <1>6, <1>8, <3>2, <4>1, Zenon
    <3>3. CASE /\ i = Len(qn) /\ request \cup {w} = Workers
               /\ qn[i].op = "ALL_RECV" /\ qn[i].src = {}
      <4>1. \A v \in Workers : Past(v)'
        BY <1>4, <3>3, Zenon
      <4>2. qn[i].op \notin {"COPY_FIRST", "SUM_RECV"}
        BY <3>3
      <4>3. QED
        BY <3>3, <4>1, <4>2, Zenon
    <3>4. QED
      BY <1>6, <3>1, <3>2, <3>3, Zenon
  <2>3. \A j \in 1..Len(qn) : ~(j > Len(qn))
    BY <1>9
  <2>4. \A e \in Engines : \A i \in 1..Len(queue'[e]) : queue'[e][i].op # "TERMINATE"
    <3>1. \A i \in 1..Len(qn) : qn[i].op # "TERMINATE"
      BY <1>6, <1>7
    <3>2. QED
      BY <1>5, <3>1, Zenon DEF Round, qn
  <2>5. \A v \in Workers :
          /\ worker'[v] \in LateStates => finished
          /\ round[v] = IF worker'[v] \in EarlyStates THEN 0 ELSE 1
    BY <1>3, Zenon DEF Round
  <2>6. (\E v \in Workers : ~Past(v)') => request' = {v \in Workers : Past(v)'}
    BY <1>4, Zenon DEF TypeOK
  <2>7. \A i \in 1..Len(queue'[KeyEngine]) :
         /\ queue'[KeyEngine][i].op = "ALL_RECV" =>
              queue'[KeyEngine][i].src = {} /\ OnlyEnds(i)' /\ \A v \in Workers : Past(v)'
         /\ queue'[KeyEngine][i].op = "COPY_FIRST" => i = 1 /\ store' = {}
         /\ queue'[KeyEngine][i].op \in {"COPY_FIRST", "SUM_RECV"} =>
              \E v \in Workers : queue'[KeyEngine][i].src = {<<v, 1>>}
    <3>1. \A i : i = Len(qn) => OnlyEnds(i)'
      BY <2>3, Zenon DEF OnlyEnds, qn
    <3>2. QED
      BY <2>2, <3>1, Zenon DEF qn
  <2>8. QED
    BY <1>2, <2>1, <2>4, <2>5, <2>6, <2>7, ZenonT(60) DEF Round
<1>11. Content'
  <2>1. \A x : Queued(x)' <=> Queued(x) \/ x = <<w, 1>>
    <3>1. ASSUME NEW x, Queued(x)' PROVE Queued(x) \/ x = <<w, 1>>
      BY <1>6, <3>1, Zenon DEF Queued, q, qn
    <3>2. ASSUME NEW x, Queued(x) \/ x = <<w, 1>> PROVE Queued(x)'
      BY <1>6, <3>2, Zenon DEF Queued, q, qn
    <3>3. QED
      BY <3>1, <3>2, Zenon
  <2>2. \A x \in Workers \X Nat : /\ x[1] \in Workers
                                  /\ x = <<w, 1>> <=> x[1] = w /\ x[2] = 1
    OBVIOUS
  <2>3. \A x \in Workers \X Nat : x \in store \/ Queued(x)' <=> x[2] = 1 /\ Past(x[1])'
    BY <1>1, <2>1, <2>2, Zenon DEF Content
  <2>4. \A v \in Workers : Full(v)' <=> Full(v)
    BY Zenon DEF Full
  <2>5. \A v \in Workers : worker'[v] \in EarlyStates <=> round[v] = 0
    BY <1>3, Zenon DEF Content
  <2>6. QED
    BY <1>3, <2>3, <2>4, <2>5, Zenon DEF Content
<1>12. QED
  BY <1>10, <1>11, Zenon

\* A push to an asynchronous server is added at once.
LEMMA PushAsync ==
  ASSUME Inv, ~sync, NEW w \in Workers, worker[w] = "push",
         store' = AddToStore(w),
         worker'[w] = "acked", \A v \in Workers : v # w => worker'[v] = worker[v],
         UNCHANGED <<main, sync, queue, finished, round, seen>>
  PROVE  Round' /\ Content'
<1> USE DEF Inv
<1>1. Round'
  BY RoundAsync, Zenon
<1>2. /\ worker[w] \notin EarlyStates
      /\ worker'[w] \notin EarlyStates \cup {"push", "answered"}
  BY DEF EarlyStates
<1>3. round[w] \in Nat /\ round[w] # 0
  BY <1>2, Zenon DEF Content, TypeOK
<1>4. store' = store \cup {<<w, round[w]>>}
  BY Zenon DEF AddToStore, Pushed
<1>5. \A x \in Workers \X Nat : Added(x)' <=> Added(x) \/ x = <<w, round[w]>>
  <2>1. ASSUME NEW x \in Workers \X Nat, x[1] # w
        PROVE  Added(x)' <=> Added(x) \/ x = <<w, round[w]>>
    <3>1. x[1] \in Workers /\ x # <<w, round[w]>>
      BY <2>1
    <3>2. QED
      BY <2>1, <3>1, Zenon DEF Added
  <2>2. ASSUME NEW x \in Workers \X Nat, x[1] = w
        PROVE  Added(x)' <=> Added(x) \/ x = <<w, round[w]>>
    <3>1. x[2] \in Nat /\ (x = <<w, round[w]>> <=> x[2] = round[w])
      BY <2>2
    <3>2. x[2] \in 1..round[w] <=> (x[2] \in 1..round[w] /\ x[2] < round[w]) \/ x[2] = round[w]
      BY <1>3, <3>1
    <3>3. Added(x)' <=> x[2] \in 1..round[w]
      BY <1>2, <2>2, Zenon DEF Added
    <3>4. Added(x) <=> x[2] \in 1..round[w] /\ x[2] < round[w]
      BY <2>2, Zenon DEF Added
    <3>5. QED
      BY <3>1, <3>2, <3>3, <3>4, Zenon
  <2>3. QED
    BY <2>1, <2>2, Zenon
<1>6. Content'
  <2>1. \A x \in Workers \X Nat : x \in store' <=> Added(x)'
    BY <1>4, <1>5, Zenon DEF Content
  <2>2. \A v \in Workers : seen'[v] \subseteq store'
    BY <1>4, Zenon DEF Content
  <2>3. \A v \in Workers : worker'[v] = "answered" => Full(v)'
    <3>1. \A v \in Workers : Full(v)' <=> Full(v)
      BY Zenon DEF Full
    <3>2. QED
      BY <1>2, <3>1, Zenon DEF Content
  <2>4. \A v \in Workers : worker'[v] \in EarlyStates <=> round'[v] = 0
    BY <1>2, Zenon DEF Content
  <2>5. QED
    BY <2>1, <2>2, <2>3, <2>4, Zenon DEF Content
<1>7. QED
  BY <1>1, <1>6, Zenon

\* The handler of the customer thread.
LEMMA HandleStep ==
  ASSUME Inv, Handle
  PROVE  Phases' /\ Located' /\ Round' /\ Content' /\ UNCHANGED error
<1> USE DEF Inv
<1> DEFINE w == Head(customer)[1]
           kind == Head(customer)[2]
<1>1. /\ w \in Workers /\ kind \in {"push", "pull"} /\ worker[w] = kind /\ AtCustomer(w)
      /\ handler /\ objects = {"reducer", "van", "server", "customer"}
      /\ main \in {"Barrier", "Finalize"}
  BY HeadRequest, Zenon
<1>2. OthersRemain(w)
  BY TakeRequest, Zenon
<1>3. UNCHANGED <<main, barrier, net, handler, objects, finished, sync, round, seen>>
  BY Zenon DEF Handle
<1>4. (kind = "push" /\ HandlePush(w)) \/ (kind # "push" /\ HandlePull(w))
  BY <1>1, Zenon DEF Handle
<1>5. /\ {"van"} \subseteq objects /\ {"van", "reducer"} \subseteq objects
      /\ main \notin {"join", "end"}
  BY <1>1
<1> HIDE DEF w, kind
<1>6. UNCHANGED error
  BY <1>4, <1>5, Zenon DEF HandlePush, HandlePull, Require
<1>7. ASSUME NEW pc \in {"acked", "response"}, worker' = Reply(w, pc), UNCHANGED waiting
      PROVE  /\ worker'[w] = pc /\ \A v \in Workers : v # w => worker'[v] = worker[v]
             /\ Phases' /\ Located'
  <2>0. worker[w] \in {"push", "pull"}
    BY <1>1, Zenon
  <2>1. worker'[w] = pc /\ \A v \in Workers : v # w => worker'[v] = worker[v]
    BY <1>1, <1>7, <2>0, Replied
  <2>2. \A k \in {"push", "pull", "acked", "response"} :
          k \notin EarlyStates \cup {"Finalize", "end"}
    BY DEF EarlyStates
  <2>3. \A v \in Workers :
          /\ worker'[v] \notin EarlyStates => worker[v] \notin EarlyStates
          /\ worker'[v] \in {"Finalize", "end"} <=> worker[v] \in {"Finalize", "end"}
    BY <1>1, <1>7, <2>1, <2>2, Zenon
  <2>4. Phases'
    BY <1>3, <2>3, PhasesFrame, Zenon
  <2>5. Located'
    <3>1. UNCHANGED net
      BY <1>3, Zenon
    <3>2. QED
      BY <1>1, <1>2, <1>7, <2>1, <3>1, HandleLocated, Zenon
  <2>6. QED
    BY <2>1, <2>4, <2>5, Zenon
<1>8. CASE kind = "push" /\ HandlePush(w)
  <2>1. worker' = Reply(w, "acked") /\ UNCHANGED waiting
    BY <1>8, Zenon DEF HandlePush
  <2>2. /\ worker'[w] = "acked" /\ \A v \in Workers : v # w => worker'[v] = worker[v]
        /\ Phases' /\ Located'
    BY <1>7, <2>1, Zenon
  <2>3. CASE sync
    BY <1>1, <1>3, <1>5, <1>6, <1>8, <2>2, <2>3, PushRound, Zenon DEF HandlePush
  <2>4. CASE ~sync
    BY <1>1, <1>3, <1>6, <1>8, <2>2, <2>4, PushAsync, Zenon DEF HandlePush
  <2>5. QED
    BY <2>3, <2>4, Zenon
<1>9. CASE kind # "push" /\ HandlePull(w)
  <2>1. worker[w] = "pull" /\ UNCHANGED <<queue, request, store>>
    BY <1>1, <1>9, Zenon DEF HandlePull
  <2>2. CASE AnswerNow
    <3>1. worker' = Reply(w, "response") /\ UNCHANGED waiting
      BY <1>9, <2>2, Zenon DEF HandlePull
    <3>2. /\ worker'[w] = "response" /\ \A v \in Workers : v # w => worker'[v] = worker[v]
          /\ Phases' /\ Located'
      BY <1>7, <3>1, Zenon
    <3>3. \A k \in {"pull", "response"} : k \notin EarlyStates \cup {"push", "answered"}
      BY DEF EarlyStates
    <3>4. \A v \in Workers :
            /\ SamePlace(v) /\ (worker'[v] = "answered" => worker[v] = "answered")
            /\ worker'[v] \in LateStates => worker[v] \in LateStates \/ ~sync \/ finished
      BY <2>1, <2>2, <3>2, <3>3, Zenon DEF SamePlace, AnswerNow
    <3>5. Round' /\ Content'
      BY <1>3, <2>1, <3>4, RoundFrame, ContentFrame, Zenon
    <3>6. QED
      BY <1>6, <3>2, <3>5, Zenon
  <2>3. CASE ~AnswerNow
    <3>1. waiting' = waiting \cup {w} /\ UNCHANGED worker
      BY <1>9, <2>3, Zenon DEF HandlePull
    <3>2. \A v \in Workers : SamePlace(v)
      BY <3>1, Zenon DEF SamePlace
    <3>3. Phases' /\ Round' /\ Content'
      BY <1>3, <2>1, <3>1, <3>2, PhasesFrame, RoundFrame, ContentFrame, Zenon
    <3>4. Located'
      BY <1>1, <1>2, <1>3, <2>1, <3>1, HandleLocated, Zenon
    <3>5. QED
      BY <1>6, <3>3, <3>4, Zenon
  <2>4. QED
    BY <2>2, <2>3, Zenon
<1>10. QED
  BY <1>4, <1>8, <1>9, Zenon

\* One engine takes a task.
LEMMA TakeTask ==
  ASSUME TypeOK, NEW e \in Engines, queue[e] # <<>>, queue' = [queue EXCEPT ![e] = Tail(@)]
  PROVE  /\ 1 \in 1..Len(queue[e]) /\ Head(queue[e]) = queue[e][1]
         /\ \A i \in 1..Len(queue'[e]) :
              i \in Nat /\ i + 1 \in 1..Len(queue[e]) /\ queue'[e][i] = queue[e][i + 1]
         /\ \A i \in 1..Len(queue[e]) :
              i = 1 \/ \E k \in 1..Len(queue'[e]) : queue'[e][k] = queue[e][i]
         /\ \A f \in Engines : f # e => queue'[f] = queue[f]
<1>1. queue'[e] = Tail(queue[e]) /\ \A f \in Engines : f # e => queue'[f] = queue[f]
  BY Zenon DEF TypeOK
<1> DEFINE s == queue[e]
           t == queue'[e]
<1>2. s \in Seq(Tasks) /\ s # <<>> /\ t = Tail(s)
  BY <1>1, Zenon DEF TypeOK
<1> HIDE DEF s, t
<1>3. /\ Head(s) = s[1] /\ 1 \in 1..Len(s)
      /\ \A i \in 1..Len(t) : i \in Nat /\ i + 1 \in 1..Len(s) /\ t[i] = s[i + 1]
      /\ \A i \in 1..Len(s) : i = 1 \/ (i - 1 \in 1..Len(t) /\ t[i - 1] = s[i])
  BY <1>2, Popped
<1>4. \A i \in 1..Len(s) : i = 1 \/ \E k \in 1..Len(t) : t[k] = s[i]
  BY <1>3, Zenon
<1>5. QED
  BY <1>1, <1>3, <1>4, Zenon DEF s, t

\* An engine executes a task.
LEMMA EngineTaskStep ==
  ASSUME Inv, NEW e \in Engines, EngineTask(e)
  PROVE  Phases' /\ Located' /\ Round' /\ Content' /\ UNCHANGED error
<1> USE DEF Inv
<1>1. UNCHANGED <<main, barrier, worker, net, customer, handler, objects, request,
                  waiting, sync, round, seen>>
  BY Zenon DEF EngineTask
<1>2. queue[e] # <<>> /\ queue' = [queue EXCEPT ![e] = Tail(@)]
  BY Zenon DEF EngineTask
<1>3. Phases' /\ Located'
  BY <1>1, PhasesFrame, LocatedFrame, Zenon
<1> DEFINE task == queue[e][1]
<1>4. /\ 1 \in 1..Len(queue[e]) /\ Head(queue[e]) = task
      /\ \A i \in 1..Len(queue'[e]) :
           i \in Nat /\ i + 1 \in 1..Len(queue[e]) /\ queue'[e][i] = queue[e][i + 1]
      /\ \A i \in 1..Len(queue[e]) :
           i = 1 \/ \E k \in 1..Len(queue'[e]) : queue'[e][k] = queue[e][i]
      /\ \A f \in Engines : f # e => queue'[f] = queue[f]
  BY <1>2, TakeTask, Zenon
<1>5. /\ finished' = (finished \/ task.op = "ALL_RECV")
      /\ task.op \in {"COPY_FIRST", "SUM_RECV"} =>
           /\ store' = IF task.op = "SUM_RECV" THEN store \cup task.src ELSE task.src
           /\ Require({"reducer"}, "bps_reducer_ is deleted")
      /\ task.op \notin {"COPY_FIRST", "SUM_RECV"} => UNCHANGED <<store, error>>
  BY <1>4, Zenon DEF EngineTask
<1>6. /\ task.op = "TERMINATE" => task.src = {}
      /\ task.op # "TERMINATE" => e = KeyEngine /\ sync /\ ~finished
  BY <1>4, Zenon DEF Round
<1>7. /\ task.op = "ALL_RECV" =>
           task.src = {} /\ e = KeyEngine /\ OnlyEnds(1) /\ \A w \in Workers : Past(w)
      /\ task.op = "COPY_FIRST" => store = {}
      /\ task.op \in {"COPY_FIRST", "SUM_RECV"} => \E w \in Workers : task.src = {<<w, 1>>}
  <2>1. task.op \in {"ALL_RECV", "COPY_FIRST", "SUM_RECV"} => e = KeyEngine
    BY <1>6
  <2>2. \A i \in 1..Len(queue[KeyEngine]) : i = 1 =>
         /\ queue[KeyEngine][i].op = "ALL_RECV" =>
              queue[KeyEngine][i].src = {} /\ OnlyEnds(i) /\ \A w \in Workers : Past(w)
         /\ queue[KeyEngine][i].op = "COPY_FIRST" => store = {}
         /\ queue[KeyEngine][i].op \in {"COPY_FIRST", "SUM_RECV"} =>
              \E w \in Workers : queue[KeyEngine][i].src = {<<w, 1>>}
    BY Zenon DEF Round
  <2>3. QED
    BY <1>4, <2>1, <2>2
<1>8. task.op \in {"TERMINATE", "ALL_RECV", "COPY_FIRST", "SUM_RECV"}
  <2>1. task \in Tasks
    BY <1>4, ElementOfSeq, Zenon DEF TypeOK
  <2>2. QED
    BY <2>1 DEF Tasks, Ops
<1> HIDE DEF task
<1>9. store' = store \cup task.src
  <2>1. CASE task.op \in {"COPY_FIRST", "SUM_RECV"}
    BY <1>5, <1>7, <2>1, Zenon
  <2>2. CASE task.op \notin {"COPY_FIRST", "SUM_RECV"}
    BY <1>5, <1>6, <1>7, <1>8, <2>2, Zenon
  <2>3. QED
    BY <2>1, <2>2, Zenon
<1>10. \A x : Queued(x) <=> Queued(x)' \/ x \in task.src
  <2>1. CASE e = KeyEngine
    <3>1. ASSUME NEW x, Queued(x) PROVE Queued(x)' \/ x \in task.src
      BY <1>4, <2>1, <3>1, Zenon DEF Queued, task
    <3>2. ASSUME NEW x, Queued(x)' \/ x \in task.src PROVE Queued(x)
      BY <1>4, <2>1, <3>2, ZenonT(60) DEF Queued, task
    <3>3. QED
      BY <3>1, <3>2, Zenon
  <2>2. CASE e # KeyEngine
    <3>1. task.src = {} /\ queue'[KeyEngine] = queue[KeyEngine]
      BY <1>4, <1>6, <2>2, ConstantsAssumption, Zenon
    <3>2. QED
      BY <3>1, Zenon DEF Queued
  <2>3. QED
    BY <2>1, <2>2, Zenon
<1>11. UNCHANGED error
  <2>1. CASE task.op \in {"COPY_FIRST", "SUM_RECV"}
    <3>1. PICK w \in Workers : task.src = {<<w, 1>>}
      BY <1>7, <2>1, Zenon
    <3>2. sync /\ ~finished
      BY <1>6, <2>1
    <3>3. Past(w)
      <4>1. <<w, 1>> \in Workers \X Nat /\ <<w, 1>>[1] = w
        OBVIOUS
      <4>2. Queued(<<w, 1>>)
        BY <1>10, <3>1, Zenon
      <4>3. QED
        BY <3>2, <4>1, <4>2, Zenon DEF Content
    <3>4. worker[w] \notin EarlyStates \cup {"Finalize", "end"}
      <4>1. worker[w] \notin EarlyStates /\ worker[w] \notin LateStates
        BY <3>2, <3>3, Zenon DEF Past, Round
      <4>2. QED
        BY <4>1 DEF LateStates
    <3>5. "reducer" \in objects
      BY <3>4, Serving, Zenon
    <3>6. QED
      BY <1>5, <2>1, <3>5, Zenon DEF Require
  <2>2. QED
    BY <1>5, <2>1, Zenon
<1>12. Content'
  <2>1. sync => \A x \in Workers \X Nat :
          x \in store' \/ Queued(x)' <=> x \in store \/ Queued(x)
    BY <1>9, <1>10, Zenon
  <2>2. ~sync => UNCHANGED store
    BY <1>6, <1>9, Zenon
  <2>3. \A w \in Workers : seen'[w] \subseteq store'
    BY <1>1, <1>9, Zenon DEF Content
  <2>4. \A x : /\ Past(x)' <=> Past(x)
               /\ Full(x)' <=> Full(x)
               /\ Added(x)' <=> Added(x)
    BY <1>1, Zenon DEF Past, Full, Added
  <2>5. QED
    BY <1>1, <2>1, <2>2, <2>3, <2>4, Zenon DEF Content
<1>13. Round'
  <2>1. \A f \in Engines : \A i \in 1..Len(queue'[f]) :
          \E j \in 1..Len(queue[f]) : queue'[f][i] = queue[f][j]
    <3>1. \A i \in 1..Len(queue'[e]) : \E j \in 1..Len(queue[e]) : queue'[e][i] = queue[e][j]
      BY <1>4, Zenon
    <3>2. \A f \in Engines : f # e => \A i \in 1..Len(queue'[f]) :
            \E j \in 1..Len(queue[f]) : queue'[f][i] = queue[f][j]
      BY <1>4, Zenon
    <3>3. QED
      BY <3>1, <3>2, ZenonT(60)
  <2>2. task.op = "ALL_RECV" =>
          \A f \in Engines : \A i \in 1..Len(queue'[f]) : queue'[f][i].op = "TERMINATE"
    <3> SUFFICES ASSUME task.op = "ALL_RECV", NEW f \in Engines, NEW i \in 1..Len(queue'[f])
                 PROVE  queue'[f][i].op = "TERMINATE"
      BY Zenon
    <3>1. CASE f = KeyEngine
      <4>1. f = e /\ OnlyEnds(1)
        BY <1>7, <3>1, Zenon
      <4>2. i + 1 > 1
        BY <1>4, <4>1
      <4>3. /\ i + 1 \in 1..Len(queue[KeyEngine])
            /\ queue'[f][i] = queue[KeyEngine][i + 1]
        BY <1>4, <3>1, <4>1
      <4>4. QED
        BY <4>1, <4>2, <4>3, Zenon DEF OnlyEnds
    <3>2. CASE f # KeyEngine
      <4>1. PICK j \in 1..Len(queue[f]) : queue'[f][i] = queue[f][j]
        BY <2>1, Zenon
      <4>2. queue[f][j].op = "TERMINATE"
        BY <3>2, Zenon DEF Round
      <4>3. QED
        BY <4>1, <4>2, Zenon
    <3>3. QED
      BY <3>1, <3>2, Zenon
  <2>3. \A f \in Engines : \A i \in 1..Len(queue'[f]) :
          /\ queue'[f][i].op = "TERMINATE" => queue'[f][i].src = {}
          /\ queue'[f][i].op # "TERMINATE" => f = KeyEngine /\ sync /\ ~finished'
    <3> SUFFICES ASSUME NEW f \in Engines, NEW i \in 1..Len(queue'[f])
                 PROVE  /\ queue'[f][i].op = "TERMINATE" => queue'[f][i].src = {}
                        /\ queue'[f][i].op # "TERMINATE" => f = KeyEngine /\ sync /\ ~finished'
      BY Zenon
    <3>1. PICK j \in 1..Len(queue[f]) : queue'[f][i] = queue[f][j]
      BY <2>1, Zenon
    <3>2. /\ queue[f][j].op = "TERMINATE" => queue[f][j].src = {}
          /\ queue[f][j].op # "TERMINATE" => f = KeyEngine /\ sync /\ ~finished
      BY Zenon DEF Round
    <3>3. finished' => finished \/ task.op = "ALL_RECV"
      BY <1>5, Zenon
    <3>4. QED
      BY <2>2, <3>1, <3>2, <3>3, Zenon
  <2>4. \A i \in 1..Len(queue'[KeyEngine]) :
         /\ queue'[KeyEngine][i].op = "ALL_RECV" =>
              queue'[KeyEngine][i].src = {} /\ OnlyEnds(i)' /\ \A w \in Workers : Past(w)'
         /\ queue'[KeyEngine][i].op = "COPY_FIRST" => i = 1 /\ store' = {}
         /\ queue'[KeyEngine][i].op \in {"COPY_FIRST", "SUM_RECV"} =>
              \E w \in Workers : queue'[KeyEngine][i].src = {<<w, 1>>}
    <3>1. \A w : Past(w)' <=> Past(w)
      BY <1>1, Zenon DEF Past
    <3>2. CASE e = KeyEngine
      <4> SUFFICES ASSUME NEW i \in 1..Len(queue'[KeyEngine])
                   PROVE  /\ queue'[KeyEngine][i].op = "ALL_RECV" =>
                               /\ queue'[KeyEngine][i].src = {} /\ OnlyEnds(i)'
                               /\ \A w \in Workers : Past(w)'
                          /\ queue'[KeyEngine][i].op = "COPY_FIRST" => i = 1 /\ store' = {}
                          /\ queue'[KeyEngine][i].op \in {"COPY_FIRST", "SUM_RECV"} =>
                               \E w \in Workers : queue'[KeyEngine][i].src = {<<w, 1>>}
        BY Zenon
      <4>1. /\ \A j \in 1..Len(queue'[KeyEngine]) :
                 /\ j + 1 \in 1..Len(queue[KeyEngine])
                 /\ queue'[KeyEngine][j] = queue[KeyEngine][j + 1]
            /\ \A j \in 1..Len(queue'[KeyEngine]) : j > i => j + 1 > i + 1
            /\ i + 1 # 1
        BY <1>4, <3>2
      <4>2. OnlyEnds(i + 1) => OnlyEnds(i)'
        BY <4>1, Zenon DEF OnlyEnds
      <4>3. /\ queue[KeyEngine][i + 1].op = "ALL_RECV" =>
                 /\ queue[KeyEngine][i + 1].src = {} /\ OnlyEnds(i + 1)
                 /\ \A w \in Workers : Past(w)
            /\ queue[KeyEngine][i + 1].op # "COPY_FIRST"
            /\ queue[KeyEngine][i + 1].op \in {"COPY_FIRST", "SUM_RECV"} =>
                 \E w \in Workers : queue[KeyEngine][i + 1].src = {<<w, 1>>}
        BY <4>1, Zenon DEF Round
      <4>4. QED
        BY <3>1, <4>1, <4>2, <4>3, Zenon
    <3>3. CASE e # KeyEngine
      <4>1. UNCHANGED store /\ queue'[KeyEngine] = queue[KeyEngine]
        BY <1>4, <1>6, <1>9, <3>3, ConstantsAssumption, Zenon
      <4>2. \A i : OnlyEnds(i)' <=> OnlyEnds(i)
        BY <4>1, Zenon DEF OnlyEnds
      <4>3. QED
        BY <3>1, <4>1, <4>2, ZenonT(60) DEF Round
    <3>4. QED
      BY <3>2, <3>3, Zenon
  <2>5. (\E f \in Engines : \E i \in 1..Len(queue'[f]) : queue'[f][i].op = "TERMINATE")
          => main \in {"join", "end"}
    <3> SUFFICES ASSUME NEW f \in Engines, NEW i \in 1..Len(queue'[f]),
                        queue'[f][i].op = "TERMINATE"
                 PROVE  main \in {"join", "end"}
      BY Zenon
    <3>1. PICK j \in 1..Len(queue[f]) : queue'[f][i] = queue[f][j]
      BY <2>1, Zenon
    <3>2. queue[f][j].op = "TERMINATE"
      BY <3>1, Zenon
    <3>3. QED
      BY <3>2, Zenon DEF Round
  <2>6. finished' => sync /\ \A w \in Workers : Past(w)
    <3>1. task.op = "ALL_RECV" => sync
      BY <1>6
    <3>2. QED
      BY <1>5, <1>7, <3>1, Zenon DEF Round
  <2>7. (finished => finished') /\ \A w : Past(w)' <=> Past(w)
    BY <1>1, <1>5, Zenon DEF Past
  <2>8. {w \in Workers : Past(w)}' = {w \in Workers : Past(w)}
    BY <2>7, Zenon
  <2>9. QED
    BY <1>1, <2>3, <2>4, <2>5, <2>6, <2>7, <2>8, Zenon DEF Round
<1>14. QED
  BY <1>3, <1>11, <1>12, <1>13, Zenon

\* An engine answers the pulls that wait.
LEMMA EngineAnswerStep ==
  ASSUME Inv, NEW e \in Engines, EngineAnswer(e)
  PROVE  Phases' /\ Located' /\ Round' /\ Content' /\ UNCHANGED error
<1> USE DEF Inv
<1>1. UNCHANGED <<main, barrier, net, customer, handler, objects, queue, request, finished,
                  sync, store, round, seen>>
  BY Zenon DEF EngineAnswer, data
<1>2. finished
  BY Zenon DEF EngineAnswer, Answering
<1>3. CASE waiting = {}
  <2>1. UNCHANGED <<waiting, worker, error>>
    BY <1>3, Zenon DEF EngineAnswer
  <2>2. \A w \in Workers : SamePlace(w)
    BY <2>1, Zenon DEF SamePlace
  <2>3. QED
    BY <1>1, <2>1, <2>2, PhasesFrame, LocatedFrame, RoundFrame, ContentFrame, Zenon
<1>4. CASE waiting # {}
  <2>1. PICK w \in waiting : /\ waiting' = waiting \ {w} /\ worker' = Reply(w, "response")
                             /\ Require({"server", "van"}, "byteps_server_ is deleted")
    BY <1>4, Zenon DEF EngineAnswer
  <2>2. /\ w \in Workers /\ worker[w] = "pull" /\ worker[w] \in {"push", "pull"}
        /\ ~AtCustomer(w) /\ <<w, "pull">> \notin net
    BY Waits, Zenon DEF Located
  <2>3. worker'[w] = "response" /\ \A v \in Workers : v # w => worker'[v] = worker[v]
    <3>1. /\ w \in Workers /\ worker[w] \in {"push", "pull"} /\ worker' = Reply(w, "response")
      BY <2>1, <2>2, Zenon
    <3>2. TypeOK
      BY Zenon
    <3>3. QED
      BY <3>1, <3>2, Zenon DEF Reply, TypeOK
  <2>4. \A k \in {"pull", "response"} :
          k \notin EarlyStates \cup {"push", "answered", "Finalize", "end"}
    BY DEF EarlyStates
  <2>5. \A v \in Workers :
          /\ SamePlace(v) /\ (worker'[v] = "answered" => worker[v] = "answered")
          /\ worker'[v] \notin EarlyStates => worker[v] \notin EarlyStates
          /\ worker'[v] \in {"Finalize", "end"} <=> worker[v] \in {"Finalize", "end"}
    BY <2>2, <2>3, <2>4, Zenon DEF SamePlace
  <2>6. Phases' /\ Round' /\ Content'
    BY <1>1, <1>2, <2>5, PhasesFrame, RoundFrame, ContentFrame, Zenon
  <2>7. UNCHANGED error
    <3>1. objects = {"reducer", "van", "server", "customer"}
      BY <2>2, <2>4, Serving, Zenon
    <3>2. {"server", "van"} \subseteq objects
      BY <3>1, Zenon
    <3>3. QED
      BY <2>1, <3>2, Zenon DEF Require
  <2>8. Located'
    <3>1. \A v : AtCustomer(v)' <=> AtCustomer(v)
      BY <1>1, Zenon DEF AtCustomer
    <3>2. \A r \in net : r[1] \in Workers /\ r[1] # w /\ worker[r[1]] = r[2] /\ ~AtCustomer(r[1])
      <4>1. \A r \in net : r[1] \in Workers /\ worker[r[1]] = r[2] /\ ~AtCustomer(r[1])
        BY Waits, Zenon DEF Located
      <4>2. \A r \in net : r = <<r[1], r[2]>>
        BY DEF TypeOK, Requests
      <4>3. QED
        BY <2>2, <4>1, <4>2, Zenon
    <3>3. \A r \in net' : worker'[r[1]] = r[2] /\ ~AtCustomer(r[1])'
      BY <1>1, <2>3, <3>1, <3>2, Zenon
    <3>4. \A i \in 1..Len(customer) : /\ customer[i][1] \in Workers /\ customer[i][1] # w
                                      /\ worker[customer[i][1]] = customer[i][2]
      <4>1. \A i \in 1..Len(customer) : customer[i][1] # w
        BY <2>2, Zenon DEF AtCustomer
      <4>2. QED
        BY <4>1, Waits, Zenon DEF Located
    <3>5. \A i \in 1..Len(customer) : worker'[customer[i][1]] = customer[i][2]
      BY <2>3, <3>4, Zenon
    <3>6. \A v \in waiting' : worker'[v] = "pull" /\ ~AtCustomer(v)' /\ <<v, "pull">> \notin net'
      <4>1. \A v \in waiting : /\ v \in Workers /\ worker[v] = "pull"
                                /\ ~AtCustomer(v) /\ <<v, "pull">> \notin net
        BY Waits, Zenon DEF Located
      <4>2. QED
        BY <1>1, <2>1, <2>3, <3>1, <4>1, Zenon
    <3>7. QED
      BY <1>1, <3>3, <3>5, <3>6, Zenon DEF Located
  <2>9. QED
    BY <2>6, <2>7, <2>8, Zenon
<1>5. QED
  BY <1>3, <1>4, Zenon

-----------------------------------------------------------------------------
(* The theorems.                                                           *)

\* The invariant is inductive when workers drain before they shut down.
LEMMA InvStep ==
  ASSUME Drain, Inv, [Next]_vars
  PROVE  Inv'
<1>1. CASE Step
  <2>1. TypeOK' /\ Answering'
    BY <1>1, TypesStep, AnsweringStep, Zenon
  <2>2. Phases' /\ Located' /\ Round' /\ Content' /\ UNCHANGED error
    <3>1. CASE MainStep
      BY <3>1, MainPhases, MainRound, Zenon
    <3>2. ASSUME NEW w \in Workers,
                 \/ WorkerInit(w) \/ WorkerPush(w) \/ WorkerPull(w)
                 \/ WorkerShutdown(w) \/ WorkerEnd(w) \/ Transmit(w)
          PROVE  Phases' /\ Located' /\ Round' /\ Content' /\ UNCHANGED error
      BY <3>2, WorkerInitStep, WorkerPushStep, WorkerEndStep, TransmitStep, Zenon
    <3>3. ASSUME NEW e \in Engines, EngineTask(e) \/ EngineAnswer(e)
          PROVE  Phases' /\ Located' /\ Round' /\ Content' /\ UNCHANGED error
      BY <3>3, EngineTaskStep, EngineAnswerStep, Zenon
    <3>4. QED
      BY <1>1, <3>1, <3>2, <3>3, ReceiveStep, HandleStep, Zenon DEF Step, MainStep
  <2>3. error' = "none"
    BY <2>2, Zenon DEF Inv
  <2>4. QED
    BY <2>1, <2>2, <2>3, Zenon DEF Inv
<1>2. CASE UNCHANGED vars
  <2>1. UNCHANGED <<main, barrier, worker, net, customer, handler, objects, queue, engine,
                    request, finished, waiting, error, sync, store, round, seen>>
    BY <1>2, Zenon DEF vars, data
  <2>2. TypeOK' /\ Answering' /\ error' = "none"
    BY <2>1, Zenon DEF TypeOK, Answering, Inv
  <2>3. Phases' /\ Located' /\ Round' /\ Content'
    <3>1. \A w \in Workers : SamePlace(w)
      BY <2>1, Zenon DEF SamePlace
    <3>2. QED
      BY <2>1, <3>1, PhasesFrame, LocatedFrame, RoundFrame, ContentFrame, Zenon DEF Inv
  <2>4. QED
    BY <2>2, <2>3, Zenon DEF Inv
<1>3. QED
  BY <1>1, <1>2, Zenon DEF Next

\* Everything the server relies on holds from start to shutdown.
THEOREM LifecycleInvariant ==
  ASSUME Drain
  PROVE  Spec => []Inv
<1>1. Inv /\ [Next]_vars => Inv'
  BY InvStep, Zenon
<1>2. QED
  BY <1>1, InitInv, PTL DEF Spec

\* No request meets a server without its handler, and no thread of the server
\* uses the van, the server or the reducer after the main thread deleted it.
THEOREM ObjectsOutliveTheirUse ==
  ASSUME Drain
  PROVE  Spec => []NoUseAfterDelete
<1>1. Inv => NoUseAfterDelete
  BY Zenon DEF Inv, NoUseAfterDelete
<1>2. QED
  BY <1>1, LifecycleInvariant, PTL

\* When all nodes have reached the last barrier, the server owes nobody.
THEOREM ShutdownDropsNothing ==
  ASSUME Drain
  PROVE  Spec => []NothingDropped
<1>1. Inv => NothingDropped
  <2> SUFFICES ASSUME Inv, Passed("Finalize") PROVE
               /\ net = {} /\ customer = <<>> /\ waiting = {}
               /\ \A e \in Engines : \A i \in DOMAIN queue[e] : queue[e][i].op = "TERMINATE"
    BY Zenon DEF NothingDropped
  <2> USE DEF Inv
  <2>1. \A w \in Workers : worker[w] \in {"Finalize", "end"}
    BY Zenon DEF Phases, Passed, Nodes
  <2>2. \A w \in Workers : worker[w] \notin {"push", "pull"} /\ worker[w] \in LateStates
    BY <2>1 DEF LateStates
  <2>3. net = {} /\ waiting = {} /\ \A i \in 1..Len(customer) : FALSE
    BY <2>2, Waits, Zenon
  <2>4. customer = <<>>
    <3>1. customer \in Seq(Requests) /\ Len(customer) \in Nat
      BY LenProperties, Zenon DEF TypeOK
    <3>2. Len(customer) = 0
      BY <2>3, <3>1
    <3>3. QED
      BY <3>1, <3>2, EmptySeq
  <2>5. ~sync \/ finished
    BY <2>2, ConstantsAssumption, Zenon DEF Round
  <2>6. \A e \in Engines : \A i \in 1..Len(queue[e]) : queue[e][i].op = "TERMINATE"
    BY <2>5, NoTasks, Zenon
  <2>7. \A e \in Engines : DOMAIN queue[e] = 1..Len(queue[e])
    BY LenProperties, Zenon DEF TypeOK
  <2>8. QED
    BY <2>3, <2>4, <2>6, <2>7, Zenon
<1>2. QED
  BY <1>1, LifecycleInvariant, PTL

\* A pull returns the worker's own pushes and, from a synchronous server,
\* those of every worker.
THEOREM PullsSeeTheirPushes ==
  ASSUME Drain
  PROVE  Spec => []SeesOwnPushes
<1>1. Inv => SeesOwnPushes
  BY Zenon DEF Inv, Content, Full, SeesOwnPushes
<1>2. QED
  BY <1>1, LifecycleInvariant, PTL

\* What is stored has been pushed.
StorePushed == \A x \in store : x[2] <= round[x[1]]
LEMMA StoreIsPushed == Inv => StorePushed
<1> SUFFICES ASSUME Inv, NEW x \in store PROVE x[2] <= round[x[1]]
  BY Zenon DEF StorePushed
<1> USE DEF Inv
<1>1. x \in Workers \X Nat
  BY Zenon DEF TypeOK
<1>2. x[1] \in Workers /\ x[2] \in Nat /\ round[x[1]] \in Nat
  BY <1>1 DEF TypeOK
<1>3. CASE sync
  <2>1. x[2] = 1 /\ Past(x[1])
    BY <1>1, <1>3, Zenon DEF Content
  <2>2. round[x[1]] = 1
    BY <1>2, <1>3, <2>1, Zenon DEF Round, Past
  <2>3. QED
    BY <2>1, <2>2
<1>4. CASE ~sync
  <2>1. x[2] \in 1..round[x[1]]
    BY <1>1, <1>4, Zenon DEF Content, Added
  <2>2. QED
    BY <1>2, <2>1
<1>5. QED
  BY <1>3, <1>4, Zenon

\* What a worker has read stays in what it reads next, and is never ahead of
\* what was pushed.
THEOREM ReadsNeverGoBack ==
  ASSUME Drain
  PROVE  Spec => ReadsAreMonotone
<1> DEFINE Monotone == \A w \in Workers :
                         /\ seen[w] \subseteq seen'[w]
                         /\ \A x \in seen'[w] : x[2] <= round'[x[1]]
<1>0. Inv' => StorePushed'
  BY StoreIsPushed, PTL
<1>1. Inv /\ Inv' /\ [Next]_vars => [Monotone]_vars
  <2> SUFFICES ASSUME Inv, Inv', Step PROVE Monotone
    BY Zenon DEF Next
  <2>1. \A w \in Workers : seen'[w] \subseteq store'
    BY Zenon DEF Inv, Content
  <2>2. \A x \in store' : x[2] <= round'[x[1]]
    BY <1>0, Zenon DEF StorePushed
  <2>3. \A w \in Workers : seen[w] \subseteq seen'[w]
    <3>1. ASSUME NEW v \in Workers, Transmit(v)
          PROVE  \A w \in Workers : seen[w] \subseteq seen'[w]
      <4>1. seen'[v] = store /\ \A w \in Workers : w # v => seen'[w] = seen[w]
        BY <3>1, Zenon DEF Transmit, Inv, TypeOK
      <4>2. QED
        BY <4>1, Zenon DEF Inv, Content
    <3>2. CASE UNCHANGED seen
      BY <3>2, Zenon
    <3>3. QED
      BY <3>1, <3>2, Zenon DEF Step, StartEngine, NewServer, SetRequestHandle, Finalize, StopVan,
         DeleteServer, Terminate, JoinEngines, Scheduler, WorkerInit, WorkerPush, WorkerPull,
         WorkerShutdown, WorkerEnd, Receive, Handle, EngineTask, EngineAnswer, data
  <2>4. QED
    BY <2>1, <2>2, <2>3, Zenon
<1>2. QED
  BY <1>1, LifecycleInvariant, PTL DEF Spec, ReadsAreMonotone
====
