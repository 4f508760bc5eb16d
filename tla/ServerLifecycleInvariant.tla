----------------------- MODULE ServerLifecycleInvariant -----------------------
(***************************************************************************)
(* The inductive invariant of a server's life, and the steps of its main   *)
(* thread, of the scheduler and of the workers, which preserve it.         *)
(***************************************************************************)
EXTENDS ServerLifecycle, SequenceTheorems, TLAPS

-----------------------------------------------------------------------------
(* The inductive invariant.                                                *)

Ops == {"COPY_FIRST", "SUM_RECV", "ALL_RECV", "TERMINATE"}
EarlyStates == {"start", "StartPS", "Barrier"}
LateStates == {"response", "answered", "Finalize", "end"}
States == EarlyStates \cup {"push", "acked", "pull"} \cup LateStates
Requests == Workers \X {"push", "pull"}
Tasks == [op : Ops, src : SUBSET (Workers \X Nat)]

TypeOK ==
    /\ sync \in BOOLEAN /\ finished \in BOOLEAN
    /\ barrier \in [{"StartPS", "Barrier", "Finalize"} -> SUBSET Nodes]
    /\ worker \in [Workers -> States]
    /\ net \in SUBSET Requests
    /\ customer \in Seq(Requests)
    /\ queue \in [Engines -> Seq(Tasks)]
    /\ engine \in [Engines -> {"none", "wait", "answer", "ended"}]
    /\ request \in SUBSET Workers
    /\ waiting \in SUBSET Workers
    /\ store \in SUBSET (Workers \X Nat)
    /\ round \in [Workers -> Nat]
    /\ seen \in [Workers -> SUBSET (Workers \X Nat)]

(* What exists and which barriers are passed, by the place of the main     *)
(* thread and of the workers.                                              *)
Ending == main \in {"delete", "delete reducer", "join", "end"}
Phases ==
    /\ objects = CASE main = "engine" -> {}
                   [] main = "StartPS" -> {"reducer", "van"}
                   [] main = "delete" -> {"reducer", "server", "customer"}
                   [] main = "delete reducer" -> {"reducer"}
                   [] main \in {"join", "end"} -> {}
                   [] OTHER -> {"reducer", "van", "server", "customer"}
    /\ main \in {"engine", "StartPS", "KVServer", "Barrier", "Finalize"} \/ Ending
    /\ "server" \in barrier["Barrier"] =>
         handler /\ (main \in {"Barrier", "Finalize"} \/ Ending)
    /\ Ending => Passed("Finalize")
    /\ \A w \in Workers :
         /\ worker[w] \notin EarlyStates => Passed("Barrier")
         /\ w \in barrier["Finalize"] <=> worker[w] \in {"Finalize", "end"}

(* A worker's request is in one place.                                     *)
AtCustomer(w) == \E i \in 1..Len(customer) : customer[i][1] = w
Located ==
    /\ \A r \in net : worker[r[1]] = r[2] /\ ~AtCustomer(r[1])
    /\ \A i \in 1..Len(customer) :
         /\ worker[customer[i][1]] = customer[i][2]
         /\ \A j \in 1..Len(customer) : customer[j][1] = customer[i][1] => i = j
    /\ \A w \in waiting : /\ worker[w] = "pull" /\ ~AtCustomer(w)
                          /\ <<w, "pull">> \notin net

(* The push of w has been handled.                                         *)
Past(w) == worker[w] \notin EarlyStates \cup {"push"}

(* The key's tasks, and what the handler and the engine know of the round. *)
OnlyEnds(i) == \A j \in 1..Len(queue[KeyEngine]) :
              j > i => queue[KeyEngine][j].op = "TERMINATE"
Round ==
    /\ \A e \in Engines : \A i \in 1..Len(queue[e]) :
         /\ queue[e][i].op = "TERMINATE" => queue[e][i].src = {}
         /\ queue[e][i].op # "TERMINATE" => e = KeyEngine /\ sync /\ ~finished
    /\ \A i \in 1..Len(queue[KeyEngine]) :
         /\ queue[KeyEngine][i].op = "ALL_RECV" =>
              queue[KeyEngine][i].src = {} /\ OnlyEnds(i) /\ \A w \in Workers : Past(w)
         /\ queue[KeyEngine][i].op = "COPY_FIRST" => i = 1 /\ store = {}
         /\ queue[KeyEngine][i].op \in {"COPY_FIRST", "SUM_RECV"} =>
              \E w \in Workers : queue[KeyEngine][i].src = {<<w, 1>>}
    /\ (\E e \in Engines : \E i \in 1..Len(queue[e]) : queue[e][i].op = "TERMINATE")
         => main \in {"join", "end"}
    /\ finished => sync /\ \A w \in Workers : Past(w)
    /\ sync => \A w \in Workers :
         /\ worker[w] \in LateStates => finished
         /\ round[w] = IF worker[w] \in EarlyStates THEN 0 ELSE 1
    /\ sync /\ (\E w \in Workers : ~Past(w)) => request = {w \in Workers : Past(w)}

(* What is stored, or is still queued to be, and what was read.            *)
Queued(x) == \E i \in 1..Len(queue[KeyEngine]) : x \in queue[KeyEngine][i].src
Added(x) == /\ x[2] \in 1..round[x[1]]
            /\ x[2] < round[x[1]] \/ worker[x[1]] # "push"
Full(w) ==
    /\ \A r \in 1..round[w] : <<w, r>> \in seen[w]
    /\ sync => seen[w] = {<<v, 1>> : v \in Workers}

Content ==
    /\ \A w \in Workers : worker[w] \in EarlyStates <=> round[w] = 0
    /\ sync => \A x \in Workers \X Nat :
                 x \in store \/ Queued(x) <=> x[2] = 1 /\ Past(x[1])
    /\ ~sync => \A x \in Workers \X Nat : x \in store <=> Added(x)
    /\ \A w \in Workers : seen[w] \subseteq store
    /\ \A w \in Workers : worker[w] = "answered" => Full(w)

Answering == \A e \in Engines : engine[e] = "answer" => finished

Inv == TypeOK /\ Phases /\ Located /\ Round /\ Content /\ Answering /\ error = "none"

-----------------------------------------------------------------------------
(* Sequences.                                                              *)

\* What is appended comes last.
LEMMA Appended ==
  ASSUME NEW S, NEW s \in Seq(S), NEW x \in S
  PROVE  /\ Append(s, x) \in Seq(S) /\ Len(s) \in Nat
         /\ Len(Append(s, x)) = Len(s) + 1
         /\ \A i \in 1..Len(s) : i \in 1..Len(Append(s, x)) /\ Append(s, x)[i] = s[i]
         /\ Append(s, x)[Len(s) + 1] = x
         /\ \A i \in 1..Len(Append(s, x)) : i \in 1..Len(s) \/ i = Len(s) + 1
BY AppendProperties, LenProperties

\* The tail is the rest, shifted by one place.
LEMMA Popped ==
  ASSUME NEW S, NEW s \in Seq(S), s # <<>>
  PROVE  /\ Tail(s) \in Seq(S) /\ Head(s) \in S /\ Head(s) = s[1] /\ 1 \in 1..Len(s)
         /\ \A i \in 1..Len(Tail(s)) :
              i \in Nat /\ i + 1 \in 1..Len(s) /\ Tail(s)[i] = s[i + 1]
         /\ \A i \in 1..Len(s) :
              i = 1 \/ (i - 1 \in 1..Len(Tail(s)) /\ Tail(s)[i - 1] = s[i])
<1>1. /\ Len(s) \in Nat /\ Head(s) \in S /\ Tail(s) \in Seq(S)
      /\ Len(Tail(s)) = Len(s) - 1 /\ Len(Tail(s)) \in Nat
      /\ \A i \in 1..Len(Tail(s)) : Tail(s)[i] = s[i + 1]
  BY HeadTailProperties, LenProperties
<1>2. Head(s) = s[1]
  BY DEF Head
<1>3. QED
  BY <1>1, <1>2

-----------------------------------------------------------------------------
(* Types.                                                                  *)

\* The initial states have the invariant.
LEMMA InitInv == Init => Inv
<1> SUFFICES ASSUME Init PROVE Inv
  OBVIOUS
<1>1. /\ \A e \in Engines : queue[e] = <<>>
      /\ customer = <<>> /\ 1..Len(<<>>) = {}
  BY DEF Init
<1>2. TypeOK
  <2>1. <<>> \in Seq(Requests) /\ <<>> \in Seq(Tasks)
    BY EmptySeq, Zenon
  <2>2. worker \in [Workers -> States] /\ round \in [Workers -> Nat]
    BY DEF Init, States, EarlyStates
  <2>3. queue \in [Engines -> Seq(Tasks)]
    BY <2>1, Zenon DEF Init
  <2>4. QED
    BY <2>1, <2>2, <2>3, Zenon DEF Init, TypeOK
<1>3. Phases
  BY DEF Init, Phases, Ending, EarlyStates
<1>4. Located
  BY <1>1, Zenon DEF Init, Located
<1>5. \A w \in Workers : ~Past(w) /\ worker[w] \in EarlyStates /\ worker[w] \notin LateStates
  BY DEF Init, Past, EarlyStates, LateStates
<1>6. Round
  <2>1. ~finished /\ request = {} /\ \A w \in Workers : round[w] = 0
    BY Zenon DEF Init
  <2>2. QED
    BY <1>1, <1>5, <2>1, ConstantsAssumption, Zenon DEF Round
<1>7. Content
  BY <1>1, <1>5, ConstantsAssumption DEF Init, Content, Queued, Added, Full, EarlyStates
<1>8. Answering
  BY DEF Init, Answering
<1>9. QED
  BY <1>2, <1>3, <1>4, <1>6, <1>7, <1>8, Zenon DEF Init, Inv

\* The tasks of a push, and the store after an asynchronous one.
LEMMA PushTasksType ==
  ASSUME TypeOK, NEW w \in Workers
  PROVE  PushTasks(w) \in Seq(Tasks) /\ AddToStore(w) \in SUBSET (Workers \X Nat)
<1>1. Pushed(w) \in Workers \X Nat
  BY DEF Pushed, TypeOK
<1>2. ASSUME NEW op \in Ops PROVE Task(op, {Pushed(w)}) \in Tasks
  BY <1>1, <1>2 DEF Task, Tasks
<1>3. Task("ALL_RECV", {}) \in Tasks
  BY DEF Task, Tasks, Ops
<1>4. "COPY_FIRST" \in Ops /\ "SUM_RECV" \in Ops
  BY DEF Ops
<1>5. ASSUME NEW op \in Ops
      PROVE  Append(queue[KeyEngine], Task(op, {Pushed(w)})) \in Seq(Tasks)
  BY <1>2, <1>5, Appended, ConstantsAssumption, ZenonT(60) DEF TypeOK
<1>6. PushTasks(w) \in Seq(Tasks)
  BY <1>3, <1>4, <1>5, Appended, Zenon DEF PushTasks
<1>7. QED
  BY <1>1, <1>6, Zenon DEF AddToStore, TypeOK

\* Every step keeps the types.
LEMMA TypesStep ==
  ASSUME Inv, Step
  PROVE  TypeOK'
<1> USE DEF Inv
<1>1. ASSUME NEW w \in Workers, NEW pc \in States
      PROVE  [worker EXCEPT ![w] = pc] \in [Workers -> States]
  BY <1>1, Zenon DEF TypeOK
<1>2. ASSUME NEW w \in Workers, NEW pc \in States
      PROVE  Reply(w, pc) \in [Workers -> States]
  BY <1>2 DEF TypeOK, Reply
<1>3. ASSUME NEW b \in {"StartPS", "Barrier", "Finalize"}, NEW n \in Nodes, Reach(b, n)
      PROVE  barrier' \in [{"StartPS", "Barrier", "Finalize"} -> SUBSET Nodes]
  BY <1>3 DEF TypeOK, Reach
<1>4. {"StartPS", "Barrier", "push", "pull", "acked", "response", "answered",
       "Finalize", "end"} \subseteq States
  BY DEF States, EarlyStates, LateStates
<1>5. /\ {"server", "scheduler"} \subseteq Nodes /\ Workers \subseteq Nodes
      /\ "StartPS" \in {"StartPS", "Barrier", "Finalize"}
      /\ "Barrier" \in {"StartPS", "Barrier", "Finalize"}
      /\ "Finalize" \in {"StartPS", "Barrier", "Finalize"}
  BY Zenon DEF Nodes
<1>6. CASE StartEngine
  <2>1. engine' \in [Engines -> {"none", "wait", "answer", "ended"}]
    BY <1>6, Zenon DEF StartEngine
  <2>2. QED
    BY <1>3, <1>5, <1>6, <2>1, Zenon DEF StartEngine, TypeOK, data
<1>7. CASE NewServer
  BY <1>7, Zenon DEF NewServer, TypeOK, data
<1>8. CASE SetRequestHandle
  BY <1>3, <1>5, <1>8, Zenon DEF SetRequestHandle, TypeOK, data
<1>9. CASE Finalize
  BY <1>3, <1>5, <1>9, Zenon DEF Finalize, TypeOK, data
<1>10. CASE StopVan
  BY <1>10, Zenon DEF StopVan, TypeOK, data
<1>11. CASE DeleteServer
  BY <1>11, Zenon DEF DeleteServer, TypeOK, data
<1>12. CASE Terminate
  <2>1. Task("TERMINATE", {}) \in Tasks
    BY DEF Task, Tasks, Ops
  <2>2. TerminateAll \in [Engines -> Seq(Tasks)]
    BY <2>1, Appended, Zenon DEF TerminateAll, TypeOK
  <2>3. QED
    BY <1>12, <2>2, Zenon DEF Terminate, TypeOK, data
<1>13. CASE JoinEngines
  BY <1>13, Zenon DEF JoinEngines, TypeOK, data
<1>14. ASSUME NEW w \in Workers, WorkerInit(w) PROVE TypeOK'
  BY <1>1, <1>3, <1>4, <1>5, <1>14, ZenonT(60) DEF WorkerInit, TypeOK, data
<1>15. ASSUME NEW w \in Workers, WorkerPush(w) PROVE TypeOK'
  <2>1. round' \in [Workers -> Nat]
    BY <1>15 DEF WorkerPush, TypeOK
  <2>2. net' \in SUBSET Requests
    BY <1>15 DEF WorkerPush, TypeOK, Requests
  <2>3. QED
    BY <1>1, <1>4, <1>15, <2>1, <2>2, Zenon DEF WorkerPush, TypeOK
<1>16. ASSUME NEW w \in Workers, WorkerPull(w) PROVE TypeOK'
  <2>2. net' \in SUBSET Requests
    BY <1>16 DEF WorkerPull, TypeOK, Requests
  <2>3. QED
    BY <1>1, <1>4, <1>16, <2>2, Zenon DEF WorkerPull, TypeOK, data
<1>17. ASSUME NEW w \in Workers, WorkerShutdown(w) PROVE TypeOK'
  BY <1>1, <1>3, <1>4, <1>5, <1>17, Zenon DEF WorkerShutdown, TypeOK, data
<1>18. ASSUME NEW w \in Workers, WorkerEnd(w) PROVE TypeOK'
  BY <1>1, <1>4, <1>18, Zenon DEF WorkerEnd, TypeOK, data
<1>19. ASSUME NEW w \in Workers, Transmit(w) PROVE TypeOK'
  <2>1. seen' \in [Workers -> SUBSET (Workers \X Nat)]
    BY <1>19, Zenon DEF Transmit, TypeOK
  <2>2. QED
    BY <1>1, <1>4, <1>19, <2>1, Zenon DEF Transmit, TypeOK
<1>20. CASE Scheduler
  <2>1. DOMAIN barrier = {"StartPS", "Barrier", "Finalize"}
    BY Zenon DEF TypeOK
  <2>2. QED
    BY <1>3, <1>5, <1>20, <2>1, Zenon DEF Scheduler, TypeOK, data
<1>21. CASE Receive
  <2>1. \A r \in net : Append(customer, r) \in Seq(Requests)
    BY Appended, Zenon DEF TypeOK
  <2>2. QED
    BY <1>21, <2>1, Zenon DEF Receive, TypeOK, data
<1>22. CASE Handle
  <2>1. /\ customer # <<>> /\ customer' = Tail(customer)
        /\ customer' \in Seq(Requests) /\ Head(customer) \in Requests
    BY <1>22, Popped, Zenon DEF Handle, TypeOK
  <2> DEFINE w == Head(customer)[1]
  <2>2. w \in Workers
    BY <2>1 DEF Requests
  <2> HIDE DEF w
  <2>3. PushTasks(w) \in Seq(Tasks) /\ AddToStore(w) \in SUBSET (Workers \X Nat)
    BY <2>2, PushTasksType, Zenon
  <2>4. /\ queue' \in [Engines -> Seq(Tasks)] /\ request' \in SUBSET Workers
        /\ worker' \in [Workers -> States] /\ waiting' \in SUBSET Workers
        /\ store' \in SUBSET (Workers \X Nat)
    <3>1. CASE HandlePush(w)
      <4>1. queue' \in [Engines -> Seq(Tasks)]
        BY <2>3, <3>1, Zenon DEF HandlePush, TypeOK
      <4>2. Reply(w, "acked") \in [Workers -> States]
        BY <1>2, <1>4, <2>2, Zenon
      <4>3. store' \in SUBSET (Workers \X Nat)
        BY <2>3, <3>1, Zenon DEF HandlePush, TypeOK
      <4>4. request' \in SUBSET Workers
        BY <2>2, <3>1, Zenon DEF HandlePush, TypeOK
      <4>5. QED
        BY <3>1, <4>1, <4>2, <4>3, <4>4, Zenon DEF HandlePush, TypeOK
    <3>2. CASE HandlePull(w)
      <4>1. Reply(w, "response") \in [Workers -> States]
        BY <1>2, <1>4, <2>2, Zenon
      <4>2. QED
        BY <2>2, <3>2, <4>1, Zenon DEF HandlePull, TypeOK
    <3>3. CASE UNCHANGED <<queue, request, worker, waiting, store>>
      BY <3>3, Zenon DEF TypeOK
    <3>4. QED
      BY <1>22, <3>1, <3>2, <3>3, Zenon DEF Handle, w
  <2>5. QED
    BY <1>22, <2>1, <2>4, Zenon DEF Handle, TypeOK
<1>23. ASSUME NEW e \in Engines, EngineTask(e) PROVE TypeOK'
  <2>1. Tail(queue[e]) \in Seq(Tasks) /\ Head(queue[e]) \in Tasks
    BY <1>23, Popped, Zenon DEF EngineTask, TypeOK
  <2>2. queue' \in [Engines -> Seq(Tasks)]
    BY <1>23, <2>1, Zenon DEF EngineTask, TypeOK
  <2>3. Head(queue[e]).src \in SUBSET (Workers \X Nat)
    BY <2>1 DEF Tasks
  <2>4. store' \in SUBSET (Workers \X Nat)
    BY <1>23, <2>3, Zenon DEF EngineTask, TypeOK
  <2>5. finished' \in BOOLEAN /\ engine' \in [Engines -> {"none", "wait", "answer", "ended"}]
    BY <1>23, Zenon DEF EngineTask, TypeOK
  <2>6. QED
    BY <1>23, <2>2, <2>4, <2>5, Zenon DEF EngineTask, TypeOK
<1>24. ASSUME NEW e \in Engines, EngineAnswer(e) PROVE TypeOK'
  <2>0. engine' \in [Engines -> {"none", "wait", "answer", "ended"}]
    BY <1>24, Zenon DEF EngineAnswer, TypeOK
  <2>1. waiting' \in SUBSET Workers /\ worker' \in [Workers -> States]
    <3>1. \A w \in waiting : Reply(w, "response") \in [Workers -> States]
      BY <1>2, <1>4, Zenon DEF TypeOK
    <3>2. QED
      BY <1>24, <3>1, Zenon DEF EngineAnswer, TypeOK
  <2>2. QED
    BY <1>24, <2>0, <2>1, Zenon DEF EngineAnswer, TypeOK, data
<1>25. QED
  BY <1>6, <1>7, <1>8, <1>9, <1>10, <1>11, <1>12, <1>13, <1>14, <1>15, <1>16, <1>17,
     <1>18, <1>19, <1>20, <1>21, <1>22, <1>23, <1>24, Zenon DEF Step

-----------------------------------------------------------------------------
(* Steps that do not touch what a conjunct is about.                       *)

\* Workers move on behind the Barrier, and none reaches or leaves Finalize.
LEMMA PhasesFrame ==
  ASSUME Phases, UNCHANGED <<main, objects, handler, barrier>>,
         \A w \in Workers :
           /\ worker'[w] \notin EarlyStates => worker[w] \notin EarlyStates \/ Passed("Barrier")
           /\ worker'[w] \in {"Finalize", "end"} <=> worker[w] \in {"Finalize", "end"}
  PROVE  Phases'
<1>1. /\ Passed("Barrier")' <=> Passed("Barrier")
      /\ Passed("Finalize")' <=> Passed("Finalize")
      /\ Ending' <=> Ending
  BY Zenon DEF Passed, Ending
<1>2. QED
  BY <1>1, Zenon DEF Phases

\* Requests and their workers stay where they are.
LEMMA LocatedFrame ==
  ASSUME Located, UNCHANGED <<net, customer, waiting>>, TypeOK,
         \A w \in Workers : worker[w] \in {"push", "pull"} => worker'[w] = worker[w]
  PROVE  Located'
<1>1. \A r \in net : r[1] \in Workers /\ r[2] \in {"push", "pull"}
  BY DEF TypeOK, Requests
<1>2. \A i \in 1..Len(customer) :
        customer[i][1] \in Workers /\ customer[i][2] \in {"push", "pull"}
  <2>1. \A i \in 1..Len(customer) : customer[i] \in Requests
    BY ElementOfSeq, Zenon DEF TypeOK
  <2>2. QED
    BY <2>1 DEF Requests
<1>3. \A w : AtCustomer(w)' <=> AtCustomer(w)
  BY Zenon DEF AtCustomer
<1>4. \A w \in waiting : w \in Workers
  BY Zenon DEF TypeOK
<1>5. QED
  BY <1>1, <1>2, <1>3, <1>4, Zenon DEF Located

\* A step that keeps w on its side of every line the round depends on.
SamePlace(w) ==
  /\ worker'[w] \in EarlyStates <=> worker[w] \in EarlyStates
  /\ worker'[w] = "push" <=> worker[w] = "push"

\* The round does not advance.
LEMMA RoundFrame ==
  ASSUME Round, UNCHANGED <<sync, queue, finished, store, request, round>>,
         main \in {"join", "end"} => main' \in {"join", "end"},
         \A w \in Workers :
           SamePlace(w) /\ (worker'[w] \in LateStates => worker[w] \in LateStates \/ ~sync \/ finished)
  PROVE  Round'
<1>1. \A w \in Workers : Past(w)' <=> Past(w)
  BY Zenon DEF Past, SamePlace
<1>2. {w \in Workers : Past(w)}' = {w \in Workers : Past(w)}
  BY <1>1, Zenon
<1>3. \A i : OnlyEnds(i)' <=> OnlyEnds(i)
  BY Zenon DEF OnlyEnds
<1>4. QED
  BY <1>1, <1>2, <1>3, ZenonT(60) DEF Round, SamePlace

\* Nothing is stored or read.
LEMMA ContentFrame ==
  ASSUME Content, UNCHANGED <<sync, store, queue, round, seen>>,
         \A w \in Workers :
           SamePlace(w) /\ (worker'[w] = "answered" => worker[w] = "answered")
  PROVE  Content'
<1>1. \A w \in Workers : Past(w)' <=> Past(w)
  BY Zenon DEF Past, SamePlace
<1>2. \A w \in Workers : Full(w)' <=> Full(w)
  BY Zenon DEF Full
<1>3. \A x : Queued(x)' <=> Queued(x)
  BY Zenon DEF Queued
<1>4. \A x \in Workers \X Nat : x[1] \in Workers
  OBVIOUS
<1>5. \A x \in Workers \X Nat : Added(x)' <=> Added(x)
  BY <1>4, Zenon DEF Added, SamePlace
<1>6. QED
  BY <1>1, <1>2, <1>3, <1>4, <1>5, Zenon DEF Content, SamePlace

-----------------------------------------------------------------------------
(* The main thread and the scheduler.                                      *)

\* A node that reaches a barrier leaves the passed ones passed.
LEMMA ReachBarrier ==
  ASSUME TypeOK, NEW b \in {"StartPS", "Barrier", "Finalize"}, NEW n \in Nodes,
         Reach(b, n)
  PROVE  /\ \A c \in {"StartPS", "Barrier", "Finalize"} : Passed(c) => Passed(c)'
         /\ \A c \in {"StartPS", "Barrier", "Finalize"} : \A m :
              m \in barrier'[c] <=> m \in barrier[c] \/ (c = b /\ m = n)
<1>1. \A c \in {"StartPS", "Barrier", "Finalize"} :
        barrier'[c] = IF c = b THEN barrier[c] \cup {n} ELSE barrier[c]
  BY Zenon DEF TypeOK, Reach
<1>2. QED
  BY <1>1, Zenon DEF Passed

MainStep ==
  StartEngine \/ NewServer \/ SetRequestHandle \/ Finalize \/ StopVan
  \/ DeleteServer \/ Terminate \/ JoinEngines \/ Scheduler

\* The main thread creates and deletes in order, past the barriers it meets.
LEMMA MainPhases ==
  ASSUME Inv, MainStep
  PROVE  Phases'
<1> USE DEF Inv
<1>1. /\ "server" \in Nodes /\ "scheduler" \in Nodes
      /\ \A w \in Workers : w # "server" /\ w # "scheduler"
      /\ UNCHANGED worker
  BY ConstantsAssumption, Zenon DEF MainStep, Nodes, StartEngine, NewServer,
     SetRequestHandle, Finalize, StopVan, DeleteServer, Terminate, JoinEngines, Scheduler
<1>2. CASE StartEngine
  <2>1. Reach("StartPS", "server") /\ UNCHANGED handler
    BY <1>2, Zenon DEF StartEngine
  <2>2. QED
    BY <1>1, <1>2, <2>1, ReachBarrier DEF StartEngine, Phases, Ending
<1>3. CASE NewServer
  BY <1>1, <1>3 DEF NewServer, Phases, Ending, Passed
<1>4. CASE SetRequestHandle
  <2>1. Reach("Barrier", "server")
    BY <1>4, Zenon DEF SetRequestHandle
  <2>2. /\ Passed("Barrier") => Passed("Barrier")'
        /\ \A w \in Workers : w \in barrier'["Finalize"] <=> w \in barrier["Finalize"]
    BY <1>1, <2>1, ReachBarrier, Zenon
  <2>3. main = "KVServer" /\ main' = "Barrier" /\ handler' /\ UNCHANGED objects
    BY <1>4, Zenon DEF SetRequestHandle
  <2>4. QED
    BY <1>1, <2>2, <2>3 DEF Phases, Ending
<1>5. CASE Finalize
  <2>1. Reach("Finalize", "server")
    BY <1>5, Zenon DEF Finalize
  <2>2. /\ Passed("Barrier") => Passed("Barrier")'
        /\ Passed("Finalize") => Passed("Finalize")'
        /\ "server" \in barrier'["Barrier"] <=> "server" \in barrier["Barrier"]
        /\ \A w \in Workers : w \in barrier'["Finalize"] <=> w \in barrier["Finalize"]
    BY <1>1, <2>1, ReachBarrier, Zenon
  <2>3. main = "Barrier" /\ main' = "Finalize" /\ UNCHANGED <<handler, objects>>
    BY <1>5, Zenon DEF Finalize
  <2>4. QED
    BY <1>1, <2>2, <2>3 DEF Phases, Ending
<1>6. CASE StopVan
  BY <1>1, <1>6 DEF StopVan, Phases, Ending, Passed
<1>7. CASE DeleteServer
  BY <1>1, <1>7, Zenon DEF DeleteServer, Phases, Ending, Passed
<1>8. CASE Terminate
  BY <1>1, <1>8, Zenon DEF Terminate, Phases, Ending, Passed
<1>9. CASE JoinEngines
  BY <1>1, <1>9 DEF JoinEngines, Phases, Ending, Passed
<1>10. CASE Scheduler
  <2>0. DOMAIN barrier = {"StartPS", "Barrier", "Finalize"}
    BY Zenon DEF TypeOK
  <2>1. PICK b \in {"StartPS", "Barrier", "Finalize"} : Reach(b, "scheduler")
    BY <1>10, <2>0, Zenon DEF Scheduler
  <2>2. UNCHANGED <<main, handler, objects>>
    BY <1>10, Zenon DEF Scheduler
  <2>3. /\ Passed("Barrier") => Passed("Barrier")'
        /\ Passed("Finalize") => Passed("Finalize")'
        /\ \A m : m \in Workers \cup {"server"} =>
             /\ m \in barrier'["Barrier"] <=> m \in barrier["Barrier"]
             /\ m \in barrier'["Finalize"] <=> m \in barrier["Finalize"]
    BY <1>1, <2>1, ReachBarrier, Zenon
  <2>4. QED
    BY <1>1, <2>2, <2>3, Zenon DEF Phases, Ending
<1>11. QED
  BY <1>2, <1>3, <1>4, <1>5, <1>6, <1>7, <1>8, <1>9, <1>10, Zenon DEF MainStep

\* What the main thread adds to the queues ends the threads.
LEMMA TerminatedQueues ==
  ASSUME Inv, Terminate
  PROVE  /\ \A e \in Engines : \A i \in 1..Len(queue[e]) :
              i \in 1..Len(queue'[e]) /\ queue'[e][i] = queue[e][i]
         /\ \A e \in Engines : \A i \in 1..Len(queue'[e]) :
              \/ i \in 1..Len(queue[e]) /\ queue'[e][i] = queue[e][i]
              \/ queue'[e][i].op = "TERMINATE" /\ queue'[e][i].src = {}
<1>1. ASSUME NEW e \in Engines
      PROVE  queue'[e] = Append(queue[e], Task("TERMINATE", {})) /\ queue[e] \in Seq(Tasks)
  BY Zenon DEF Terminate, TerminateAll, Inv, TypeOK
<1>2. Task("TERMINATE", {}) \in Tasks
  BY DEF Task, Tasks, Ops
<1>3. Task("TERMINATE", {}).op = "TERMINATE" /\ Task("TERMINATE", {}).src = {}
  BY DEF Task
<1>4. ASSUME NEW e \in Engines
      PROVE  /\ \A i \in 1..Len(queue[e]) :
                  i \in 1..Len(queue'[e]) /\ queue'[e][i] = queue[e][i]
             /\ \A i \in 1..Len(queue'[e]) :
                  i \in 1..Len(queue[e]) \/ queue'[e][i] = Task("TERMINATE", {})
  <2> DEFINE q == queue[e]
             qn == queue'[e]
  <2>1. q \in Seq(Tasks) /\ qn = Append(q, Task("TERMINATE", {}))
    BY <1>1, <1>4, Zenon
  <2> HIDE DEF q, qn
  <2>2. /\ \A i \in 1..Len(q) : i \in 1..Len(qn) /\ qn[i] = q[i]
        /\ \A i \in 1..Len(qn) : i \in 1..Len(q) \/ qn[i] = Task("TERMINATE", {})
    <3>1. /\ \A i \in 1..Len(q) : i \in 1..Len(qn) /\ qn[i] = q[i]
          /\ qn[Len(q) + 1] = Task("TERMINATE", {})
          /\ \A i \in 1..Len(qn) : i \in 1..Len(q) \/ i = Len(q) + 1
      BY <1>2, <2>1, Appended
    <3>2. QED
      BY <3>1, Zenon
  <2>3. QED
    BY <2>2, Zenon DEF q, qn
<1>5. QED
  BY <1>3, <1>4, Zenon

\* The main thread leaves requests and the round alone.
LEMMA MainRound ==
  ASSUME Inv, MainStep
  PROVE  Located' /\ Round' /\ Content' /\ UNCHANGED error
<1> USE DEF Inv
<1>1. UNCHANGED <<worker, customer, waiting, request, finished, error, data>>
  BY Zenon DEF MainStep, StartEngine, NewServer, SetRequestHandle, Finalize, StopVan,
     DeleteServer, Terminate, JoinEngines, Scheduler
<1>2. /\ UNCHANGED <<sync, store, round, seen>>
      /\ \A w \in Workers : SamePlace(w)
  BY <1>1, Zenon DEF data, SamePlace
<1>3. Located'
  <2>1. CASE UNCHANGED net
    BY <1>1, <2>1, LocatedFrame, Zenon
  <2>2. CASE net' = {}
    <3>1. \A w : AtCustomer(w)' <=> AtCustomer(w)
      BY <1>1, Zenon DEF AtCustomer
    <3>2. QED
      BY <1>1, <2>2, <3>1, Zenon DEF Located
  <2>3. QED
    BY <2>1, <2>2, Zenon DEF MainStep, StartEngine, NewServer, SetRequestHandle, Finalize,
       StopVan, DeleteServer, Terminate, JoinEngines, Scheduler
<1>4. CASE Terminate
  <2>1. /\ main' = "join"
        /\ \A i \in 1..Len(queue[KeyEngine]) :
              i \in 1..Len(queue'[KeyEngine]) /\ queue'[KeyEngine][i] = queue[KeyEngine][i]
        /\ \A i \in 1..Len(queue'[KeyEngine]) :
              \/ i \in 1..Len(queue[KeyEngine]) /\ queue'[KeyEngine][i] = queue[KeyEngine][i]
              \/ queue'[KeyEngine][i].op = "TERMINATE" /\ queue'[KeyEngine][i].src = {}
    BY <1>4, TerminatedQueues, ConstantsAssumption, Zenon DEF Terminate
  <2>2. \A x : Queued(x)' <=> Queued(x)
    BY <2>1, Zenon DEF Queued
  <2>3. \A w : /\ Past(w)' <=> Past(w)
               /\ Full(w)' <=> Full(w)
               /\ Added(w)' <=> Added(w)
    BY <1>1, <1>2, Zenon DEF Past, Full, Added
  <2>4. Content'
    BY <1>1, <1>2, <2>2, <2>3, Zenon DEF Content
  <2>5. \A i \in 1..Len(queue[KeyEngine]) : OnlyEnds(i) => OnlyEnds(i)'
    BY <2>1, Zenon DEF OnlyEnds
  <2>6. {w \in Workers : Past(w)}' = {w \in Workers : Past(w)}
    BY <2>3, Zenon
  <2>7. Round'
    <3>1. \A e \in Engines : \A i \in 1..Len(queue'[e]) :
               /\ queue'[e][i].op = "TERMINATE" => queue'[e][i].src = {}
               /\ queue'[e][i].op # "TERMINATE" => e = KeyEngine /\ sync /\ ~finished
      <4> SUFFICES ASSUME NEW e \in Engines, NEW i \in 1..Len(queue'[e]),
                          i \in 1..Len(queue[e]), queue'[e][i] = queue[e][i]
                   PROVE  /\ queue'[e][i].op = "TERMINATE" => queue'[e][i].src = {}
                          /\ queue'[e][i].op # "TERMINATE" =>
                               e = KeyEngine /\ sync /\ ~finished
        BY <1>4, TerminatedQueues, Zenon
      <4>1. QED
        BY Zenon DEF Round
    <3>2. \A i \in 1..Len(queue'[KeyEngine]) :
            /\ queue'[KeyEngine][i].op = "ALL_RECV" =>
                 /\ queue'[KeyEngine][i].src = {} /\ OnlyEnds(i)'
                 /\ \A w \in Workers : Past(w)
            /\ queue'[KeyEngine][i].op = "COPY_FIRST" => i = 1 /\ store = {}
            /\ queue'[KeyEngine][i].op \in {"COPY_FIRST", "SUM_RECV"} =>
                 \E w \in Workers : queue'[KeyEngine][i].src = {<<w, 1>>}
      <4> SUFFICES ASSUME NEW i \in 1..Len(queue'[KeyEngine]),
                          i \in 1..Len(queue[KeyEngine]),
                          queue'[KeyEngine][i] = queue[KeyEngine][i]
                   PROVE  /\ queue'[KeyEngine][i].op = "ALL_RECV" =>
                               /\ queue'[KeyEngine][i].src = {} /\ OnlyEnds(i)'
                               /\ \A w \in Workers : Past(w)
                          /\ queue'[KeyEngine][i].op = "COPY_FIRST" => i = 1 /\ store = {}
                          /\ queue'[KeyEngine][i].op \in {"COPY_FIRST", "SUM_RECV"} =>
                               \E w \in Workers : queue'[KeyEngine][i].src = {<<w, 1>>}
        BY <2>1
      <4>1. QED
        BY <2>5, ZenonT(60) DEF Round
    <3>3. QED
      BY <1>1, <1>2, <2>1, <2>3, <2>6, <3>1, <3>2, ZenonT(60) DEF Round
  <2>8. QED
    BY <1>1, <1>3, <2>4, <2>7, Zenon
<1>5. CASE ~Terminate
  <2>1. UNCHANGED queue /\ (main \in {"join", "end"} => main' \in {"join", "end"})
    BY <1>5, Zenon DEF MainStep, StartEngine, NewServer, SetRequestHandle, Finalize, StopVan,
       DeleteServer, JoinEngines, Scheduler
  <2>2. Round' /\ Content'
    BY <1>1, <1>2, <2>1, RoundFrame, ContentFrame, Zenon
  <2>3. QED
    BY <1>1, <1>3, <2>2, Zenon
<1>6. QED
  BY <1>4, <1>5, Zenon

-----------------------------------------------------------------------------
(* The workers.                                                            *)

\* One worker moves.
LEMMA WorkerMoved ==
  ASSUME TypeOK, NEW w \in Workers, NEW pc, worker' = [worker EXCEPT ![w] = pc]
  PROVE  worker'[w] = pc /\ \A v \in Workers : v # w => worker'[v] = worker[v]
BY Zenon DEF TypeOK

\* A worker with a request anywhere waits for its answer.
LEMMA Waits ==
  ASSUME TypeOK, Located
  PROVE  /\ \A w \in Workers : AtCustomer(w) => worker[w] \in {"push", "pull"}
         /\ \A r \in net : r[1] \in Workers /\ r[2] \in {"push", "pull"}
                         /\ worker[r[1]] \in {"push", "pull"}
         /\ \A i \in 1..Len(customer) :
              /\ customer[i][1] \in Workers /\ customer[i][2] \in {"push", "pull"}
              /\ worker[customer[i][1]] \in {"push", "pull"}
         /\ \A w \in waiting : w \in Workers /\ worker[w] \in {"push", "pull"}
<1>1. \A r \in net : r[1] \in Workers /\ r[2] \in {"push", "pull"}
  BY DEF TypeOK, Requests
<1>2. \A i \in 1..Len(customer) :
        customer[i][1] \in Workers /\ customer[i][2] \in {"push", "pull"}
  <2>1. \A i \in 1..Len(customer) : customer[i] \in Requests
    BY ElementOfSeq, Zenon DEF TypeOK
  <2>2. QED
    BY <2>1 DEF Requests
<1>3. \A r \in net : worker[r[1]] \in {"push", "pull"}
  BY <1>1, Zenon DEF Located
<1>4. \A i \in 1..Len(customer) : worker[customer[i][1]] \in {"push", "pull"}
  BY <1>2, Zenon DEF Located
<1>5. \A w \in Workers : AtCustomer(w) => worker[w] \in {"push", "pull"}
  BY <1>4, Zenon DEF AtCustomer
<1>6. \A w \in waiting : w \in Workers /\ worker[w] \in {"push", "pull"}
  BY Zenon DEF Located, TypeOK
<1>7. QED
  BY <1>1, <1>2, <1>3, <1>4, <1>5, <1>6, Zenon

\* A worker sends a request.
LEMMA SendLocated ==
  ASSUME TypeOK, Located, NEW w \in Workers, NEW kind \in {"push", "pull"},
         worker[w] \notin {"push", "pull"},
         worker' = [worker EXCEPT ![w] = kind],
         net' = net \cup {<<w, kind>>}, UNCHANGED <<customer, waiting>>
  PROVE  Located'
<1>1. worker'[w] = kind /\ \A v \in Workers : v # w => worker'[v] = worker[v]
  BY WorkerMoved, Zenon
<1>2. \A v : AtCustomer(v)' <=> AtCustomer(v)
  BY Zenon DEF AtCustomer
<1>3. ~AtCustomer(w)
  BY Waits, Zenon
<1>4. \A r \in net : r[1] \in Workers /\ r[1] # w
  BY Waits, Zenon
<1>5. \A i \in 1..Len(customer) : customer[i][1] \in Workers /\ customer[i][1] # w
  BY Waits, Zenon
<1>6. \A v \in waiting : v \in Workers /\ v # w
  BY Waits, Zenon
<1>7. \A r \in net' : worker'[r[1]] = r[2] /\ ~AtCustomer(r[1])'
  <2>1. <<w, kind>>[1] = w /\ <<w, kind>>[2] = kind
    OBVIOUS
  <2>2. QED
    BY <1>1, <1>2, <1>3, <1>4, <2>1, ZenonT(60) DEF Located
<1>8. \A v \in waiting : <<v, "pull">> \notin net'
  <2>1. \A v \in waiting : <<v, "pull">> # <<w, kind>>
    BY <1>6
  <2>2. QED
    BY <2>1, Zenon DEF Located
<1>9. \A i \in 1..Len(customer) : worker'[customer[i][1]] = customer[i][2]
  <2>1. \A i \in 1..Len(customer) : worker[customer[i][1]] = customer[i][2]
    BY Zenon DEF Located
  <2>2. QED
    BY <1>1, <1>5, <2>1, Zenon
<1>10. \A v \in waiting : worker'[v] = "pull" /\ ~AtCustomer(v)'
  <2>1. \A v \in waiting : worker[v] = "pull" /\ ~AtCustomer(v)
    BY Zenon DEF Located
  <2>2. QED
    BY <1>1, <1>2, <1>6, <2>1, Zenon
<1>11. QED
  BY <1>7, <1>8, <1>9, <1>10, Zenon DEF Located

\* Starting up, no request is sent.
LEMMA WorkerInitStep ==
  ASSUME Inv, NEW w \in Workers, WorkerInit(w)
  PROVE  Phases' /\ Located' /\ Round' /\ Content' /\ UNCHANGED error
<1> USE DEF Inv
<1>1. /\ worker[w] \in {"start", "StartPS"}
      /\ UNCHANGED <<main, net, customer, handler, objects, queue, request, finished,
                     waiting, error, data>>
  BY Zenon DEF WorkerInit
<1>2. PICK pc \in {"StartPS", "Barrier"} : worker' = [worker EXCEPT ![w] = pc] /\ Reach(pc, w)
  BY Zenon DEF WorkerInit
<1>3. worker'[w] = pc /\ \A v \in Workers : v # w => worker'[v] = worker[v]
  BY <1>2, WorkerMoved, Zenon
<1>4. worker[w] \in EarlyStates /\ worker[w] \notin {"push", "pull", "Finalize", "end"}
  BY <1>1 DEF EarlyStates
<1>5. /\ pc \in EarlyStates /\ pc \notin {"push", "pull", "Finalize", "end", "answered"}
      /\ pc \notin LateStates
  BY DEF EarlyStates, LateStates
<1>6. UNCHANGED <<sync, store, round, seen>>
  BY <1>1, Zenon DEF data
<1>7. /\ \A v \in Workers : SamePlace(v)
      /\ \A v \in Workers : worker'[v] \in LateStates \cup {"answered"} => worker'[v] = worker[v]
      /\ \A v \in Workers : worker[v] \in {"push", "pull"} => worker'[v] = worker[v]
  BY <1>3, <1>4, <1>5, Zenon DEF SamePlace
<1>8. Located' /\ Round' /\ Content'
  BY <1>1, <1>6, <1>7, LocatedFrame, RoundFrame, ContentFrame, Zenon
<1>9. Phases'
  <2>1. w \in Nodes /\ w # "server" /\ pc \in {"StartPS", "Barrier", "Finalize"}
    BY ConstantsAssumption, Zenon DEF Nodes
  <2>2. /\ Passed("Barrier") => Passed("Barrier")'
        /\ Passed("Finalize") => Passed("Finalize")'
        /\ "server" \in barrier'["Barrier"] <=> "server" \in barrier["Barrier"]
        /\ \A v : v \in barrier'["Finalize"] <=> v \in barrier["Finalize"]
    <3>1. pc # "Finalize"
      OBVIOUS
    <3>2. QED
      BY <1>2, <2>1, <3>1, ReachBarrier
  <2>3. UNCHANGED <<main, handler, objects>>
    BY <1>1, Zenon
  <2>4. \A v \in Workers :
          /\ worker'[v] \notin EarlyStates => worker[v] \notin EarlyStates
          /\ worker'[v] \in {"Finalize", "end"} <=> worker[v] \in {"Finalize", "end"}
    BY <1>3, <1>4, <1>5, Zenon
  <2>5. QED
    BY <2>2, <2>3, <2>4, Zenon DEF Phases, Ending
<1>10. QED
  BY <1>1, <1>8, <1>9, Zenon

\* The end of a worker, and its pull.
LEMMA WorkerEndStep ==
  ASSUME Inv, Drain, NEW w \in Workers,
         WorkerPull(w) \/ WorkerShutdown(w) \/ WorkerEnd(w)
  PROVE  Phases' /\ Located' /\ Round' /\ Content' /\ UNCHANGED error
<1> USE DEF Inv
<1>1. UNCHANGED <<main, customer, handler, objects, queue, request, finished, waiting,
                  error, sync, store, round, seen>>
  BY Zenon DEF WorkerPull, WorkerShutdown, WorkerEnd, data
<1>2. PICK pc : /\ worker' = [worker EXCEPT ![w] = pc]
                /\ \/ WorkerPull(w) /\ worker[w] = "acked" /\ pc = "pull"
                   \/ WorkerShutdown(w) /\ worker[w] = "answered" /\ pc = "Finalize"
                   \/ WorkerEnd(w) /\ worker[w] = "Finalize" /\ pc = "end"
  BY DEF WorkerPull, WorkerShutdown, WorkerEnd
<1>3. worker'[w] = pc /\ \A v \in Workers : v # w => worker'[v] = worker[v]
  BY <1>2, WorkerMoved, Zenon
<1>4. /\ {pc, worker[w]} \cap (EarlyStates \cup {"push"}) = {}
      /\ worker[w] \notin {"push", "pull"} /\ pc # "answered"
      /\ pc \in LateStates => worker[w] \in LateStates
  BY <1>2 DEF EarlyStates, LateStates
<1>5. /\ \A v \in Workers : SamePlace(v)
      /\ \A v \in Workers : worker'[v] \in LateStates => worker[v] \in LateStates
      /\ \A v \in Workers : worker'[v] = "answered" => worker[v] = "answered"
      /\ \A v \in Workers : worker[v] \in {"push", "pull"} => worker'[v] = worker[v]
  BY <1>3, <1>4, Zenon DEF SamePlace
<1>6. Round' /\ Content'
  BY <1>1, <1>5, RoundFrame, ContentFrame, Zenon
<1>7. CASE WorkerPull(w)
  <2>1. worker[w] = "acked" /\ pc = "pull"
    BY <1>2, <1>7, Zenon DEF WorkerPull, WorkerShutdown, WorkerEnd
  <2>2. \A v \in Workers :
          /\ worker'[v] \notin EarlyStates => worker[v] \notin EarlyStates
          /\ worker'[v] \in {"Finalize", "end"} <=> worker[v] \in {"Finalize", "end"}
    BY <1>3, <2>1 DEF EarlyStates
  <2>3. net' = net \cup {<<w, "pull">>} /\ UNCHANGED barrier
    BY <1>7, Zenon DEF WorkerPull
  <2>4. Phases' /\ Located'
    BY <1>1, <1>2, <1>4, <2>1, <2>2, <2>3, PhasesFrame, SendLocated, Zenon
  <2>5. QED
    BY <1>1, <1>6, <2>4, Zenon
<1>8. CASE WorkerShutdown(w)
  <2>1. UNCHANGED net /\ Reach("Finalize", w) /\ worker[w] = "answered"
        /\ worker' = [worker EXCEPT ![w] = "Finalize"]
    BY <1>8 DEF WorkerShutdown
  <2>2. Located'
    BY <1>1, <1>5, <2>1, LocatedFrame, Zenon
  <2>3. w \in Nodes
    BY Zenon DEF Nodes
  <2>4. /\ Passed("Barrier") => Passed("Barrier")'
        /\ Passed("Finalize") => Passed("Finalize")'
        /\ "server" \in barrier'["Barrier"] <=> "server" \in barrier["Barrier"]
        /\ \A v : v \in barrier'["Finalize"] <=> v \in barrier["Finalize"] \/ v = w
    BY <2>1, <2>3, ReachBarrier
  <2>5. /\ worker'[w] = "Finalize" /\ worker[w] \notin EarlyStates
        /\ \A v \in Workers : worker'[v] \notin EarlyStates <=> worker[v] \notin EarlyStates
    <3>1. "answered" \notin EarlyStates
      BY DEF EarlyStates
    <3>2. worker'[w] = "Finalize"
      BY <2>1, WorkerMoved, Zenon
    <3>3. QED
      BY <1>5, <2>1, <3>1, <3>2, Zenon DEF SamePlace
  <2>6. Phases'
    BY <1>1, <1>3, <2>4, <2>5, Zenon DEF Phases, Ending
  <2>7. QED
    BY <1>1, <1>6, <2>2, <2>6, Zenon
<1>9. CASE WorkerEnd(w)
  <2>1. UNCHANGED <<net, barrier>> /\ worker[w] = "Finalize"
        /\ worker' = [worker EXCEPT ![w] = "end"]
    BY <1>9, Zenon DEF WorkerEnd
  <2>2. worker'[w] = "end"
    BY <2>1, WorkerMoved, Zenon
  <2>3. \A v \in Workers :
          /\ worker'[v] \notin EarlyStates => worker[v] \notin EarlyStates
          /\ worker'[v] \in {"Finalize", "end"} <=> worker[v] \in {"Finalize", "end"}
    BY <1>3, <1>5, <2>1, <2>2, Zenon DEF SamePlace
  <2>4. QED
    BY <1>1, <1>5, <1>6, <2>1, <2>3, PhasesFrame, LocatedFrame, Zenon
<1>10. QED
  BY <1>7, <1>8, <1>9, Zenon

\* No data is queued in an asynchronous server, nor after the round.
LEMMA NoTasks ==
  ASSUME Round, ~sync \/ finished
  PROVE  /\ \A e \in Engines : \A i \in 1..Len(queue[e]) :
              queue[e][i].op = "TERMINATE" /\ queue[e][i].src = {}
         /\ \A x : ~Queued(x)
<1>1. \A e \in Engines : \A i \in 1..Len(queue[e]) :
        queue[e][i].op = "TERMINATE" /\ queue[e][i].src = {}
  BY Zenon DEF Round
<1>2. QED
  BY <1>1, ConstantsAssumption, Zenon DEF Queued

\* An asynchronous server has no rounds.
LEMMA RoundAsync ==
  ASSUME Round, ~sync, UNCHANGED <<main, sync, queue, finished>>
  PROVE  Round'
<1>1. /\ \A e \in Engines : \A i \in 1..Len(queue'[e]) :
           queue'[e][i].op = "TERMINATE" /\ queue'[e][i].src = {}
      /\ ~finished' /\ ~sync'
  BY NoTasks, Zenon DEF Round
<1>2. \A i \in 1..Len(queue'[KeyEngine]) :
        queue'[KeyEngine][i].op \notin {"ALL_RECV", "COPY_FIRST", "SUM_RECV"}
  BY <1>1, ConstantsAssumption
<1>3. (\E e \in Engines : \E i \in 1..Len(queue'[e]) : queue'[e][i].op = "TERMINATE")
        => main' \in {"join", "end"}
  BY Zenon DEF Round
<1>4. QED
  BY <1>1, <1>2, <1>3, Zenon DEF Round

\* A worker pushes.
LEMMA WorkerPushStep ==
  ASSUME Inv, NEW w \in Workers, WorkerPush(w)
  PROVE  Phases' /\ Located' /\ Round' /\ Content' /\ UNCHANGED error
<1> USE DEF Inv
<1>1. UNCHANGED <<main, barrier, customer, handler, objects, queue, request, finished,
                  waiting, error, sync, store, seen>>
  BY Zenon DEF WorkerPush
<1>2. /\ worker' = [worker EXCEPT ![w] = "push"] /\ net' = net \cup {<<w, "push">>}
      /\ worker[w] \in {"Barrier", "answered"}
      /\ worker[w] = "Barrier" => Passed("Barrier")
      /\ sync => worker[w] = "Barrier"
  BY DEF WorkerPush
<1>3. worker'[w] = "push" /\ \A v \in Workers : v # w => worker'[v] = worker[v]
  BY <1>2, WorkerMoved, Zenon
<1>4. /\ worker[w] \notin {"push", "pull", "Finalize", "end"}
      /\ worker[w] = "Barrier" => worker[w] \in EarlyStates
      /\ worker[w] = "answered" => worker[w] \notin EarlyStates
      /\ "push" \notin EarlyStates \cup LateStates \cup {"Finalize", "end", "answered"}
  BY <1>2 DEF EarlyStates, LateStates
<1>5. round'[w] = round[w] + 1 /\ \A v \in Workers : v # w => round'[v] = round[v]
  BY Zenon DEF WorkerPush, TypeOK
<1>6. Phases' /\ Located'
  <2>1. \A v \in Workers :
          /\ worker'[v] \notin EarlyStates => worker[v] \notin EarlyStates \/ Passed("Barrier")
          /\ worker'[v] \in {"Finalize", "end"} <=> worker[v] \in {"Finalize", "end"}
    BY <1>2, <1>3, <1>4, Zenon
  <2>2. QED
    BY <1>1, <1>2, <1>4, <2>1, PhasesFrame, SendLocated, Zenon
<1>7. sync => \A v \in Workers : Past(v)' <=> Past(v)
  BY <1>2, <1>3, <1>4, Zenon DEF Past
<1>8. Round'
  <2>1. CASE sync
    <3>1. \A v \in Workers :
            /\ worker'[v] \in LateStates => finished
            /\ round'[v] = IF worker'[v] \in EarlyStates THEN 0 ELSE 1
      <4>1. worker[w] \in EarlyStates /\ round[w] = 0
        BY <1>2, <1>4, <2>1, Zenon DEF Content
      <4>2. round'[w] = 1
        BY <1>5, <4>1
      <4>3. QED
        BY <1>3, <1>4, <1>5, <2>1, <4>2, ZenonT(60) DEF Round
    <3>2. {v \in Workers : Past(v)}' = {v \in Workers : Past(v)}
      BY <1>7, <2>1, Zenon
    <3>3. \A i : OnlyEnds(i)' <=> OnlyEnds(i)
      BY <1>1, Zenon DEF OnlyEnds
    <3>4. QED
      BY <1>1, <1>7, <2>1, <3>1, <3>2, <3>3, ZenonT(60) DEF Round
  <2>2. CASE ~sync
    BY <1>1, <2>2, RoundAsync, Zenon
  <2>3. QED
    BY <2>1, <2>2, Zenon
<1>9. Content'
  <2>1. \A x : Queued(x)' <=> Queued(x)
    BY <1>1, Zenon DEF Queued
  <2>2. \A v \in Workers : worker'[v] \in EarlyStates <=> round'[v] = 0
    <3>1. round'[w] # 0
      BY <1>5 DEF TypeOK
    <3>2. QED
      BY <1>3, <1>4, <1>5, <3>1, Zenon DEF Content
  <2>3. \A x \in Workers \X Nat : x[1] \in Workers
    OBVIOUS
  <2>4. sync => \A x \in Workers \X Nat :
                  x \in store' \/ Queued(x)' <=> x[2] = 1 /\ Past(x[1])'
    BY <1>1, <1>7, <2>1, <2>3, Zenon DEF Content
  <2>5. \A x \in Workers \X Nat : Added(x)' <=> Added(x)
    <3>1. ASSUME NEW x \in Workers \X Nat, x[1] = w
          PROVE  Added(x)' <=> Added(x)
      <4>1. x[2] \in Nat /\ round[w] \in Nat
        BY <3>1 DEF TypeOK
      <4>2. x[2] \in 1..(round[w] + 1) /\ x[2] < round[w] + 1 <=> x[2] \in 1..round[w]
        BY <4>1
      <4>3. QED
        BY <1>3, <1>4, <1>5, <3>1, <4>2, Zenon DEF Added
    <3>2. ASSUME NEW x \in Workers \X Nat, x[1] # w
          PROVE  Added(x)' <=> Added(x)
      BY <1>3, <1>5, <2>3, <3>2, Zenon DEF Added
    <3>3. QED
      BY <3>1, <3>2, Zenon
  <2>6. \A v \in Workers : worker'[v] = "answered" => Full(v)'
    BY <1>1, <1>3, <1>4, <1>5, Zenon DEF Content, Full
  <2>7. QED
    BY <1>1, <2>2, <2>4, <2>5, <2>6, Zenon DEF Content
<1>10. QED
  BY <1>1, <1>6, <1>8, <1>9, Zenon

\* A response is transmitted.
LEMMA TransmitStep ==
  ASSUME Inv, NEW w \in Workers, Transmit(w)
  PROVE  Phases' /\ Located' /\ Round' /\ Content' /\ UNCHANGED error
<1> USE DEF Inv
<1>1. UNCHANGED <<main, barrier, net, customer, handler, objects, queue, request, finished,
                  waiting, error, sync, store, round>>
  BY Zenon DEF Transmit
<1>2. worker[w] = "response" /\ worker' = [worker EXCEPT ![w] = "answered"]
  BY Zenon DEF Transmit
<1>3. worker'[w] = "answered" /\ \A v \in Workers : v # w => worker'[v] = worker[v]
  BY <1>2, WorkerMoved, Zenon
<1>4. \A pc \in {"response", "answered"} :
        /\ pc \notin EarlyStates \cup {"push", "pull", "Finalize", "end"}
        /\ pc \in LateStates
  BY DEF EarlyStates, LateStates
<1>5. /\ \A v \in Workers : SamePlace(v) /\ (Past(v)' <=> Past(v))
      /\ \A v \in Workers : worker'[v] \in LateStates => worker[v] \in LateStates
      /\ \A v \in Workers : worker[v] \in {"push", "pull"} => worker'[v] = worker[v]
      /\ \A v \in Workers :
           worker'[v] \in {"Finalize", "end"} <=> worker[v] \in {"Finalize", "end"}
  BY <1>2, <1>3, <1>4, Zenon DEF SamePlace, Past
<1>6. Phases' /\ Located' /\ Round'
  <2>1. \A v \in Workers : worker'[v] \notin EarlyStates => worker[v] \notin EarlyStates
    BY <1>5, Zenon DEF SamePlace
  <2>2. QED
    BY <1>1, <1>5, <2>1, PhasesFrame, LocatedFrame, RoundFrame, Zenon
<1>7. seen'[w] = store /\ \A v \in Workers : v # w => seen'[v] = seen[v]
  BY Zenon DEF Transmit, TypeOK
<1>8. Full(w)'
  <2>1. CASE sync
    <3>1. finished /\ round[w] = 1
      BY <1>2, <1>4, <2>1, Zenon DEF Round
    <3>2. \A v \in Workers : Past(v)
      BY <3>1, Zenon DEF Round
    <3>3. \A x \in Workers \X Nat : x \in store <=> x[2] = 1
      <4>1. \A x : ~Queued(x)
        BY <3>1, NoTasks, Zenon
      <4>2. \A x \in Workers \X Nat : x[1] \in Workers
        OBVIOUS
      <4>3. QED
        BY <2>1, <3>2, <4>1, <4>2, Zenon DEF Content
    <3>4. store = {<<v, 1>> : v \in Workers}
      BY <3>3 DEF TypeOK
    <3>5. \A r \in 1..round[w] : <<w, r>> \in store
      BY <3>1, <3>4
    <3>6. QED
      BY <1>1, <1>7, <3>4, <3>5, Zenon DEF Full
  <2>2. CASE ~sync
    <3>1. ASSUME NEW r \in 1..round[w] PROVE <<w, r>> \in store
      <4>1. <<w, r>> \in Workers \X Nat /\ <<w, r>>[1] = w /\ <<w, r>>[2] = r
        BY DEF TypeOK
      <4>2. worker[w] # "push"
        BY <1>2
      <4>3. QED
        BY <2>2, <4>1, <4>2, Zenon DEF Content, Added
    <3>2. QED
      BY <1>1, <1>7, <2>2, <3>1, Zenon DEF Full
  <2>3. QED
    BY <2>1, <2>2, Zenon
<1>9. Content'
  <2>1. \A x : Queued(x)' <=> Queued(x)
    BY <1>1, Zenon DEF Queued
  <2>2. \A v \in Workers : worker'[v] = "answered" => Full(v)'
    <3>1. \A v \in Workers : v # w => (Full(v)' <=> Full(v))
      BY <1>1, <1>7, Zenon DEF Full
    <3>2. QED
      BY <1>3, <1>8, <3>1, Zenon DEF Content
  <2>3. \A x \in Workers \X Nat : x[1] \in Workers
    OBVIOUS
  <2>4. \A v \in Workers : seen'[v] \subseteq store'
    BY <1>1, <1>7, Zenon DEF Content
  <2>5. \A x \in Workers \X Nat : Added(x)' <=> Added(x)
    BY <1>1, <1>5, <2>3, Zenon DEF Added, SamePlace
  <2>6. QED
    BY <1>1, <1>5, <2>1, <2>2, <2>3, <2>4, <2>5, Zenon DEF Content, SamePlace
<1>10. QED
  BY <1>1, <1>6, <1>9, Zenon
====
