------------------------- MODULE BytePSServerControl -------------------------
(***************************************************************************)
(* The inductive invariant of BytePSServer, its types, and the proof that  *)
(* every action on a key preserves that key's protocol state, for any set  *)
(* of workers, keys and groups.                                            *)
(***************************************************************************)
EXTENDS BytePSServer, FiniteSetTheorems, TLAPS

-----------------------------------------------------------------------------
(***************************************************************************)
(* The inductive invariant, one conjunct per concern, each about one key.  *)
(***************************************************************************)

\* The members of S, each with the round number n.
Tagged(S, n) == {<<w, n>> : w \in S}

\* Workers outside the group never touch the key.
Outside(k) ==
  \A w \in Workers \ Group[k] : stage[k][w] = "idle" /\ round[k][w] = 0

\* Once any worker is past registration the server counts to the group size.
Counting(k) ==
  \/ expected_workers[k] = Cardinality(Group[k])
  \/ /\ expected_workers[k] = -1
     /\ ~tensor[k]
     /\ \A w \in Group[k] : stage[k][w] \in {"idle", "register"}

\* Before the store exists only the init exchange takes place.
Initializing(k) ==
  ~tensor[k] =>
    /\ epoch[k] = 0 /\ store[k] = {} /\ ~merged[k] /\ ~is_push_finished[k]
    /\ engine[k] = NoMessage /\ engine_queue[k] = <<>>
    /\ seen_sender[k] = {} /\ pull_cnt[k] = 0 /\ q_pull_reqmeta[k] = {}
    /\ \A w \in Group[k] :
         \/ stage[k][w] = "idle" /\ round[k][w] = 0
         \/ stage[k][w] \in {"register", "init", "initWait"} /\ round[k][w] = 1
    /\ request[k] = Tagged({w \in Group[k] : stage[k][w] = "initWait"}, 0)
    /\ \E w \in Group[k] : stage[k][w] # "initWait"

\* Once it exists, every worker is in the last collected round or the next.
Rounds(k) ==
  tensor[k] =>
    \A w \in Group[k] :
      \/ round[k][w] = epoch[k] + 1 /\ stage[k][w] \in {"push", "pull", "pullWait"}
      \/ /\ round[k][w] = epoch[k] /\ epoch[k] > 0
         /\ stage[k][w] \in {"pull", "pullWait", "posted", "idle"}

\* The workers whose push of the round being collected has arrived.
Collected(k) ==
  {w \in Group[k] : round[k][w] = epoch[k] + 1 /\ stage[k][w] \in {"pull", "pullWait"}}

\* Their requests are held, and never those of the whole group.
Collecting(k) ==
  tensor[k] =>
    /\ request[k] = Tagged(Collected(k), epoch[k] + 1)
    /\ Collected(k) # Group[k]

\* The queue holds exactly the pulls that have arrived and are unanswered.
Queued(k) ==
  tensor[k] => q_pull_reqmeta[k] = {w \in Group[k] : stage[k][w] = "pullWait"}

\* An ALL_RECV is queued or being executed.
AllRecvPending(k) ==
  \/ engine[k].op = "ALL_RECV"
  \/ \E i \in 1..Len(engine_queue[k]) : engine_queue[k][i].op = "ALL_RECV"

\* The workers that have been answered in the last collected round.
Answered(k) ==
  {w \in Group[k] : round[k][w] = epoch[k] + 1 \/ stage[k][w] \in {"posted", "idle"}}

\* The last collected round is being merged, or open, or closed.
Serving(k) ==
  tensor[k] =>
    /\ pull_cnt[k] = Cardinality(seen_sender[k])
    /\ seen_sender[k] = IF is_push_finished[k] THEN Answered(k) ELSE {}
    /\ AllRecvPending(k) => ~is_push_finished[k] /\ Answered(k) = {}
    /\ is_push_finished[k] =>
         /\ merged[k] /\ epoch[k] > 0 /\ Answered(k) # Group[k]
         /\ \A w \in Group[k] : round[k][w] = epoch[k] => stage[k][w] # "pullWait"
    /\ ~is_push_finished[k] /\ ~AllRecvPending(k) => Answered(k) = Group[k]

\* A round is COPY_FIRST, then SUM_RECVs, then ALL_RECV.
Order(k) ==
  /\ \A i \in 1..Len(engine_queue[k]) :
       /\ engine_queue[k][i].op = "ALL_RECV" =>
            /\ i = Len(engine_queue[k]) /\ request[k] = {}
            /\ engine_queue[k][i].src = {}
       /\ engine_queue[k][i].op = "COPY_FIRST" => i = 1 /\ engine[k] = NoMessage
  /\ engine[k].op = "ALL_RECV" =>
       engine_queue[k] = <<>> /\ request[k] = {} /\ merged[k] /\ engine[k].src = {}
  /\ request[k] = {} /\ ~AllRecvPending(k) =>
       engine_queue[k] = <<>> /\ engine[k] = NoMessage

\* m is still to be written by the engine.
Unwritten(k, m) ==
  \/ m \in engine[k].src
  \/ \E i \in 1..Len(engine_queue[k]) : m \in engine_queue[k][i].src

CopyPending(k) ==
  \/ engine[k].op = "COPY_FIRST"
  \/ \E i \in 1..Len(engine_queue[k]) : engine_queue[k][i].op = "COPY_FIRST"

\* What the store will hold when the engine has caught up.
Target(k, m) ==
  IF request[k] = {} THEN epoch[k] > 0 /\ m \in Sum(k, epoch[k])
                     ELSE m \in request[k]

Content(k) ==
  /\ tensor[k] => \A m \in Payload :
       Target(k, m) <=> Unwritten(k, m) \/ (~CopyPending(k) /\ m \in store[k])
  /\ \A m \in store[k] : m[2] > 0

KeyInv(k) ==
  /\ Outside(k) /\ Counting(k) /\ Initializing(k) /\ Rounds(k)
  /\ Collecting(k) /\ Queued(k) /\ Serving(k) /\ Order(k)

-----------------------------------------------------------------------------
(***************************************************************************)
(* Cardinalities.                                                          *)
(***************************************************************************)

\* Every group, and every part of it, is finite.
LEMMA GroupFinite ==
  ASSUME NEW k \in Keys, NEW S, S \subseteq Group[k]
  PROVE  /\ IsFiniteSet(S) /\ Cardinality(S) \in Nat
         /\ Cardinality(S) <= Cardinality(Group[k])
         /\ Cardinality(Group[k]) \in Nat /\ Cardinality(Group[k]) > 0
         /\ Cardinality(S) = Cardinality(Group[k]) <=> S = Group[k]
<1>1. IsFiniteSet(Group[k]) /\ Group[k] # {}
  BY ConstantsAssumption, FS_Subset, Zenon
<1>2. QED
  BY <1>1, FS_Subset, FS_CardinalityType, FS_EmptySet

\* Every group has a positive size.
LEMMA GroupSize ==
  ASSUME NEW k \in Keys
  PROVE  /\ IsFiniteSet(Group[k]) /\ Group[k] # {}
         /\ Cardinality(Group[k]) \in Nat /\ Cardinality(Group[k]) > 0
BY GroupFinite, ConstantsAssumption, Zenon

\* Tagging the members of a set with a round number keeps its cardinality.
LEMMA TaggedCardinality ==
  ASSUME NEW S, IsFiniteSet(S), NEW n
  PROVE  Cardinality(Tagged(S, n)) = Cardinality(S)
<1> DEFINE T == Tagged(S, n)
           f == [w \in S |-> <<w, n>>]
<1>1. f \in Bijection(S, T)
  BY Zenon DEF Bijection, Injection, Surjection, IsInjective, Tagged
<1>2. ExistsBijection(S, T)
  BY <1>1, Zenon DEF ExistsBijection
<1>3. QED
  BY <1>2, FS_Bijection, Zenon

-----------------------------------------------------------------------------
(***************************************************************************)
(* Type correctness.                                                       *)
(***************************************************************************)

\* The server counts to a number.
LEMMA CountingType ==
  ASSUME TypeOK, NEW k \in Keys
  PROVE  GetExpectedWorkers(k) \in Int
BY ConstantsAssumption, FS_CardinalityType DEF GetExpectedWorkers, TypeOK

\* What the engine is writing is a set of payloads.
LEMMA WrittenType ==
  ASSUME TypeOK, NEW k \in Keys
  PROVE  Written(k) \in SUBSET Payload /\ engine[k].src \in SUBSET Payload
<1>1. engine[k] \in EngineMessage \/ engine[k] = NoMessage
  BY Zenon DEF TypeOK
<1>2. engine[k].src \in SUBSET Payload
  BY <1>1 DEF EngineMessage, NoMessage
<1>3. store[k] \in SUBSET Payload
  BY Zenon DEF TypeOK
<1>4. Written(k) \in {engine[k].src, store[k] \cup engine[k].src, store[k]}
  BY Zenon DEF Written
<1>5. QED
  BY <1>2, <1>3, <1>4, Zenon

\* What HandlePull does with a pull it cannot answer yet.
QueuePull(w, k) ==
  /\ q_pull_reqmeta' = [q_pull_reqmeta EXCEPT ![k] = @ \cup {w}]
  /\ stage' = [stage EXCEPT ![k][w] = "pullWait"]
  /\ UNCHANGED <<is_push_finished, seen_sender, pull_cnt>>

\* A pull is answered or queued.
LEMMA PullCases ==
  ASSUME NEW w, NEW k, HandlePull(w, k)
  PROVE  \/ /\ is_push_finished[k] /\ w \notin seen_sender[k]
            /\ SendPullResponses(k, {w}) /\ UNCHANGED q_pull_reqmeta
         \/ /\ ~(is_push_finished[k] /\ w \notin seen_sender[k])
            /\ QueuePull(w, k)
BY Zenon DEF HandlePull, QueuePull

\* An idle engine's record, and an empty queue.
LEMMA Idle ==
  /\ NoMessage.op = "NONE" /\ NoMessage.src = {} /\ NoMessage.op # "ALL_RECV"
  /\ 1..Len(<<>>) = {}
BY DEF NoMessage

\* Changing one worker's entry of one key keeps the type of a table.
LEMMA UpdateNested ==
  ASSUME NEW S, NEW f \in [Keys -> [Workers -> S]], NEW k \in Keys,
         NEW w \in Workers, NEW x \in S
  PROVE  [f EXCEPT ![k][w] = x] \in [Keys -> [Workers -> S]]
BY Zenon

\* A step of a worker or of the server on one key preserves the types.
LEMMA TypeStep ==
  TypeOK /\ [Next]_vars => TypeOK'
<1> SUFFICES ASSUME TypeOK, [Next]_vars PROVE TypeOK'
  BY Zenon
<1> USE DEF TypeOK
<1>1. ASSUME NEW k \in Keys, NEW w \in Workers, StartPushPull(w, k)
      PROVE  TypeOK'
  BY <1>1 DEF StartPushPull, Stage, serverVars, engineVars
<1>2. ASSUME NEW k \in Keys, NEW w \in Workers, HandleGroupRegister(w, k)
      PROVE  TypeOK'
  <2>1. Cardinality(Group[k]) \in Int
    BY GroupFinite
  <2>2. QED
    BY <1>2, <2>1, Zenon DEF HandleGroupRegister, Stage, engineVars
<1>3. ASSUME NEW k \in Keys, NEW w \in Workers, HandleInitPush(w, k)
      PROVE  TypeOK'
  <2> DEFINE held == request[k] \cup {PushMeta(w, k)}
             released == [v \in Workers |->
                            IF <<v, 0>> \in held THEN "push"
                            ELSE IF \E m \in held : m[1] = v
                            THEN "pull" ELSE stage[k][v]]
  <2>1. held \in SUBSET Payload
    BY DEF PushMeta, Payload
  <2>2. released \in [Workers -> Stage]
    BY ZenonT(60) DEF Stage
  <2> HIDE DEF held, released
  <2>3. request' \in [Keys -> SUBSET Payload] /\ tensor' \in [Keys -> BOOLEAN]
    BY <1>3, <2>1, ZenonT(60) DEF HandleInitPush, held
  <2>4. stage' \in [Keys -> [Workers -> Stage]]
    <3>1. \/ stage' = [stage EXCEPT ![k][w] = "initWait"]
          \/ stage' = [stage EXCEPT ![k] = released]
      BY <1>3, Zenon DEF HandleInitPush, held, released
    <3>2. ASSUME stage' = [stage EXCEPT ![k] = released]
          PROVE  stage' \in [Keys -> [Workers -> Stage]]
      BY <2>2, <3>2, Zenon
    <3>3. ASSUME stage' = [stage EXCEPT ![k][w] = "initWait"]
          PROVE  stage' \in [Keys -> [Workers -> Stage]]
      BY <3>3, Zenon DEF Stage
    <3>4. QED
      BY <3>1, <3>2, <3>3, Zenon
  <2>5. QED
    BY <1>3, <2>3, <2>4, Zenon DEF HandleInitPush, engineVars
<1>4. ASSUME NEW k \in Keys, NEW w \in Workers, HandlePush(w, k)
      PROVE  TypeOK'
  <2> DEFINE meta == PushMeta(w, k)
             op == IF request[k] = {} THEN "COPY_FIRST" ELSE "SUM_RECV"
             msg == [op |-> op, src |-> {meta}]
             all == [op |-> "ALL_RECV", src |-> {}]
  <2>1. meta \in Payload
    BY DEF PushMeta, Payload
  <2>2. msg \in EngineMessage /\ all \in EngineMessage
    BY <2>1, Zenon DEF EngineMessage
  <2>3. Append(engine_queue[k], msg) \in Seq(EngineMessage)
    BY <2>2
  <2>4. Append(Append(engine_queue[k], msg), all) \in Seq(EngineMessage)
    BY <2>2, <2>3
  <2>5. engine_queue' \in [Keys -> Seq(EngineMessage)]
    <3> HIDE DEF msg, all
    <3>1. \/ engine_queue' = [engine_queue EXCEPT ![k] = Append(Append(@, msg), all)]
          \/ engine_queue' = [engine_queue EXCEPT ![k] = Append(@, msg)]
      BY <1>4, Zenon DEF HandlePush, msg, all
    <3>2. QED
      BY <2>3, <2>4, <3>1, Zenon
  <2>6. request' \in [Keys -> SUBSET Payload]
    <3>1. \/ request' = [request EXCEPT ![k] = {}]
          \/ request' = [request EXCEPT ![k] = request[k] \cup {meta}]
      BY <1>4, Zenon DEF HandlePush, meta
    <3>2. request[k] \cup {meta} \in SUBSET Payload /\ {} \in SUBSET Payload
      BY <2>1, Zenon
    <3> HIDE DEF meta
    <3>3. QED
      BY <3>1, <3>2, Zenon
  <2>7. stage' \in [Keys -> [Workers -> Stage]]
    <3>1. Acknowledged(meta) \in Stage
      BY Zenon DEF Acknowledged, Stage
    <3>2. stage' = [stage EXCEPT ![k][w] = Acknowledged(meta)]
      BY <1>4, Zenon DEF HandlePush, meta
    <3>3. stage \in [Keys -> [Workers -> Stage]]
      BY Zenon
    <3> HIDE DEF meta, TypeOK
    <3>4. QED
      BY <3>1, <3>2, <3>3, UpdateNested, Zenon
  <2>8. epoch' \in [Keys -> Nat]
    <3>1. \/ epoch' = [epoch EXCEPT ![k] = @ + 1]
          \/ epoch' = [epoch EXCEPT ![k] = @]
      BY <1>4, Zenon DEF HandlePush
    <3>2. epoch[k] + 1 \in Nat /\ epoch[k] \in Nat
      OBVIOUS
    <3>3. QED
      BY <3>1, <3>2, Zenon
  <2>9. UNCHANGED <<expected_workers, tensor, merged, is_push_finished,
                    q_pull_reqmeta, seen_sender, pull_cnt, store, engine, round,
                    result>>
    BY <1>4, Zenon DEF HandlePush
  <2>10. QED
    BY <2>5, <2>6, <2>7, <2>8, <2>9, Zenon
<1>5. ASSUME NEW k \in Keys, NEW S \in SUBSET Workers, SendPullResponses(k, S)
      PROVE  /\ is_push_finished' \in [Keys -> BOOLEAN]
             /\ pull_cnt' \in [Keys -> Nat]
             /\ seen_sender' \in [Keys -> SUBSET Workers]
             /\ stage' \in [Keys -> [Workers -> Stage]]
  <2>1. Cardinality(S) \in Nat
    BY ConstantsAssumption, FS_Subset, FS_CardinalityType, Zenon
  <2>2. QED
    BY <1>5, <2>1 DEF SendPullResponses, Stage
<1>6. ASSUME NEW k \in Keys, NEW w \in Workers, HandlePull(w, k)
      PROVE  TypeOK'
  <2>1. CASE SendPullResponses(k, {w}) /\ UNCHANGED q_pull_reqmeta
    BY <1>5, <1>6, <2>1, Zenon DEF HandlePull, engineVars
  <2>2. CASE QueuePull(w, k)
    BY <1>6, <2>2, Zenon DEF HandlePull, QueuePull, Stage, engineVars
  <2>3. QED
    BY <1>6, <2>1, <2>2, PullCases, Zenon
<1>7. ASSUME NEW k \in Keys, EnginePop(k) PROVE TypeOK'
  <2>1. Head(engine_queue[k]) \in EngineMessage /\ Tail(engine_queue[k]) \in Seq(EngineMessage)
    BY <1>7 DEF EnginePop
  <2>2. QED
    BY <1>7, <2>1, Zenon DEF EnginePop, workerVars
<1>8. ASSUME NEW k \in Keys, EngineWrite(k) PROVE TypeOK'
  <2>1. Written(k) \in SUBSET Payload
    BY WrittenType, Zenon
  <2>2. QED
    BY <1>8, <2>1, Zenon DEF EngineWrite, serverVars, workerVars
<1>9. ASSUME NEW k \in Keys, EngineAllRecv(k) PROVE TypeOK'
  BY <1>5, <1>9, Zenon DEF EngineAllRecv
<1>10. ASSUME NEW k \in Keys, NEW w \in Workers, Transmit(w, k)
       PROVE  TypeOK'
  <2>1. store[k] \in SUBSET Payload /\ Written(k) \in SUBSET Payload
    BY WrittenType, Zenon
  <2>2. QED
    BY <1>10, <2>1 DEF Transmit, Stage, serverVars, engineVars
<1>11. CASE UNCHANGED vars
  BY <1>11, Zenon DEF vars, serverVars, engineVars, workerVars
<1>12. QED
  BY <1>1, <1>2, <1>3, <1>4, <1>6, <1>7, <1>8, <1>9, <1>10, <1>11, Zenon
  DEF Next, HandlerNext, EngineNext, Done

\* Every variable keeps its type in every reachable state.
THEOREM TypeCorrect == Spec => []TypeOK
<1>1. Init => TypeOK
  BY ConstantsAssumption
  DEF Init, TypeOK, Stage, EngineMessage, NoMessage, Payload
<1>2. QED
  BY <1>1, TypeStep, PTL DEF Spec

-----------------------------------------------------------------------------
(***************************************************************************)
(* The control invariant: for any program, whatever the keys in flight.    *)
(***************************************************************************)

\* The state of key k, and of the workers with respect to it, does not change.
SameControl(k) ==
  /\ expected_workers'[k] = expected_workers[k] /\ tensor'[k] = tensor[k]
  /\ merged'[k] = merged[k] /\ request'[k] = request[k]
  /\ is_push_finished'[k] = is_push_finished[k]
  /\ q_pull_reqmeta'[k] = q_pull_reqmeta[k]
  /\ seen_sender'[k] = seen_sender[k] /\ pull_cnt'[k] = pull_cnt[k]
  /\ engine_queue'[k] = engine_queue[k] /\ engine'[k] = engine[k]
  /\ store'[k] = store[k] /\ epoch'[k] = epoch[k]
  /\ stage'[k] = stage[k] /\ round'[k] = round[k]

\* A key nothing happened to keeps its invariant.
LEMMA ControlFrame ==
  ASSUME NEW k \in Keys, KeyInv(k), SameControl(k)
  PROVE  KeyInv(k)'
<1> USE DEF KeyInv, SameControl
<1>1. /\ Collected(k)' = Collected(k) /\ Answered(k)' = Answered(k)
      /\ AllRecvPending(k)' = AllRecvPending(k)
  BY DEF Collected, Answered, AllRecvPending
<1>2. Outside(k)' /\ Counting(k)' /\ Initializing(k)' /\ Rounds(k)'
  BY DEF Outside, Counting, Initializing, Rounds
<1>3. Collecting(k)' /\ Queued(k)' /\ Serving(k)' /\ Order(k)'
  BY <1>1 DEF Collecting, Queued, Serving, Order
<1>4. QED
  BY <1>2, <1>3, Zenon

\* Once the store exists, or an init push is on its way, the server counts to
\* the size of the group.
LEMMA CountsGroup ==
  ASSUME TypeOK, NEW k \in Keys, Counting(k),
         \/ tensor[k]
         \/ \E w \in Group[k] : stage[k][w] \notin {"idle", "register"}
  PROVE  GetExpectedWorkers(k) = Cardinality(Group[k])
<1>1. expected_workers[k] = Cardinality(Group[k])
  BY Zenon DEF Counting
<1>2. QED
  BY <1>1, GroupFinite DEF GetExpectedWorkers

\* The push_pull of a worker starts.
LEMMA StartControl ==
  ASSUME TypeOK, NEW k \in Keys, KeyInv(k), NEW w \in Workers, StartPushPull(w, k)
  PROVE  KeyInv(k)'
<1> USE DEF KeyInv, TypeOK
<1>1. /\ w \in Group[k] /\ stage[k][w] = "idle"
      /\ round'[k][w] = round[k][w] + 1
      /\ round[k][w] > 0 => stage'[k][w] = "push"
      /\ round[k][w] = 0 => stage'[k][w] = "register"
      /\ \A v \in Workers \ {w} :
           stage'[k][v] = stage[k][v] /\ round'[k][v] = round[k][v]
  BY DEF StartPushPull
<1>2. UNCHANGED <<serverVars, engineVars, result, epoch>>
  BY Zenon DEF StartPushPull
<1>3. Group[k] \subseteq Workers
  BY ConstantsAssumption, Zenon
<1>4. round[k][w] \in Nat /\ epoch[k] \in Nat
  BY Zenon
<1>5. Outside(k)'
  BY <1>1, <1>3, Zenon DEF Outside
<1>6. Counting(k)'
  BY <1>1, <1>2, <1>3, <1>4, ZenonT(60) DEF Counting, Initializing, Rounds, serverVars
<1>7. CASE ~tensor[k]
  <2>1. /\ round[k][w] = 0
        /\ stage'[k][w] \in {"register", "init"} /\ round'[k][w] = 1
    <3>1. round[k][w] = 0
      BY <1>1, <1>7, Zenon DEF Initializing
    <3>2. QED
      BY <1>1, <3>1, SMTT(60)
  <2>2. {v \in Group[k] : stage'[k][v] = "initWait"} = {v \in Group[k] : stage[k][v] = "initWait"}
    BY <1>1, <1>3, <2>1, Zenon
  <2>3. Initializing(k)'
    BY <1>1, <1>2, <1>3, <1>7, <2>1, <2>2, ZenonT(60) DEF Initializing, serverVars, engineVars
  <2>4. Order(k)'
    BY <1>2, Zenon DEF Order, AllRecvPending, serverVars, engineVars
  <2>5. QED
    BY <1>2, <1>5, <1>6, <1>7, <2>3, <2>4, Zenon DEF Rounds, Collecting, Queued, Serving, serverVars
<1>8. CASE tensor[k]
  <2>1. /\ round[k][w] = epoch[k] /\ epoch[k] > 0
        /\ stage'[k][w] = "push" /\ round'[k][w] = epoch[k] + 1
    <3>1. round[k][w] = epoch[k] /\ epoch[k] > 0
      BY <1>1, <1>8, Zenon DEF Rounds
    <3>2. QED
      BY <1>1, <3>1, Zenon
  <2>2. Collected(k)' = Collected(k) /\ Answered(k)' = Answered(k)
    <3>1. w \in Answered(k) /\ w \in Answered(k)'
      BY <1>1, <1>2, <2>1, Zenon DEF Answered
    <3>2. w \notin Collected(k) /\ w \notin Collected(k)'
      BY <1>1, <1>2, <2>1, Zenon DEF Collected
    <3>3. \A v \in Group[k] \ {w} :
            /\ v \in Answered(k)' <=> v \in Answered(k)
            /\ v \in Collected(k)' <=> v \in Collected(k)
      BY <1>1, <1>2, <1>3, Zenon DEF Answered, Collected
    <3>4. QED
      BY <3>1, <3>2, <3>3, Zenon DEF Answered, Collected
  <2>3. Rounds(k)'
    BY <1>1, <1>2, <1>3, <1>8, <2>1, Zenon DEF Rounds, serverVars
  <2>4. Collecting(k)'
    BY <1>2, <1>8, <2>2, Zenon DEF Collecting, serverVars
  <2>5. Queued(k)'
    BY <1>1, <1>2, <1>3, <1>8, <2>1, ZenonT(60) DEF Queued, serverVars
  <2>6. AllRecvPending(k)' = AllRecvPending(k)
    BY <1>2, Zenon DEF AllRecvPending, engineVars
  <2>7. Serving(k)'
    BY <1>1, <1>2, <1>3, <1>8, <2>1, <2>2, <2>6, ZenonT(60) DEF Serving, serverVars
  <2>8. Order(k)'
    BY <1>2, <2>6, Zenon DEF Order, serverVars, engineVars
  <2>9. QED
    BY <1>2, <1>5, <1>6, <1>8, <2>3, <2>4, <2>5, <2>7, <2>8, Zenon
    DEF Initializing, serverVars
<1>9. QED
  BY <1>7, <1>8, Zenon

\* A group is registered.
LEMMA RegisterControl ==
  ASSUME TypeOK, NEW k \in Keys, KeyInv(k), NEW w \in Workers, HandleGroupRegister(w, k)
  PROVE  KeyInv(k)'
<1> USE DEF KeyInv, TypeOK
<1>1. /\ stage[k][w] = "register"
      /\ stage'[k] = [stage[k] EXCEPT ![w] = "init"]
      /\ expected_workers'[k] = IF expected_workers[k] = -1 THEN Cardinality(Group[k])
                                ELSE expected_workers[k]
  BY Zenon DEF HandleGroupRegister
<1>2. UNCHANGED <<tensor, merged, request, is_push_finished, q_pull_reqmeta,
                  seen_sender, pull_cnt, engineVars, round, result, epoch>>
  BY Zenon DEF HandleGroupRegister
<1>3. w \in Group[k] /\ Group[k] \subseteq Workers
  BY <1>1, ConstantsAssumption, Zenon DEF Outside
<1>4. ~tensor[k]
  BY <1>1, <1>3, Zenon DEF Counting, Rounds
<1>5. Outside(k)'
  BY <1>1, <1>2, <1>3 DEF Outside
<1>6. Counting(k)'
  BY <1>1, <1>4, Zenon DEF Counting
<1>7. {v \in Group[k] : stage'[k][v] = "initWait"} = {v \in Group[k] : stage[k][v] = "initWait"}
  BY <1>1, <1>3, Zenon
<1>8. Initializing(k)'
  BY <1>1, <1>2, <1>3, <1>4, <1>7, Zenon DEF Initializing, engineVars
<1>9. Order(k)'
  BY <1>2, Zenon DEF Order, AllRecvPending, engineVars
<1>10. QED
  BY <1>2, <1>4, <1>5, <1>6, <1>8, <1>9, Zenon DEF Rounds, Collecting, Queued, Serving

\* An init push arrives; the last one of the group allocates the store.
LEMMA InitPushControl ==
  ASSUME TypeOK, NEW k \in Keys, KeyInv(k), NEW w \in Workers, HandleInitPush(w, k)
  PROVE  KeyInv(k)'
<1> USE DEF KeyInv, TypeOK
<1> DEFINE waiting == {v \in Group[k] : stage[k][v] = "initWait"}
           held == request[k] \cup {PushMeta(w, k)}
<1>1. /\ stage[k][w] \in {"init", "push"} /\ ~tensor[k]
      /\ UNCHANGED <<expected_workers, merged, is_push_finished, q_pull_reqmeta,
                     seen_sender, pull_cnt, engineVars, round, result, epoch>>
  BY Zenon DEF HandleInitPush
<1>2. w \in Group[k] /\ Group[k] \subseteq Workers
  BY <1>1, ConstantsAssumption, Zenon DEF Outside
<1>3. stage[k][w] = "init" /\ round[k][w] = 1
  BY <1>1, <1>2, Zenon DEF Initializing
<1>4. held = Tagged(waiting \cup {w}, 0)
  BY <1>1, <1>3, ZenonT(60) DEF Initializing, PushMeta, Tagged
<1>5. /\ Cardinality(held) = Cardinality(waiting \cup {w})
      /\ Cardinality(held) < GetExpectedWorkers(k) <=> waiting \cup {w} # Group[k]
  <2>1. GetExpectedWorkers(k) = Cardinality(Group[k])
    BY <1>2, <1>3, CountsGroup, Zenon
  <2> DEFINE S == waiting \cup {w}
  <2>2. S \subseteq Group[k]
    BY <1>2, Zenon
  <2> HIDE DEF S
  <2>3. /\ IsFiniteSet(S) /\ Cardinality(S) \in Nat
        /\ Cardinality(S) <= Cardinality(Group[k])
        /\ Cardinality(Group[k]) \in Nat
        /\ Cardinality(S) = Cardinality(Group[k]) <=> S = Group[k]
    BY <2>2, GroupFinite, Zenon
  <2>4. Cardinality(Tagged(S, 0)) = Cardinality(S)
    BY <2>3, TaggedCardinality, Zenon
  <2>5. Cardinality(held) = Cardinality(S)
    BY <1>4, <2>4, ZenonT(60) DEF S
  <2>6. Cardinality(held) < GetExpectedWorkers(k) <=> S # Group[k]
    BY <2>1, <2>3, <2>5
  <2>7. QED
    BY <2>5, <2>6, Zenon DEF S
<1> HIDE DEF held
<1>6. expected_workers[k] # -1
  <2>1. Cardinality(Group[k]) # -1
    BY GroupSize
  <2>2. stage[k][w] \notin {"idle", "register"}
    BY <1>3, Zenon
  <2>3. QED
    BY <1>2, <2>1, <2>2, Zenon DEF Counting
<1>7. CASE waiting \cup {w} # Group[k]
  <2>1. /\ request'[k] = held /\ tensor' = tensor
        /\ stage'[k] = [stage[k] EXCEPT ![w] = "initWait"]
    BY <1>5, <1>7, Zenon DEF HandleInitPush, held
  <2>2. \A v \in Workers : stage'[k][v] = IF v = w THEN "initWait" ELSE stage[k][v]
    BY <2>1, Zenon
  <2>3. {v \in Group[k] : stage'[k][v] = "initWait"} = waiting \cup {w}
    BY <1>2, <2>2, Zenon
  <2>4. Outside(k)'
    BY <1>1, <1>2, <2>2, ZenonT(60) DEF Outside
  <2>5. Counting(k)'
    BY <1>1, <1>2, <1>6, <2>1, <2>2, Zenon DEF Counting
  <2>6. Initializing(k)'
    <3>1. \E v \in Group[k] : stage'[k][v] # "initWait"
      BY <1>7, <2>3, Zenon
    <3>2. request'[k] = Tagged({v \in Group[k] : stage'[k][v] = "initWait"}, 0)
      BY <1>4, <2>1, <2>3, ZenonT(60)
    <3>3. \A v \in Group[k] :
            \/ stage'[k][v] = "idle" /\ round'[k][v] = 0
            \/ stage'[k][v] \in {"register", "init", "initWait"} /\ round'[k][v] = 1
      BY <1>1, <1>2, <1>3, <2>2, Zenon DEF Initializing
    <3>4. QED
      BY <1>1, <2>1, <3>1, <3>2, <3>3, Zenon DEF Initializing, engineVars
  <2>7. Order(k)'
    <3>1. engine'[k] = NoMessage /\ engine_queue'[k] = <<>>
      BY <1>1, Zenon DEF Initializing, engineVars
    <3>2. engine'[k].op # "ALL_RECV" /\ 1..Len(engine_queue'[k]) = {}
      BY <3>1, Idle, Zenon
    <3>3. QED
      BY <3>1, <3>2, Zenon DEF Order
  <2>8. QED
    BY <1>1, <2>1, <2>4, <2>5, <2>6, <2>7, Zenon DEF Rounds, Collecting, Queued, Serving
<1>8. CASE waiting \cup {w} = Group[k]
  <2>1. /\ request'[k] = {} /\ tensor'[k] = TRUE
        /\ stage'[k] = [v \in Workers |->
                          IF <<v, 0>> \in held THEN "push"
                          ELSE IF \E m \in held : m[1] = v
                          THEN "pull" ELSE stage[k][v]]
    <3>1. ~(Cardinality(held) < GetExpectedWorkers(k))
      BY <1>5, <1>8, Zenon
    <3>2. /\ tensor' = [tensor EXCEPT ![k] = TRUE]
          /\ request' = [request EXCEPT ![k] = {}]
          /\ stage' = [stage EXCEPT ![k] =
                         [v \in Workers |->
                            IF <<v, 0>> \in held THEN "push"
                            ELSE IF \E m \in held : m[1] = v
                            THEN "pull" ELSE stage[k][v]]]
      BY <3>1, ZenonT(60) DEF HandleInitPush, held
    <3>3. QED
      BY <3>2, Zenon
  <2>2. \A v \in Group[k] : stage'[k][v] = "push" /\ round'[k][v] = 1
    BY <1>1, <1>2, <1>3, <1>4, <1>8, <2>1, SMTT(60) DEF Initializing, Tagged
  <2>3. \A v \in Workers \ Group[k] : stage'[k][v] = stage[k][v]
    BY <1>2, <1>4, <1>8, <2>1, SMTT(60) DEF Tagged
  <2>4. Outside(k)'
    BY <1>1, <2>3, Zenon DEF Outside
  <2>5. Counting(k)'
    BY <1>1, <1>6, <2>2, Zenon DEF Counting
  <2>6. epoch'[k] = 0 /\ Collected(k)' = {} /\ Group[k] # {}
    BY <1>1, <1>2, <2>2, ZenonT(60) DEF Initializing, Collected
  <2>7. Rounds(k)'
    BY <2>2, <2>6 DEF Rounds
  <2>8. Collecting(k)'
    BY <2>1, <2>6 DEF Collecting, Tagged
  <2>9. Queued(k)'
    BY <1>1, <2>2, Zenon DEF Queued, Initializing
  <2>10. engine'[k] = NoMessage /\ engine_queue'[k] = <<>>
    BY <1>1, Zenon DEF Initializing, engineVars
  <2>11. ~AllRecvPending(k)'
    BY <2>10, Idle, Zenon DEF AllRecvPending
  <2>12. Serving(k)'
    <3>1. Answered(k)' = Group[k]
      BY <2>2, <2>6, SMTT(60) DEF Answered
    <3>2. QED
      BY <1>1, <2>6, <2>11, <3>1, FS_EmptySet, Zenon DEF Serving, Initializing
  <2>13. Order(k)'
    <3>1. engine'[k].op # "ALL_RECV" /\ 1..Len(engine_queue'[k]) = {}
      BY <2>10, Idle, Zenon
    <3>2. QED
      BY <2>10, <3>1, ZenonT(60) DEF Order
  <2>14. QED
    BY <2>1, <2>4, <2>5, <2>7, <2>8, <2>9, <2>12, <2>13, Zenon DEF Initializing
<1>9. QED
  BY <1>7, <1>8, Zenon

\* The two messages HandlePush may queue.
PushMessage(w, k) ==
  [op |-> IF request[k] = {} THEN "COPY_FIRST" ELSE "SUM_RECV",
   src |-> {<<w, epoch[k] + 1>>}]
AllRecvMessage == [op |-> "ALL_RECV", src |-> {}]

\* What a push does, in terms of the round being collected.
LEMMA PushEffect ==
  ASSUME TypeOK, NEW k \in Keys, KeyInv(k), NEW w \in Workers, HandlePush(w, k)
  PROVE  /\ w \in Group[k] /\ Group[k] \subseteq Workers /\ tensor[k]
         /\ stage[k][w] = "push" /\ round[k][w] = epoch[k] + 1
         /\ ~AllRecvPending(k)
         /\ UNCHANGED <<expected_workers, tensor, merged, is_push_finished,
                        q_pull_reqmeta, seen_sender, pull_cnt, store, engine,
                        round, result>>
         /\ \A v \in Workers : stage'[k][v] = IF v = w THEN "pull" ELSE stage[k][v]
         /\ Collected(k) \cup {w} = Group[k] =>
              /\ request'[k] = {} /\ epoch'[k] = epoch[k] + 1
              /\ engine_queue'[k] =
                   Append(Append(engine_queue[k], PushMessage(w, k)), AllRecvMessage)
         /\ Collected(k) \cup {w} # Group[k] =>
              /\ request'[k] = Tagged(Collected(k) \cup {w}, epoch[k] + 1)
              /\ epoch'[k] = epoch[k]
              /\ engine_queue'[k] = Append(engine_queue[k], PushMessage(w, k))
<1> USE DEF KeyInv, TypeOK
<1> DEFINE S == Collected(k) \cup {w}
           collected == request[k] \cup {PushMeta(w, k)}
<1>1. /\ stage[k][w] \in {"init", "push"} /\ tensor[k]
      /\ UNCHANGED <<expected_workers, tensor, merged, is_push_finished,
                     q_pull_reqmeta, seen_sender, pull_cnt, store, engine,
                     round, result>>
  BY Zenon DEF HandlePush
<1>2. w \in Group[k] /\ Group[k] \subseteq Workers
  BY <1>1, ConstantsAssumption, Zenon DEF Outside
<1>3. stage[k][w] = "push" /\ round[k][w] = epoch[k] + 1
  BY <1>1, <1>2, Zenon DEF Rounds
<1>4. PushMeta(w, k) = <<w, epoch[k] + 1>>
  BY <1>3, Zenon DEF PushMeta
<1>5. ~AllRecvPending(k)
  BY <1>1, <1>2, <1>3, Zenon DEF Serving, Answered
<1>6. \A v \in Workers : stage'[k][v] = IF v = w THEN "pull" ELSE stage[k][v]
  <2>1. epoch[k] + 1 # 0
    OBVIOUS
  <2>2. Acknowledged(PushMeta(w, k)) = "pull"
    BY <1>4, <2>1 DEF Acknowledged
  <2>3. stage' = [stage EXCEPT ![k][w] = Acknowledged(PushMeta(w, k))]
    BY Zenon DEF HandlePush
  <2>4. QED
    BY <2>2, <2>3, Zenon
<1>7. collected = Tagged(S, epoch[k] + 1)
  BY <1>1, <1>4, ZenonT(60) DEF Collecting, Tagged
<1>8. Cardinality(collected) = GetExpectedWorkers(k) <=> S = Group[k]
  <2>1. GetExpectedWorkers(k) = Cardinality(Group[k])
    BY <1>1, CountsGroup, Zenon
  <2>2. S \subseteq Group[k]
    BY <1>2, Zenon DEF Collected
  <2> HIDE DEF S
  <2>3. IsFiniteSet(S) /\ (Cardinality(S) = Cardinality(Group[k]) <=> S = Group[k])
    BY <2>2, GroupFinite, Zenon
  <2>4. Cardinality(Tagged(S, epoch[k] + 1)) = Cardinality(S)
    BY <2>3, TaggedCardinality, Zenon
  <2>5. QED
    BY <1>7, <2>1, <2>3, <2>4, Zenon
<1>9. /\ request' = [request EXCEPT ![k] =
                       IF Cardinality(collected) = GetExpectedWorkers(k)
                       THEN {} ELSE collected]
      /\ epoch' = [epoch EXCEPT ![k] =
                     IF Cardinality(collected) = GetExpectedWorkers(k)
                     THEN @ + 1 ELSE @]
      /\ engine_queue' = [engine_queue EXCEPT ![k] =
                     IF Cardinality(collected) = GetExpectedWorkers(k)
                     THEN Append(Append(engine_queue[k], PushMessage(w, k)), AllRecvMessage)
                     ELSE Append(engine_queue[k], PushMessage(w, k))]
  BY <1>4, Zenon DEF HandlePush, PushMessage, AllRecvMessage
<1> HIDE DEF collected, S
<1>10. /\ S = Group[k] =>
            /\ request'[k] = {} /\ epoch'[k] = epoch[k] + 1
            /\ engine_queue'[k] =
                 Append(Append(engine_queue[k], PushMessage(w, k)), AllRecvMessage)
       /\ S # Group[k] =>
            /\ request'[k] = collected /\ epoch'[k] = epoch[k]
            /\ engine_queue'[k] = Append(engine_queue[k], PushMessage(w, k))
  BY <1>8, <1>9, Zenon
<1>11. QED
  BY <1>1, <1>2, <1>3, <1>5, <1>6, <1>7, <1>10, Zenon DEF S

\* The queue of the engine after a push.
LEMMA PushQueue ==
  ASSUME TypeOK, NEW k \in Keys, KeyInv(k), NEW w \in Workers, HandlePush(w, k)
  PROVE  LET q == engine_queue[k]  qn == engine_queue'[k]
             last == Collected(k) \cup {w} = Group[k]
         IN  /\ Len(q) \in Nat /\ Len(qn) = Len(q) + IF last THEN 2 ELSE 1
             /\ \A i \in 1..Len(q) : qn[i] = q[i] /\ q[i].op # "ALL_RECV"
             /\ qn[Len(q) + 1] = PushMessage(w, k)
             /\ last => qn[Len(q) + 2] = AllRecvMessage
             /\ request[k] = {} => Len(q) = 0 /\ engine[k] = NoMessage
<1> DEFINE q == engine_queue[k]
           qn == engine_queue'[k]
<1>1. q \in Seq(EngineMessage)
  BY Zenon DEF TypeOK
<1>2. PushMessage(w, k) \in EngineMessage /\ AllRecvMessage \in EngineMessage
  <2>1. epoch[k] + 1 \in Nat
    BY DEF TypeOK
  <2>2. QED
    BY <2>1 DEF PushMessage, AllRecvMessage, EngineMessage, Payload
<1>3. \A i \in 1..Len(q) : q[i].op # "ALL_RECV"
  <2>1. ~AllRecvPending(k)
    BY PushEffect, Zenon
  <2>2. QED
    BY <2>1, Zenon DEF AllRecvPending
<1>4. request[k] = {} => q = <<>> /\ engine[k] = NoMessage
  BY PushEffect, Zenon DEF KeyInv, Order
<1>5. CASE Collected(k) \cup {w} = Group[k]
  <2>1. qn = Append(Append(q, PushMessage(w, k)), AllRecvMessage)
    BY <1>5, PushEffect, Zenon
  <2> HIDE DEF q, qn
  <2>2. QED
    BY <1>1, <1>2, <1>3, <1>4, <1>5, <2>1 DEF q, qn
<1>6. CASE Collected(k) \cup {w} # Group[k]
  <2>1. qn = Append(q, PushMessage(w, k))
    BY <1>6, PushEffect, Zenon
  <2> HIDE DEF q, qn
  <2>2. QED
    BY <1>1, <1>2, <1>3, <1>4, <1>6, <2>1 DEF q, qn
<1>7. QED
  BY <1>5, <1>6, Zenon

\* A push arrives; the last one of the round queues ALL_RECV.
LEMMA PushControl ==
  ASSUME TypeOK, NEW k \in Keys, KeyInv(k), NEW w \in Workers, HandlePush(w, k)
  PROVE  KeyInv(k)'
<1> USE DEF KeyInv
<1> DEFINE q == engine_queue[k]
           qn == engine_queue'[k]
<1>1. /\ w \in Group[k] /\ Group[k] \subseteq Workers /\ tensor[k]
      /\ stage[k][w] = "push" /\ round[k][w] = epoch[k] + 1
      /\ ~AllRecvPending(k)
      /\ UNCHANGED <<expected_workers, tensor, merged, is_push_finished,
                     q_pull_reqmeta, seen_sender, pull_cnt, store, engine,
                     round, result>>
      /\ \A v \in Workers : stage'[k][v] = IF v = w THEN "pull" ELSE stage[k][v]
  BY PushEffect, Zenon
<1>2. epoch[k] \in Nat
  BY Zenon DEF TypeOK
<1>3. Outside(k)' /\ Counting(k)' /\ Initializing(k)'
  BY <1>1, Zenon DEF Outside, Counting, Initializing
<1>4. Queued(k)'
  BY <1>1, Zenon DEF Queued
<1>5. engine[k].op # "ALL_RECV"
  BY <1>1, Zenon DEF AllRecvPending
<1>6. /\ PushMessage(w, k).op # "ALL_RECV" /\ AllRecvMessage.op = "ALL_RECV"
      /\ AllRecvMessage.src = {}
      /\ PushMessage(w, k).op = "COPY_FIRST" <=> request[k] = {}
  BY Zenon DEF PushMessage, AllRecvMessage
<1>7. CASE Collected(k) \cup {w} # Group[k]
  <2>1. /\ request'[k] = Tagged(Collected(k) \cup {w}, epoch[k] + 1)
        /\ epoch'[k] = epoch[k]
    BY <1>7, PushEffect, Zenon
  <2>2. /\ Len(q) \in Nat /\ Len(qn) = Len(q) + 1
        /\ \A i \in 1..Len(q) : qn[i] = q[i] /\ q[i].op # "ALL_RECV"
        /\ qn[Len(q) + 1] = PushMessage(w, k)
        /\ request[k] = {} => Len(q) = 0 /\ engine[k] = NoMessage
    BY <1>7, PushQueue, Zenon
  <2> HIDE DEF q, qn
  <2>3. Rounds(k)'
    BY <1>1, <2>1, Zenon DEF Rounds
  <2>4. Collected(k)' = Collected(k) \cup {w} /\ Answered(k)' = Answered(k)
    BY <1>1, <2>1, ZenonT(60) DEF Collected, Answered
  <2>5. Collecting(k)'
    BY <1>7, <2>1, <2>4, Zenon DEF Collecting
  <2>6. request'[k] # {}
    BY <2>1, Zenon DEF Tagged
  <2>7. \A i \in 1..Len(qn) : qn[i].op # "ALL_RECV"
    BY <1>6, <2>2
  <2>8. ~AllRecvPending(k)'
    BY <1>1, <1>5, <2>7, Zenon DEF AllRecvPending, qn
  <2>9. Serving(k)'
    BY <1>1, <1>2, <2>1, <2>4, <2>8, Zenon DEF Serving
  <2>10. \A i \in 1..Len(qn) : qn[i].op = "COPY_FIRST" => i = 1 /\ engine[k] = NoMessage
    BY <1>6, <2>2, SMTT(60) DEF Order, q
  <2>11. Order(k)'
    BY <1>1, <1>5, <2>6, <2>7, <2>10, Zenon DEF Order, qn
  <2>12. QED
    BY <1>3, <1>4, <2>3, <2>5, <2>9, <2>11, Zenon
<1>8. CASE Collected(k) \cup {w} = Group[k]
  <2>1. request'[k] = {} /\ epoch'[k] = epoch[k] + 1
    BY <1>8, PushEffect, Zenon
  <2>2. /\ Len(q) \in Nat /\ Len(qn) = Len(q) + 2
        /\ \A i \in 1..Len(q) : qn[i] = q[i] /\ q[i].op # "ALL_RECV"
        /\ qn[Len(q) + 1] = PushMessage(w, k)
        /\ qn[Len(q) + 2] = AllRecvMessage
        /\ request[k] = {} => Len(q) = 0 /\ engine[k] = NoMessage
    BY <1>8, PushQueue, Zenon
  <2> HIDE DEF q, qn
  <2>3. \A v \in Group[k] :
          /\ round'[k][v] = epoch'[k] /\ stage'[k][v] \in {"pull", "pullWait"}
          /\ round[k][v] = epoch[k] + 1
    BY <1>1, <1>8, <2>1, Zenon DEF Collected
  <2>4. Rounds(k)'
    BY <1>2, <2>1, <2>3 DEF Rounds
  <2>5. Collected(k)' = {} /\ Answered(k)' = {} /\ Answered(k) = Group[k]
    BY <1>2, <2>1, <2>3, SMTT(60) DEF Collected, Answered
  <2>6. Collecting(k)'
    BY <1>1, <2>1, <2>5, Zenon DEF Collecting, Tagged
  <2>7. AllRecvPending(k)'
    <3>1. Len(q) + 2 \in 1..Len(qn) /\ qn[Len(q) + 2].op = "ALL_RECV"
      BY <1>6, <2>2, SMTT(60)
    <3>2. QED
      BY <3>1, Zenon DEF AllRecvPending, qn
  <2>8. Serving(k)'
    <3>1. ~is_push_finished[k]
      BY <1>1, <2>5, Zenon DEF Serving
    <3>2. QED
      BY <1>1, <2>5, <2>7, <3>1, Zenon DEF Serving
  <2>9. \A i \in 1..Len(qn) :
          /\ qn[i].op = "ALL_RECV" => i = Len(qn) /\ qn[i].src = {}
          /\ qn[i].op = "COPY_FIRST" => i = 1 /\ engine[k] = NoMessage
    <3> SUFFICES ASSUME NEW i \in 1..Len(qn)
                 PROVE  /\ qn[i].op = "ALL_RECV" => i = Len(qn) /\ qn[i].src = {}
                        /\ qn[i].op = "COPY_FIRST" => i = 1 /\ engine[k] = NoMessage
      BY Zenon
    <3>1. CASE i \in 1..Len(q)
      BY <2>2, <3>1, Zenon DEF Order, q
    <3>2. CASE i = Len(q) + 1
      BY <1>6, <2>2, <3>2
    <3>3. CASE i = Len(q) + 2
      BY <1>6, <2>2, <3>3, Zenon
    <3>4. QED
      BY <2>2, <3>1, <3>2, <3>3
  <2>10. Order(k)'
    BY <1>1, <1>5, <2>1, <2>7, <2>9, Zenon DEF Order, qn
  <2>11. QED
    BY <1>3, <1>4, <2>4, <2>6, <2>8, <2>10, Zenon
<1>9. QED
  BY <1>7, <1>8, Zenon

\* The accounting of the round once the workers in S have been answered too.
Served(k, S) ==
  /\ is_push_finished'[k] <=> seen_sender[k] \cup S # Group[k]
  /\ seen_sender'[k] = IF seen_sender[k] \cup S = Group[k] THEN {}
                       ELSE seen_sender[k] \cup S
  /\ pull_cnt'[k] = Cardinality(seen_sender'[k])
  /\ \A v \in Workers : stage'[k][v] = IF v \in S THEN "posted" ELSE stage[k][v]

\* The test of pull_cnt in SendPullResponses detects exactly that everybody
\* has been answered.
LEMMA ServeEffect ==
  ASSUME TypeOK, NEW k \in Keys, KeyInv(k), tensor[k],
         NEW S, S \subseteq Group[k], seen_sender[k] \subseteq Group[k],
         S \cap seen_sender[k] = {}, SendPullResponses(k, S)
  PROVE  Served(k, S)
<1> DEFINE T == seen_sender[k] \cup S
           cnt == pull_cnt[k] + Cardinality(S)
<1>1. cnt = Cardinality(T)
  <2>1. IsFiniteSet(S) /\ IsFiniteSet(seen_sender[k])
    BY GroupFinite, Zenon
  <2>2. Cardinality(T) = Cardinality(seen_sender[k]) + Cardinality(S) - Cardinality(seen_sender[k] \cap S)
    BY <2>1, FS_Union, Zenon
  <2>3. Cardinality(seen_sender[k] \cap S) = 0
    BY FS_EmptySet, Zenon
  <2>4. Cardinality(S) \in Nat /\ Cardinality(seen_sender[k]) \in Nat
    BY <2>1, FS_CardinalityType, Zenon
  <2>5. QED
    BY <2>2, <2>3, <2>4 DEF KeyInv, Serving
<1>2. cnt = GetExpectedWorkers(k) <=> T = Group[k]
  <2>1. GetExpectedWorkers(k) = Cardinality(Group[k])
    BY CountsGroup, Zenon DEF KeyInv
  <2>2. T \subseteq Group[k]
    BY Zenon
  <2> HIDE DEF T
  <2>3. Cardinality(T) = Cardinality(Group[k]) <=> T = Group[k]
    BY <2>2, GroupFinite, Zenon
  <2>4. QED
    BY <1>1, <2>1, <2>3, Zenon
<1>3. /\ is_push_finished' = [is_push_finished EXCEPT ![k] = ~(cnt = GetExpectedWorkers(k))]
      /\ pull_cnt' = [pull_cnt EXCEPT ![k] = IF cnt = GetExpectedWorkers(k) THEN 0 ELSE cnt]
      /\ seen_sender' = [seen_sender EXCEPT ![k] =
                           IF cnt = GetExpectedWorkers(k) THEN {} ELSE T]
      /\ stage' = [stage EXCEPT ![k] =
                     [v \in Workers |-> IF v \in S THEN "posted" ELSE stage[k][v]]]
  BY Zenon DEF SendPullResponses
<1> HIDE DEF cnt, T
<1>4. /\ is_push_finished'[k] <=> T # Group[k]
      /\ seen_sender'[k] = IF T = Group[k] THEN {} ELSE T
      /\ pull_cnt'[k] = IF T = Group[k] THEN 0 ELSE cnt
  BY <1>2, <1>3, Zenon DEF TypeOK
<1>5. pull_cnt'[k] = Cardinality(seen_sender'[k])
  BY <1>1, <1>4, FS_EmptySet, Zenon
<1>6. \A v \in Workers : stage'[k][v] = IF v \in S THEN "posted" ELSE stage[k][v]
  BY <1>3, Zenon DEF TypeOK
<1>7. QED
  BY <1>4, <1>5, <1>6, Zenon DEF T, Served

\* A pull request arrives.
LEMMA PullControl ==
  ASSUME TypeOK, NEW k \in Keys, KeyInv(k), NEW w \in Workers, HandlePull(w, k)
  PROVE  KeyInv(k)'
<1> USE DEF KeyInv
<1>1. /\ stage[k][w] = "pull" /\ tensor[k]
      /\ UNCHANGED <<expected_workers, tensor, merged, request, engineVars, round,
                     result, epoch>>
  BY Zenon DEF HandlePull
<1>2. w \in Group[k] /\ Group[k] \subseteq Workers /\ epoch[k] \in Nat
  BY <1>1, ConstantsAssumption, Zenon DEF Outside, TypeOK
<1>3. AllRecvPending(k)' = AllRecvPending(k)
  BY <1>1, Zenon DEF AllRecvPending, engineVars
<1>4. Order(k)'
  BY <1>1, <1>3, Zenon DEF Order, engineVars
<1>5. CASE /\ is_push_finished[k] /\ w \notin seen_sender[k]
           /\ SendPullResponses(k, {w}) /\ UNCHANGED q_pull_reqmeta
  <2>1. seen_sender[k] = Answered(k) /\ Answered(k) \subseteq Group[k]
    BY <1>1, <1>5, Zenon DEF Serving, Answered
  <2>2. Served(k, {w})
    <3>1. {w} \subseteq Group[k] /\ {w} \cap seen_sender[k] = {}
      BY <1>2, <1>5, Zenon
    <3> HIDE DEF KeyInv
    <3>2. QED
      BY <1>1, <1>5, <2>1, <3>1, ServeEffect, Zenon
  <2> USE DEF Served
  <2>3. round[k][w] = epoch[k]
    BY <1>1, <1>2, <1>5, <2>1, Zenon DEF Rounds, Answered
  <2>4. Answered(k)' = Answered(k) \cup {w} /\ Collected(k)' = Collected(k)
    BY <1>1, <1>2, <2>2, <2>3, SMTT(60) DEF Answered, Collected
  <2>5. Outside(k)' /\ Counting(k)' /\ Initializing(k)'
    BY <1>1, <1>2, <2>2, Zenon DEF Outside, Counting, Initializing
  <2>6. Rounds(k)'
    BY <1>1, <1>2, <2>2, <2>3, SMTT(60) DEF Rounds
  <2>7. Collecting(k)'
    BY <1>1, <2>4, Zenon DEF Collecting
  <2>8. Queued(k)'
    BY <1>1, <1>2, <1>5, <2>2, Zenon DEF Queued
  <2>9. Serving(k)'
    BY <1>1, <1>2, <1>3, <1>5, <2>1, <2>2, <2>4, Zenon DEF Serving
  <2>10. QED
    BY <1>4, <2>5, <2>6, <2>7, <2>8, <2>9, Zenon
<1>6. CASE ~(is_push_finished[k] /\ w \notin seen_sender[k]) /\ QueuePull(w, k)
  <2>1. /\ q_pull_reqmeta'[k] = q_pull_reqmeta[k] \cup {w}
        /\ \A v \in Workers : stage'[k][v] = IF v = w THEN "pullWait" ELSE stage[k][v]
        /\ UNCHANGED <<is_push_finished, seen_sender, pull_cnt>>
    BY <1>6, Zenon DEF QueuePull, TypeOK
  <2>2. is_push_finished[k] => round[k][w] = epoch[k] + 1
    BY <1>1, <1>6, Zenon DEF Serving, Answered
  <2>3. Answered(k)' = Answered(k) /\ Collected(k)' = Collected(k)
    BY <1>1, <1>2, <2>1, Zenon DEF Answered, Collected
  <2>4. Outside(k)' /\ Counting(k)' /\ Initializing(k)'
    BY <1>1, <1>2, <2>1, Zenon DEF Outside, Counting, Initializing
  <2>5. Rounds(k)'
    BY <1>1, <1>2, <2>1, Zenon DEF Rounds
  <2>6. Collecting(k)'
    BY <1>1, <2>3, Zenon DEF Collecting
  <2>7. Queued(k)'
    BY <1>1, <1>2, <2>1, Zenon DEF Queued
  <2>8. Serving(k)'
    <3>1. is_push_finished[k] => round[k][w] # epoch[k]
      BY <2>2 DEF TypeOK
    <3>2. QED
      BY <1>1, <1>2, <1>3, <2>1, <2>3, <3>1, Zenon DEF Serving
  <2>9. QED
    BY <1>4, <2>4, <2>5, <2>6, <2>7, <2>8, Zenon
<1>7. QED
  BY <1>5, <1>6, PullCases, Zenon

\* Popping a non-empty queue shifts it by one.
LEMMA PopQueue ==
  ASSUME NEW S, NEW q \in Seq(S), q # <<>>
  PROVE  /\ Len(q) \in Nat /\ Len(q) > 0 /\ Len(Tail(q)) = Len(q) - 1
         /\ Head(q) = q[1]
         /\ \A i \in 1..Len(Tail(q)) : Tail(q)[i] = q[i + 1] /\ i + 1 \in 1..Len(q)
         /\ \A i \in 2..Len(q) : i - 1 \in 1..Len(Tail(q)) /\ Tail(q)[i - 1] = q[i]
         /\ Len(q) = 1 => Tail(q) = <<>>
<1>1. Len(q) \in Nat /\ Len(q) > 0 /\ Head(q) = q[1]
  OBVIOUS
<1>2. Len(Tail(q)) = Len(q) - 1 /\ Tail(q) \in Seq(S)
  BY <1>1
<1>3. \A i \in 1..Len(Tail(q)) : Tail(q)[i] = q[i + 1]
  BY <1>1, <1>2
<1>4. QED
  BY <1>1, <1>2, <1>3

\* The engine takes a message.
LEMMA PopControl ==
  ASSUME TypeOK, NEW k \in Keys, KeyInv(k), EnginePop(k)
  PROVE  KeyInv(k)' /\ AllRecvPending(k)' = AllRecvPending(k)
<1> USE DEF KeyInv
<1> DEFINE q == engine_queue[k]
           qn == engine_queue'[k]
<1>1. /\ engine[k] = NoMessage /\ q # <<>> /\ q \in Seq(EngineMessage)
      /\ engine'[k] = q[1] /\ qn = Tail(q)
      /\ merged'[k] <=> merged[k] \/ q[1].op = "ALL_RECV"
      /\ UNCHANGED <<expected_workers, tensor, request, is_push_finished,
                     q_pull_reqmeta, seen_sender, pull_cnt, store, workerVars,
                     epoch>>
  <2>1. engine[k] = NoMessage /\ q # <<>> /\ q \in Seq(EngineMessage)
    BY Zenon DEF EnginePop, TypeOK
  <2>2. Head(q) = q[1]
    BY <2>1
  <2>3. /\ engine' = [engine EXCEPT ![k] = Head(q)]
        /\ engine_queue' = [engine_queue EXCEPT ![k] = Tail(@)]
        /\ merged' = [merged EXCEPT ![k] = @ \/ Head(q).op = "ALL_RECV"]
        /\ UNCHANGED <<expected_workers, tensor, request, is_push_finished,
                       q_pull_reqmeta, seen_sender, pull_cnt, store, workerVars,
                       epoch>>
    BY Zenon DEF EnginePop
  <2>4. merged'[k] <=> merged[k] \/ Head(q).op = "ALL_RECV"
    BY <2>3, Zenon DEF TypeOK
  <2>5. engine'[k] = Head(q) /\ qn = Tail(q)
    BY <2>3, Zenon DEF TypeOK
  <2>6. QED
    BY <2>1, <2>2, <2>3, <2>4, <2>5, Zenon
<1>2. /\ Len(q) \in Nat /\ Len(q) > 0 /\ Len(qn) = Len(q) - 1
      /\ \A i \in 1..Len(qn) : qn[i] = q[i + 1] /\ i + 1 \in 1..Len(q)
      /\ \A i \in 2..Len(q) : i - 1 \in 1..Len(qn) /\ qn[i - 1] = q[i]
      /\ Len(q) = 1 => qn = <<>>
  BY <1>1, PopQueue
<1>3. tensor[k]
  BY <1>1, Zenon DEF Initializing
<1>4. engine[k].op = "NONE" /\ engine[k].src = {}
  BY <1>1 DEF NoMessage
<1>5. /\ \A i \in 1..Len(q) :
           /\ q[i].op = "ALL_RECV" => i = Len(q) /\ request[k] = {} /\ q[i].src = {}
           /\ q[i].op = "COPY_FIRST" => i = 1
      /\ request[k] = {} => AllRecvPending(k)
  BY <1>1, Zenon DEF Order
<1>6. AllRecvPending(k) <=> \E i \in 1..Len(q) : q[i].op = "ALL_RECV"
  BY <1>4, Zenon DEF AllRecvPending
<1>7. AllRecvPending(k)' <=> q[1].op = "ALL_RECV" \/ \E i \in 1..Len(qn) : qn[i].op = "ALL_RECV"
  BY <1>1, Zenon DEF AllRecvPending
<1> HIDE DEF q, qn
<1>8. AllRecvPending(k)' = AllRecvPending(k)
  <2>1. ASSUME NEW i \in 1..Len(q), q[i].op = "ALL_RECV"
        PROVE  q[1].op = "ALL_RECV" \/ \E j \in 1..Len(qn) : qn[j].op = "ALL_RECV"
    <3>1. CASE i = 1
      BY <2>1, <3>1, Zenon
    <3>2. CASE i # 1
      <4>1. i - 1 \in 1..Len(qn) /\ qn[i - 1].op = "ALL_RECV"
        BY <1>2, <2>1, <3>2
      <4>2. QED
        BY <4>1, Zenon
    <3>3. QED
      BY <3>1, <3>2, Zenon
  <2>2. 1 \in 1..Len(q)
    BY <1>2
  <2>3. AllRecvPending(k)' <=> AllRecvPending(k)
    BY <1>2, <1>6, <1>7, <2>1, <2>2, Zenon
  <2>4. QED
    BY <2>3, Zenon DEF AllRecvPending
<1>9. Outside(k)' /\ Counting(k)' /\ Initializing(k)' /\ Rounds(k)'
  BY <1>1, <1>3, Zenon DEF Outside, Counting, Initializing, Rounds, workerVars
<1>10. Collecting(k)' /\ Queued(k)'
  BY <1>1, Zenon DEF Collecting, Queued, Collected, workerVars
<1>11. Serving(k)'
  BY <1>1, <1>8, Zenon DEF Serving, Answered, workerVars
<1>12. Order(k)'
  <2>1. \A i \in 1..Len(qn) :
          /\ qn[i].op = "ALL_RECV" => i = Len(qn) /\ request[k] = {} /\ qn[i].src = {}
          /\ qn[i].op # "COPY_FIRST"
    <3> SUFFICES ASSUME NEW i \in 1..Len(qn)
                 PROVE  /\ qn[i].op = "ALL_RECV" =>
                             i = Len(qn) /\ request[k] = {} /\ qn[i].src = {}
                        /\ qn[i].op # "COPY_FIRST"
      BY Zenon
    <3>1. qn[i] = q[i + 1] /\ i + 1 \in 1..Len(q) /\ i + 1 # 1
      BY <1>2
    <3>2. QED
      BY <1>2, <1>5, <3>1
  <2>2. q[1].op = "ALL_RECV" =>
          qn = <<>> /\ request[k] = {} /\ merged'[k] /\ q[1].src = {}
    <3> SUFFICES ASSUME q[1].op = "ALL_RECV"
                 PROVE  qn = <<>> /\ request[k] = {} /\ merged'[k] /\ q[1].src = {}
      BY Zenon
    <3>1. 1 \in 1..Len(q)
      BY <1>2
    <3>2. 1 = Len(q) /\ request[k] = {} /\ q[1].src = {}
      BY <1>5, <3>1, Zenon
    <3>3. QED
      BY <1>1, <1>2, <3>2, Zenon
  <2>3. request[k] = {} => AllRecvPending(k)'
    BY <1>5, <1>8, Zenon
  <2>4. QED
    BY <1>1, <2>1, <2>2, <2>3, Zenon DEF Order, qn
<1>13. QED
  BY <1>8, <1>9, <1>10, <1>11, <1>12, Zenon

\* The engine completes a copy or a sum.
LEMMA WriteControl ==
  ASSUME TypeOK, NEW k \in Keys, KeyInv(k), EngineWrite(k)
  PROVE  KeyInv(k)' /\ AllRecvPending(k)' = AllRecvPending(k)
<1> USE DEF KeyInv
<1>1. /\ engine[k].op \in {"COPY_FIRST", "SUM_RECV"}
      /\ engine'[k] = NoMessage /\ store'[k] = Written(k)
      /\ UNCHANGED <<serverVars, engine_queue, workerVars, epoch>>
  BY Zenon DEF EngineWrite, TypeOK
<1>2. engine'[k].op = "NONE"
  BY <1>1 DEF NoMessage
<1>3. tensor[k] /\ engine[k] # NoMessage
  BY <1>1 DEF Initializing, NoMessage
<1>4. AllRecvPending(k)' = AllRecvPending(k)
  BY <1>1, <1>2, Zenon DEF AllRecvPending
<1>5. Outside(k)' /\ Counting(k)' /\ Initializing(k)' /\ Rounds(k)'
  BY <1>1, <1>3, Zenon DEF Outside, Counting, Initializing, Rounds, serverVars, workerVars
<1>6. Collecting(k)' /\ Queued(k)'
  BY <1>1, Zenon DEF Collecting, Queued, Collected, serverVars, workerVars
<1>7. Serving(k)'
  BY <1>1, <1>4, Zenon DEF Serving, Answered, serverVars, workerVars
<1>8. Order(k)'
  BY <1>1, <1>2, <1>3, <1>4, Zenon DEF Order, serverVars
<1>9. QED
  BY <1>4, <1>5, <1>6, <1>7, <1>8, Zenon

\* The engine executes ALL_RECV.
LEMMA AllRecvControl ==
  ASSUME TypeOK, NEW k \in Keys, KeyInv(k), EngineAllRecv(k)
  PROVE  KeyInv(k)'
<1> USE DEF KeyInv
<1> DEFINE S == q_pull_reqmeta[k] \ seen_sender[k]
<1>1. /\ engine[k].op = "ALL_RECV" /\ engine'[k] = NoMessage
      /\ SendPullResponses(k, S) /\ q_pull_reqmeta'[k] = q_pull_reqmeta[k] \ S
      /\ UNCHANGED <<expected_workers, tensor, merged, request, store,
                     engine_queue, round, result, epoch>>
  BY Zenon DEF EngineAllRecv, TypeOK
<1>2. tensor[k] /\ AllRecvPending(k)
  BY <1>1 DEF Initializing, NoMessage, AllRecvPending
<1>3. /\ ~is_push_finished[k] /\ Answered(k) = {} /\ seen_sender[k] = {}
      /\ engine_queue[k] = <<>> /\ request[k] = {} /\ merged[k]
  BY <1>1, <1>2, Zenon DEF Serving, Order
<1>4. /\ S = {v \in Group[k] : stage[k][v] = "pullWait"}
      /\ S \cap seen_sender[k] = {} /\ q_pull_reqmeta'[k] = {}
      /\ Group[k] # {} /\ Group[k] \subseteq Workers /\ epoch[k] \in Nat
  BY <1>1, <1>2, <1>3, ConstantsAssumption, Zenon DEF Queued, TypeOK
<1> HIDE DEF S
<1>5. Served(k, S)
  <2> HIDE DEF KeyInv
  <2>1. S \subseteq Group[k] /\ seen_sender[k] \subseteq Group[k]
    BY <1>3, <1>4, Zenon
  <2>2. QED
    BY <1>1, <1>2, <1>4, <2>1, ServeEffect, Zenon
<1>6. \A v \in Group[k] :
        /\ round[k][v] = epoch[k] /\ epoch[k] > 0 /\ stage[k][v] \in {"pull", "pullWait"}
        /\ stage'[k][v] = IF v \in S THEN "posted" ELSE "pull"
  BY <1>2, <1>3, <1>4, <1>5, Zenon DEF Rounds, Answered, Served
<1>7. Answered(k)' = S /\ Collected(k)' = {} /\ Collected(k) = {} /\ S \subseteq Group[k]
  BY <1>1, <1>4, <1>6, SMTT(60) DEF Answered, Collected
<1>8. engine'[k].op = "NONE" /\ ~AllRecvPending(k)'
  BY <1>1, <1>3, Idle, Zenon DEF AllRecvPending
<1>9. Outside(k)' /\ Counting(k)' /\ Initializing(k)'
  <2>1. Initializing(k)'
    BY <1>1, <1>2, Zenon DEF Initializing
  <2>2. Counting(k)'
    BY <1>1, <1>2, Zenon DEF Counting
  <2>3. Outside(k)'
    BY <1>1, <1>4, <1>5, Zenon DEF Outside, Served
  <2>4. QED
    BY <2>1, <2>2, <2>3, Zenon
<1>10. Rounds(k)'
  BY <1>1, <1>6, Zenon DEF Rounds
<1>11. Collecting(k)'
  BY <1>1, <1>2, <1>3, <1>4, <1>7, Zenon DEF Collecting, Tagged
<1>12. Queued(k)'
  BY <1>4, <1>6, Zenon DEF Queued
<1>13. Serving(k)'
  <2>1. /\ is_push_finished'[k] <=> S # Group[k]
        /\ seen_sender'[k] = IF S = Group[k] THEN {} ELSE S
        /\ pull_cnt'[k] = Cardinality(seen_sender'[k])
    BY <1>3, <1>5, Zenon DEF Served
  <2>2. epoch[k] > 0
    BY <1>4, <1>6, Zenon
  <2>3. QED
    BY <1>1, <1>3, <1>6, <1>7, <1>8, <2>1, <2>2, Zenon DEF Serving
<1>14. Order(k)'
  BY <1>1, <1>3, <1>8, Zenon DEF Order
<1>15. QED
  BY <1>9, <1>10, <1>11, <1>12, <1>13, <1>14, Zenon

\* A response is transmitted.
LEMMA TransmitControl ==
  ASSUME TypeOK, NEW k \in Keys, KeyInv(k), NEW w \in Workers, Transmit(w, k)
  PROVE  KeyInv(k)'
<1> USE DEF KeyInv
<1>1. /\ stage[k][w] = "posted"
      /\ \A v \in Workers : stage'[k][v] = IF v = w THEN "idle" ELSE stage[k][v]
      /\ UNCHANGED <<serverVars, engineVars, round, epoch>>
  BY ZenonT(60) DEF Transmit, TypeOK
<1>2. w \in Group[k] /\ Group[k] \subseteq Workers
  BY <1>1, ConstantsAssumption, Zenon DEF Outside
<1>3. tensor[k] /\ round[k][w] = epoch[k]
  BY <1>1, <1>2, Zenon DEF Initializing, Rounds
<1>4. Answered(k)' = Answered(k) /\ Collected(k)' = Collected(k)
  BY <1>1, <1>2, Zenon DEF Answered, Collected
<1>5. AllRecvPending(k)' = AllRecvPending(k)
  BY <1>1, Zenon DEF AllRecvPending, engineVars
<1>6. Outside(k)' /\ Counting(k)' /\ Initializing(k)'
  BY <1>1, <1>2, <1>3, Zenon DEF Outside, Counting, Initializing, serverVars
<1>7. Rounds(k)'
  BY <1>1, <1>2, <1>3, Zenon DEF Rounds, serverVars
<1>8. Collecting(k)'
  BY <1>1, <1>4, Zenon DEF Collecting, serverVars
<1>9. Queued(k)'
  BY <1>1, <1>2, Zenon DEF Queued, serverVars
<1>10. Serving(k)'
  BY <1>1, <1>2, <1>4, <1>5, Zenon DEF Serving, serverVars
<1>11. Order(k)'
  BY <1>1, <1>5, Zenon DEF Order, serverVars, engineVars
<1>12. QED
  BY <1>6, <1>7, <1>8, <1>9, <1>10, <1>11, Zenon
=============================================================================
