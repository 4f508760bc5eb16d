-------------------------- MODULE BytePSServerProofs --------------------------
(***************************************************************************)
(* The inductive invariant of BytePSServer, from the control proofs of     *)
(* BytePSServerControl and the content of the store, and the properties    *)
(* that follow from it, for any set of workers, keys and groups.           *)
(***************************************************************************)
EXTENDS BytePSServerControl

-----------------------------------------------------------------------------
(* The content of the store, and the invariant as a whole.                 *)

\* Nothing the content depends on changes.
SameContent(k) ==
  /\ tensor'[k] = tensor[k] /\ request'[k] = request[k] /\ epoch'[k] = epoch[k]
  /\ store'[k] = store[k] /\ engine'[k] = engine[k]
  /\ engine_queue'[k] = engine_queue[k]

\* A step that changes none of it keeps the content of the store.
LEMMA ContentFrame ==
  ASSUME NEW k \in Keys, Content(k), SameContent(k)
  PROVE  Content(k)'
BY Zenon DEF Content, SameContent, Target, Unwritten, CopyPending, Sum

\* The store is allocated empty.
LEMMA InitPushContent ==
  ASSUME TypeOK, NEW k \in Keys, KeyInv(k), Content(k),
         NEW w \in Workers, HandleInitPush(w, k)
  PROVE  Content(k)'
<1>1. ~tensor[k] /\ UNCHANGED <<engineVars, epoch>>
  BY Zenon DEF HandleInitPush
<1>2. /\ store'[k] = {} /\ engine'[k] = NoMessage /\ engine_queue'[k] = <<>>
      /\ epoch'[k] = 0
  BY <1>1, Zenon DEF KeyInv, Initializing, engineVars
<1>3. \A m : ~Unwritten(k, m)'
  BY <1>2, Idle, Zenon DEF Unwritten
<1>4. tensor'[k] => request'[k] = {}
  BY <1>1, Zenon DEF HandleInitPush, TypeOK
<1>5. QED
  BY <1>2, <1>3, <1>4 DEF Content, Target

\* A push queues its payload and adds it to what the store will hold.
LEMMA PushContent ==
  ASSUME TypeOK, NEW k \in Keys, KeyInv(k), Content(k),
         NEW w \in Workers, HandlePush(w, k)
  PROVE  Content(k)'
<1> DEFINE p == <<w, epoch[k] + 1>>
           q == engine_queue[k]
           qn == engine_queue'[k]
           last == Collected(k) \cup {w} = Group[k]
<1>1. /\ tensor[k] /\ epoch[k] \in Nat
      /\ UNCHANGED <<tensor, store, engine>>
  BY PushEffect, Zenon DEF TypeOK
<1>2. request[k] = Tagged(Collected(k), epoch[k] + 1)
  BY <1>1, Zenon DEF KeyInv, Collecting
<1>3. \A m \in Payload : Target(k, m)' <=> m = p \/ m \in request[k]
  <2>1. CASE last
    <3>1. request'[k] = {} /\ epoch'[k] = epoch[k] + 1
      BY <2>1, PushEffect, Zenon
    <3>2. Sum(k, epoch[k] + 1) = request[k] \cup {p}
      BY <1>2, <2>1, Zenon DEF Sum, Tagged
    <3>3. \A m : Target(k, m)' <=> epoch'[k] > 0 /\ m \in Sum(k, epoch[k] + 1)
      BY <3>1, Zenon DEF Target, Sum
    <3>4. QED
      BY <1>1, <3>1, <3>2, <3>3
  <2>2. CASE ~last
    <3>1. request'[k] = Tagged(Collected(k) \cup {w}, epoch[k] + 1)
      BY <2>2, PushEffect, Zenon
    <3>2. request'[k] = request[k] \cup {p}
      BY <1>2, <3>1, Zenon DEF Tagged
    <3>3. QED
      BY <3>2, Zenon DEF Target
  <2>3. QED
    BY <2>1, <2>2, Zenon
<1>4. /\ PushMessage(w, k).src = {p} /\ AllRecvMessage.src = {}
      /\ AllRecvMessage.op # "COPY_FIRST"
      /\ PushMessage(w, k).op = "COPY_FIRST" <=> request[k] = {}
  BY Zenon DEF PushMessage, AllRecvMessage
<1>5. /\ Len(q) \in Nat
      /\ \A i \in 1..Len(q) : i \in 1..Len(qn) /\ qn[i] = q[i]
      /\ Len(q) + 1 \in 1..Len(qn) /\ qn[Len(q) + 1] = PushMessage(w, k)
      /\ \A i \in 1..Len(qn) :
           i \in 1..Len(q) \/ qn[i] = PushMessage(w, k) \/ qn[i] = AllRecvMessage
  <2>1. CASE last
    <3>1. /\ Len(q) \in Nat /\ Len(qn) = Len(q) + 2
          /\ \A i \in 1..Len(q) : qn[i] = q[i]
          /\ qn[Len(q) + 1] = PushMessage(w, k)
          /\ qn[Len(q) + 2] = AllRecvMessage
      BY <2>1, PushQueue, Zenon
    <3> HIDE DEF q, qn
    <3>2. \A i \in 1..Len(qn) : i \in 1..Len(q) \/ i = Len(q) + 1 \/ i = Len(q) + 2
      BY <3>1
    <3>3. QED
      BY <3>1, <3>2
  <2>2. CASE ~last
    <3>1. /\ Len(q) \in Nat /\ Len(qn) = Len(q) + 1
          /\ \A i \in 1..Len(q) : qn[i] = q[i]
          /\ qn[Len(q) + 1] = PushMessage(w, k)
      BY <2>2, PushQueue, Zenon
    <3> HIDE DEF q, qn
    <3>2. \A i \in 1..Len(qn) : i \in 1..Len(q) \/ i = Len(q) + 1
      BY <3>1
    <3>3. QED
      BY <3>1, <3>2
  <2>3. QED
    BY <2>1, <2>2, Zenon
<1>6. \A m : Unwritten(k, m)' <=> m = p \/ Unwritten(k, m)
  <2> HIDE DEF p
  <2>1. QED
    BY <1>1, <1>4, <1>5, Zenon DEF Unwritten
<1>7. CopyPending(k)' <=> CopyPending(k) \/ request[k] = {}
  BY <1>1, <1>4, <1>5, ZenonT(60) DEF CopyPending
<1>8. CASE request[k] = {}
  <2>1. Len(q) = 0 /\ engine[k] = NoMessage
    BY <1>8, PushQueue, Zenon
  <2>2. \A m : ~Unwritten(k, m)
    BY <2>1 DEF Unwritten, NoMessage
  <2>3. QED
    BY <1>1, <1>3, <1>6, <1>7, <1>8, <2>2, Zenon DEF Content
<1>9. CASE request[k] # {}
  BY <1>1, <1>3, <1>6, <1>7, <1>9, Zenon DEF Content, Target
<1>10. QED
  BY <1>8, <1>9, Zenon

\* Taking a message leaves it unwritten.
LEMMA PopContent ==
  ASSUME TypeOK, NEW k \in Keys, KeyInv(k), Content(k), EnginePop(k)
  PROVE  Content(k)'
<1> DEFINE q == engine_queue[k]
           qn == engine_queue'[k]
<1>1. /\ engine[k] = NoMessage /\ q # <<>> /\ q \in Seq(EngineMessage)
      /\ engine'[k] = Head(q) /\ qn = Tail(q)
      /\ UNCHANGED <<tensor, request, store, epoch>>
  BY Zenon DEF EnginePop, TypeOK
<1>2. /\ engine'[k] = q[1] /\ 1 \in 1..Len(q)
      /\ \A i \in 1..Len(qn) : qn[i] = q[i + 1] /\ i + 1 \in 1..Len(q)
      /\ \A i \in 1..Len(q) : i = 1 \/ (i - 1 \in 1..Len(qn) /\ qn[i - 1] = q[i])
  BY <1>1, PopQueue
<1>3. engine[k].op = "NONE" /\ engine[k].src = {}
  BY <1>1 DEF NoMessage
<1>4. \A m : Unwritten(k, m)' <=> Unwritten(k, m)
  BY <1>2, <1>3, Zenon DEF Unwritten
<1>5. CopyPending(k)' <=> CopyPending(k)
  BY <1>2, <1>3, Zenon DEF CopyPending
<1>6. \A m : Target(k, m)' <=> Target(k, m)
  BY <1>1, Zenon DEF Target, Sum
<1>7. QED
  BY <1>1, <1>4, <1>5, <1>6, Zenon DEF Content

\* Everything pushed belongs to a round of its own: round 0 is never data.
LEMMA TargetRound ==
  ASSUME TypeOK, NEW k \in Keys, KeyInv(k), tensor[k], NEW m, Target(k, m)
  PROVE  /\ m[2] > 0 /\ m[2] \in Nat
         /\ request[k] # {} => m[2] = epoch[k] + 1
<1>1. epoch[k] \in Nat
  BY Zenon DEF TypeOK
<1>2. CASE request[k] = {}
  BY <1>1, <1>2 DEF Target, Sum
<1>3. CASE request[k] # {}
  BY <1>1, <1>3 DEF Target, KeyInv, Collecting, Tagged
<1>4. QED
  BY <1>2, <1>3, Zenon

\* Completing a copy or a sum moves its payload into the store.
LEMMA WriteContent ==
  ASSUME TypeOK, NEW k \in Keys, KeyInv(k), Content(k), EngineWrite(k)
  PROVE  Content(k)'
<1>1. /\ engine[k].op \in {"COPY_FIRST", "SUM_RECV"}
      /\ engine'[k] = NoMessage /\ store'[k] = Written(k)
      /\ UNCHANGED <<serverVars, engine_queue, epoch>>
  BY Zenon DEF EngineWrite, TypeOK
<1>2. /\ engine'[k].op = "NONE" /\ engine'[k].src = {}
      /\ tensor[k] /\ engine[k] # NoMessage
  BY <1>1 DEF NoMessage, KeyInv, Initializing
<1>3. \A i \in 1..Len(engine_queue[k]) : engine_queue[k][i].op # "COPY_FIRST"
  BY <1>2, Zenon DEF KeyInv, Order
<1>4. ~CopyPending(k)' /\ (CopyPending(k) <=> engine[k].op = "COPY_FIRST")
  BY <1>1, <1>2, <1>3, Zenon DEF CopyPending
<1>5. \A m : Unwritten(k, m) <=> m \in engine[k].src \/ Unwritten(k, m)'
  BY <1>1, <1>2, Zenon DEF Unwritten
<1>6. \A m : Target(k, m)' <=> Target(k, m)
  BY <1>1, Zenon DEF Target, Sum, serverVars
<1>7. \A m : m \in store'[k] <=> m \in engine[k].src \/ (~CopyPending(k) /\ m \in store[k])
  BY <1>1, <1>4, Zenon DEF Written
<1>8. \A m \in store'[k] : m[2] > 0
  <2>1. engine[k].src \subseteq Payload
    BY WrittenType, Zenon
  <2>2. \A m \in engine[k].src : m[2] > 0
    BY <1>2, <1>5, <2>1, TargetRound, Zenon DEF Content
  <2>3. QED
    BY <1>7, <2>2, Zenon DEF Content
<1>9. QED
  BY <1>1, <1>4, <1>5, <1>6, <1>7, <1>8, Zenon DEF Content, serverVars

\* ALL_RECV writes nothing.
LEMMA AllRecvContent ==
  ASSUME TypeOK, NEW k \in Keys, KeyInv(k), Content(k), EngineAllRecv(k)
  PROVE  Content(k)'
<1>1. /\ engine[k].op = "ALL_RECV" /\ engine'[k] = NoMessage
      /\ UNCHANGED <<tensor, request, store, engine_queue, epoch>>
  BY Zenon DEF EngineAllRecv, TypeOK
<1>2. engine[k].src = {} /\ engine'[k].op = "NONE" /\ engine'[k].src = {}
  BY <1>1, Idle, Zenon DEF KeyInv, Order
<1>3. \A m : Unwritten(k, m)' <=> Unwritten(k, m)
  BY <1>1, <1>2, Zenon DEF Unwritten
<1>4. CopyPending(k)' <=> CopyPending(k)
  BY <1>1, <1>2, Zenon DEF CopyPending
<1>5. \A m : Target(k, m)' <=> Target(k, m)
  BY <1>1, Zenon DEF Target, Sum
<1>6. QED
  BY <1>1, <1>3, <1>4, <1>5, Zenon DEF Content

-----------------------------------------------------------------------------
(***************************************************************************)
(* The invariant of every program.                                         *)
(***************************************************************************)

ServerInv == TypeOK /\ \A k \in Keys : KeyInv(k) /\ Content(k)

\* A step on one key does not touch the others.
LEMMA OtherKeys ==
  ASSUME TypeOK, NEW k \in Keys, NEW j \in Keys \ {k},
         \/ \E w \in Workers : StartPushPull(w, k)
         \/ \E w \in Workers : HandlerNext(w, k)
         \/ EngineNext(k)
         \/ \E w \in Workers : Transmit(w, k)
  PROVE  SameControl(j)
<1> USE DEF TypeOK, SameControl, serverVars, engineVars, workerVars
<1>1. ASSUME NEW w \in Workers, StartPushPull(w, k) PROVE SameControl(j)
  BY <1>1, Zenon DEF StartPushPull
<1>2. ASSUME NEW w \in Workers, HandleGroupRegister(w, k) PROVE SameControl(j)
  BY <1>2, Zenon DEF HandleGroupRegister
<1>3. ASSUME NEW w \in Workers, HandleInitPush(w, k) PROVE SameControl(j)
  BY <1>3, ZenonT(60) DEF HandleInitPush
<1>4. ASSUME NEW w \in Workers, HandlePush(w, k) PROVE SameControl(j)
  BY <1>4, Zenon DEF HandlePush
<1>5. ASSUME NEW w \in Workers, HandlePull(w, k) PROVE SameControl(j)
  BY <1>5 DEF HandlePull, SendPullResponses
<1>6. ASSUME EnginePop(k) PROVE SameControl(j)
  BY <1>6, Zenon DEF EnginePop
<1>7. ASSUME EngineWrite(k) PROVE SameControl(j)
  BY <1>7, Zenon DEF EngineWrite
<1>8. ASSUME EngineAllRecv(k) PROVE SameControl(j)
  BY <1>8, Zenon DEF EngineAllRecv, SendPullResponses
<1>9. ASSUME NEW w \in Workers, Transmit(w, k) PROVE SameControl(j)
  BY <1>9, Zenon DEF Transmit
<1>10. QED
  BY <1>1, <1>2, <1>3, <1>4, <1>5, <1>6, <1>7, <1>8, <1>9, ZenonT(60)
  DEF HandlerNext, EngineNext

\* A key whose state does not change keeps its invariant and its content.
LEMMA KeyFrame ==
  ASSUME ServerInv, NEW k \in Keys, SameControl(k)
  PROVE  KeyInv(k)' /\ Content(k)'
<1>1. SameContent(k)
  BY Zenon DEF SameControl, SameContent
<1>2. QED
  BY <1>1, ControlFrame, ContentFrame, Zenon DEF ServerInv

\* A step on a key preserves the invariant and the content of that key.
LEMMA KeyStep ==
  ASSUME ServerInv, NEW k \in Keys,
         \/ \E w \in Workers : StartPushPull(w, k)
         \/ \E w \in Workers : HandlerNext(w, k)
         \/ EngineNext(k)
         \/ \E w \in Workers : Transmit(w, k)
  PROVE  KeyInv(k)' /\ Content(k)'
<1>0. TypeOK /\ KeyInv(k) /\ Content(k)
  BY Zenon DEF ServerInv
<1>1. ASSUME NEW w \in Workers, StartPushPull(w, k) PROVE KeyInv(k)' /\ Content(k)'
  <2>1. SameContent(k)
    BY <1>1, Zenon DEF StartPushPull, SameContent, serverVars, engineVars
  <2>2. QED
    BY <1>0, <1>1, <2>1, StartControl, ContentFrame, Zenon
<1>2. ASSUME NEW w \in Workers, HandleGroupRegister(w, k) PROVE KeyInv(k)' /\ Content(k)'
  <2>1. SameContent(k)
    BY <1>2, Zenon DEF HandleGroupRegister, SameContent, engineVars
  <2>2. QED
    BY <1>0, <1>2, <2>1, RegisterControl, ContentFrame, Zenon
<1>3. ASSUME NEW w \in Workers, HandleInitPush(w, k) PROVE KeyInv(k)' /\ Content(k)'
  BY <1>0, <1>3, InitPushControl, InitPushContent, Zenon
<1>4. ASSUME NEW w \in Workers, HandlePush(w, k) PROVE KeyInv(k)' /\ Content(k)'
  BY <1>0, <1>4, PushControl, PushContent, Zenon
<1>5. ASSUME NEW w \in Workers, HandlePull(w, k) PROVE KeyInv(k)' /\ Content(k)'
  <2>1. SameContent(k)
    BY <1>5, Zenon DEF HandlePull, SameContent, engineVars
  <2>2. QED
    BY <1>0, <1>5, <2>1, PullControl, ContentFrame, Zenon
<1>6. ASSUME EnginePop(k) PROVE KeyInv(k)' /\ Content(k)'
  BY <1>0, <1>6, PopControl, PopContent, Zenon
<1>7. ASSUME EngineWrite(k) PROVE KeyInv(k)' /\ Content(k)'
  BY <1>0, <1>7, WriteControl, WriteContent, Zenon
<1>8. ASSUME EngineAllRecv(k) PROVE KeyInv(k)' /\ Content(k)'
  BY <1>0, <1>8, AllRecvControl, AllRecvContent, Zenon
<1>9. ASSUME NEW w \in Workers, Transmit(w, k) PROVE KeyInv(k)' /\ Content(k)'
  <2>1. SameContent(k)
    BY <1>9, Zenon DEF Transmit, SameContent, serverVars, engineVars
  <2>2. QED
    BY <1>0, <1>9, <2>1, TransmitControl, ContentFrame, Zenon
<1>10. QED
  BY <1>1, <1>2, <1>3, <1>4, <1>5, <1>6, <1>7, <1>8, <1>9, ZenonT(60)
  DEF HandlerNext, EngineNext

\* Initially every key is idle.
LEMMA ServerInvInit ==
  Init => ServerInv
<1> SUFFICES ASSUME Init PROVE ServerInv
  BY Zenon
<1>1. TypeOK
  BY ConstantsAssumption
  DEF Init, TypeOK, Stage, EngineMessage, NoMessage, Payload
<1>2. ASSUME NEW k \in Keys PROVE KeyInv(k) /\ Content(k)
  <2>1. /\ expected_workers[k] = -1 /\ ~tensor[k] /\ store[k] = {} /\ ~merged[k]
        /\ request[k] = {} /\ ~is_push_finished[k] /\ q_pull_reqmeta[k] = {}
        /\ seen_sender[k] = {} /\ pull_cnt[k] = 0 /\ engine_queue[k] = <<>>
        /\ engine[k] = NoMessage /\ epoch[k] = 0
        /\ \A w \in Workers : stage[k][w] = "idle" /\ round[k][w] = 0
    BY Zenon DEF Init
  <2>2. Group[k] \subseteq Workers /\ Group[k] # {}
    BY ConstantsAssumption, Zenon
  <2>3. engine[k].op = "NONE" /\ 1..Len(engine_queue[k]) = {}
    BY <2>1 DEF NoMessage
  <2>4. Outside(k) /\ Counting(k)
    BY <2>1, <2>2, Zenon DEF Outside, Counting
  <2>5. Initializing(k)
    BY <2>1, <2>2, Zenon DEF Initializing, Tagged
  <2>6. Rounds(k) /\ Collecting(k) /\ Queued(k) /\ Serving(k)
    BY <2>1, Zenon DEF Rounds, Collecting, Queued, Serving
  <2>7. Order(k)
    BY <2>1, <2>3, Zenon DEF Order
  <2>8. Content(k)
    BY <2>1, Zenon DEF Content
  <2>9. QED
    BY <2>4, <2>5, <2>6, <2>7, <2>8, Zenon DEF KeyInv
<1>3. QED
  BY <1>1, <1>2, Zenon DEF ServerInv

\* Every step preserves the invariant.
LEMMA ServerInvStep ==
  ServerInv /\ [Next]_vars => ServerInv'
<1> SUFFICES ASSUME ServerInv, [Next]_vars PROVE ServerInv'
  BY Zenon
<1>1. TypeOK /\ TypeOK'
  BY TypeStep, Zenon DEF ServerInv
<1>2. ASSUME NEW k \in Keys,
             \/ \E w \in Workers : StartPushPull(w, k)
             \/ \E w \in Workers : HandlerNext(w, k)
             \/ EngineNext(k)
             \/ \E w \in Workers : Transmit(w, k)
      PROVE  ServerInv'
  <2>1. KeyInv(k)' /\ Content(k)'
    BY <1>2, KeyStep, Zenon
  <2>2. ASSUME NEW j \in Keys \ {k} PROVE KeyInv(j)' /\ Content(j)'
    BY <1>1, <1>2, OtherKeys, KeyFrame, Zenon
  <2>3. QED
    BY <1>1, <2>1, <2>2, Zenon DEF ServerInv
<1>3. CASE UNCHANGED vars
  <2>1. ASSUME NEW k \in Keys PROVE SameControl(k)
    BY <1>3, Zenon DEF vars, serverVars, engineVars, workerVars, SameControl
  <2>2. QED
    BY <1>1, <2>1, KeyFrame, Zenon DEF ServerInv
<1>4. QED
  BY <1>2, <1>3, Zenon DEF Next, Done

\* The invariant holds in every reachable state, for any program.
THEOREM ServerInvariant == Spec => []ServerInv
BY ServerInvInit, ServerInvStep, PTL DEF Spec

-----------------------------------------------------------------------------
(* The properties.                                                         *)

\* A pending message is the one being executed or a queued one.
LEMMA PendingMember ==
  ASSUME TypeOK, NEW k \in Keys
  PROVE  /\ \A i \in 1..Len(Pending(k)) :
              \/ Pending(k)[i] = engine[k]
              \/ \E j \in 1..Len(engine_queue[k]) : Pending(k)[i] = engine_queue[k][j]
         /\ AllRecvPending(k) =>
              \E i \in 1..Len(Pending(k)) : Pending(k)[i].op = "ALL_RECV"
<1> DEFINE q == engine_queue[k]
           e == engine[k]
<1>1. q \in Seq(EngineMessage \cup {NoMessage}) /\ e \in EngineMessage \cup {NoMessage}
  BY DEF TypeOK
<1>2. CASE e = NoMessage
  <2>1. Pending(k) = q
    BY <1>2, Zenon DEF Pending
  <2>2. e.op # "ALL_RECV"
    BY <1>2 DEF NoMessage
  <2>3. QED
    BY <2>1, <2>2, Zenon DEF AllRecvPending
<1>3. CASE e # NoMessage
  <2>1. Pending(k) = <<e>> \o q
    BY <1>3, Zenon DEF Pending
  <2> HIDE DEF q, e
  <2>2. /\ Len(<<e>> \o q) = Len(q) + 1 /\ Len(q) \in Nat
        /\ (<<e>> \o q)[1] = e
        /\ \A i \in 2..(Len(q) + 1) : (<<e>> \o q)[i] = q[i - 1]
    BY <1>1
  <2>3. \A i \in 1..Len(Pending(k)) :
          Pending(k)[i] = e \/ \E j \in 1..Len(q) : Pending(k)[i] = q[j]
    BY <2>1, <2>2
  <2>4. \A j \in 1..Len(q) : j + 1 \in 1..Len(Pending(k)) /\ Pending(k)[j + 1] = q[j]
    BY <2>1, <2>2
  <2>5. 1 \in 1..Len(Pending(k)) /\ Pending(k)[1] = e
    BY <2>1, <2>2
  <2>6. QED
    BY <2>3, <2>4, <2>5, ZenonT(60) DEF AllRecvPending, q, e
<1>4. QED
  BY <1>2, <1>3, Zenon

\* The invariant implies the control properties.
LEMMA ServerInvImplies ==
  ServerInv => PullAfterMerge /\ ServiceAccounting /\ NoStrandedPull /\ ChecksHold
<1> SUFFICES ASSUME ServerInv, NEW k \in Keys
             PROVE  /\ PullAfterMerge!(k)
                    /\ ServiceAccounting!(k)
                    /\ NoStrandedPull!(k)
                    /\ ChecksHold!(k)
  BY Zenon DEF PullAfterMerge, ServiceAccounting, NoStrandedPull, ChecksHold
<1>1. /\ TypeOK /\ Outside(k) /\ Counting(k) /\ Initializing(k) /\ Rounds(k)
      /\ Collecting(k) /\ Queued(k) /\ Serving(k) /\ Order(k) /\ Content(k)
      /\ epoch[k] \in Nat /\ KeyInv(k)
  BY Zenon DEF ServerInv, KeyInv, TypeOK
<1>2. ASSUME NEW w \in Group[k], stage[k][w] = "posted"
      PROVE  /\ \A v \in Group[k] : Pushed(k, v, round[k][w])
             /\ \A i \in 1..Len(Pending(k)) :
                  \A m \in Pending(k)[i].src : m[2] > round[k][w]
  <2>1. tensor[k]
    BY <1>1, <1>2, Zenon DEF Initializing
  <2>2. round[k][w] = epoch[k] /\ w \in Answered(k)
    BY <1>1, <1>2, <2>1, Zenon DEF Rounds, Answered
  <2>3. \A v \in Group[k] : Pushed(k, v, round[k][w])
    BY <1>1, <2>1, <2>2 DEF Rounds, Pushed
  <2>4. ~AllRecvPending(k)
    BY <1>1, <2>1, <2>2, Zenon DEF Serving
  <2>5. ASSUME NEW i \in 1..Len(Pending(k)), NEW m \in Pending(k)[i].src
        PROVE  m[2] > round[k][w]
    <3>1. Unwritten(k, m) /\ m \in Payload
      <4>1. CASE Pending(k)[i] = engine[k]
        BY <1>1, <2>5, <4>1, WrittenType, Zenon DEF Unwritten
      <4>2. ASSUME NEW j \in 1..Len(engine_queue[k]), Pending(k)[i] = engine_queue[k][j]
            PROVE  Unwritten(k, m) /\ m \in Payload
        <5>1. engine_queue[k][j] \in EngineMessage
          BY <1>1 DEF TypeOK
        <5>2. QED
          BY <2>5, <4>2, <5>1, Zenon DEF Unwritten, EngineMessage
      <4>3. QED
        BY <1>1, <4>1, <4>2, PendingMember, Zenon
    <3>2. Target(k, m)
      BY <1>1, <2>1, <3>1, Zenon DEF Content
    <3>3. request[k] # {}
      <4>1. request[k] = {} => engine_queue[k] = <<>> /\ engine[k] = NoMessage
        BY <1>1, <2>4, Zenon DEF Order
      <4>2. QED
        BY <3>1, <4>1 DEF Unwritten, NoMessage
    <3>4. QED
      BY <1>1, <2>1, <2>2, <3>2, <3>3, TargetRound
  <2>6. QED
    BY <2>3, <2>5, Zenon
<1>3. /\ pull_cnt[k] = Cardinality(seen_sender[k])
      /\ seen_sender[k] =
           IF is_push_finished[k]
           THEN {w \in Group[k] : \/ round[k][w] > epoch[k]
                                  \/ stage[k][w] \in {"posted", "idle"}}
           ELSE {}
  <2>1. CASE ~tensor[k]
    BY <1>1, <2>1, FS_EmptySet, Zenon DEF Initializing
  <2>2. CASE tensor[k]
    <3>1. \A w \in Group[k] : round[k][w] > epoch[k] <=> round[k][w] = epoch[k] + 1
      BY <1>1, <2>2 DEF Rounds
    <3>2. QED
      BY <1>1, <2>2, <3>1, Zenon DEF Serving, Answered
  <2>3. QED
    BY <2>1, <2>2, Zenon
<1>4. ASSUME NEW w \in q_pull_reqmeta[k]
      PROVE  IF is_push_finished[k] THEN w \in seen_sender[k]
             ELSE \/ \E i \in 1..Len(Pending(k)) : Pending(k)[i].op = "ALL_RECV"
                  \/ \E v \in Group[k] : ~Pushed(k, v, round[k][w])
  <2>1. tensor[k]
    BY <1>1, <1>4, Zenon DEF Initializing
  <2>2. w \in Group[k] /\ stage[k][w] = "pullWait"
    BY <1>1, <1>4, <2>1, Zenon DEF Queued
  <2>3. CASE is_push_finished[k]
    <3>1. w \in Answered(k)
      BY <1>1, <2>1, <2>2, <2>3, Zenon DEF Serving, Rounds, Answered
    <3>2. QED
      BY <1>1, <2>1, <2>3, <3>1, Zenon DEF Serving
  <2>4. CASE ~is_push_finished[k] /\ ~AllRecvPending(k)
    <3>1. round[k][w] = epoch[k] + 1
      BY <1>1, <2>1, <2>2, <2>4, Zenon DEF Serving, Answered
    <3>2. PICK v \in Group[k] : v \notin Collected(k)
      BY <1>1, <2>1, Zenon DEF Collecting, Collected
    <3>3. ~Pushed(k, v, epoch[k] + 1)
      BY <1>1, <2>1, <3>2 DEF Rounds, Collected, Pushed
    <3>4. QED
      BY <2>4, <3>1, <3>3, Zenon
  <2>5. CASE ~is_push_finished[k] /\ AllRecvPending(k)
    BY <1>1, <2>5, PendingMember, Zenon
  <2>6. QED
    BY <2>3, <2>4, <2>5, Zenon
<1>5. /\ expected_workers[k] \in {-1, Cardinality(Group[k])}
      /\ \A w \in Group[k] : stage[k][w] \in {"push", "pull"} => tensor[k]
      /\ is_push_finished[k] => tensor[k] /\ merged[k]
      /\ \A m \in store[k] : m[2] > 0
  BY <1>1, Zenon DEF Counting, Initializing, Serving, Content
<1>6. QED
  BY <1>2, <1>3, <1>4, <1>5, Zenon

\* For any workers, groups and program, overlapping or not, a pull is answered
\* only after the whole group's pushes of its round are merged: is_push_finished
\* of an earlier round is never taken for this one's.
THEOREM ControlCorrect == Spec => []PullAfterMerge
BY ServerInvariant, ServerInvImplies, PTL

\* seen_sender and pull_cnt account for the answered pulls exactly, so that a
\* round is closed by its last pull and by no other.
THEOREM AccountingExact == Spec => []ServiceAccounting
BY ServerInvariant, ServerInvImplies, PTL

\* No pull is left in q_pull_reqmeta without a later step that answers it.
THEOREM NoPullForgotten == Spec => []NoStrandedPull
BY ServerInvariant, ServerInvImplies, PTL

\* The CHECKs of the handler and of the engine threads never fail.
THEOREM ServerChecksHold == Spec => []ChecksHold
BY ServerInvariant, ServerInvImplies, PTL

-----------------------------------------------------------------------------
(***************************************************************************)
(* Programs that separate the uses of a key.                               *)
(***************************************************************************)

\* The synchronous program never has two keys in flight.
Program ==
  \A j, k \in Keys : \A w \in Group[j] \cap Group[k] :
    Completed(j, w) >= IF j < k THEN round[k][w] ELSE round[k][w] - 1

\* Nobody starts a round before everybody has received the previous one.
Lockstep ==
  \A k \in Keys : \A v, w \in Group[k] : Completed(k, v) >= round[k][w] - 1

DataInv == ServerInv /\ Program /\ Lockstep /\ PullReturnsSum

\* Completed counts are numbers, and no further than the collected rounds; no
\* worker is behind those.
LEMMA CompletedBound ==
  ASSUME ServerInv, NEW k \in Keys
  PROVE  \A v, w \in Group[k] :
           /\ round[k][v] \in Nat /\ Completed(k, w) \in Int
           /\ Completed(k, w) <= round[k][v]
           /\ Completed(k, w) <= round[k][w] /\ round[k][w] - 1 <= Completed(k, w)
<1>1. /\ Group[k] \subseteq Workers /\ epoch[k] \in Nat /\ Initializing(k) /\ Rounds(k)
      /\ \A w \in Workers : round[k][w] \in Nat
  BY ConstantsAssumption DEF ServerInv, KeyInv, TypeOK
<1>2. CASE tensor[k]
  <2>1. \A w \in Group[k] :
          \/ stage[k][w] # "idle" /\ round[k][w] = epoch[k] + 1
          \/ round[k][w] = epoch[k]
    BY <1>1, <1>2, Zenon DEF Rounds
  <2>2. QED
    BY <1>1, <2>1 DEF Completed
<1>3. CASE ~tensor[k]
  <2>1. \A w \in Group[k] :
          \/ stage[k][w] = "idle" /\ round[k][w] = 0
          \/ stage[k][w] # "idle" /\ round[k][w] = 1
    BY <1>1, <1>3, Zenon DEF Initializing
  <2>2. QED
    BY <1>1, <2>1 DEF Completed
<1>4. QED
  BY <1>2, <1>3, Zenon

\* A step never takes back a completed push_pull; only StartPushPull starts one.
LEMMA Progress ==
  ASSUME ServerInv, [Next]_vars, NEW k \in Keys, NEW w \in Group[k]
  PROVE  /\ Completed(k, w)' >= Completed(k, w)
         /\ round'[k][w] = round[k][w] \/ StartPushPull(w, k)
         /\ Completed(k, w)' # Completed(k, w) => Transmit(w, k)
<1> USE DEF serverVars, engineVars, workerVars
<1>1. TypeOK /\ w \in Workers /\ round[k][w] \in Nat
  <2>1. TypeOK
    BY Zenon DEF ServerInv
  <2>2. w \in Workers
    BY ConstantsAssumption, Zenon
  <2>3. QED
    BY <2>1, <2>2, Zenon DEF TypeOK
<1>2. ASSUME NEW j \in Keys, NEW v \in Workers, StartPushPull(v, j),
             j # k \/ v # w
      PROVE  stage'[k][w] = stage[k][w] /\ round'[k][w] = round[k][w]
  BY <1>1, <1>2, Zenon DEF StartPushPull, TypeOK
<1>3. ASSUME StartPushPull(w, k)
      PROVE  Completed(k, w)' = Completed(k, w)
  <2>1. stage[k][w] = "idle" /\ round'[k][w] = round[k][w] + 1 /\ stage'[k][w] # "idle"
    BY <1>1, <1>3, Zenon DEF StartPushPull, TypeOK
  <2>2. QED
    BY <1>1, <2>1 DEF Completed
<1>4. ASSUME NEW j \in Keys, NEW v \in Workers, HandlerNext(v, j)
      PROVE  /\ round' = round
             /\ stage'[k][w] = "idle" <=> stage[k][w] = "idle"
  <2>1. CASE HandleGroupRegister(v, j)
    BY <1>1, <2>1, Zenon DEF HandleGroupRegister, TypeOK
  <2>2. CASE HandleInitPush(v, j)
    <3>1. CASE j # k
      BY <1>1, <2>2, <3>1, Zenon DEF HandleInitPush, TypeOK
    <3>2. CASE j = k
      <4>1. round' = round /\ epoch' = epoch /\ ~tensor[k]
        BY <2>2, <3>2, Zenon DEF HandleInitPush
      <4>2. Initializing(k) /\ Initializing(k)' /\ Rounds(k)'
        BY <1>4, <3>2, KeyStep, Zenon DEF ServerInv, KeyInv
      <4>3. /\ epoch[k] = 0 /\ (stage[k][w] = "idle" <=> round[k][w] = 0)
        BY <4>1, <4>2 DEF Initializing
      <4>4. CASE tensor'[k]
        BY <4>1, <4>2, <4>3, <4>4 DEF Rounds
      <4>5. CASE ~tensor'[k]
        BY <4>1, <4>2, <4>3, <4>5 DEF Initializing
      <4>6. QED
        BY <4>1, <4>4, <4>5, Zenon
    <3>3. QED
      BY <3>1, <3>2, Zenon
  <2>3. CASE HandlePush(v, j)
    BY <1>1, <2>3, Zenon DEF HandlePush, TypeOK, Acknowledged
  <2>4. CASE HandlePull(v, j)
    <3>1. stage[j][v] = "pull" /\ round' = round
      BY <2>4, Zenon DEF HandlePull
    <3>2. CASE SendPullResponses(j, {v})
      BY <1>1, <3>1, <3>2, ZenonT(60) DEF SendPullResponses, TypeOK
    <3>3. CASE QueuePull(v, j)
      BY <1>1, <3>1, <3>3, Zenon DEF QueuePull, TypeOK
    <3>4. QED
      BY <2>4, <3>2, <3>3, PullCases, Zenon
  <2>5. QED
    BY <1>4, <2>1, <2>2, <2>3, <2>4, Zenon DEF HandlerNext
<1>5. ASSUME NEW j \in Keys, EngineNext(j)
      PROVE  /\ round' = round
             /\ stage'[k][w] = "idle" <=> stage[k][w] = "idle"
  <2>1. CASE EnginePop(j)
    BY <2>1, Zenon DEF EnginePop
  <2>2. CASE EngineWrite(j)
    BY <2>2, Zenon DEF EngineWrite
  <2>3. CASE EngineAllRecv(j)
    <3>1. /\ round' = round /\ epoch' = epoch
          /\ SendPullResponses(j, q_pull_reqmeta[j] \ seen_sender[j])
      BY <2>3, Zenon DEF EngineAllRecv
    <3>2. tensor[j] /\ Queued(j)
      <4>1. KeyInv(j) /\ engine[j].op = "ALL_RECV"
        BY <2>3, Zenon DEF EngineAllRecv, ServerInv
      <4>2. QED
        BY <4>1 DEF KeyInv, Initializing, NoMessage
    <3>3. \A v \in q_pull_reqmeta[j] : stage[j][v] = "pullWait"
      BY <3>2, Zenon DEF Queued
    <3>4. QED
      BY <1>1, <3>1, <3>3, Zenon DEF SendPullResponses, TypeOK
  <2>4. QED
    BY <1>5, <2>1, <2>2, <2>3, Zenon DEF EngineNext
<1>6. ASSUME NEW j \in Keys, NEW v \in Workers, Transmit(v, j), j # k \/ v # w
      PROVE  round' = round /\ stage'[k][w] = stage[k][w]
  BY <1>1, <1>6 DEF Transmit, TypeOK
<1>7. ASSUME Transmit(w, k)
      PROVE  round' = round /\ Completed(k, w)' >= Completed(k, w)
  <2>1. stage[k][w] = "posted" /\ stage'[k][w] = "idle" /\ round' = round
    BY <1>1, <1>7, ZenonT(60) DEF Transmit, TypeOK
  <2>2. QED
    BY <1>1, <2>1 DEF Completed
<1>8. ASSUME round'[k][w] = round[k][w],
             stage'[k][w] = "idle" <=> stage[k][w] = "idle"
      PROVE  Completed(k, w)' = Completed(k, w)
  BY <1>8, Zenon DEF Completed
<1>9. Completed(k, w) \in Int
  BY <1>1 DEF Completed
<1>10. CASE UNCHANGED vars
  BY <1>8, <1>9, <1>10 DEF vars
<1>11. QED
  BY <1>2, <1>3, <1>4, <1>5, <1>6, <1>7, <1>8, <1>9, <1>10 DEF Next, Done

\* Starting is allowed only if the other keys are where the program wants them.
LEMMA ProgramStep ==
  ASSUME DataInv, [Next]_vars, ~Overlap
  PROVE  Program'
<1> SUFFICES ASSUME NEW j \in Keys, NEW k \in Keys, NEW w \in Group[j] \cap Group[k]
             PROVE  Completed(j, w)' >= IF j < k THEN round'[k][w] ELSE round'[k][w] - 1
  BY Zenon DEF Program
<1>1. ServerInv /\ j \in Int /\ k \in Int
  BY ConstantsAssumption DEF DataInv
<1>2. /\ Completed(j, w)' >= Completed(j, w)
      /\ round'[k][w] = round[k][w] \/ StartPushPull(w, k)
      /\ Completed(j, w)' # Completed(j, w) => Transmit(w, j)
  BY <1>1, Progress, Zenon
<1>3. Completed(j, w) \in Int /\ round[k][w] \in Nat
  BY <1>1, CompletedBound, Zenon
<1>4. Completed(j, w)' \in Int
  <2>1. TypeOK' /\ w \in Workers
    BY <1>1, ServerInvStep, ConstantsAssumption, Zenon DEF ServerInv
  <2>2. QED
    BY <2>1 DEF TypeOK, Completed
<1>5. CASE round'[k][w] = round[k][w]
  BY <1>1, <1>2, <1>3, <1>4, <1>5 DEF DataInv, Program
<1>6. CASE StartPushPull(w, k)
  <2>1. Completed(j, w) >= IF j < k THEN round[k][w] + 1 ELSE round[k][w]
    BY <1>6, Zenon DEF StartPushPull, ProgramAllows
  <2>2. round'[k][w] = round[k][w] + 1
    BY <1>1, <1>6, ConstantsAssumption, Zenon DEF StartPushPull, ServerInv, TypeOK
  <2>3. QED
    BY <1>1, <1>2, <1>3, <1>4, <2>1, <2>2
<1>7. QED
  BY <1>2, <1>5, <1>6, Zenon

\* A worker that starts a round has completed, since the last one, a key that
\* everybody in the group can have started only after the last round.
LEMMA LockstepStep ==
  ASSUME DataInv, [Next]_vars, Separated
  PROVE  Lockstep'
<1> SUFFICES ASSUME NEW k \in Keys, NEW v \in Group[k], NEW w \in Group[k]
             PROVE  Completed(k, v)' >= round'[k][w] - 1
  BY Zenon DEF Lockstep
<1>1. ServerInv /\ ServerInv' /\ k \in Int
  BY ServerInvStep, ConstantsAssumption DEF DataInv
<1>2. /\ Completed(k, v)' >= Completed(k, v)
      /\ round'[k][w] = round[k][w] \/ StartPushPull(w, k)
  BY <1>1, Progress, Zenon
<1>3. /\ Completed(k, v) \in Int /\ Completed(k, v)' \in Int
      /\ round[k][w] \in Nat
  <2>1. TypeOK' /\ v \in Workers
    BY <1>1, ConstantsAssumption, Zenon DEF ServerInv
  <2>2. Completed(k, v)' \in Int
    BY <2>1 DEF TypeOK, Completed
  <2>3. QED
    BY <1>1, <2>2, CompletedBound, Zenon
<1>4. CASE round'[k][w] = round[k][w]
  <2>1. Completed(k, v) >= round[k][w] - 1
    BY Zenon DEF DataInv, Lockstep
  <2>2. QED
    BY <1>2, <1>3, <1>4, <2>1
<1>5. CASE StartPushPull(w, k)
  <2>1. PICK j \in Keys \ {k} : Group[k] \subseteq Group[j]
    BY Zenon DEF Separated
  <2>2. j \in Int /\ j # k /\ v \in Group[j] /\ w \in Group[j] /\ ~Overlap
    BY <2>1, ConstantsAssumption DEF Separated
  <2>3. Completed(j, w) >= IF j < k THEN round[k][w] + 1 ELSE round[k][w]
    BY <1>5, <2>2, Zenon DEF StartPushPull, ProgramAllows
  <2>4. round'[k][w] = round[k][w] + 1
    BY <1>1, <1>5, ConstantsAssumption DEF StartPushPull, ServerInv, TypeOK
  <2>5. Completed(j, w) <= round[j][v] /\ round[j][v] \in Nat /\ Completed(j, w) \in Int
    BY <1>1, <2>2, CompletedBound, Zenon
  <2>6. Completed(k, v) >= IF k < j THEN round[j][v] ELSE round[j][v] - 1
    BY <2>2, Zenon DEF DataInv, Program
  <2>7. Completed(k, v) >= round[k][w]
    BY <1>1, <1>3, <2>2, <2>3, <2>5, <2>6
  <2>8. QED
    BY <1>2, <1>3, <2>4, <2>7
<1>6. QED
  BY <1>2, <1>4, <1>5, Zenon

\* While a response is posted nobody has started the next round, so the engine
\* has nothing to do and the store holds the sum of the posted round.
LEMMA PostedIsSum ==
  ASSUME DataInv, NEW k \in Keys, NEW w \in Group[k], stage[k][w] = "posted"
  PROVE  /\ round[k][w] = epoch[k] /\ epoch[k] > 0
         /\ store[k] = Sum(k, epoch[k]) /\ Written(k) = store[k]
         /\ engine[k] = NoMessage /\ engine_queue[k] = <<>>
<1>1. /\ ServerInv /\ TypeOK /\ KeyInv(k) /\ Initializing(k) /\ Rounds(k)
      /\ Collecting(k) /\ Serving(k) /\ Order(k) /\ Content(k) /\ epoch[k] \in Nat
  BY Zenon DEF DataInv, ServerInv, KeyInv, TypeOK
<1>2. tensor[k] /\ round[k][w] = epoch[k] /\ epoch[k] > 0 /\ w \in Answered(k)
  BY <1>1, Zenon DEF Initializing, Rounds, Answered
<1>3. Completed(k, w) = epoch[k] - 1
  BY <1>2, Zenon DEF Completed
<1>4. \A v \in Group[k] : round[k][v] = epoch[k]
  BY <1>1, <1>2, <1>3 DEF DataInv, Lockstep, Rounds
<1>5. request[k] = {}
  BY <1>1, <1>2, <1>4 DEF Collecting, Collected, Tagged
<1>6. ~AllRecvPending(k)
  BY <1>1, <1>2, Zenon DEF Serving
<1>7. engine[k] = NoMessage /\ engine_queue[k] = <<>>
  BY <1>1, <1>5, <1>6, Zenon DEF Order
<1>8. engine[k].op = "NONE" /\ engine[k].src = {} /\ 1..Len(engine_queue[k]) = {}
  BY <1>7 DEF NoMessage
<1>9. store[k] = Sum(k, epoch[k])
  <2>1. \A m \in Payload : m \in store[k] <=> m \in Sum(k, epoch[k])
    BY <1>1, <1>2, <1>5, <1>8, Zenon DEF Content, Target, Unwritten, CopyPending
  <2>2. store[k] \subseteq Payload /\ Sum(k, epoch[k]) \subseteq Payload
    BY <1>1, ConstantsAssumption DEF TypeOK, Sum, Payload
  <2>3. QED
    BY <2>1, <2>2, Zenon
<1>10. Written(k) = store[k]
  BY <1>8, Zenon DEF Written
<1>11. QED
  BY <1>2, <1>7, <1>9, <1>10, Zenon

\* A transmission delivers the sum; nothing else changes a result.
LEMMA ResultStep ==
  ASSUME DataInv, [Next]_vars, Separated
  PROVE  PullReturnsSum'
<1> SUFFICES ASSUME NEW k \in Keys, NEW w \in Group[k], Completed(k, w)' > 0
             PROVE  result'[k][w] = Sum(k, Completed(k, w)')
  BY Zenon DEF PullReturnsSum, Sum
<1>1. ServerInv /\ TypeOK /\ w \in Workers /\ Group[k] \subseteq Workers
  BY ConstantsAssumption, Zenon DEF DataInv, ServerInv
<1>2. CASE Transmit(w, k)
  <2>1. stage[k][w] = "posted"
    BY <1>2, Zenon DEF Transmit
  <2>2. /\ round[k][w] = epoch[k] /\ store[k] = Sum(k, epoch[k])
        /\ Written(k) = store[k]
    BY <2>1, PostedIsSum, Zenon
  <2>3. \E data \in {store[k], Written(k)} : result' = [result EXCEPT ![k][w] = data]
    BY <1>2, Zenon DEF Transmit
  <2>4. result'[k][w] = Sum(k, epoch[k])
    BY <1>1, <2>2, <2>3 DEF TypeOK
  <2>5. Completed(k, w)' = epoch[k]
    BY <1>1, <1>2, <2>2, ZenonT(60) DEF Transmit, TypeOK, Completed
  <2>6. QED
    BY <2>4, <2>5, Zenon
<1>3. CASE ~Transmit(w, k)
  <2>1. Completed(k, w)' = Completed(k, w)
    BY <1>1, <1>3, Progress, Zenon
  <2>2. result'[k][w] = result[k][w]
    <3> USE DEF serverVars, engineVars, workerVars
    <3>1. ASSUME NEW j \in Keys, NEW v \in Workers, Transmit(v, j)
          PROVE  result'[k][w] = result[k][w]
      <4>1. j # k \/ v # w
        BY <1>3, <3>1, Zenon
      <4>2. QED
        BY <1>1, <3>1, <4>1 DEF Transmit, TypeOK
    <3>2. ASSUME NEW j \in Keys, NEW v \in Workers,
                 StartPushPull(v, j) \/ HandlerNext(v, j)
          PROVE  result' = result
      BY <3>2, Zenon DEF StartPushPull, HandlerNext, HandleGroupRegister, HandleInitPush,
                  HandlePush, HandlePull
    <3>3. ASSUME NEW j \in Keys, EngineNext(j) PROVE result' = result
      BY <3>3, Zenon DEF EngineNext, EnginePop, EngineWrite, EngineAllRecv
    <3>4. CASE UNCHANGED vars
      BY <3>4, Zenon DEF vars
    <3>5. QED
      BY <3>1, <3>2, <3>3, <3>4, Zenon DEF Next, Done
  <2>3. QED
    BY <2>1, <2>2, Zenon DEF DataInv, PullReturnsSum
<1>4. QED
  BY <1>2, <1>3, Zenon

\* The data invariant holds before the first call.
LEMMA DataInvInit ==
  Init => DataInv
<1> SUFFICES ASSUME Init PROVE DataInv
  BY Zenon
<1>1. ServerInv
  BY ServerInvInit, Zenon
<1>2. \A k \in Keys : \A w \in Group[k] : Completed(k, w) = 0 /\ round[k][w] = 0
  BY ConstantsAssumption, Zenon DEF Init, Completed
<1>3. QED
  BY <1>1, <1>2 DEF DataInv, Program, Lockstep, PullReturnsSum

\* Every step of a separated program preserves the data invariant.
LEMMA DataInvStep ==
  ASSUME Separated
  PROVE  DataInv /\ [Next]_vars => DataInv'
<1> SUFFICES ASSUME DataInv, [Next]_vars PROVE DataInv'
  BY Zenon
<1>1. ServerInv'
  BY ServerInvStep, Zenon DEF DataInv
<1>2. Program' /\ Lockstep' /\ PullReturnsSum'
  BY ProgramStep, LockstepStep, ResultStep, Zenon DEF Separated
<1>3. QED
  BY <1>1, <1>2, Zenon DEF DataInv

\* If between two uses of a key every worker uses another key of the same
\* group, synchronously, push_pull returns the sum of its own round.
THEOREM SeparatedSum ==
  Separated => (Spec => []PullReturnsSum)
<1> SUFFICES ASSUME Separated PROVE Spec => []PullReturnsSum
  BY Zenon
<1>1. DataInv /\ [Next]_vars => DataInv'
  BY DataInvStep, Zenon
<1>2. DataInv => PullReturnsSum
  BY Zenon DEF DataInv
<1>3. QED
  BY DataInvInit, <1>1, <1>2, PTL DEF Spec

\* Under the same condition the engine never writes a buffer that a posted
\* zero-copy response still refers to.
THEOREM SeparatedBuffers ==
  Separated => (Spec => PostedBufferStable)
<1> SUFFICES ASSUME Separated PROVE Spec => PostedBufferStable
  BY Zenon
<1> DEFINE Stable == \A k \in Keys : \A w \in Group[k] :
                       stage[k][w] = "posted" /\ stage'[k][w] = "posted"
                         => store'[k] = store[k] /\ engine[k].op # "COPY_FIRST"
<1>1. DataInv /\ [Next]_vars => DataInv'
  BY DataInvStep, Zenon
<1>2. DataInv /\ [Next]_vars => [Stable]_vars
  <2> SUFFICES ASSUME DataInv, [Next]_vars, NEW k \in Keys, NEW w \in Group[k],
                      stage[k][w] = "posted"
               PROVE  store'[k] = store[k] /\ engine[k].op # "COPY_FIRST"
    BY Zenon
  <2>1. engine[k] = NoMessage /\ engine[k].op = "NONE"
    BY PostedIsSum DEF NoMessage
  <2>2. TypeOK
    BY Zenon DEF DataInv, ServerInv
  <2>3. \A j \in Keys : EngineWrite(j) => j # k
    BY <2>1, Zenon DEF EngineWrite
  <2>4. store'[k] = store[k]
    <3> USE DEF serverVars, engineVars, workerVars
    <3>1. ASSUME NEW j \in Keys, EngineWrite(j) PROVE store'[k] = store[k]
      BY <2>2, <2>3, <3>1, Zenon DEF EngineWrite, TypeOK
    <3>2. ASSUME NEW j \in Keys, NEW v \in Workers,
                 StartPushPull(v, j) \/ HandlerNext(v, j) \/ Transmit(v, j)
          PROVE  store' = store
      BY <3>2, Zenon DEF StartPushPull, HandlerNext, HandleGroupRegister, HandleInitPush,
                  HandlePush, HandlePull, Transmit
    <3>3. ASSUME NEW j \in Keys, EnginePop(j) \/ EngineAllRecv(j)
          PROVE  store' = store
      BY <3>3, Zenon DEF EnginePop, EngineAllRecv
    <3>4. CASE UNCHANGED vars
      BY <3>4, Zenon DEF vars
    <3>5. QED
      BY <3>1, <3>2, <3>3, <3>4, Zenon DEF Next, EngineNext, Done
  <2>5. QED
    BY <2>1, <2>4, Zenon
<1>3. QED
  BY DataInvInit, <1>1, <1>2, PTL DEF Spec, PostedBufferStable

-----------------------------------------------------------------------------
(***************************************************************************)
(* Refinement.                                                             *)
(***************************************************************************)

\* The calls that have returned, as a function.
Returned == [k \in Keys |-> [w \in Workers |-> Completed(k, w)]]

\* Starting a push_pull is a call.
LEMMA StartRefines ==
  ASSUME DataInv, DataInv', NEW k \in Keys, NEW w \in Workers, StartPushPull(w, k)
  PROVE  AbstractAllReduce!Next
<1>1. TypeOK /\ w \in Group[k]
  BY Zenon DEF DataInv, ServerInv, StartPushPull
<1>2. /\ stage[k][w] = "idle" /\ result' = result
      /\ round' = [round EXCEPT ![k][w] = @ + 1]
      /\ \A j \in Keys, v \in Workers :
           j # k \/ v # w => stage'[j][v] = stage[j][v] /\ round'[j][v] = round[j][v]
      /\ stage'[k][w] # "idle" /\ round'[k][w] = round[k][w] + 1
  BY <1>1, Zenon DEF StartPushPull, TypeOK
<1>3. \A j \in Keys, v \in Workers : round[j][v] \in Nat
  BY <1>1, Zenon DEF TypeOK
<1>4. \A j \in Keys, v \in Workers : Completed(j, v)' = Completed(j, v)
  BY <1>2, <1>3 DEF Completed
<1>5. Returned' = Returned
  BY <1>4, Zenon DEF Returned
<1>6. round[k][w] = Returned[k][w]
  BY <1>2, Zenon DEF Returned, Completed
<1>7. AbstractAllReduce!Call(w, k)
  BY <1>2, <1>5, <1>6, Zenon DEF AbstractAllReduce!Call, Returned
<1>8. QED
  BY <1>1, <1>7, Zenon DEF AbstractAllReduce!Next

\* A transmission returns the sum of a round that everybody has called.
LEMMA TransmitRefines ==
  ASSUME DataInv, NEW k \in Keys, NEW w \in Workers, Transmit(w, k)
  PROVE  AbstractAllReduce!Next
<1>1. TypeOK /\ stage[k][w] = "posted" /\ Outside(k) /\ Rounds(k) /\ Initializing(k)
  BY Zenon DEF DataInv, ServerInv, KeyInv, Transmit
<1>2. w \in Group[k]
  BY <1>1, Zenon DEF Outside
<1>3. /\ round[k][w] = epoch[k] /\ epoch[k] > 0 /\ epoch[k] \in Nat
      /\ store[k] = Sum(k, epoch[k]) /\ Written(k) = store[k]
  BY <1>1, <1>2, PostedIsSum, ZenonT(60) DEF TypeOK
<1>4. /\ round' = round
      /\ stage'[k][w] = "idle"
      /\ \A j \in Keys, v \in Workers : j # k \/ v # w => stage'[j][v] = stage[j][v]
      /\ result' = [result EXCEPT ![k][w] = Sum(k, epoch[k])]
  BY <1>1, <1>3, ZenonT(60) DEF Transmit, TypeOK
<1>5. /\ \A j \in Keys, v \in Workers :
           j # k \/ v # w => Completed(j, v)' = Completed(j, v)
      /\ Completed(k, w)' = round[k][w] /\ Completed(k, w) = round[k][w] - 1
  BY <1>1, <1>4, Zenon DEF Completed
<1>6. Returned' = [Returned EXCEPT ![k][w] = round[k][w]]
  BY <1>5, ZenonT(60) DEF Returned
<1>7. Returned[k][w] < round[k][w]
  BY <1>3, <1>5 DEF Returned
<1>8. \A v \in Group[k] : round[k][v] >= round[k][w]
  <2>1. tensor[k]
    BY <1>1, <1>2, Zenon DEF Initializing
  <2>2. QED
    BY <1>1, <1>3, <2>1 DEF Rounds
<1>9. AbstractAllReduce!Return(w, k)
  BY <1>3, <1>4, <1>6, <1>7, <1>8
  DEF AbstractAllReduce!Return, AbstractAllReduce!Inputs, Returned, Sum
<1>10. QED
  BY <1>2, <1>9, Zenon DEF AbstractAllReduce!Next

\* Nothing else is visible to the callers.
LEMMA OtherStepsStutter ==
  ASSUME DataInv, DataInv', [Next]_vars,
         ~\E k \in Keys, w \in Workers : StartPushPull(w, k) \/ Transmit(w, k)
  PROVE  UNCHANGED <<round, Returned, result>>
<1> USE DEF serverVars, engineVars, workerVars
<1>1. ServerInv /\ ServerInv' /\ TypeOK
  BY Zenon DEF DataInv, ServerInv
<1>2. ASSUME NEW k \in Keys, NEW w \in Workers, HandlerNext(w, k)
      PROVE  round' = round /\ result' = result
  BY <1>2, Zenon DEF HandlerNext, HandleGroupRegister, HandleInitPush, HandlePush, HandlePull
<1>3. ASSUME NEW k \in Keys, EngineNext(k)
      PROVE  round' = round /\ result' = result
  BY <1>3, Zenon DEF EngineNext, EnginePop, EngineWrite, EngineAllRecv
<1>4. CASE UNCHANGED vars
  BY <1>4, Zenon DEF vars, Returned, Completed
<1>5. round' = round /\ result' = result
  BY <1>2, <1>3, <1>4, Zenon DEF Next, Done, vars
<1>6. ASSUME NEW k \in Keys, NEW w \in Workers
      PROVE  Completed(k, w)' = Completed(k, w)
  <2>1. CASE w \in Group[k]
    BY <1>1, <2>1, Progress, Zenon
  <2>2. CASE w \notin Group[k]
    <3>1. /\ stage[k][w] = "idle" /\ stage'[k][w] = "idle"
      BY <1>1, <2>2, Zenon DEF ServerInv, KeyInv, Outside
    <3>2. QED
      BY <1>5, <3>1, Zenon DEF Completed
  <2>3. QED
    BY <2>1, <2>2, Zenon
<1>7. Returned' = Returned
  BY <1>6, Zenon DEF Returned
<1>8. QED
  BY <1>5, <1>7, Zenon

\* Programs that separate the uses of a key see an all-reduce: the server, its
\* engine and the zero-copy responses implement AllReduce.
THEOREM SeparatedRefinement ==
  Separated => (Spec => ImplementsAllReduce)
<1> SUFFICES ASSUME Separated PROVE Spec => ImplementsAllReduce
  BY Zenon
<1>1. DataInv /\ [Next]_vars => DataInv'
  BY DataInvStep, Zenon
<1>2. Init => AbstractAllReduce!Init
  <2> SUFFICES ASSUME Init PROVE AbstractAllReduce!Init
    BY Zenon
  <2>1. Returned = [k \in Keys |-> [w \in Workers |-> 0]]
    BY Zenon DEF Init, Returned, Completed
  <2>2. QED
    BY <2>1, Zenon DEF Init, AbstractAllReduce!Init, Returned
<1>3. DataInv /\ DataInv' /\ [Next]_vars
        => [AbstractAllReduce!Next]_(AbstractAllReduce!vars)
  <2> SUFFICES ASSUME DataInv, DataInv', [Next]_vars
               PROVE  [AbstractAllReduce!Next]_(AbstractAllReduce!vars)
    BY Zenon
  <2>1. ASSUME NEW k \in Keys, NEW w \in Workers, StartPushPull(w, k)
        PROVE  AbstractAllReduce!Next
    BY <2>1, StartRefines, Zenon
  <2>2. ASSUME NEW k \in Keys, NEW w \in Workers, Transmit(w, k)
        PROVE  AbstractAllReduce!Next
    BY <2>2, TransmitRefines, Zenon
  <2>3. CASE ~\E k \in Keys, w \in Workers : StartPushPull(w, k) \/ Transmit(w, k)
    BY <2>3, OtherStepsStutter, Zenon DEF AbstractAllReduce!vars, Returned
  <2>4. QED
    BY <2>1, <2>2, <2>3, Zenon
<1>4. QED
  BY DataInvInit, <1>1, <1>2, <1>3, PTL
  DEF Spec, ImplementsAllReduce, AbstractAllReduce!Spec
=============================================================================
