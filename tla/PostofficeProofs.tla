--------------------------- MODULE PostofficeProofs ---------------------------
(***************************************************************************)
(* The barrier is one, and every message is handled exactly once, for any  *)
(* number of peers, barriers, losses and early timeouts and whatever the   *)
(* order in which the nodes come to it.                                    *)
(***************************************************************************)
EXTENDS Postoffice, FiniteSetTheorems, TLAPS

-----------------------------------------------------------------------------
(* The inductive invariant.                                                *)

Messages == [from : Nodes, to : Nodes, stamp : Nat, request : BOOLEAN]
Keys == Nat \X Nat \X Nat \X BOOLEAN
Places == {"out", "read", "write", "test", "open", "wait", "idle", "manage"}

TypeOK ==
    /\ entered \in [Nodes -> Nat] /\ left \in [Nodes -> Nat] /\ stamp \in [Nodes -> Nat]
    /\ \A m \in net : IsAck(m) \/ m \in Messages
    /\ send_buff_ \in [Nodes -> SUBSET Messages]
    /\ processed \in SUBSET Messages
    /\ acked_ \in [Nodes -> SUBSET Keys]
    /\ van \in {"starting", "up", "stopped", "kept"}
    /\ count \in Nat /\ done \in BOOLEAN
    /\ at \in [Threads -> Places] /\ seen \in [Threads -> Nat]

(* A van's Resender knows what was handled since it was made.              *)
Handled(n) == {m \in processed : m.to = n}
Resenders ==
    \A n \in Nodes :
        /\ acked_[n] \subseteq {GetKey(m) : m \in Handled(n)}
        /\ \A m \in Handled(n) : GetKey(m) \in acked_[n] \/ m \in missed

(* The messages that may still arrive.                                     *)
Sent == {m \in net : ~IsAck(m)} \cup UNION {send_buff_[n] : n \in Nodes}
Waiting == Sent \ processed

Directed ==
    \A m \in Sent \cup processed :
        \/ m.request /\ m.from \in Peers /\ m.to = Scheduler /\ m.stamp < stamp[m.from]
        \/ ~m.request /\ m.from = Scheduler /\ m.to \in Peers

(* The barriers whose responses have been sent.                            *)
InRound ==
    \/ IsCounting("main")
    \/ at["main"] = "wait" /\ ~done /\ at["receiver"] /= "manage"
Answered == IF InRound THEN entered[Scheduler] - 1 ELSE entered[Scheduler]

LastRequest(p) ==
    [from |-> p, to |-> Scheduler, stamp |-> entered[p] - 1, request |-> TRUE]

(* A peer waits for a response, is between barriers, or has entered the    *)
(* next one.                                                               *)
Between(p) ==
    /\ stamp[p] = entered[p]
    /\ \/ left[p] = Answered - 1 /\ entered[p] = Answered
       \/ left[p] = Answered /\ entered[p] \in {Answered, Answered + 1}

(* Only the last request, and one response, can be new to its receiver.    *)
Fresh ==
    \A m \in Waiting :
        IF m.request
        THEN /\ m = LastRequest(m.from)
             /\ left[m.from] = Answered /\ entered[m.from] = Answered + 1
        ELSE /\ left[m.to] = Answered - 1
             /\ \A o \in Waiting : ~o.request /\ o.to = m.to => o = m

(* The peers whose request for the current barrier has been handled, of    *)
(* which the receiver may still have one to count, and whether the         *)
(* scheduler's own is counted.                                             *)
Current == {p \in Peers : /\ left[p] = Answered /\ entered[p] = Answered + 1
                          /\ LastRequest(p) \in processed}
Pending == IF at["receiver"] \in {"read", "write"} THEN 1 ELSE 0
Own == IF at["main"] \in {"test", "open"} \/ (at["main"] = "wait" /\ InRound)
       THEN 1 ELSE 0

(* Where the scheduler's threads are, and what they make of the count.     *)
ThreadPlaces ==
    /\ at["main"] \in {"out", "wait", "manage"} \/ IsCounting("main")
    /\ at["receiver"] \in {"idle", "manage"} \/ IsCounting("receiver")
    /\ ~(IsCounting("main") /\ IsCounting("receiver"))
    /\ mutex = IF at["main"] \in {"out", "wait"} THEN "free" ELSE "main"
    /\ at["main"] \notin {"out", "wait"} => ~done
    /\ at["receiver"] = "manage" => at["main"] = "wait" /\ ~done
    /\ entered[Scheduler] = IF at["main"] = "out" THEN left[Scheduler] ELSE left[Scheduler] + 1

Counting ==
    /\ count + Pending = Cardinality(Current) + Own
    /\ \A t \in Threads : /\ at[t] = "write" => seen[t] = count
                          /\ at[t] = "open" => count = Expected

(* What holds of every behaviour, and what holds as long as no request is  *)
(* handled twice and the threads do not count at the same time.            *)
Base == TypeOK /\ Resenders /\ Directed /\ ExactlyOnce
Ordered == Fresh /\ ThreadPlaces /\ Counting /\ \A p \in Peers : Between(p)
Inv == Base /\ (Orderly => Ordered)

-----------------------------------------------------------------------------
(* Nodes, messages and keys.                                               *)

LEMMA Ids ==
  /\ Scheduler \in Nodes /\ Peers \subseteq Nodes /\ Scheduler \notin Peers
  /\ Nodes \subseteq 1..255 /\ \A n \in Nodes : n \in Peers \/ n = Scheduler
BY PostofficeAssumption DEF Nodes, Scheduler

LEMMA SmallId ==
  ASSUME NEW x \in 1..255
  PROVE  x % 256 = x
<1>1. x \in Int /\ 0 <= x /\ x < 256
  OBVIOUS
<1>2. QED
  BY <1>1

\* A key identifies a message among those to one node.
LEMMA KeyInjective ==
  ASSUME NEW m \in Messages, NEW o \in Messages, m.to = o.to, GetKey(m) = GetKey(o)
  PROVE  m = o
<1>1. m.from \in 1..255 /\ o.from \in 1..255
  BY Ids, Zenon DEF Messages
<1>2. m.from % 256 = o.from % 256 /\ m.stamp = o.stamp /\ m.request = o.request
  BY Zenon DEF GetKey
<1>3. m.from = o.from
  <2>1. m.from % 256 = m.from
    BY <1>1, SmallId, Zenon
  <2>2. o.from % 256 = o.from
    BY <1>1, SmallId, Zenon
  <2>3. QED
    BY <1>2, <2>1, <2>2, Zenon
<1>4. QED
  BY <1>2, <1>3 DEF Messages

\* Messages have keys, and are no acknowledgements.
LEMMA MessageKinds ==
  ASSUME NEW m \in Messages
  PROVE  ~IsAck(m) /\ IsAck(Ack(m)) /\ GetKey(m) \in Keys
<1>1. ~IsAck(m)
  BY Zenon DEF Messages, IsAck
<1>2. IsAck(Ack(m))
  BY Zenon DEF IsAck, Ack
<1>3. m.from \in 1..255 /\ m.to \in 1..255 /\ m.stamp \in Nat /\ m.request \in BOOLEAN
  BY Ids, Zenon DEF Messages
<1>4. m.from % 256 \in Nat /\ m.to % 256 \in Nat
  BY <1>3
<1>5. GetKey(m) \in Keys
  BY <1>3, <1>4, Zenon DEF GetKey, Keys
<1>6. QED
  BY <1>1, <1>2, <1>5, Zenon

\* What may arrive is a message.
LEMMA SentType ==
  ASSUME TypeOK
  PROVE  \A m \in Sent : m \in Messages
BY Zenon DEF TypeOK, Sent

\* The initial state has the invariant.
LEMMA InitInv == Init => Inv
<1> SUFFICES ASSUME Init PROVE Base /\ Ordered
  BY Zenon DEF Inv
<1>1. at["main"] = "out" /\ at["receiver"] = "idle"
  BY Zenon DEF Init, Threads
<1>2. TypeOK
  <2>1. at \in [Threads -> Places] /\ seen \in [Threads -> Nat]
    BY Zenon DEF Init, Threads, Places
  <2>2. entered \in [Nodes -> Nat] /\ left \in [Nodes -> Nat] /\ stamp \in [Nodes -> Nat]
    BY Zenon DEF Init
  <2>3. QED
    BY <2>1, <2>2, Zenon DEF Init, TypeOK
<1>3. Sent = {} /\ processed = {} /\ Waiting = {}
  BY Zenon DEF Init, Sent, Waiting
<1>4. ~IsCounting("main") /\ ~IsCounting("receiver")
  BY <1>1, Zenon DEF IsCounting
<1>5. \A n \in Nodes : entered[n] = 0 /\ left[n] = 0 /\ stamp[n] = 0
  BY Zenon DEF Init
<1>6. ~InRound /\ Answered = 0
  BY <1>1, <1>4, <1>5, Ids, Zenon DEF InRound, Answered
<1>7. Resenders
  BY <1>3, Zenon DEF Init, Resenders, Handled
<1>8. Directed /\ Fresh /\ ExactlyOnce
  BY <1>3, Zenon DEF Directed, Fresh, ExactlyOnce, Init
<1>9. \A p \in Peers : Between(p)
  BY <1>5, <1>6, Ids, Zenon DEF Between
<1>10. ThreadPlaces
  BY <1>1, <1>4, <1>5, Ids, Zenon DEF ThreadPlaces, Init
<1>11. Counting
  <2>1. Current = {} /\ Pending = 0 /\ Own = 0 /\ count = 0
    BY <1>1, <1>3, Zenon DEF Current, Pending, Own, Init
  <2>2. Cardinality(Current) = 0
    BY <2>1, FS_EmptySet, Zenon
  <2>3. \A t \in Threads : at[t] # "write" /\ at[t] # "open"
    BY <1>1, Zenon DEF Threads
  <2>4. QED
    BY <2>1, <2>2, <2>3, Zenon DEF Counting
<1>12. QED
  BY <1>2, <1>7, <1>8, <1>9, <1>10, <1>11, Zenon DEF Base, Ordered

-----------------------------------------------------------------------------
(* Types.                                                                  *)

\* Only messages arrive.
LEMMA ResponsesType ==
  ASSUME TypeOK
  PROVE  Responses \subseteq Messages
<1> SUFFICES ASSUME NEW p \in Peers
             PROVE  [from |-> Scheduler, to |-> p, stamp |-> stamp[Scheduler] + Order(p),
                     request |-> FALSE] \in Messages
  BY Zenon DEF Responses
<1>1. Order(p) \in Nat
  <2>1. IsFiniteSet({q \in Peers : q < p})
    BY PostofficeAssumption, FS_Subset, Zenon
  <2>2. QED
    BY <2>1, FS_CardinalityType, Zenon DEF Order
<1>2. stamp[Scheduler] \in Nat
  BY Ids, Zenon DEF TypeOK
<1>3. stamp[Scheduler] + Order(p) \in Nat
  BY <1>1, <1>2
<1>4. QED
  BY <1>3, Ids, Zenon DEF Messages

\* Every step keeps the types.
LEMMA TypesStep ==
  ASSUME TypeOK, Next
  PROVE  TypeOK'
<1>1. ASSUME NEW p \in Peers, Enter(p) PROVE TypeOK'
  <2> DEFINE m == [from |-> p, to |-> Scheduler, stamp |-> stamp[p], request |-> TRUE]
  <2>1. m \in Messages
    BY Ids, Zenon DEF TypeOK, Messages
  <2>2. p \in Nodes
    BY Ids, Zenon
  <2>3. /\ net' = net \cup {m} /\ send_buff_' = [send_buff_ EXCEPT ![p] = @ \cup {m}]
        /\ stamp' = [stamp EXCEPT ![p] = @ + 1] /\ entered' = [entered EXCEPT ![p] = @ + 1]
    BY <1>1, Zenon DEF Enter
  <2> HIDE DEF m
  <2>4. stamp' \in [Nodes -> Nat] /\ entered' \in [Nodes -> Nat]
    BY <2>2, <2>3 DEF TypeOK
  <2>5. send_buff_' \in [Nodes -> SUBSET Messages]
    BY <2>1, <2>2, <2>3, Zenon DEF TypeOK
  <2>6. QED
    BY <1>1, <2>1, <2>3, <2>4, <2>5, Zenon DEF Enter, TypeOK, schedulerVars, history, receipts
<1>2. CASE DoBarrier
  <2>1. entered' \in [Nodes -> Nat]
    BY <1>2, Ids DEF DoBarrier, TypeOK
  <2>2. at' \in [Threads -> Places]
    BY <1>2, Zenon DEF DoBarrier, TypeOK, Places
  <2>3. QED
    BY <1>2, <2>1, <2>2, Zenon DEF DoBarrier, TypeOK, receipts
<1>3. CASE Wake
  <2>1. left' \in [Nodes -> Nat] /\ at' \in [Threads -> Places]
    BY <1>3, Ids, Zenon DEF Wake, TypeOK, Places
  <2>2. QED
    BY <1>3, <2>1, Zenon DEF Wake, TypeOK, history, receipts
<1>4. ASSUME NEW t \in Threads, ReadCount(t) PROVE TypeOK'
  <2>1. at' \in [Threads -> Places] /\ seen' \in [Threads -> Nat]
    BY <1>4, Zenon DEF ReadCount, TypeOK, Places
  <2>2. QED
    BY <1>4, <2>1, Zenon DEF ReadCount, TypeOK, history, receipts
<1>5. ASSUME NEW t \in Threads, WriteCount(t) PROVE TypeOK'
  <2>1. at' \in [Threads -> Places]
    BY <1>5, Zenon DEF WriteCount, TypeOK, Places
  <2>2. count' \in Nat /\ seen' \in [Threads -> Nat]
    BY <1>5 DEF WriteCount, TypeOK
  <2>3. QED
    BY <1>5, <2>1, <2>2, Zenon DEF WriteCount, TypeOK, history, receipts
<1>6. ASSUME NEW t \in Threads, TestCount(t) PROVE TypeOK'
  <2>1. at' \in [Threads -> Places]
    BY <1>6, Zenon DEF TestCount, TypeOK, Places
  <2>2. QED
    BY <1>6, <2>1, Zenon DEF TestCount, TypeOK, history, receipts
<1>7. ASSUME NEW t \in Threads, OpenBarrier(t) PROVE TypeOK'
  <2>1. at' \in [Threads -> Places]
    BY <1>7, Zenon DEF OpenBarrier, TypeOK, Places
  <2>2. Cardinality(Peers) \in Nat /\ count' \in Nat
    BY <1>7, PostofficeAssumption, FS_CardinalityType DEF OpenBarrier
  <2>3. stamp' \in [Nodes -> Nat]
    BY <1>7, <2>2, Ids DEF OpenBarrier, TypeOK
  <2>4. send_buff_' \in [Nodes -> SUBSET Messages]
    BY <1>7, ResponsesType, Ids, Zenon DEF OpenBarrier, TypeOK
  <2>5. \A m \in net' : IsAck(m) \/ m \in Messages
    BY <1>7, ResponsesType, Zenon DEF OpenBarrier, TypeOK
  <2>6. QED
    BY <1>7, <2>1, <2>2, <2>3, <2>4, <2>5, Zenon DEF OpenBarrier, TypeOK, history, receipts
<1>8. ASSUME NEW t \in Threads, Manage(t) PROVE TypeOK'
  <2>1. at' \in [Threads -> Places]
    BY <1>8, Zenon DEF Manage, TypeOK, Places
  <2>2. QED
    BY <1>8, <2>1, Zenon DEF Manage, TypeOK, history, receipts
<1>9. CASE StartResender
  BY <1>9, Zenon DEF StartResender, TypeOK, schedulerVars, history, receipts
<1>10. CASE StopScheduler
  <2>1. send_buff_' \in [Nodes -> SUBSET Messages]
    BY <1>10, Ids, Zenon DEF StopScheduler, TypeOK
  <2>2. net' \subseteq net
    BY <1>10, Zenon DEF StopScheduler
  <2>3. QED
    BY <1>10, <2>1, <2>2, Zenon DEF StopScheduler, TypeOK, schedulerVars, history, receipts
<1>11. CASE GoOn
  BY <1>11, Zenon DEF GoOn, TypeOK, schedulerVars, history, receipts
<1>12. ASSUME NEW m \in net, ReceiveAck(m) PROVE TypeOK'
  <2>1. send_buff_' \in [Nodes -> SUBSET Messages]
    BY <1>12, Zenon DEF ReceiveAck, TypeOK
  <2>2. QED
    BY <1>12, <2>1, Zenon DEF ReceiveAck, TypeOK, schedulerVars, history, receipts
<1>13. ASSUME NEW m \in net, Receive(m) PROVE TypeOK'
  <2>1. m \in Messages /\ m.to \in Nodes
    BY <1>13, Zenon DEF Receive, TypeOK, Messages
  <2>2. IsAck(Ack(m)) /\ GetKey(m) \in Keys
    BY <2>1, MessageKinds, Zenon
  <2>3. \A o \in net' : IsAck(o) \/ o \in Messages
    BY <1>13, <2>2, Zenon DEF Receive, TypeOK
  <2>4. acked_' \in [Nodes -> SUBSET Keys]
    <3>1. acked_' = [acked_ EXCEPT ![m.to] = @ \cup {GetKey(m)}] \/ acked_' = acked_
      BY <1>13, Zenon DEF Receive
    <3>2. [acked_ EXCEPT ![m.to] = @ \cup {GetKey(m)}] \in [Nodes -> SUBSET Keys]
      BY <2>1, <2>2, Zenon DEF TypeOK
    <3>3. QED
      BY <3>1, <3>2, Zenon DEF TypeOK
  <2>5. [at EXCEPT !["receiver"] = "read"] \in [Threads -> Places]
    BY Zenon DEF TypeOK, Places
  <2>6. [left EXCEPT ![m.to] = entered[m.to]] \in [Nodes -> Nat]
    BY <2>1, Zenon DEF TypeOK
  <2>7. Process(m) \/ Discard(m)
    BY <1>13, Zenon DEF Receive
  <2>8. processed' \in SUBSET Messages /\ at' \in [Threads -> Places] /\ left' \in [Nodes -> Nat]
    BY <2>1, <2>5, <2>6, <2>7, Zenon DEF Process, Discard, TypeOK
  <2>9. QED
    BY <1>13, <2>3, <2>4, <2>8, Zenon DEF Receive, TypeOK
<1>14. ASSUME NEW m \in net, Drop(m) PROVE TypeOK'
  BY <1>14, Zenon DEF Drop, TypeOK, schedulerVars, receipts
<1>15. ASSUME NEW n \in Nodes, NEW m \in send_buff_[n], Resend(n, m) PROVE TypeOK'
  <2>1. m \in Messages
    BY Zenon DEF TypeOK
  <2>2. QED
    BY <1>15, <2>1, Zenon DEF Resend, TypeOK, schedulerVars, receipts
<1>16. QED
  BY <1>1, <1>2, <1>3, <1>4, <1>5, <1>8, <1>9, <1>10, <1>11, <1>12, <1>13, <1>14, <1>15, <1>6,
   <1>7, Zenon DEF Next

-----------------------------------------------------------------------------
(* What holds of every behaviour.                                          *)

\* Numbers of barriers are integers.
LEMMA Numbers ==
  ASSUME TypeOK
  PROVE  /\ \A n \in Nodes : entered[n] \in Nat /\ left[n] \in Nat /\ stamp[n] \in Nat
         /\ Answered \in Int
<1>1. \A n \in Nodes : entered[n] \in Nat /\ left[n] \in Nat /\ stamp[n] \in Nat
  BY Zenon DEF TypeOK
<1>2. Answered \in Int
  BY <1>1, Ids DEF Answered
<1>3. QED
  BY <1>1, <1>2, Zenon

\* A step that sends and receives nothing new.
LEMMA BaseFrame ==
  ASSUME Base, TypeOK', Sent' \subseteq Sent, UNCHANGED <<acked_, stamp, receipts>>
  PROVE  Base'
<1>1. processed' = processed /\ repeated' = repeated /\ unhandled' = unhandled /\ missed' = missed
  BY Zenon DEF receipts
<1>2. \A n \in Nodes : Handled(n)' = Handled(n)
  BY <1>1, Zenon DEF Handled
<1>3. Resenders'
  BY <1>1, <1>2, Zenon DEF Base, Resenders
<1>4. Directed'
  BY <1>1, Zenon DEF Base, Directed
<1>5. ExactlyOnce'
  BY <1>1, Zenon DEF Base, ExactlyOnce
<1>6. QED
  BY <1>3, <1>4, <1>5, Zenon DEF Base

\* The steps that only lose, repeat or forget what was sent.
LEMMA QuietSteps ==
  ASSUME TypeOK,
         \/ StartResender \/ StopScheduler \/ GoOn
         \/ \E m \in net : ReceiveAck(m) \/ Drop(m)
         \/ \E n \in Nodes : \E m \in send_buff_[n] : Resend(n, m)
  PROVE  Sent' \subseteq Sent /\ UNCHANGED <<entered, left, acked_, stamp, schedulerVars, receipts, raced>>
<1>1. CASE StartResender \/ GoOn
  <2>1. net' = net /\ send_buff_' = send_buff_
    BY <1>1, Zenon DEF StartResender, GoOn
  <2>2. UNCHANGED <<entered, left, acked_, stamp, schedulerVars, receipts, raced>>
    BY <1>1, Zenon DEF StartResender, GoOn, history
  <2>3. QED
    BY <2>1, <2>2, Zenon DEF Sent
<1>2. CASE StopScheduler
  <2>1. net' \subseteq net
    BY <1>2, Zenon DEF StopScheduler
  <2>2. \A n \in Nodes : send_buff_'[n] \subseteq send_buff_[n]
    BY <1>2, Zenon DEF StopScheduler, TypeOK
  <2>3. Sent' \subseteq Sent
    BY <2>1, <2>2, Zenon DEF Sent
  <2>4. QED
    BY <1>2, <2>3, Zenon DEF StopScheduler, history
<1>3. ASSUME NEW m \in net, ReceiveAck(m)
      PROVE  Sent' \subseteq Sent /\ UNCHANGED <<entered, left, acked_, stamp, schedulerVars, receipts, raced>>
  <2>1. \A n \in Nodes : send_buff_'[n] \subseteq send_buff_[n]
    BY <1>3, Zenon DEF ReceiveAck, TypeOK
  <2>2. net' \subseteq net
    BY <1>3, Zenon DEF ReceiveAck
  <2>3. Sent' \subseteq Sent
    BY <2>1, <2>2, Zenon DEF Sent
  <2>4. QED
    BY <1>3, <2>3, Zenon DEF ReceiveAck, history
<1>4. ASSUME NEW m \in net, Drop(m)
      PROVE  Sent' \subseteq Sent /\ UNCHANGED <<entered, left, acked_, stamp, schedulerVars, receipts, raced>>
  <2>1. Sent' \subseteq Sent
    BY <1>4, Zenon DEF Drop, Sent
  <2>2. QED
    BY <1>4, <2>1, Zenon DEF Drop
<1>5. ASSUME NEW n \in Nodes, NEW m \in send_buff_[n], Resend(n, m)
      PROVE  Sent' \subseteq Sent /\ UNCHANGED <<entered, left, acked_, stamp, schedulerVars, receipts, raced>>
  <2>1. net' = net \cup {m} /\ send_buff_' = send_buff_
    BY <1>5, Zenon DEF Resend
  <2>2. Sent' \subseteq Sent
    BY <2>1, ZenonT(60) DEF Sent
  <2>3. QED
    BY <1>5, <2>2, Zenon DEF Resend
<1>6. QED
  BY <1>1, <1>2, <1>3, <1>4, <1>5, Zenon

\* What a peer sends when it enters a barrier.
NewRequest(p) == [from |-> p, to |-> Scheduler, stamp |-> stamp[p], request |-> TRUE]

LEMMA EnterFacts ==
  ASSUME TypeOK, NEW p \in Peers, Enter(p)
  PROVE  /\ p \in Nodes /\ p # Scheduler /\ entered[p] = left[p]
         /\ NewRequest(p).request /\ NewRequest(p).from = p
         /\ NewRequest(p).to = Scheduler /\ NewRequest(p).stamp = stamp[p]
         /\ entered'[p] = entered[p] + 1 /\ stamp'[p] = stamp[p] + 1
         /\ \A n \in Nodes : n # p => entered'[n] = entered[n]
         /\ \A n \in Nodes : n # p => stamp'[n] = stamp[n]
         /\ Sent' \subseteq Sent \cup {NewRequest(p)}
         /\ UNCHANGED <<left, acked_, schedulerVars, receipts, raced>>
<1> DEFINE m == NewRequest(p)
<1>1. p \in Nodes /\ p # Scheduler
  BY Ids, Zenon
<1>2. /\ entered[p] = left[p]
      /\ net' = net \cup {m} /\ send_buff_' = [send_buff_ EXCEPT ![p] = @ \cup {m}]
      /\ stamp' = [stamp EXCEPT ![p] = @ + 1] /\ entered' = [entered EXCEPT ![p] = @ + 1]
      /\ UNCHANGED <<left, acked_, schedulerVars, receipts, raced>>
  BY Zenon DEF Enter, history, NewRequest
<1>3. m.request /\ m.from = p /\ m.to = Scheduler /\ m.stamp = stamp[p]
  BY Zenon DEF NewRequest
<1> HIDE DEF m
<1>4. /\ entered'[p] = entered[p] + 1 /\ stamp'[p] = stamp[p] + 1
      /\ \A n \in Nodes : n # p => entered'[n] = entered[n]
      /\ \A n \in Nodes : n # p => stamp'[n] = stamp[n]
  BY <1>1, <1>2, Zenon DEF TypeOK
<1>5. Sent' \subseteq Sent \cup {m}
  <2>1. \A n \in Nodes : send_buff_'[n] \subseteq send_buff_[n] \cup {m}
    BY <1>1, <1>2, Zenon DEF TypeOK
  <2>2. QED
    BY <1>2, <2>1, Zenon DEF Sent
<1>6. QED
  BY <1>1, <1>2, <1>3, <1>4, <1>5, Zenon DEF m

LEMMA BaseEnter ==
  ASSUME Base, TypeOK', NEW p \in Peers, Enter(p)
  PROVE  Base'
<1> DEFINE m == NewRequest(p)
<1>1. TypeOK
  BY Zenon DEF Base
<1>2. /\ m.request /\ m.from = p /\ m.to = Scheduler /\ m.stamp = stamp[p] /\ p \in Nodes
      /\ UNCHANGED <<acked_, receipts>>
  BY <1>1, EnterFacts, Zenon
<1>3. /\ Sent' \subseteq Sent \cup {m} /\ stamp'[p] = stamp[p] + 1
      /\ \A n \in Nodes : n # p => stamp'[n] = stamp[n]
  BY <1>1, EnterFacts, Zenon
<1> HIDE DEF m
<1>4. processed' = processed /\ repeated' = repeated /\ unhandled' = unhandled /\ missed' = missed
  BY <1>2, Zenon DEF receipts
<1>5. Directed'
  <2>1. \A n \in Nodes : stamp[n] \in Nat
    BY <1>1, Numbers, Zenon
  <2>2. \A o \in Sent \cup processed :
          \/ o.request /\ o.from \in Peers /\ o.to = Scheduler /\ o.stamp < stamp[o.from]
          \/ ~o.request /\ o.from = Scheduler /\ o.to \in Peers
    BY Zenon DEF Base, Directed
  <2>3. \A o \in Sent \cup processed : o \in Messages
    BY <1>1, SentType, Zenon DEF TypeOK
  <2>4. \A o \in Messages : o.stamp \in Nat
    BY Zenon DEF Messages
  <2>5. \A o \in Sent \cup processed : o.request => o.stamp < stamp'[o.from]
    <3> SUFFICES ASSUME NEW o \in Sent \cup processed, o.request PROVE o.stamp < stamp'[o.from]
      BY Zenon
    <3>1. o.stamp < stamp[o.from] /\ o.from \in Nodes
      BY <2>2, Ids, Zenon
    <3>2. o.stamp \in Nat /\ stamp[o.from] \in Nat
      BY <2>1, <2>3, <2>4, <3>1, Zenon
    <3>3. stamp'[o.from] = stamp[o.from] \/ stamp'[o.from] = stamp[o.from] + 1
      BY <1>2, <1>3, <3>1, Zenon
    <3>4. QED
      BY <3>1, <3>2, <3>3
  <2>6. m.stamp < stamp'[p]
    BY <1>2, <1>3, <2>1
  <2>7. QED
    BY <1>2, <1>3, <1>4, <2>2, <2>5, <2>6, Zenon DEF Directed
<1>6. Resenders'
  <2>1. \A n \in Nodes : Handled(n)' = Handled(n)
    BY <1>4, Zenon DEF Handled
  <2>2. QED
    BY <1>2, <1>3, <1>4, <2>1, Zenon DEF Base, Resenders
<1>7. ExactlyOnce'
  BY <1>4, Zenon DEF Base, ExactlyOnce
<1>8. QED
  BY <1>5, <1>6, <1>7, Zenon DEF Base

\* Responses go to one peer each.
LEMMA OneResponseEach ==
  /\ \A m \in Responses : m.to \in Peers /\ m.from = Scheduler /\ ~m.request
  /\ \A m, o \in Responses : m.to = o.to => m = o
<1> DEFINE R(p) == [from |-> Scheduler, to |-> p, stamp |-> stamp[Scheduler] + Order(p),
                    request |-> FALSE]
<1>1. \A m \in Responses : \E p \in Peers : m = R(p)
  BY Zenon DEF Responses
<1>2. \A p : R(p).to = p /\ R(p).from = Scheduler /\ R(p).request = FALSE
  BY Zenon
<1> HIDE DEF R
<1>3. ASSUME NEW m \in Responses PROVE m.to \in Peers /\ m.from = Scheduler /\ ~m.request
  <2>1. PICK p \in Peers : m = R(p)
    BY <1>1, Zenon
  <2>2. QED
    BY <1>2, <2>1, Zenon
<1>4. ASSUME NEW m \in Responses, NEW o \in Responses, m.to = o.to PROVE m = o
  <2>1. PICK p \in Peers : m = R(p)
    BY <1>1, Zenon
  <2>2. PICK q \in Peers : o = R(q)
    BY <1>1, Zenon
  <2>3. p = q
    BY <1>2, <1>4, <2>1, <2>2
  <2>4. QED
    BY <2>1, <2>2, <2>3, Zenon
<1>5. QED
  BY <1>3, <1>4, Zenon

\* What the last request of a barrier makes the scheduler send.
LEMMA OpenFacts ==
  ASSUME TypeOK, NEW t \in Threads, OpenBarrier(t)
  PROVE  /\ Sent' \subseteq Sent \cup Responses
         /\ \A p \in Peers : stamp'[p] = stamp[p]
<1>1. /\ net' = net \cup Responses
      /\ send_buff_' = [send_buff_ EXCEPT ![Scheduler] = @ \cup Responses]
      /\ stamp' = [stamp EXCEPT ![Scheduler] = @ + Cardinality(Peers)]
  BY Zenon DEF OpenBarrier
<1>2. \A n \in Nodes : send_buff_'[n] \subseteq send_buff_[n] \cup Responses
  BY <1>1, Zenon DEF TypeOK
<1>3. Sent' \subseteq Sent \cup Responses
  BY <1>1, <1>2, Zenon DEF Sent
<1>4. \A p \in Peers : stamp'[p] = stamp[p]
  BY <1>1, Ids, Zenon DEF TypeOK
<1>5. QED
  BY <1>3, <1>4, Zenon

LEMMA BaseOpen ==
  ASSUME Base, TypeOK', NEW t \in Threads, OpenBarrier(t)
  PROVE  Base'
<1>1. Sent' \subseteq Sent \cup Responses /\ \A p \in Peers : stamp'[p] = stamp[p]
  BY OpenFacts, Zenon DEF Base
<1>2. /\ acked_' = acked_ /\ processed' = processed /\ repeated' = repeated
      /\ unhandled' = unhandled /\ missed' = missed
  BY Zenon DEF OpenBarrier, history, receipts
<1>3. Directed'
  BY <1>1, <1>2, OneResponseEach, Zenon DEF Base, Directed
<1>4. Resenders'
  <2>1. \A n \in Nodes : Handled(n)' = Handled(n)
    BY <1>2, Zenon DEF Handled
  <2>2. QED
    BY <1>2, <2>1, Zenon DEF Base, Resenders
<1>5. ExactlyOnce'
  BY <1>2, Zenon DEF Base, ExactlyOnce
<1>6. QED
  BY <1>3, <1>4, <1>5, Zenon DEF Base

\* A key that is known is the key of a message that was handled.
LEMMA KnownIsHandled ==
  ASSUME Base, NEW m \in Messages, Duplicated(m)
  PROVE  m \in processed
<1>1. m.to \in Nodes
  BY Zenon DEF Messages
<1>2. acked_[m.to] \subseteq {GetKey(o) : o \in Handled(m.to)}
  BY <1>1, Zenon DEF Base, Resenders
<1> DEFINE k == GetKey(m)
           H == Handled(m.to)
<1> HIDE DEF k, H
<1>3. k \in {GetKey(o) : o \in H}
  BY <1>2, Zenon DEF Duplicated, k, H
<1>4. PICK o \in Handled(m.to) : GetKey(m) = GetKey(o)
  <2>1. \E o \in H : k = GetKey(o)
    BY <1>3, Zenon
  <2>2. QED
    BY <2>1, Zenon DEF k, H
<1>5. o \in processed /\ o.to = m.to /\ o \in Messages
  BY <1>4, Zenon DEF Handled, Base, TypeOK
<1>6. m = o
  BY <1>4, <1>5, KeyInjective, Zenon
<1>7. QED
  BY <1>5, <1>6, Zenon

\* What a receipt does to the messages, and to its receiver.
LEMMA ReceiveFacts ==
  ASSUME Base, NEW m \in net, Receive(m)
  PROVE  /\ m \in Messages /\ m \in Sent /\ Sent' \subseteq Sent
         /\ (m \in processed /\ Discard(m)) \/ Process(m)
         /\ processed' = processed \cup {m}
         /\ UNCHANGED <<entered, stamp, count, done, mutex, seen>>
<1>1. m \in Messages
  BY Zenon DEF Receive, Base, TypeOK
<1>2. m \in Sent
  BY Zenon DEF Receive, Sent
<1>3. Sent' \subseteq Sent
  <2>1. IsAck(Ack(m))
    BY <1>1, MessageKinds, Zenon
  <2>2. send_buff_' = send_buff_ /\ net' \subseteq net \cup {Ack(m)}
    BY Zenon DEF Receive
  <2>3. QED
    BY <2>1, <2>2, Zenon DEF Sent
<1>4. (m \in processed /\ Discard(m)) \/ Process(m)
  BY <1>1, KnownIsHandled, Zenon DEF Receive
<1>5. processed' = processed \cup {m}
  BY <1>4, Zenon DEF Discard, Process
<1>6. UNCHANGED <<entered, stamp, count, done, mutex, seen>>
  BY Zenon DEF Receive
<1>7. QED
  BY <1>1, <1>2, <1>3, <1>4, <1>5, <1>6, Zenon

\* A message is handled when it is new to its van's Resender, and is then
\* remembered by it, or by nobody if there is none yet.
LEMMA BaseReceive ==
  ASSUME Base, TypeOK', NEW m \in net, Receive(m)
  PROVE  Base'
<1>1. /\ m \in Messages /\ m \in Sent /\ Sent' \subseteq Sent
      /\ (m \in processed /\ Discard(m)) \/ Process(m)
      /\ processed' = processed \cup {m} /\ stamp' = stamp
  BY ReceiveFacts, Zenon
<1>2. m.to \in Nodes /\ m \in Handled(m.to)'
  BY <1>1, Zenon DEF Messages, Handled
<1>3. Directed'
  BY <1>1, Zenon DEF Base, Directed
<1>4. /\ missed \subseteq missed'
      /\ \A n \in Nodes : /\ acked_[n] \subseteq acked_'[n]
                          /\ n # m.to => acked_'[n] = acked_[n]
      /\ acked_'[m.to] \subseteq acked_[m.to] \cup {GetKey(m)}
      /\ GetKey(m) \in acked_'[m.to] \/ m \in missed'
  <2>1. acked_ \in [Nodes -> SUBSET Keys]
    BY Zenon DEF Base, TypeOK
  <2>2. CASE acked_' = [acked_ EXCEPT ![m.to] = @ \cup {GetKey(m)}] /\ missed' = missed
    BY <1>2, <2>1, <2>2, Zenon
  <2>3. CASE acked_' = acked_ /\ missed' = missed \cup {m}
    BY <2>3, Zenon
  <2>4. QED
    BY <2>2, <2>3, Zenon DEF Receive
<1>5. ASSUME NEW n \in Nodes
      PROVE  /\ acked_'[n] \subseteq {GetKey(o) : o \in Handled(n)'}
             /\ \A o \in Handled(n)' : GetKey(o) \in acked_'[n] \/ o \in missed'
  <2>1. /\ acked_[n] \subseteq {GetKey(o) : o \in Handled(n)}
        /\ \A o \in Handled(n) : GetKey(o) \in acked_[n] \/ o \in missed
    BY Zenon DEF Base, Resenders
  <2>2. Handled(n) \subseteq Handled(n)' /\ (\A o \in Handled(n)' : o \in Handled(n) \/ (o = m /\ n = m.to))
    BY <1>1, Zenon DEF Handled
  <2>3. acked_'[n] \subseteq acked_[n] \/ (n = m.to /\ acked_'[n] \subseteq acked_[n] \cup {GetKey(m)})
    BY <1>4, Zenon
  <2>4. {GetKey(o) : o \in Handled(n)} \subseteq {GetKey(o) : o \in Handled(n)'}
    BY <2>2, Zenon
  <2>5. n = m.to => GetKey(m) \in {GetKey(o) : o \in Handled(n)'}
    BY <1>2, Zenon
  <2>6. acked_'[n] \subseteq {GetKey(o) : o \in Handled(n)'}
    BY <2>1, <2>3, <2>4, <2>5, Zenon
  <2>7. \A o \in Handled(n)' : GetKey(o) \in acked_'[n] \/ o \in missed'
    BY <1>4, <2>1, <2>2, Zenon
  <2>8. QED
    BY <2>6, <2>7, Zenon
<1>6. Resenders'
  BY <1>5, Zenon DEF Resenders
<1>7. unhandled' = {}
  BY <1>1, Zenon DEF Base, ExactlyOnce, Discard, Process
<1>8. repeated' \subseteq missed'
  <2>1. repeated \subseteq missed'
    BY <1>4, Zenon DEF Base, ExactlyOnce
  <2>2. CASE Discard(m)
    BY <2>1, <2>2, Zenon DEF Discard
  <2>3. CASE ~Discard(m)
    <3>1. m \in processed => m \in missed'
      <4>1. m \in processed => GetKey(m) \in acked_[m.to] \/ m \in missed
        BY <1>2, Zenon DEF Base, Resenders, Handled
      <4>2. ~Duplicated(m) \/ m \in missed'
        BY <2>3, Zenon DEF Receive
      <4>3. QED
        BY <1>4, <4>1, <4>2, Zenon DEF Duplicated
    <3>2. repeated' = IF m \in processed THEN repeated \cup {m} ELSE repeated
      BY <1>1, <2>3, Zenon DEF Process
    <3>3. QED
      BY <2>1, <3>1, <3>2, Zenon
  <2>4. QED
    BY <2>2, <2>3, Zenon
<1>9. QED
  BY <1>3, <1>6, <1>7, <1>8, Zenon DEF Base, ExactlyOnce

LEMMA BaseStep ==
  ASSUME Base, [Next]_vars
  PROVE  Base'
<1>1. CASE UNCHANGED vars
  <2>1. TypeOK'
    BY <1>1, Zenon DEF Base, TypeOK, vars, schedulerVars, history, receipts
  <2>2. Sent' \subseteq Sent
    BY <1>1, Zenon DEF vars, Sent
  <2>3. QED
    BY <1>1, <2>1, <2>2, BaseFrame, Zenon DEF vars, history
<1>2. CASE Next
  <2>1. TypeOK'
    BY <1>2, TypesStep, Zenon DEF Base
  <2>2. ASSUME NEW t \in Threads,
               ReadCount(t) \/ WriteCount(t) \/ TestCount(t) \/ Manage(t) \/ DoBarrier \/ Wake
        PROVE  Base'
    <3>1. net' = net /\ send_buff_' = send_buff_ /\ UNCHANGED <<acked_, stamp, receipts>>
      BY <2>2, Zenon DEF ReadCount, WriteCount, TestCount, Manage, DoBarrier, Wake, history
    <3>2. Sent' \subseteq Sent
      BY <3>1, Zenon DEF Sent
    <3>3. QED
      BY <2>1, <3>1, <3>2, BaseFrame, Zenon
  <2>3. CASE DoBarrier \/ Wake
    BY <2>2, <2>3, Zenon DEF Threads
  <2>4. ASSUME \/ StartResender \/ StopScheduler \/ GoOn
               \/ \E m \in net : ReceiveAck(m) \/ Drop(m)
               \/ \E n \in Nodes : \E m \in send_buff_[n] : Resend(n, m)
        PROVE  Base'
    <3>1. Sent' \subseteq Sent /\ UNCHANGED <<acked_, stamp, receipts>>
      BY <2>4, QuietSteps, Zenon DEF Base
    <3>2. QED
      BY <2>1, <3>1, BaseFrame, Zenon
  <2>5. QED
    BY <1>2, <2>1, <2>2, <2>3, <2>4, BaseEnter, BaseOpen, BaseReceive, Zenon DEF Next
<1>3. QED
  BY <1>1, <1>2, Zenon

-----------------------------------------------------------------------------
(* What holds while no request is handled twice and the scheduler's        *)
(* threads do not count at the same time.                                  *)

\* The size of the group, and the terms of the count.
LEMMA Terms ==
  /\ IsFiniteSet(Peers) /\ Cardinality(Peers) \in Nat
  /\ Expected = Cardinality(Peers) + 1
  /\ Current \subseteq Peers /\ IsFiniteSet(Current) /\ Cardinality(Current) \in Nat
<1>1. IsFiniteSet(Peers) /\ Cardinality(Peers) \in Nat
  BY PostofficeAssumption, FS_CardinalityType, Zenon
<1>2. Expected = Cardinality(Peers) + 1
  BY <1>1, Ids, FS_AddElement, Zenon DEF Expected, Nodes
<1>3. Current \subseteq Peers
  BY Zenon DEF Current
<1>4. IsFiniteSet(Current)
  BY <1>1, <1>3, FS_Subset, Zenon
<1>5. QED
  BY <1>1, <1>2, <1>3, <1>4, FS_CardinalityType, Zenon

\* While one thread counts the other does not.
LEMMA OneCounts ==
  ASSUME ThreadPlaces, NEW t \in Threads, IsCounting(t)
  PROVE  /\ t \in {"main", "receiver"}
         /\ \A u \in Threads : u # t => at[u] \notin {"read", "write", "test", "open"}
<1>1. Threads = {"main", "receiver"}
  BY Zenon DEF Threads
<1>2. ~(IsCounting("main") /\ IsCounting("receiver"))
  BY Zenon DEF ThreadPlaces
<1>3. QED
  BY <1>1, <1>2, Zenon DEF IsCounting

\* A step that sends and handles nothing leaves the peers where they are.
LEMMA PeersFrame ==
  ASSUME Base, Ordered, Sent' \subseteq Sent, stamp' = stamp, processed' = processed,
         Answered' = Answered,
         \A p \in Peers : entered'[p] = entered[p] /\ left'[p] = left[p]
  PROVE  Fresh' /\ (\A p \in Peers : Between(p)') /\ Current' = Current
<1>1. \A p \in Peers : LastRequest(p)' = LastRequest(p)
  BY Zenon DEF LastRequest
<1>2. \A m \in Waiting : (m.request => m.from \in Peers) /\ (~m.request => m.to \in Peers)
  BY Zenon DEF Base, Directed, Waiting
<1>3. Waiting' \subseteq Waiting
  BY Zenon DEF Waiting
<1>4. Fresh'
  <2> SUFFICES ASSUME NEW m \in Waiting'
               PROVE  /\ m.request => /\ m = LastRequest(m.from)'
                                      /\ left'[m.from] = Answered' /\ entered'[m.from] = Answered' + 1
                      /\ ~m.request => /\ left'[m.to] = Answered' - 1
                                       /\ \A o \in Waiting' : ~o.request /\ o.to = m.to => o = m
    BY Zenon DEF Fresh
  <2>1. m \in Waiting /\ Fresh
    BY <1>3, Zenon DEF Ordered
  <2>2. CASE m.request
    BY <1>1, <1>2, <2>1, <2>2, Zenon DEF Fresh
  <2>3. CASE ~m.request
    BY <1>2, <1>3, <2>1, <2>3, Zenon DEF Fresh
  <2>4. QED
    BY <2>2, <2>3, Zenon
<1>5. \A p \in Peers : Between(p)'
  BY Zenon DEF Ordered, Between
<1>6. Current' = Current
  BY <1>1, Zenon DEF Current
<1>7. QED
  BY <1>4, <1>5, <1>6, Zenon

\* The scheduler's threads do not move.
LEMMA ThreadsFrame ==
  ASSUME UNCHANGED schedulerVars, entered'[Scheduler] = entered[Scheduler]
  PROVE  /\ Answered' = Answered
         /\ Ordered /\ left'[Scheduler] = left[Scheduler] => ThreadPlaces'
         /\ Ordered /\ Current' = Current => Counting'
<1>1. at' = at /\ done' = done /\ count' = count /\ seen' = seen /\ mutex' = mutex
  BY Zenon DEF schedulerVars
<1>2. InRound' = InRound /\ IsCounting("main")' = IsCounting("main")
      /\ IsCounting("receiver")' = IsCounting("receiver")
  BY <1>1, Zenon DEF InRound, IsCounting
<1>3. Answered' = Answered
  BY <1>2, Zenon DEF Answered
<1>4. Pending' = Pending /\ Own' = Own
  BY <1>1, <1>2, Zenon DEF Pending, Own
<1>5. Ordered /\ left'[Scheduler] = left[Scheduler] => ThreadPlaces'
  BY <1>1, <1>2, Zenon DEF Ordered, ThreadPlaces
<1>6. Ordered /\ Current' = Current => Counting'
  BY <1>1, <1>4, Zenon DEF Ordered, Counting
<1>7. QED
  BY <1>3, <1>5, <1>6, Zenon

\* Steps that only lose, repeat or forget what was sent.
LEMMA QuietStep ==
  ASSUME Base, Ordered, Sent' \subseteq Sent, processed' = processed,
         UNCHANGED <<entered, left, stamp, schedulerVars>>
  PROVE  Ordered'
<1>1. Answered' = Answered /\ ThreadPlaces' /\ (Current' = Current => Counting')
  BY ThreadsFrame, Zenon
<1>2. Fresh' /\ (\A p \in Peers : Between(p)') /\ Current' = Current
  BY <1>1, PeersFrame, Zenon
<1>3. QED
  BY <1>1, <1>2, Zenon DEF Ordered

-----------------------------------------------------------------------------
(* A peer enters the next barrier.                                         *)

LEMMA EnterStep ==
  ASSUME Base, Ordered, NEW p \in Peers, Enter(p)
  PROVE  Ordered'
<1> DEFINE m == NewRequest(p)
<1>1. TypeOK
  BY Zenon DEF Base
<1>2. /\ p \in Nodes /\ p # Scheduler /\ entered[p] = left[p]
      /\ m.request /\ m.from = p /\ m.to = Scheduler /\ m.stamp = stamp[p]
      /\ UNCHANGED <<left, schedulerVars, receipts>>
  BY <1>1, EnterFacts, Zenon
<1>3. /\ Sent' \subseteq Sent \cup {m}
      /\ entered'[p] = entered[p] + 1 /\ stamp'[p] = stamp[p] + 1
      /\ \A n \in Nodes : n # p => entered'[n] = entered[n]
      /\ \A n \in Nodes : n # p => stamp'[n] = stamp[n]
  BY <1>1, EnterFacts, Zenon
<1>4. processed' = processed
  BY <1>2, Zenon DEF receipts
<1>5. /\ Answered' = Answered /\ (Current' = Current => Counting') /\ ThreadPlaces'
  BY <1>2, <1>3, Ids, ThreadsFrame, Zenon
<1>6. stamp[p] = entered[p] /\ left[p] = Answered /\ entered[p] = Answered
  BY <1>2, Zenon DEF Ordered, Between
<1>7. m = LastRequest(p)'
  <2>1. entered[p] \in Nat /\ stamp[p] \in Nat
    BY <1>1, <1>2, Numbers, Zenon
  <2>2. entered'[p] - 1 = stamp[p]
    BY <1>3, <1>6, <2>1
  <2>3. QED
    BY <2>2, Zenon DEF LastRequest, NewRequest
<1> HIDE DEF m
<1>8. m \notin processed
  <2>1. m \in processed => m.stamp < stamp[p]
    BY <1>2, Zenon DEF Base, Directed
  <2>2. stamp[p] \in Nat
    BY <1>1, <1>2, Numbers, Zenon
  <2>3. QED
    BY <1>2, <2>1, <2>2
<1>9. Waiting' \subseteq Waiting \cup {m}
  BY <1>3, <1>4, Zenon DEF Waiting
<1>10. \A q \in Peers : q # p => LastRequest(q)' = LastRequest(q)
  BY <1>3, Ids, Zenon DEF LastRequest
<1>11. Answered # Answered + 1
  BY <1>1, Numbers
<1>12. Fresh'
  <2>1. \A o \in Waiting : (o.request => o.from \in Peers) /\ (~o.request => o.to \in Peers)
    BY Zenon DEF Base, Directed, Waiting
  <2>2. ASSUME NEW o \in Waiting', o.request
        PROVE  /\ o = LastRequest(o.from)'
               /\ left'[o.from] = Answered' /\ entered'[o.from] = Answered' + 1
    <3>1. CASE o = m
      BY <1>2, <1>3, <1>5, <1>6, <1>7, <3>1, Zenon
    <3>2. CASE o # m
      <4>1. o \in Waiting
        BY <1>9, <3>2, Zenon
      <4>2. /\ o = LastRequest(o.from) /\ left[o.from] = Answered
            /\ entered[o.from] = Answered + 1 /\ o.from \in Peers
        BY <2>1, <2>2, <4>1, Zenon DEF Ordered, Fresh
      <4>3. o.from # p
        BY <1>6, <1>11, <4>2, Zenon
      <4>4. QED
        BY <1>2, <1>3, <1>5, <1>10, <4>2, <4>3, Ids, Zenon
    <3>3. QED
      BY <3>1, <3>2, Zenon
  <2>3. ASSUME NEW o \in Waiting', ~o.request
        PROVE  /\ left'[o.to] = Answered' - 1
               /\ \A r \in Waiting' : ~r.request /\ r.to = o.to => r = o
    <3>1. \A r \in Waiting' : ~r.request => r \in Waiting
      BY <1>2, <1>9, Zenon
    <3>2. QED
      BY <1>2, <1>5, <2>3, <3>1, Zenon DEF Ordered, Fresh
  <2>4. QED
    BY <2>2, <2>3, Zenon DEF Fresh
<1>13. ASSUME NEW q \in Peers PROVE Between(q)'
  <2>1. CASE q = p
    BY <1>2, <1>3, <1>5, <1>6, <2>1, Zenon DEF Between
  <2>2. CASE q # p
    <3>1. entered'[q] = entered[q] /\ stamp'[q] = stamp[q] /\ left'[q] = left[q]
      BY <1>2, <1>3, <2>2, Ids, Zenon
    <3>2. Between(q)
      BY Zenon DEF Ordered
    <3>3. QED
      BY <1>5, <3>1, <3>2, Zenon DEF Between
  <2>3. QED
    BY <2>1, <2>2, Zenon
<1>14. Current' = Current
  <2>1. p \notin Current
    BY <1>6, <1>11, Zenon DEF Current
  <2>2. p \notin Current'
    BY <1>4, <1>7, <1>8, Zenon DEF Current
  <2>3. \A q \in Peers : q # p => (q \in Current' <=> q \in Current)
    BY <1>2, <1>3, <1>4, <1>5, <1>10, Ids, Zenon DEF Current
  <2>4. \A q \in Current \cup Current' : q \in Peers
    BY Zenon DEF Current
  <2>5. \A q : q \in Current' <=> q \in Current
    BY <2>1, <2>2, <2>3, <2>4, Zenon
  <2>6. QED
    BY <2>5, Zenon
<1>15. QED
  BY <1>5, <1>12, <1>13, <1>14, Zenon DEF Ordered

-----------------------------------------------------------------------------
(* The scheduler's own threads.                                            *)

\* A step of one of its threads that neither sends nor handles a message.
LEMMA ThreadStep ==
  ASSUME Base, Ordered, Answered' = Answered, ThreadPlaces',
         \A p \in Peers : entered'[p] = entered[p] /\ left'[p] = left[p],
         UNCHANGED <<net, send_buff_, stamp, receipts>>,
         count' + Pending' = Cardinality(Current) + Own',
         \A t \in Threads : /\ at'[t] = "write" => seen'[t] = count'
                            /\ at'[t] = "open" => count' = Expected
  PROVE  Ordered'
<1>1. Sent' \subseteq Sent /\ processed' = processed
  BY Zenon DEF Sent, receipts
<1>2. Fresh' /\ (\A p \in Peers : Between(p)') /\ Current' = Current
  BY <1>1, PeersFrame, Zenon
<1>3. Expected' = Expected
  BY Zenon DEF Expected, Nodes, Scheduler
<1>4. Counting'
  BY <1>2, <1>3, Zenon DEF Counting
<1>5. QED
  BY <1>2, <1>4, Zenon DEF Ordered

LEMMA DoBarrierStep ==
  ASSUME Base, Ordered, Orderly', DoBarrier
  PROVE  Ordered'
<1>1. /\ at["main"] = "out" /\ at'["main"] = "read" /\ at'["receiver"] = at["receiver"]
      /\ mutex' = "main" /\ ~done' /\ count' = count /\ left' = left
      /\ UNCHANGED <<net, send_buff_, stamp, receipts>>
  BY Zenon DEF DoBarrier, Base, TypeOK, Threads
<1>2. /\ entered'[Scheduler] = entered[Scheduler] + 1
      /\ \A p \in Peers : entered'[p] = entered[p]
  BY Ids, Zenon DEF DoBarrier, Base, TypeOK
<1>3. ~IsCounting("receiver")
  BY Zenon DEF DoBarrier, Orderly
<1>4. at["receiver"] = "idle" /\ entered[Scheduler] = left[Scheduler]
  BY <1>1, <1>3, Zenon DEF Ordered, ThreadPlaces
<1>5. IsCounting("main")' /\ ~IsCounting("receiver")' /\ InRound' /\ ~InRound
  BY <1>1, <1>4, Zenon DEF IsCounting, InRound
<1>6. Answered' = Answered
  <2>1. entered[Scheduler] \in Nat
    BY Ids, Numbers, Zenon DEF Base
  <2>2. entered'[Scheduler] - 1 = entered[Scheduler]
    BY <1>2, <2>1
  <2>3. QED
    BY <1>5, <2>2, Zenon DEF Answered
<1>7. ThreadPlaces'
  BY <1>1, <1>2, <1>4, <1>5, Zenon DEF ThreadPlaces
<1>8. count' + Pending' = Cardinality(Current) + Own'
  <2>1. Pending' = Pending /\ Own' = Own
    BY <1>1, Zenon DEF Pending, Own
  <2>2. QED
    BY <1>1, <2>1, Zenon DEF Ordered, Counting
<1>9. \A t \in Threads : at'[t] # "write" /\ at'[t] # "open"
  BY <1>1, <1>4, Zenon DEF Threads
<1>10. QED
  BY <1>1, <1>2, <1>6, <1>7, <1>8, <1>9, ThreadStep, Zenon

LEMMA WakeStep ==
  ASSUME Base, Ordered, Wake
  PROVE  Ordered'
<1>1. /\ at["main"] = "wait" /\ done /\ at'["main"] = "out" /\ at'["receiver"] = at["receiver"]
      /\ mutex' = mutex /\ mutex = "free" /\ done' = done /\ count' = count /\ seen' = seen
      /\ UNCHANGED <<entered, net, send_buff_, stamp, receipts>>
  BY Zenon DEF Wake, Base, TypeOK, Threads, history
<1>2. /\ left'[Scheduler] = entered[Scheduler] /\ \A p \in Peers : left'[p] = left[p]
  BY Ids, Zenon DEF Wake, Base, TypeOK
<1>3. /\ ~InRound /\ ~InRound' /\ ~IsCounting("main")'
      /\ IsCounting("receiver")' = IsCounting("receiver")
  BY <1>1, Zenon DEF InRound, IsCounting
<1>4. Answered' = Answered
  BY <1>1, <1>3, Zenon DEF Answered
<1>5. ThreadPlaces'
  <2>1. /\ at["receiver"] \in {"idle", "manage"} \/ IsCounting("receiver")
        /\ at["receiver"] # "manage"
    BY <1>1, Zenon DEF Ordered, ThreadPlaces
  <2>2. QED
    BY <1>1, <1>2, <1>3, <2>1, Zenon DEF ThreadPlaces
<1>6. count' + Pending' = Cardinality(Current) + Own'
  <2>1. Pending' = Pending /\ Own' = Own
    BY <1>1, <1>3, Zenon DEF Pending, Own
  <2>2. QED
    BY <1>1, <2>1, Zenon DEF Ordered, Counting
<1>7. \A t \in Threads : /\ at'[t] = "write" => seen'[t] = count'
                         /\ at'[t] = "open" => count' = Expected
  BY <1>1, Zenon DEF Threads, Ordered, Counting
<1>8. QED
  BY <1>1, <1>2, <1>4, <1>5, <1>6, <1>7, ThreadStep, Zenon

\* Between its counting steps a thread stays where it is for the other, and
\* for the round.
LEMMA StillCounting ==
  ASSUME Base, Ordered, NEW t \in Threads, IsCounting(t), NEW x,
         at' = [at EXCEPT ![t] = x], x \in {"write", "test", "open"},
         UNCHANGED <<entered, left, done, mutex>>
  PROVE  /\ ThreadPlaces' /\ InRound' = InRound /\ Answered' = Answered /\ at'[t] = x
         /\ t \in {"main", "receiver"}
         /\ \A u \in Threads : u # t => at'[u] = at[u] /\ at[u] \notin {"read", "write", "test", "open"}
<1>1. at'[t] = x /\ \A u \in Threads : u # t => at'[u] = at[u]
  BY Zenon DEF Base, TypeOK
<1>2. /\ ThreadPlaces /\ t \in {"main", "receiver"} /\ Threads = {"main", "receiver"}
      /\ \A u \in Threads : u # t => at[u] \notin {"read", "write", "test", "open"}
  BY OneCounts, Zenon DEF Ordered, Threads
<1>3. /\ \A u \in Threads : IsCounting(u)' <=> IsCounting(u)
      /\ \A u \in Threads : \A c \in {"out", "wait", "manage", "idle"} : at'[u] = c <=> at[u] = c
  <2>1. IsCounting(t)' /\ \A u \in Threads : u # t => (IsCounting(u)' <=> IsCounting(u))
    BY <1>1, Zenon DEF IsCounting
  <2>2. \A c \in {"out", "wait", "manage", "idle"} : at'[t] # c /\ at[t] # c
    BY <1>1, Zenon DEF IsCounting
  <2>3. QED
    BY <1>1, <2>1, <2>2, Zenon
<1>4. InRound' = InRound
  BY <1>2, <1>3, Zenon DEF InRound
<1>5. Answered' = Answered
  BY <1>4, Zenon DEF Answered
<1>6. ThreadPlaces'
  <2>1. at'["main"] \in {"out", "wait"} <=> at["main"] \in {"out", "wait"}
    BY <1>2, <1>3, Zenon
  <2>2. mutex' = IF at'["main"] \in {"out", "wait"} THEN "free" ELSE "main"
    BY <1>2, <2>1, Zenon DEF ThreadPlaces
  <2>3. at'["main"] \notin {"out", "wait"} => ~done'
    BY <1>2, <2>1, Zenon DEF ThreadPlaces
  <2>4. at'["main"] \in {"out", "wait", "manage"} \/ IsCounting("main")'
    BY <1>2, <1>3, Zenon DEF ThreadPlaces
  <2>5. at'["receiver"] \in {"idle", "manage"} \/ IsCounting("receiver")'
    BY <1>2, <1>3, Zenon DEF ThreadPlaces
  <2>6. ~(IsCounting("main")' /\ IsCounting("receiver")')
    BY <1>2, <1>3, Zenon DEF ThreadPlaces
  <2>7. at'["receiver"] = "manage" => at'["main"] = "wait" /\ ~done'
    BY <1>2, <1>3, Zenon DEF ThreadPlaces
  <2>8. entered'[Scheduler] = IF at'["main"] = "out" THEN left'[Scheduler] ELSE left'[Scheduler] + 1
    BY <1>2, <1>3, Zenon DEF ThreadPlaces
  <2>9. QED
    BY <2>2, <2>3, <2>4, <2>5, <2>6, <2>7, <2>8, Zenon DEF ThreadPlaces
<1>7. QED
  BY <1>1, <1>2, <1>4, <1>5, <1>6, Zenon

LEMMA ReadCountStep ==
  ASSUME Base, Ordered, NEW t \in Threads, ReadCount(t)
  PROVE  Ordered'
<1>1. /\ at[t] = "read" /\ IsCounting(t) /\ at' = [at EXCEPT ![t] = "write"] /\ seen'[t] = count
      /\ UNCHANGED <<entered, left, count, done, mutex, net, send_buff_, stamp, receipts>>
  BY Zenon DEF ReadCount, Base, TypeOK, IsCounting, history
<1>2. /\ ThreadPlaces' /\ InRound' = InRound /\ Answered' = Answered /\ at'[t] = "write"
      /\ t \in {"main", "receiver"}
      /\ \A u \in Threads : u # t => at'[u] = at[u] /\ at[u] \notin {"read", "write", "test", "open"}
  BY <1>1, StillCounting, Zenon
<1>3. Pending' = Pending /\ Own' = Own
  BY <1>1, <1>2, Zenon DEF Pending, Own, Threads
<1>4. count' + Pending' = Cardinality(Current) + Own'
  BY <1>1, <1>3, Zenon DEF Ordered, Counting
<1>5. \A u \in Threads : /\ at'[u] = "write" => seen'[u] = count'
                         /\ at'[u] = "open" => count' = Expected
  BY <1>1, <1>2, Zenon
<1>6. QED
  BY <1>1, <1>2, <1>4, <1>5, ThreadStep, Zenon

LEMMA WriteCountStep ==
  ASSUME Base, Ordered, NEW t \in Threads, WriteCount(t)
  PROVE  Ordered'
<1>1. /\ at[t] = "write" /\ IsCounting(t) /\ at' = [at EXCEPT ![t] = "test"]
      /\ count' = seen[t] + 1
      /\ UNCHANGED <<entered, left, done, mutex, net, send_buff_, stamp, receipts>>
  BY Zenon DEF WriteCount, IsCounting, history
<1>2. /\ ThreadPlaces' /\ InRound' = InRound /\ Answered' = Answered /\ at'[t] = "test"
      /\ t \in {"main", "receiver"}
      /\ \A u \in Threads : u # t => at'[u] = at[u] /\ at[u] \notin {"read", "write", "test", "open"}
  BY <1>1, StillCounting, Zenon
<1>3. count + Pending = Cardinality(Current) + Own /\ count' = count + 1
  BY <1>1, Zenon DEF Ordered, Counting
<1>4. \/ Own = 0 /\ Own' = 1 /\ Pending = 0 /\ Pending' = 0
      \/ Own' = Own /\ Pending = 1 /\ Pending' = 0
  <2>1. CASE t = "main"
    BY <1>1, <1>2, <2>1, Zenon DEF Pending, Own, Threads
  <2>2. CASE t = "receiver"
    BY <1>1, <1>2, <2>2, Zenon DEF Pending, Own, Threads
  <2>3. QED
    BY <1>2, <2>1, <2>2, Zenon
<1>5. count' + Pending' = Cardinality(Current) + Own'
  <2>1. count \in Nat /\ Cardinality(Current) \in Nat /\ (Own = 0 \/ Own = 1)
    BY Terms, Zenon DEF Base, TypeOK, Own
  <2>2. QED
    BY <1>3, <1>4, <2>1
<1>6. \A u \in Threads : at'[u] # "write" /\ at'[u] # "open"
  BY <1>2, Zenon
<1>7. QED
  BY <1>1, <1>2, <1>5, <1>6, ThreadStep, Zenon

\* The count is compared with the size of the group: the last request opens
\* the barrier, after any other the thread returns.
LEMMA TestCountStep ==
  ASSUME Base, Ordered, NEW t \in Threads, TestCount(t)
  PROVE  Ordered'
<1>1. /\ at[t] = "test" /\ IsCounting(t)
      /\ UNCHANGED <<entered, left, done, net, send_buff_, stamp, receipts, count, seen>>
  BY Zenon DEF TestCount, IsCounting, history
<1>2. /\ ThreadPlaces /\ t \in {"main", "receiver"}
      /\ \A u \in Threads : u # t => at[u] \notin {"read", "write", "test", "open"}
  BY <1>1, OneCounts, Zenon DEF Ordered
<1>3. count + Pending = Cardinality(Current) + Own
  BY Zenon DEF Ordered, Counting
<1>4. CASE count = Expected
  <2>1. at' = [at EXCEPT ![t] = "open"] /\ mutex' = mutex
    BY <1>4, Zenon DEF TestCount
  <2>2. /\ ThreadPlaces' /\ InRound' = InRound /\ Answered' = Answered /\ at'[t] = "open"
        /\ \A u \in Threads : u # t => at'[u] = at[u]
    BY <1>1, <2>1, StillCounting, Zenon
  <2>3. Pending' = Pending /\ Own' = Own
    BY <1>1, <1>2, <2>2, Zenon DEF Pending, Own, Threads
  <2>4. count' + Pending' = Cardinality(Current) + Own'
    BY <1>1, <1>3, <2>3, Zenon
  <2>5. \A u \in Threads : /\ at'[u] = "write" => seen'[u] = count'
                           /\ at'[u] = "open" => count' = Expected
    BY <1>1, <1>2, <1>4, <2>2, Zenon
  <2>6. QED
    BY <1>1, <2>2, <2>4, <2>5, ThreadStep, Zenon
<1>5. CASE count # Expected /\ t = "main"
  <2>1. at' = [at EXCEPT !["main"] = "wait"] /\ mutex' = "free"
    BY <1>5, Zenon DEF TestCount
  <2>2. at'["main"] = "wait" /\ at'["receiver"] = at["receiver"]
    BY <2>1, Zenon DEF Base, TypeOK, Threads
  <2>3. at["main"] = "test" /\ at["receiver"] = "idle" /\ ~done /\ entered[Scheduler] = left[Scheduler] + 1
    BY <1>1, <1>2, <1>5, Zenon DEF ThreadPlaces, IsCounting, Threads
  <2>4. InRound /\ InRound' /\ ~IsCounting("main")' /\ ~IsCounting("receiver")'
    BY <1>1, <2>2, <2>3, Zenon DEF InRound, IsCounting
  <2>5. Answered' = Answered
    BY <1>1, <2>4, Zenon DEF Answered
  <2>6. ThreadPlaces'
    BY <1>1, <2>1, <2>2, <2>3, <2>4, Zenon DEF ThreadPlaces
  <2>7. Pending' = Pending /\ Own' = Own
    BY <2>2, <2>3, <2>4, Zenon DEF Pending, Own
  <2>8. count' + Pending' = Cardinality(Current) + Own'
    BY <1>1, <1>3, <2>7, Zenon
  <2>9. \A u \in Threads : at'[u] # "write" /\ at'[u] # "open"
    BY <2>2, <2>3, Zenon DEF Threads
  <2>10. QED
    BY <1>1, <2>5, <2>6, <2>8, <2>9, ThreadStep, Zenon
<1>6. CASE count # Expected /\ t = "receiver"
  <2>1. at' = [at EXCEPT !["receiver"] = "idle"] /\ mutex' = mutex
    BY <1>6, Zenon DEF TestCount
  <2>2. at'["receiver"] = "idle" /\ at'["main"] = at["main"]
    BY <2>1, Zenon DEF Base, TypeOK, Threads
  <2>3. at["receiver"] = "test" /\ at["main"] \notin {"read", "write", "test", "open"}
    BY <1>1, <1>2, <1>6, Zenon DEF Threads
  <2>4. InRound' = InRound /\ ~IsCounting("main")' /\ ~IsCounting("receiver")' /\ ~IsCounting("main")
    BY <1>1, <2>2, <2>3, Zenon DEF InRound, IsCounting
  <2>5. Answered' = Answered
    BY <1>1, <2>4, Zenon DEF Answered
  <2>6. ThreadPlaces'
    BY <1>1, <1>2, <2>1, <2>2, <2>4, Zenon DEF ThreadPlaces
  <2>7. Pending' = Pending /\ Own' = Own
    BY <2>2, <2>3, <2>4, Zenon DEF Pending, Own
  <2>8. count' + Pending' = Cardinality(Current) + Own'
    BY <1>1, <1>3, <2>7, Zenon
  <2>9. \A u \in Threads : at'[u] # "write" /\ at'[u] # "open"
    BY <2>2, <2>3, Zenon DEF Threads
  <2>10. QED
    BY <1>1, <2>5, <2>6, <2>8, <2>9, ThreadStep, Zenon
<1>7. QED
  BY <1>2, <1>4, <1>5, <1>6, Zenon

\* Only the receiver gets through Manage: the main thread holds the mutex.
LEMMA ManageStep ==
  ASSUME Base, Ordered, NEW t \in Threads, Manage(t)
  PROVE  Ordered'
<1>1. t = "receiver" /\ at["receiver"] = "manage" /\ at["main"] = "wait" /\ ~done
      /\ entered[Scheduler] = left[Scheduler] + 1 /\ mutex = "free"
  <2>1. at[t] = "manage" /\ mutex = "free" /\ (t = "main" \/ t = "receiver")
    BY Zenon DEF Manage, Threads
  <2>2. at["main"] # "manage"
    BY <2>1, Zenon DEF Ordered, ThreadPlaces
  <2>3. t = "receiver" /\ at["receiver"] = "manage"
    BY <2>1, <2>2, Zenon
  <2>4. QED
    BY <2>1, <2>3, Zenon DEF Ordered, ThreadPlaces
<1>2. /\ at'["receiver"] = "idle" /\ at'["main"] = "wait" /\ done' = TRUE
      /\ UNCHANGED <<entered, left, net, send_buff_, stamp, receipts, count, mutex>>
  BY <1>1, Zenon DEF Manage, Base, TypeOK, Threads, history
<1>3. /\ ~InRound /\ ~InRound' /\ ~IsCounting("main")' /\ ~IsCounting("receiver")'
  BY <1>1, <1>2, Zenon DEF InRound, IsCounting
<1>4. Answered' = Answered
  BY <1>2, <1>3, Zenon DEF Answered
<1>5. ThreadPlaces'
  BY <1>1, <1>2, <1>3, Zenon DEF ThreadPlaces
<1>6. count' + Pending' = Cardinality(Current) + Own'
  <2>1. Pending' = Pending /\ Own' = Own
    BY <1>1, <1>2, <1>3, Zenon DEF Pending, Own
  <2>2. QED
    BY <1>2, <2>1, Zenon DEF Ordered, Counting
<1>7. \A u \in Threads : at'[u] # "write" /\ at'[u] # "open"
  BY <1>2, Zenon DEF Threads
<1>8. QED
  BY <1>2, <1>4, <1>5, <1>6, <1>7, ThreadStep, Zenon

\* The last request: every peer has entered, the scheduler too, and every
\* peer is answered.
LEMMA OpenStep ==
  ASSUME Base, Ordered, NEW t \in Threads, OpenBarrier(t)
  PROVE  Ordered'
<1>1. /\ at[t] = "open" /\ IsCounting(t) /\ count' = 0 /\ at' = [at EXCEPT ![t] = "manage"]
      /\ UNCHANGED <<entered, left, done, mutex, seen, processed>>
  BY Zenon DEF OpenBarrier, IsCounting, history, receipts
<1>2. /\ ThreadPlaces /\ t \in {"main", "receiver"} /\ Threads = {"main", "receiver"}
      /\ \A u \in Threads : u # t => at[u] \notin {"read", "write", "test", "open"}
  BY <1>1, OneCounts, Zenon DEF Ordered, Threads
<1>3. at'[t] = "manage" /\ \A u \in Threads : u # t => at'[u] = at[u]
  BY <1>1, Zenon DEF Base, TypeOK
<1>4. Current = Peers /\ Own = 1
  <2>1. count = Expected /\ count + Pending = Cardinality(Current) + Own
    BY <1>1, Zenon DEF Ordered, Counting
  <2>2. Pending = 0
    BY <1>1, <1>2, Zenon DEF Pending
  <2>3. Cardinality(Current) <= Cardinality(Peers)
    BY Terms, FS_Subset, Zenon
  <2>4. (Own = 0 \/ Own = 1) /\ count \in Nat
    BY Zenon DEF Own, Base, TypeOK
  <2>5. Cardinality(Current) = Cardinality(Peers) /\ Own = 1
    BY <2>1, <2>2, <2>3, <2>4, Terms
  <2>6. QED
    BY <2>5, Terms, FS_Subset, Zenon
<1>5. \/ t = "main" /\ at["main"] = "open" /\ at["receiver"] = "idle"
      \/ t = "receiver" /\ at["receiver"] = "open" /\ at["main"] = "wait" /\ ~done
  <2>1. CASE t = "main"
    BY <1>1, <1>2, <2>1, Zenon DEF ThreadPlaces, IsCounting
  <2>2. CASE t = "receiver"
    <3>1. at["main"] \notin {"read", "write", "test", "open"}
      BY <1>2, <2>2, Zenon
    <3>2. at["main"] = "wait" /\ InRound
      BY <1>4, <3>1 DEF Own
    <3>3. QED
      BY <1>1, <2>2, <3>2, Zenon DEF InRound, IsCounting
  <2>3. QED
    BY <1>2, <2>1, <2>2, Zenon
<1>6. /\ InRound /\ ~InRound' /\ ~IsCounting("main")' /\ ~IsCounting("receiver")'
      /\ \A u \in Threads : at'[u] \notin {"read", "write", "test", "open"}
  BY <1>2, <1>3, <1>5, Zenon DEF InRound, IsCounting
<1>7. Answered' = Answered + 1 /\ Answered' - 1 = Answered /\ Answered' # Answered
  <2>1. Answered = entered[Scheduler] - 1 /\ Answered' = entered[Scheduler]
    BY <1>1, <1>6, Zenon DEF Answered
  <2>2. entered[Scheduler] \in Nat
    BY Ids, Numbers, Zenon DEF Base
  <2>3. QED
    BY <2>1, <2>2
<1>8. \A p \in Peers : /\ left[p] = Answered /\ entered[p] = Answered + 1
                        /\ LastRequest(p) \in processed
  BY <1>4, Zenon DEF Current
<1>9. Waiting = {}
  <2> SUFFICES ASSUME NEW m \in Waiting PROVE FALSE
    BY Zenon
  <2>1. m \in Sent /\ m \notin processed
    BY Zenon DEF Waiting
  <2>2. CASE m.request
    <3>1. m.from \in Peers /\ m = LastRequest(m.from)
      BY <2>1, <2>2, Zenon DEF Base, Ordered, Directed, Fresh
    <3>2. QED
      BY <1>8, <2>1, <3>1, Zenon
  <2>3. CASE ~m.request
    <3>1. m.to \in Peers /\ left[m.to] = Answered - 1
      BY <2>1, <2>3, Zenon DEF Base, Ordered, Directed, Fresh
    <3>2. Answered # Answered - 1
      BY Numbers DEF Base
    <3>3. QED
      BY <1>8, <3>1, <3>2, Zenon
  <2>4. QED
    BY <2>2, <2>3, Zenon
<1>10. Waiting' \subseteq Responses /\ \A p \in Peers : stamp'[p] = stamp[p]
  <2>1. Sent' \subseteq Sent \cup Responses /\ \A p \in Peers : stamp'[p] = stamp[p]
    BY OpenFacts, Zenon DEF Base
  <2>2. QED
    BY <1>1, <1>9, <2>1, Zenon DEF Waiting
<1>11. Fresh'
  BY <1>1, <1>7, <1>8, <1>10, OneResponseEach, Zenon DEF Fresh
<1>12. ASSUME NEW p \in Peers PROVE Between(p)'
  BY <1>1, <1>7, <1>8, <1>10, Zenon DEF Ordered, Between
<1>13. Counting'
  <2>1. Cardinality(Current') = 0
    <3>1. Current' = {}
      BY <1>1, <1>7, <1>8, Zenon DEF Current
    <3>2. QED
      BY <3>1, FS_EmptySet, Zenon
  <2>2. Pending' = 0 /\ Own' = 0
    BY <1>2, <1>6, Zenon DEF Pending, Own
  <2>3. QED
    BY <1>1, <1>6, <2>1, <2>2, Zenon DEF Counting
<1>14. ThreadPlaces'
  <2>1. CASE t = "main"
    <3>1. at'["main"] = "manage" /\ at'["receiver"] = "idle" /\ at["main"] = "open"
      BY <1>2, <1>3, <1>5, <2>1, Zenon
    <3>2. QED
      BY <1>1, <1>2, <1>6, <3>1, Zenon DEF ThreadPlaces
  <2>2. CASE t = "receiver"
    <3>1. at'["receiver"] = "manage" /\ at'["main"] = "wait" /\ at["main"] = "wait" /\ ~done
      BY <1>2, <1>3, <1>5, <2>2, Zenon
    <3>2. QED
      BY <1>1, <1>2, <1>6, <3>1, Zenon DEF ThreadPlaces
  <2>3. QED
    BY <1>2, <2>1, <2>2, Zenon
<1>15. QED
  BY <1>11, <1>12, <1>13, <1>14, Zenon DEF Ordered

-----------------------------------------------------------------------------
(* Receipt.                                                                *)

\* A message that was handled is discarded.
LEMMA ReceiveAgain ==
  ASSUME Base, Ordered, Orderly', NEW m \in net, Receive(m), m \in processed
  PROVE  Ordered'
<1>1. /\ Sent' \subseteq Sent /\ (Discard(m) \/ Process(m))
      /\ UNCHANGED <<entered, stamp, count, done, mutex, seen>>
  BY ReceiveFacts, Zenon
<1>2. ~Process(m)
  BY Zenon DEF Process, Orderly
<1>3. processed' = processed /\ at' = at /\ left' = left
  BY <1>1, <1>2, Zenon DEF Discard
<1>4. QED
  BY <1>1, <1>3, QuietStep, Zenon DEF schedulerVars

\* A peer's request is handled: the peer is one more of the current round,
\* and the receiver has its request to count.
LEMMA ReceiveRequest ==
  ASSUME Base, Ordered, Orderly', NEW m \in net, Receive(m), m \notin processed, m.request
  PROVE  Ordered'
<1>1. /\ m \in Sent /\ Sent' \subseteq Sent /\ Process(m) /\ processed' = processed \cup {m}
      /\ UNCHANGED <<entered, stamp, count, done, mutex, seen>>
  BY ReceiveFacts, Zenon
<1>2. m.from \in Peers /\ m.to = Scheduler
  BY <1>1, Zenon DEF Base, Directed
<1>3. /\ left' = left /\ at' = [at EXCEPT !["receiver"] = "read"] /\ ~IsCounting("main")
  BY <1>1, <1>2, Zenon DEF Process, Orderly
<1>4. at["receiver"] = "idle" /\ at'["receiver"] = "read" /\ at'["main"] = at["main"]
  BY <1>2, <1>3, Zenon DEF Receive, Base, TypeOK, Threads
<1>5. (InRound' <=> InRound) /\ ~IsCounting("main")' /\ IsCounting("receiver")'
  BY <1>1, <1>3, <1>4, Zenon DEF InRound, IsCounting
<1>6. Answered' = Answered
  BY <1>1, <1>5, Zenon DEF Answered
<1>7. /\ m = LastRequest(m.from) /\ left[m.from] = Answered /\ entered[m.from] = Answered + 1
  BY <1>1, Zenon DEF Ordered, Fresh, Waiting
<1>8. \A p : LastRequest(p)' = LastRequest(p)
  BY <1>1, Zenon DEF LastRequest
<1>9. Waiting' \subseteq Waiting
  BY <1>1, Zenon DEF Waiting
<1>10. Fresh'
  BY <1>1, <1>3, <1>6, <1>8, <1>9, Zenon DEF Ordered, Fresh
<1>11. \A p \in Peers : Between(p)'
  BY <1>1, <1>3, <1>6, Zenon DEF Ordered, Between
<1>12. Current' = Current \cup {m.from} /\ m.from \notin Current
  <2>1. m.from \notin Current
    BY <1>7, Zenon DEF Current
  <2>2. m.from \in Current'
    BY <1>1, <1>2, <1>3, <1>6, <1>7, <1>8, Zenon DEF Current
  <2>3. \A p : p # m.from => LastRequest(p) # m
    <3>1. \A p : LastRequest(p).from = p
      BY Zenon DEF LastRequest
    <3>2. QED
      BY <3>1, Zenon
  <2>4. \A p : p # m.from => (p \in Current' <=> p \in Current)
    BY <1>1, <1>3, <1>6, <1>8, <2>3, Zenon DEF Current
  <2>5. \A p : p \in Current' <=> p \in Current \cup {m.from}
    BY <2>1, <2>2, <2>4, Zenon
  <2>6. QED
    BY <2>1, <2>5, Zenon
<1>13. Counting'
  <2>1. count + 0 = Cardinality(Current) + Own /\ Own' = Own /\ Pending' = 1
    BY <1>4, <1>5, Zenon DEF Ordered, Counting, Pending, Own
  <2>2. Cardinality(Current') = Cardinality(Current) + 1
    BY <1>12, Terms, FS_AddElement, Zenon
  <2>3. (Own = 0 \/ Own = 1) /\ count \in Nat
    BY Zenon DEF Own, Base, TypeOK
  <2>4. count' + Pending' = Cardinality(Current') + Own'
    BY <1>1, <2>1, <2>2, <2>3, Terms
  <2>5. \A u \in Threads : at'[u] # "write" /\ at'[u] # "open"
    BY <1>3, <1>4, Zenon DEF Threads, IsCounting
  <2>6. QED
    BY <2>4, <2>5, Zenon DEF Counting
<1>14. ThreadPlaces'
  BY <1>1, <1>3, <1>4, <1>5, Zenon DEF Ordered, ThreadPlaces
<1>15. QED
  BY <1>10, <1>11, <1>13, <1>14, Zenon DEF Ordered

\* A response is handled: its peer leaves the barrier it is in.
LEMMA ReceiveResponse ==
  ASSUME Base, Ordered, NEW m \in net, Receive(m), m \notin processed, ~m.request
  PROVE  Ordered'
<1>1. /\ m \in Sent /\ Sent' \subseteq Sent /\ Process(m) /\ processed' = processed \cup {m}
      /\ UNCHANGED <<entered, stamp, count, done, mutex, seen>>
  BY ReceiveFacts, Zenon
<1>2. m.to \in Peers /\ m.to # Scheduler /\ m.to \in Nodes
  BY <1>1, Ids, Zenon DEF Base, Directed
<1>3. at' = at /\ left' = [left EXCEPT ![m.to] = entered[m.to]]
  BY <1>1, <1>2, Zenon DEF Process
<1>4. left'[m.to] = entered[m.to] /\ \A n \in Nodes : n # m.to => left'[n] = left[n]
  BY <1>2, <1>3, Zenon DEF Base, TypeOK
<1>5. Answered' = Answered /\ ThreadPlaces' /\ (Current' = Current => Counting')
  BY <1>1, <1>2, <1>3, <1>4, Ids, ThreadsFrame, Zenon DEF schedulerVars
<1>6. m \in Waiting
  BY <1>1, Zenon DEF Waiting
<1>7. /\ left[m.to] = Answered - 1
      /\ \A o \in Waiting : ~o.request /\ o.to = m.to => o = m
  BY <1>6, Zenon DEF Ordered, Fresh
<1>8. /\ entered[m.to] = Answered /\ stamp[m.to] = entered[m.to]
      /\ Answered # Answered - 1 /\ Answered # Answered + 1
  <2>1. Answered \in Int
    BY Numbers, Zenon DEF Base
  <2>2. Answered # Answered - 1 /\ Answered # Answered + 1
    BY <2>1
  <2>3. QED
    BY <1>2, <1>7, <2>2, Zenon DEF Ordered, Between
<1>9. \A p : LastRequest(p)' = LastRequest(p)
  BY <1>1, Zenon DEF LastRequest
<1>10. Waiting' \subseteq Waiting \ {m}
  BY <1>1, Zenon DEF Waiting
<1>11. Fresh'
  <2>1. \A o \in Waiting : (o.request => o.from \in Peers) /\ (~o.request => o.to \in Peers)
    BY Zenon DEF Base, Directed, Waiting
  <2>2. ASSUME NEW o \in Waiting', o.request
        PROVE  /\ o = LastRequest(o.from)'
               /\ left'[o.from] = Answered' /\ entered'[o.from] = Answered' + 1
    <3>1. /\ o = LastRequest(o.from) /\ left[o.from] = Answered
          /\ entered[o.from] = Answered + 1 /\ o.from \in Nodes
      BY <1>10, <2>1, <2>2, Ids, Zenon DEF Ordered, Fresh
    <3>2. o.from # m.to
      BY <1>8, <3>1, Zenon
    <3>3. QED
      BY <1>1, <1>4, <1>5, <1>9, <3>1, <3>2, Zenon
  <2>3. ASSUME NEW o \in Waiting', ~o.request
        PROVE  /\ left'[o.to] = Answered' - 1
               /\ \A r \in Waiting' : ~r.request /\ r.to = o.to => r = o
    <3>1. o \in Waiting /\ o # m /\ o.to \in Nodes
      BY <1>10, <2>1, <2>3, Ids, Zenon
    <3>2. /\ left[o.to] = Answered - 1
          /\ \A r \in Waiting : ~r.request /\ r.to = o.to => r = o
      BY <2>3, <3>1, Zenon DEF Ordered, Fresh
    <3>3. o.to # m.to
      BY <1>7, <2>3, <3>1, Zenon
    <3>4. QED
      BY <1>4, <1>5, <1>10, <3>1, <3>2, <3>3, Zenon
  <2>4. QED
    BY <2>2, <2>3, Zenon DEF Fresh
<1>12. ASSUME NEW q \in Peers PROVE Between(q)'
  <2>1. CASE q = m.to
    BY <1>1, <1>4, <1>5, <1>8, <2>1, Zenon DEF Between
  <2>2. CASE q # m.to
    <3>1. entered'[q] = entered[q] /\ stamp'[q] = stamp[q] /\ left'[q] = left[q]
      BY <1>1, <1>4, <2>2, Ids, Zenon
    <3>2. Between(q)
      BY Zenon DEF Ordered
    <3>3. QED
      BY <1>5, <3>1, <3>2, Zenon DEF Between
  <2>3. QED
    BY <2>1, <2>2, Zenon
<1>13. Current' = Current
  <2>1. m.to \notin Current /\ m.to \notin Current'
    BY <1>1, <1>5, <1>8, Zenon DEF Current
  <2>2. \A p : LastRequest(p) # m
    <3>1. \A p : LastRequest(p).request
      BY Zenon DEF LastRequest
    <3>2. QED
      BY <3>1, Zenon
  <2>3. \A p \in Peers : p # m.to => (p \in Current' <=> p \in Current)
    BY <1>1, <1>4, <1>5, <1>9, <2>2, Ids, Zenon DEF Current
  <2>4. \A p : p \in Current \/ p \in Current' => p \in Peers
    BY Zenon DEF Current
  <2>5. \A p : p \in Current' <=> p \in Current
    BY <2>1, <2>3, <2>4, Zenon
  <2>6. QED
    BY <2>5, Zenon
<1>14. QED
  BY <1>5, <1>11, <1>12, <1>13, Zenon DEF Ordered

-----------------------------------------------------------------------------
(* The theorems.                                                           *)

\* What is once repeated, or raced, remains so.
LEMMA OrderlyBefore ==
  ASSUME Next, Orderly'
  PROVE  Orderly
<1> DEFINE Same == repeated' = repeated /\ raced' = raced
<1>1. CASE Same
  BY <1>1 DEF Orderly
<1>2. CASE DoBarrier
  <2>1. repeated' = repeated /\ raced' = (raced \/ IsCounting("receiver"))
    BY <1>2, Zenon DEF DoBarrier, receipts
  <2>2. QED
    BY <2>1, Zenon DEF Orderly
<1>3. ASSUME NEW m \in net, Receive(m) PROVE Orderly
  <2>1. Discard(m) \/ Process(m)
    BY <1>3, Zenon DEF Receive
  <2>2. CASE Discard(m)
    BY <1>1, <2>2, Zenon DEF Discard
  <2>3. CASE Process(m)
    <3>1. repeated = {}
      BY <2>3, Zenon DEF Process, Orderly
    <3>2. raced' = raced \/ raced' = (raced \/ IsCounting("main"))
      BY <2>3, Zenon DEF Process
    <3>3. CASE raced' = raced
      BY <3>1, <3>3 DEF Orderly
    <3>4. CASE raced' = (raced \/ IsCounting("main"))
      BY <3>1, <3>4, Zenon DEF Orderly
    <3>5. QED
      BY <3>2, <3>3, <3>4, Zenon
  <2>4. QED
    BY <2>1, <2>2, <2>3, Zenon
<1>4. (\E p \in Peers : Enter(p)) \/ Wake => Same
  BY Zenon DEF Enter, Wake, history, receipts
<1>5. (\E t \in Threads : \/ ReadCount(t) \/ WriteCount(t) \/ TestCount(t)
                         \/ OpenBarrier(t) \/ Manage(t)) => Same
  BY Zenon DEF ReadCount, WriteCount, TestCount, OpenBarrier, Manage, history, receipts
<1>6. StartResender \/ StopScheduler \/ GoOn => Same
  BY Zenon DEF StartResender, StopScheduler, GoOn, history, receipts
<1>7. (\E m \in net : ReceiveAck(m) \/ Drop(m)) => Same
  BY Zenon DEF ReceiveAck, Drop, history, receipts
<1>8. (\E n \in Nodes : \E m \in send_buff_[n] : Resend(n, m)) => Same
  BY Zenon DEF Resend, receipts
<1> HIDE DEF Same
<1>9. QED
  BY <1>1, <1>2, <1>3, <1>4, <1>5, <1>6, <1>7, <1>8, Zenon DEF Next

LEMMA OrderedStep ==
  ASSUME Base, Ordered, Orderly', Next
  PROVE  Ordered'
<1>1. ASSUME \/ StartResender \/ StopScheduler \/ GoOn
             \/ \E m \in net : ReceiveAck(m) \/ Drop(m)
             \/ \E n \in Nodes : \E m \in send_buff_[n] : Resend(n, m)
      PROVE  Ordered'
  <2>1. Sent' \subseteq Sent /\ UNCHANGED <<entered, left, stamp, schedulerVars, receipts>>
    BY <1>1, QuietSteps, Zenon DEF Base
  <2>2. QED
    BY <2>1, QuietStep, Zenon DEF receipts
<1>2. ASSUME NEW m \in net, Receive(m) PROVE Ordered'
  BY <1>2, ReceiveAgain, ReceiveRequest, ReceiveResponse, Zenon
<1>3. QED
  BY <1>1, <1>2, EnterStep, DoBarrierStep, WakeStep, ReadCountStep, WriteCountStep,
     TestCountStep, OpenStep, ManageStep, Zenon DEF Next

LEMMA InvNext ==
  ASSUME Inv, [Next]_vars
  PROVE  Inv'
<1>1. Base /\ Base'
  BY BaseStep, Zenon DEF Inv
<1>2. ASSUME Orderly' PROVE Ordered'
  <2>1. CASE UNCHANGED vars
    <3>1. Orderly
      BY <1>2, <2>1, Zenon DEF Orderly, vars, history, receipts
    <3>2. Sent' \subseteq Sent
      BY <2>1, Zenon DEF vars, Sent
    <3>3. QED
      BY <1>1, <2>1, <3>1, <3>2, QuietStep, Zenon DEF Inv, vars, history, receipts
  <2>2. CASE Next
    BY <1>1, <1>2, <2>2, OrderlyBefore, OrderedStep, Zenon DEF Inv
  <2>3. QED
    BY <2>1, <2>2, Zenon
<1>3. QED
  BY <1>1, <1>2, Zenon DEF Inv

\* The invariant holds of every behaviour, whichever node comes to a barrier
\* first or last and whenever the scheduler's van makes its Resender.
THEOREM BarrierInvariant == Spec => []Inv
<1>1. Inv /\ [Next]_vars => Inv'
  BY InvNext, Zenon
<1>2. QED
  BY <1>1, InitInv, PTL DEF Spec

\* For any number of peers, losses and repetitions: none is discarded
\* unhandled, and none is handled twice that did not reach the scheduler
\* before it had a Resender (Resender::AddIncomming, Van::Start).
THEOREM EveryMessageOnce == Spec => []ExactlyOnce
<1>1. Inv => ExactlyOnce
  BY Zenon DEF Inv, Base
<1>2. QED
  BY <1>1, BarrierInvariant, PTL

\* No node leaves a barrier that another has not entered, although requests
\* and responses are lost and repeated and the scheduler's two threads count
\* without a lock, as long as they do not count at the same time and no
\* request is handled twice (ProcessInstanceBarrierCommand).
THEOREM BarrierHolds == Spec => []BarrierSeparates
<1>1. ASSUME Inv PROVE BarrierSeparates
  <2> SUFFICES ASSUME Orderly PROVE \A m, n \in Nodes : left[n] <= entered[m]
    BY Zenon DEF BarrierSeparates, Orderly
  <2>1. TypeOK /\ Ordered
    BY <1>1, Zenon DEF Inv, Base
  <2>2. Answered \in Int /\ \A n \in Nodes : entered[n] \in Nat /\ left[n] \in Nat
    BY <2>1, Numbers, Zenon
  <2>3. \A p \in Peers : left[p] <= Answered /\ Answered <= entered[p]
    BY <2>1, <2>2, Ids DEF Ordered, Between
  <2>4. left[Scheduler] <= Answered /\ Answered <= entered[Scheduler]
    <3>1. at["main"] = "out" => ~InRound
      BY Zenon DEF InRound, IsCounting
    <3>2. entered[Scheduler] = IF at["main"] = "out" THEN left[Scheduler] ELSE left[Scheduler] + 1
      BY <2>1, Zenon DEF Ordered, ThreadPlaces
    <3>3. entered[Scheduler] \in Nat /\ left[Scheduler] \in Nat
      BY <2>2, Ids, Zenon
    <3>4. QED
      BY <3>1, <3>2, <3>3 DEF Answered
  <2>5. \A n \in Nodes : left[n] <= Answered /\ Answered <= entered[n]
    BY <2>3, <2>4, Ids, Zenon
  <2>6. QED
    BY <2>2, <2>5
<1>2. QED
  BY <1>1, BarrierInvariant, PTL
====
