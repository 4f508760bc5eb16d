------------------------------ MODULE Postoffice ------------------------------
(***************************************************************************)
(* The barrier of ps-lite's Postoffice, and the retransmission (PS_RESEND) *)
(* that carries its messages over a network that loses and delays them.    *)
(*                                                                         *)
(* A node that calls DoBarrier sends a request to the scheduler and waits  *)
(* for barrier_done_; the scheduler's van counts the requests and, at the  *)
(* last one, answers every node.  The scheduler takes part itself: its     *)
(* main thread holds barrier_mu_ and calls Van::Send, which runs           *)
(* ProcessInstanceBarrierCommand in that same thread, while the requests   *)
(* of the others are counted by the van's receiver thread.  Nothing guards *)
(* the count, and nothing makes the scheduler come first or last.          *)
(*                                                                         *)
(* A van with a Resender keeps what it sends until it is acknowledged and  *)
(* sends it again on a timeout; on receipt it acknowledges, and discards   *)
(* what it has seen before.  Van::Start makes the Resender after the       *)
(* receiver thread has started: for a peer that is before its first        *)
(* request, for the scheduler it may be after others' requests have come.  *)
(***************************************************************************)
EXTENDS Integers, FiniteSets

CONSTANTS
    Peers,          \* ids of the workers and servers
    Barriers,       \* how many barriers every node goes through
    MaxFaults       \* bound: messages lost, and timeouts of messages whose
                    \* acknowledgement is on its way or was never sent

ASSUME PostofficeAssumption ==
    /\ IsFiniteSet(Peers) /\ Peers /= {} /\ Peers \subseteq 2..255
    /\ Barriers \in Nat /\ MaxFaults \in Nat

Scheduler == 1
Threads == {"main", "receiver"} \* of the scheduler
Nodes == Peers \cup {Scheduler}

VARIABLES
    entered, left,   \* the barriers each node has entered and left
    net,        \* messages and acknowledgements on the way
    send_buff_, \* send_buff_[n]: what n has sent and is not acknowledged
    acked_,     \* acked_[n]: the keys n has received
    stamp,      \* stamp[n]: timestamp_ of n's van
    van,        \* the scheduler's van: "starting" (no Resender yet), "up",
                \* "stopped", or "kept" up after the last barrier
    count,      \* barrier_count_[group] at the scheduler
    done,       \* barrier_done_ of the scheduler
    mutex,      \* the holder of the scheduler's barrier_mu_
    at, seen,   \* where the scheduler's two threads are, and the count each has read
    processed,  \* the messages given to their handlers,
    repeated,   \* and those given to them again
    unhandled,  \* the messages discarded without having been given to one
    missed,     \* the requests that came before the scheduler had a Resender
    raced,      \* whether the scheduler's threads were ever counting at once
    faults

schedulerVars == <<count, done, mutex, at, seen>>
receipts == <<processed, repeated, unhandled, missed>>
history == <<receipts, raced, faults>>
vars == <<entered, left, net, send_buff_, acked_, stamp, van, schedulerVars, history>>

Init ==
    /\ entered = [n \in Nodes |-> 0]
    /\ left = [n \in Nodes |-> 0]
    /\ net = {}
    /\ send_buff_ = [n \in Nodes |-> {}]
    /\ acked_ = [n \in Nodes |-> {}]
    /\ stamp = [n \in Nodes |-> 0]
    /\ van = "starting"
    /\ count = 0
    /\ done = FALSE
    /\ mutex = "free"
    /\ at = [t \in Threads |-> IF t = "main" THEN "out" ELSE "idle"]
    /\ seen = [t \in Threads |-> 0]
    /\ processed = {}
    /\ repeated = {}
    /\ unhandled = {}
    /\ missed = {}
    /\ raced = FALSE
    /\ faults = 0

KeyWithoutStamp(m) == <<m.from % 256, m.to % 256, m.request>>
KeyWithoutSender(m) == <<m.to % 256, m.stamp, m.request>>

(* Resender::GetKey: sender and receiver as uint8_t.                       *)
GetKey(m) == <<m.from % 256, m.to % 256, m.stamp, m.request>>

Ack(m) == [ack |-> GetKey(m), from |-> m.to, to |-> m.from]
IsAck(m) == "ack" \in DOMAIN m
HasResender(n) == n = Scheduler => van \in {"up", "kept"}

(* The scheduler's thread t is between the start of                        *)
(* ProcessInstanceBarrierCommand and the reset of the count.               *)
IsCounting(t) == at[t] \in {"read", "write", "test", "open"}

-----------------------------------------------------------------------------
(* DoBarrier of a peer.                                                    *)
Enter(p) ==
    /\ entered[p] = left[p] /\ entered[p] < Barriers
    /\ LET m == [from |-> p, to |-> Scheduler, stamp |-> stamp[p], request |-> TRUE]
       IN /\ net' = net \cup {m}
          /\ send_buff_' = [send_buff_ EXCEPT ![p] = @ \cup {m}]
    /\ stamp' = [stamp EXCEPT ![p] = @ + 1]
    /\ entered' = [entered EXCEPT ![p] = @ + 1]
    /\ UNCHANGED <<left, acked_, van, schedulerVars, history>>

(* DoBarrier of the scheduler, in its main thread, holds barrier_mu_ until *)
(* it waits.                                                               *)
DoBarrier ==
    /\ van = "up" /\ at["main"] = "out" /\ left[Scheduler] < Barriers
    /\ mutex = "free"
    /\ mutex' = "main"
    /\ done' = FALSE
    /\ entered' = [entered EXCEPT ![Scheduler] = @ + 1]
    /\ at' = [at EXCEPT !["main"] = "read"]
    /\ raced' = (raced \/ IsCounting("receiver"))
    /\ UNCHANGED <<left, net, send_buff_, acked_, stamp, van, count, seen,
                   receipts, faults>>

Wake ==
    /\ at["main"] = "wait" /\ done /\ mutex = "free"
    /\ left' = [left EXCEPT ![Scheduler] = entered[Scheduler]]
    /\ at' = [at EXCEPT !["main"] = "out"]
    /\ UNCHANGED <<entered, net, send_buff_, acked_, stamp, van, count, done,
                   mutex, seen, history>>

-----------------------------------------------------------------------------
(* ProcessInstanceBarrierCommand in thread t: ++barrier_count_[group], a   *)
(* read and a write, then the comparison, which reads the count again, and *)
(* at the last request the reset and the responses, the scheduler's last.  *)

ExpectedPeers == Cardinality(Peers)
Expected == Cardinality(Nodes)

ReadCount(t) ==
    /\ at[t] = "read"
    /\ seen' = [seen EXCEPT ![t] = count]
    /\ at' = [at EXCEPT ![t] = "write"]
    /\ UNCHANGED <<entered, left, net, send_buff_, acked_, stamp, van, count, done,
                   mutex, history>>

WriteCount(t) ==
    /\ at[t] = "write"
    /\ count' = seen[t] + 1
    /\ seen' = [seen EXCEPT ![t] = 0]
    /\ at' = [at EXCEPT ![t] = "test"]
    /\ UNCHANGED <<entered, left, net, send_buff_, acked_, stamp, van, done, mutex,
                   history>>

(* When the request was not the last the thread returns: the receiver to   *)
(* its loop, the main thread to wait on the condition, freeing the mutex.  *)
TestCount(t) ==
    /\ at[t] = "test"
    /\ at' = [at EXCEPT ![t] = IF count = Expected THEN "open"
                               ELSE IF t = "main" THEN "wait" ELSE "idle"]
    /\ mutex' = IF count /= Expected /\ t = "main" THEN "free" ELSE mutex
    /\ UNCHANGED <<entered, left, net, send_buff_, acked_, stamp, van, count, done,
                   seen, history>>

(* One response to each peer, stamped in turn.                             *)
Order(p) == Cardinality({q \in Peers : q < p})
Responses == {[from |-> Scheduler, to |-> p, stamp |-> stamp[Scheduler] + Order(p),
               request |-> FALSE] : p \in Peers}

OpenBarrier(t) ==
    /\ at[t] = "open"
    /\ count' = 0
    /\ at' = [at EXCEPT ![t] = "manage"]
    /\ net' = net \cup Responses
    /\ send_buff_' = [send_buff_ EXCEPT ![Scheduler] = @ \cup Responses]
    /\ stamp' = [stamp EXCEPT ![Scheduler] = @ + Cardinality(Peers)]
    /\ UNCHANGED <<entered, left, acked_, van, done, mutex, seen, history>>

(* Postoffice::Manage takes barrier_mu_, which is not recursive.           *)
Manage(t) ==
    /\ at[t] = "manage" /\ mutex = "free"
    /\ done' = TRUE
    /\ at' = [at EXCEPT ![t] = IF t = "main" THEN "wait" ELSE "idle"]
    /\ UNCHANGED <<entered, left, net, send_buff_, acked_, stamp, van, count,
                   mutex, seen, history>>

-----------------------------------------------------------------------------
(* The vans and their Resenders.                                           *)

StartResender ==
    /\ van = "starting"
    /\ van' = "up"
    /\ UNCHANGED <<entered, left, net, send_buff_, acked_, stamp, schedulerVars, history>>

(* A handler is given a message: the scheduler's receiver goes on to count *)
(* a request, a peer's Manage ends its barrier.                            *)
Process(m) ==
    /\ processed' = processed \cup {m}
    /\ repeated' = IF m \in processed THEN repeated \cup {m} ELSE repeated
    /\ IF m.to = Scheduler
       THEN /\ at' = [at EXCEPT !["receiver"] = "read"]
            /\ raced' = (raced \/ IsCounting("main"))
            /\ UNCHANGED left
       ELSE /\ left' = [left EXCEPT ![m.to] = entered[m.to]]
            /\ UNCHANGED <<at, raced>>
    /\ UNCHANGED unhandled

Duplicated(m) == GetKey(m) \in acked_[m.to]

Discard(m) ==
    /\ unhandled' = IF m \in processed THEN unhandled ELSE unhandled \cup {m}
    /\ UNCHANGED <<processed, repeated, raced, at, left>>

(* Van::Receiving, with Resender::AddIncomming where there is a Resender.  *)
Receive(m) ==
    /\ m \in net /\ ~IsAck(m)
    /\ m.to = Scheduler => van /= "stopped" /\ at["receiver"] = "idle"
    /\ IF HasResender(m.to)
       THEN /\ acked_' = [acked_ EXCEPT ![m.to] = @ \cup {GetKey(m)}]
            /\ net' = (net \ {m}) \cup {Ack(m)}
            /\ IF Duplicated(m) THEN Discard(m) ELSE Process(m)
            /\ UNCHANGED missed
       ELSE /\ net' = net \ {m}
            /\ Process(m)
            /\ missed' = missed \cup {m}
            /\ UNCHANGED acked_
    /\ UNCHANGED <<entered, send_buff_, stamp, van, count, done, mutex, seen, faults>>

ReceiveAck(m) ==
    /\ m \in net /\ IsAck(m)
    /\ net' = net \ {m}
    /\ send_buff_' = [send_buff_ EXCEPT ![m.to] = {b \in @ : GetKey(b) /= m.ack}]
    /\ UNCHANGED <<entered, left, acked_, stamp, van, schedulerVars, history>>

(* Resender::Monitoring: a timeout, because the message or its             *)
(* acknowledgement was lost, or it is slow, or none was sent; the last two *)
(* count as faults.                                                        *)
Resend(n, m) ==
    /\ m \in send_buff_[n] /\ m \notin net
    /\ HasResender(n)
    /\ m.to = Scheduler => van /= "stopped"
    /\ IF Ack(m) \in net \/ m \in missed
       THEN faults < MaxFaults /\ faults' = faults + 1
       ELSE UNCHANGED faults
    /\ net' = net \cup {m}
    /\ UNCHANGED <<entered, left, send_buff_, acked_, stamp, van, schedulerVars,
                   receipts, raced>>

Drop(m) ==
    /\ m \in net /\ faults < MaxFaults
    /\ net' = net \ {m}
    /\ faults' = faults + 1
    /\ UNCHANGED <<entered, left, send_buff_, acked_, stamp, van, schedulerVars,
                   receipts, raced>>

(* Van::Stop joins the receiver and deletes the Resender; ZMQVan::Stop     *)
(* closes its sockets without lingering, so any of what it has yet to      *)
(* transmit is discarded.                                                  *)
StopScheduler ==
    /\ van = "up" /\ left[Scheduler] = Barriers /\ at["receiver"] = "idle"
    /\ van' = "stopped"
    /\ send_buff_' = [send_buff_ EXCEPT ![Scheduler] = {}]
    /\ \E X \in SUBSET {m \in net : m.from = Scheduler} : net' = net \ X
    /\ UNCHANGED <<entered, left, acked_, stamp, schedulerVars, history>>

(* The last barrier considered was not the one of Finalize.                *)
GoOn ==
    /\ van = "up" /\ left[Scheduler] = Barriers
    /\ van' = "kept"
    /\ UNCHANGED <<entered, left, net, send_buff_, acked_, stamp, schedulerVars, history>>

-----------------------------------------------------------------------------
Next ==
    \/ \E p \in Peers : Enter(p)
    \/ DoBarrier \/ Wake
    \/ \E t \in Threads : ReadCount(t) \/ WriteCount(t) \/ TestCount(t) \/ OpenBarrier(t) \/ Manage(t)
    \/ StartResender \/ StopScheduler \/ GoOn
    \/ \E m \in net : ReceiveAck(m) \/ Receive(m) \/ Drop(m)
    \/ \E n \in Nodes : \E m \in send_buff_[n] : Resend(n, m)

(* With the losses and those timeouts bounded every behaviour is finite:   *)
(* it is enough that the nodes, the network and the timers do not stop.    *)
Spec == Init /\ [][Next]_vars /\ WF_vars(Next)

-----------------------------------------------------------------------------
(* Whatever is lost or sent again, a receiver discards no message it has   *)
(* not handled, and handles none twice but those that reached the          *)
(* scheduler before its van made the Resender.                             *)
ExactlyOnce == unhandled = {} /\ repeated \subseteq missed

(* No node leaves a barrier before every node has entered it, although the *)
(* requests and responses are lost, repeated and counted by two threads in *)
(* any order: as long as no request was handled twice and the two threads  *)
(* were never counting at the same time.                                   *)
BarrierSeparates ==
    repeated = {} /\ ~raced => \A m, n \in Nodes : left[n] <= entered[m]

(* No request was handled twice, and the threads never counted at once.    *)
Orderly == repeated = {} /\ ~raced

(* The scheduler's main thread needs the mutex it holds: its own request   *)
(* was the last.                                                           *)
SelfLocked == at["main"] = "manage" /\ mutex = "main"

(* Every node gets through every barrier; when the scheduler stops after   *)
(* the last one without lingering, through every one but the last.  Three  *)
(* things alone prevent it: a request handled twice, an increment of the   *)
(* count while the other thread counts, and a scheduler locked out by its  *)
(* own mutex.                                                              *)
BarriersPass ==
    <>(\/ \A n \in Nodes : left[n] >= IF van = "stopped" THEN Barriers - 1 ELSE Barriers
       \/ repeated /= {} \/ raced \/ SelfLocked)
====
