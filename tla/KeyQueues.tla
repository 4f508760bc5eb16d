------------------------------- MODULE KeyQueues -------------------------------
(***************************************************************************)
(* What the server's engine promises about the messages of each key: they  *)
(* are executed one at a time, in the order the handler issued them.  This *)
(* is the engine that BytePSServer assumes.                                *)
(***************************************************************************)
EXTENDS Sequences

CONSTANTS Keys, Ops

VARIABLES
  engine_queue,   \* operations on key k not yet started
  engine          \* the operation on key k being executed, or "NONE"

vars == <<engine_queue, engine>>

Init ==
  /\ engine_queue = [k \in Keys |-> <<>>]
  /\ engine = [k \in Keys |-> "NONE"]

Put(k, op) ==
  /\ engine_queue' = [engine_queue EXCEPT ![k] = Append(@, op)]
  /\ UNCHANGED engine

Start(k) ==
  /\ engine[k] = "NONE"
  /\ engine_queue[k] # <<>>
  /\ engine' = [engine EXCEPT ![k] = Head(engine_queue[k])]
  /\ engine_queue' = [engine_queue EXCEPT ![k] = Tail(@)]

Finish(k) ==
  /\ engine[k] # "NONE"
  /\ engine' = [engine EXCEPT ![k] = "NONE"]
  /\ UNCHANGED engine_queue

Next == \E k \in Keys : (\E op \in Ops : Put(k, op)) \/ Start(k) \/ Finish(k)

Spec == Init /\ [][Next]_vars
=============================================================================
