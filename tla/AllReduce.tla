------------------------------- MODULE AllReduce -------------------------------
(***************************************************************************)
(* What push_pull promises its callers (byteps/byteps/torch/ops.py): the   *)
(* workers of a key's group call it in rounds, a call returns only after   *)
(* everybody in the group has made the call of the same round, and what it *)
(* returns is the sum of the tensors passed in that round.                 *)
(***************************************************************************)
EXTENDS Naturals

CONSTANTS Workers, Keys, Group

VARIABLES
  called,     \* called[k][w]: calls on k that w has made
  returned,   \* returned[k][w]: how many of them have returned
  value       \* value[k][w]: what the last of those returned

vars == <<called, returned, value>>

\* The tensors passed in round r of key k.
Inputs(k, r) == {<<w, r>> : w \in Group[k]}

Init ==
  /\ called = [k \in Keys |-> [w \in Workers |-> 0]]
  /\ returned = [k \in Keys |-> [w \in Workers |-> 0]]
  /\ value = [k \in Keys |-> [w \in Workers |-> {}]]

Call(w, k) ==
  /\ called[k][w] = returned[k][w]
  /\ called' = [called EXCEPT ![k][w] = @ + 1]
  /\ UNCHANGED <<returned, value>>

Return(w, k) ==
  /\ returned[k][w] < called[k][w]
  /\ \A v \in Group[k] : called[k][v] >= called[k][w]
  /\ returned' = [returned EXCEPT ![k][w] = called[k][w]]
  /\ value' = [value EXCEPT ![k][w] = Inputs(k, called[k][w])]
  /\ UNCHANGED called

Next == \E k \in Keys : \E w \in Group[k] : Call(w, k) \/ Return(w, k)

\* A call returns once the whole group has made it.
Fairness == \A k \in Keys : \A w \in Group[k] : WF_vars(Return(w, k))

Spec == Init /\ [][Next]_vars

FairSpec == Spec /\ Fairness
=============================================================================
