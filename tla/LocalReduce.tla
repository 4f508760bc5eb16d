---------------------------- MODULE LocalReduce ----------------------------
(***************************************************************************)
(* What the worker processes of one machine promise together: towards the  *)
(* parameter servers they are one worker.  Each process enters a round of  *)
(* a partition when its program enqueues the tensor; the machine pushes    *)
(* the partition once, when all have entered; it pulls what it pushed; and *)
(* a process leaves the round after the pull.                              *)
(***************************************************************************)
EXTENDS Integers

VARIABLES ranks,    \* the processes of the machine, the same throughout
          keys,     \* the partitions, the same throughout
          entered,  \* entered[r][k]: rounds of k process r has entered
          left,     \* left[r][k]: rounds it has left
          pushes,   \* pushes[k]: rounds pushed
          pulls     \* pulls[k]: rounds pulled

members == <<ranks, keys>>
lrvars == <<members, entered, left, pushes, pulls>>

Init ==
    /\ entered = [r \in ranks |-> [k \in keys |-> 0]]
    /\ left = entered
    /\ pushes = [k \in keys |-> 0]
    /\ pulls = pushes

Raise(f, ks) == [k \in keys |-> IF k \in ks THEN f[k] + 1 ELSE f[k]]

Enter(r, ks) ==
    /\ \A k \in ks : entered[r][k] = left[r][k]
    /\ entered' = [entered EXCEPT ![r] = Raise(@, ks)]
    /\ UNCHANGED <<members, left, pushes, pulls>>

Push(k) ==
    /\ \A r \in ranks : entered[r][k] = pushes[k] + 1
    /\ pushes' = [pushes EXCEPT ![k] = @ + 1]
    /\ UNCHANGED <<members, entered, left, pulls>>

Pull(k) ==
    /\ pulls[k] < pushes[k]
    /\ pulls' = [pulls EXCEPT ![k] = @ + 1]
    /\ UNCHANGED <<members, entered, left, pushes>>

Leave(r, ks) ==
    /\ \A k \in ks : left[r][k] < entered[r][k] /\ pulls[k] = entered[r][k]
    /\ left' = [left EXCEPT ![r] = Raise(@, ks)]
    /\ UNCHANGED <<members, entered, pushes, pulls>>

Next ==
    \/ \E r \in ranks, ks \in SUBSET keys : Enter(r, ks) \/ Leave(r, ks)
    \/ \E k \in keys : Push(k) \/ Pull(k)

Spec == Init /\ [][Next]_lrvars
====
