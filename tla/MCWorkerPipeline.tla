-------------------------- MODULE MCWorkerPipeline --------------------------
(* Instances of WorkerPipeline for TLC. *)
EXTENDS WorkerPipeline

Machine(local, pcie, tensors, group, credit, rounds) ==
    [local_size |-> local, pcie_size |-> pcie, tensor_of |-> tensors,
     group_size |-> group, credit |-> credit, rounds |-> rounds]

(* Two GPUs on one switch, two tensors, two rounds, credit for one.        *)
SwitchMachine == Machine(2, 2, <<1, 2>>, 2, 1, 2)

(* Three GPUs on one switch, one tensor of two partitions.                 *)
PartsMachine == Machine(3, 3, <<1, 1>>, 1, 2, 1)

(* Two switches of two GPUs, one round.                                    *)
CrossMachine == Machine(4, 2, <<1>>, 1, 0, 1)

(* The same with two rounds.                                               *)
TwoRoundsMachine == Machine(4, 2, <<1>>, 1, 0, 2)

AllMachines == {SwitchMachine, PartsMachine, CrossMachine}
TwoRoundsMachines == {TwoRoundsMachine}
====
