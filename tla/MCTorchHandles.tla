--------------------------- MODULE MCTorchHandles ---------------------------
(* Instances of TorchHandles for TLC. *)
EXTENDS TorchHandles, TLC

CONSTANTS w1, w2

(* Two workers; the second one's gradients become ready in another order.  *)
TwoOrders == (w1 :> <<1, 2, 3, 4>>) @@ (w2 :> <<2, 1, 3, 4>>)
TwoNames == <<"a", "b", "a", "b">>

ASSUME ThisProgramIsOrdered == Ordered
====
