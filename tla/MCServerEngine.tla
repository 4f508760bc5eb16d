---------------------------- MODULE MCServerEngine ----------------------------
(***************************************************************************)
(* Small instances of ServerEngine.                                        *)
(***************************************************************************)
EXTENDS ServerEngine

\* Three tensors, one of them as large as the other two together; one of the
\* small ones goes through two rounds.
ThreeKeys == {0, 1, 2}
ThreeSizes == [k \in ThreeKeys |-> IF k = 1 THEN 4 ELSE 2]
ThreeRounds == [k \in ThreeKeys |-> IF k = 0 THEN 2 ELSE 1]
=============================================================================
