---------------------------- MODULE MCBytePSServer ----------------------------
(***************************************************************************)
(* Small instances of BytePSServer.                                        *)
(***************************************************************************)
EXTENDS BytePSServer

CONSTANTS w1, w2, w3

TwoWorkers == {w1, w2}
ThreeWorkers == {w1, w2, w3}

\* One key, used by everybody.
OneKey == {0}
OneKeyGroup == [k \in OneKey |-> Workers]

\* Two keys of the same group.
TwoKeys == {0, 1}
TwoKeyGroup == [k \in TwoKeys |-> Workers]

\* Two keys of everybody and one of a subgroup.
ThreeKeys == {0, 1, 2}
SubGroup == [k \in ThreeKeys |-> IF k = 1 THEN {w1, w2} ELSE Workers]
=============================================================================
