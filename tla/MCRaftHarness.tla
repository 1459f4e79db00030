----------------------------- MODULE MCRaftHarness ------------------------------
(* Instances of RaftHarness for TLC.                                       *)
EXTENDS RaftHarness, TLC

CONSTANTS v1, v2

AllKinds  == [snapshot : BOOLEAN, sound : BOOLEAN]
\* OneIsAgreed says nothing of an unsound Raft with snapshots.
Answered  == {k \in AllKinds : k.snapshot => k.sound}
SnapKinds == [snapshot : {TRUE}, sound : {TRUE}]
\* One command is enough for gaps, and no two servers are compared in such a test.
Commands  == [k \in AllKinds |-> IF k \in Answered THEN Values ELSE {v1}]
\* Where only v1 occurs the permutation maps no reachable state to another.
Symmetry  == Permutations({v1, v2})
====
