------------------------------ MODULE MCMapReduce ------------------------------
(* Instances of MapReduce for TLC.                                         *)
EXTENDS MapReduce, TLC

CONSTANTS w1, w2

\* A patient job asks again only for what a crash lost; one more request than
\* the tasks a crash can lose never lets it run out of them.
RedoBound == [p \in BOOLEAN |-> IF p THEN 3 ELSE 1]

\* Crashes for the patient job, executions that overlap for the other.
CrashBound == [p \in BOOLEAN |-> IF p THEN 1 ELSE 0]

Symmetry == Permutations({w1, w2})
====
