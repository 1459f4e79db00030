----------------------------- MODULE MCCrashRestart ----------------------------
(* Instances of CrashRestart for TLC.                                      *)
EXTENDS CrashRestart, TLC

CONSTANTS server, peer, clerk, k1, k2

Instances == 1 .. MaxInstances
Symmetry  == Permutations({k1, k2})
====
