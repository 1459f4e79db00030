-------------------------------- MODULE MCLabRPC -------------------------------
(* Instances for TLC of the two packages under every call: LabRPC with two *)
(* calls over one end and two servers that take turns under one name, and  *)
(* LabGob with two goroutines.  The packages share no state, so each       *)
(* behaviour is one of the network or one of the checks.                   *)
EXTENDS LabRPCRefines, LabGob

CONSTANTS e1, n1, o1, o2, k1, k2, g1, g2

\* The types of labgob's TestCapital, and a list: type DD { X int; Next *DD }.
GobTypes == {"[]map", "map", "*T4", "T4", "int", "*DD", "DD"}
GobSent  == {"[]map", "*T4", "*DD", "DD"}
Elem(t)  == [lower |-> FALSE, type |-> t]
GobParts == [t \in GobTypes |->
  CASE t = "[]map" -> <<Elem("map")>>
    [] t = "map"   -> <<Elem("int"), Elem("*T4")>>
    [] t = "*T4"   -> <<Elem("T4")>>
    [] t = "T4"    -> <<Elem("int"), [lower |-> TRUE, type |-> "int"]>>
    [] t = "*DD"   -> <<Elem("DD")>>
    [] t = "DD"    -> <<Elem("int"), Elem("*DD")>>
    [] OTHER       -> <<>>]

\* &DD{X: x} and &DD{X: x, Next: &DD{X: y}}, with x, y zero or not.
DD(zero, next) ==
  [kind |-> "ptr", elem |-> <<
    [kind |-> "struct", fields |-> <<[kind |-> "basic", zero |-> zero], next>>]>>]
NilDD      == [kind |-> "ptr", elem |-> <<>>]
GobTargets ==
  {[type |-> "*DD", value |-> v] : v \in {DD(FALSE, NilDD), DD(TRUE, DD(FALSE, NilDD))}}

VARIABLE part    \* what this behaviour is one of

Init == MakeNetwork /\ GobInit /\ part \in {"network", "checks"}

Next ==
  \/ part = "network" /\ RPCNext /\ UNCHANGED <<part, gobVars>>
  \/ part = "checks" /\ GobNext /\ UNCHANGED <<part, rpcVars>>

Spec == Init /\ [][Next]_<<part, rpcVars, gobVars>> /\ RPCFairness /\ GobFairness
====
