------------------------------- MODULE RemoteCall -------------------------------
(***************************************************************************)
(* What ClientEnd.Call() of src/labrpc/labrpc.go promises its caller, with *)
(* the network left out: a call is executed at most once, it begins to be  *)
(* executed only while the caller waits, and true means that the execution *)
(* is over.  False means nothing: the execution may not have begun, may    *)
(* still be going on, or may be over.                                      *)
(***************************************************************************)
CONSTANT Calls

VARIABLES
  result,        \* what the caller has: "none", "pending", "ok" or "failed"
  execution      \* the handler: "idle", "running" or "returned"

contractVars == <<result, execution>>

Invoke(k) ==
  /\ result[k] = "none"
  /\ \E r \in {"pending", "failed"} : result' = [result EXCEPT ![k] = r]
  /\ UNCHANGED execution

Execute(k) ==
  /\ result[k] = "pending" /\ execution[k] = "idle"
  /\ execution' = [execution EXCEPT ![k] = "running"]
  /\ UNCHANGED result

Complete(k) ==
  /\ execution[k] = "running"
  /\ execution' = [execution EXCEPT ![k] = "returned"]
  /\ UNCHANGED result

Succeed(k) ==
  /\ result[k] = "pending" /\ execution[k] = "returned"
  /\ result' = [result EXCEPT ![k] = "ok"]
  /\ UNCHANGED execution

Fail(k) ==
  /\ result[k] = "pending"
  /\ result' = [result EXCEPT ![k] = "failed"]
  /\ UNCHANGED execution

ContractInit ==
  /\ result = [k \in Calls |-> "none"]
  /\ execution = [k \in Calls |-> "idle"]

ContractNext ==
  \E k \in Calls : Invoke(k) \/ Execute(k) \/ Complete(k) \/ Succeed(k) \/ Fail(k)

ContractSpec == ContractInit /\ [][ContractNext]_contractVars
====
