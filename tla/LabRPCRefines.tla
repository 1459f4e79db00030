------------------------------ MODULE LabRPCRefines -----------------------------
(* The simulated network implements the contract of RemoteCall.            *)
EXTENDS LabRPC

\* What the caller has of a call in state c.
Result(c) ==
  CASE c.pc = "idle" -> "none"
    [] c.pc = "returned" -> (IF c.ok THEN "ok" ELSE "failed")
    [] OTHER -> "pending"

Contract == INSTANCE RemoteCall WITH
  result    <- [k \in Calls |-> Result(call[k])],
  execution <- handler

\* Whoever rearranges the network meanwhile, a call is executed at most once,
\* never begins to be executed after Call() has returned, and has been executed
\* to its end when Call() returns true (labrpc.go:29-30, 218-309).
ImplementsContract == Contract!ContractSpec
====
