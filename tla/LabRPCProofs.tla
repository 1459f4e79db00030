------------------------------ MODULE LabRPCProofs -----------------------------
(***************************************************************************)
(* Proofs about LabRPC, for any ends, names, servers and calls, and about  *)
(* CrashRestart, which runs on it, for any number of restarts.             *)
(***************************************************************************)
EXTENDS LabRPCRefines, CrashRestart, TLAPS

\* Zenon is quicker on most steps; what needs arithmetic is left to the solver.
USE ZenonT(10), SMTT(20)

CallRecord == [pc : {"idle", "queued", "accepted", "refused", "waiting",
                     "checking", "answered", "returned"},
               end : Ends \cup {Nil}, name : Names \cup {Nil},
               server : Objects \cup {Nil},
               reliable : BOOLEAN, replyOK : BOOLEAN, ok : BOOLEAN]

\* A call in state c with its handler in state h: before the dispatch no
\* handler runs and nothing is decided, and a reply is seen, answered or
\* delivered only after the handler returned.
Fine(c, h) ==
  /\ c \in CallRecord /\ h \in {"idle", "running", "returned"}
  /\ c.pc \in {"accepted", "waiting", "checking", "answered"} => c.name # Nil /\ c.server # Nil
  /\ c.pc = "queued" => c.end \in Ends
  /\ c.pc \in {"idle", "queued", "accepted", "refused"} => h = "idle" /\ ~c.replyOK /\ ~c.ok
  /\ c.replyOK \/ c.ok \/ c.pc = "answered" => h = "returned"

NetFine ==
  /\ reliable \in BOOLEAN /\ done \in BOOLEAN
  /\ ends \subseteq Ends /\ enabled \subseteq Ends
  /\ connections \in [Ends -> Names \cup {Nil}]
  /\ servers \in [Names -> Objects \cup {Nil}]

CallsFine ==
  /\ call \in [Calls -> CallRecord] /\ handler \in [Calls -> {"idle", "running", "returned"}]
  /\ \A k \in Calls : Fine(call[k], handler[k])

RPCIndInv == NetFine /\ CallsFine

\* The network as MakeNetwork leaves it (labrpc.go:140-165).
LEMMA MakeNetworkFine == MakeNetwork => RPCIndInv
<1> SUFFICES ASSUME MakeNetwork PROVE RPCIndInv
  OBVIOUS
<1>1. NetFine
  BY DEF MakeNetwork, NetFine
<1>2. Fine(NoCall, "idle")
  BY DEF Fine, CallRecord, NoCall
<1>3. call = [k \in Calls |-> NoCall] /\ handler = [k \in Calls |-> "idle"]
  BY DEF MakeNetwork
<1>4. CallsFine
  BY <1>2, <1>3 DEF CallsFine, Fine
<1> QED
  BY <1>1, <1>4 DEF RPCIndInv

\* A step that changes one call, and leaves it fine, keeps the invariant.
LEMMA OneCall ==
  ASSUME RPCIndInv, NEW k \in Calls, NEW c, NEW h, Fine(c, h),
         call' = [call EXCEPT ![k] = c], handler' = [handler EXCEPT ![k] = h],
         UNCHANGED netVars
  PROVE  RPCIndInv'
<1>1. NetFine'
  BY DEF RPCIndInv, NetFine, netVars
<1>2. CallsFine'
  BY DEF RPCIndInv, CallsFine, Fine
<1> QED
  BY <1>1, <1>2 DEF RPCIndInv

\* Call() sends its request or finds the network destroyed (labrpc.go:101-107).
LEMMA StepCall ==
  ASSUME RPCIndInv, NEW k \in Calls, NEW e \in Ends, Call(k, e)
  PROVE  RPCIndInv'
<1> DEFINE c == call[k]
           q == [c EXCEPT !.pc = "queued", !.end = e]
           r == [c EXCEPT !.pc = "returned", !.ok = FALSE]
<1>1. Fine(c, handler[k]) /\ c.pc = "idle"
  BY DEF RPCIndInv, CallsFine, Call
<1>2. Fine(q, handler[k])
  BY <1>1 DEF Fine, CallRecord
<1>3. Fine(r, handler[k])
  BY <1>1 DEF Fine, CallRecord
<1>4. call' = [call EXCEPT ![k] = q] \/ call' = [call EXCEPT ![k] = r]
  BY DEF Call, Answer
<1>5. handler' = [handler EXCEPT ![k] = handler[k]] /\ UNCHANGED netVars
  BY DEF Call, RPCIndInv, CallsFine
<1> HIDE DEF q, r
<1> QED
  BY <1>2, <1>3, <1>4, <1>5, OneCall

\* One look at the network decides whether there is a server to ask
\* (labrpc.go:219-221).
LEMMA StepRead ==
  ASSUME RPCIndInv, NEW k \in Calls, readEndnameInfo(k)
  PROVE  RPCIndInv'
<1> DEFINE c == call[k]
           n == connections[c.end]
           o == IF n = Nil THEN Nil ELSE servers[n]
           p == IF c.end \in enabled /\ n # Nil /\ o # Nil THEN "accepted" ELSE "refused"
           r == [c EXCEPT !.pc = p, !.name = n, !.server = o, !.reliable = reliable]
<1>1. Fine(c, handler[k]) /\ c.pc = "queued"
  BY DEF RPCIndInv, CallsFine, readEndnameInfo
<1>2. n \in Names \cup {Nil} /\ o \in Objects \cup {Nil} /\ reliable \in BOOLEAN
  BY <1>1 DEF RPCIndInv, NetFine, Fine
<1>3. p \in {"accepted", "refused"} /\ (p = "accepted" => n # Nil /\ o # Nil)
  OBVIOUS
<1>4. call' = [call EXCEPT ![k] = r]
  BY DEF readEndnameInfo
<1>5. handler' = [handler EXCEPT ![k] = handler[k]] /\ UNCHANGED netVars
  BY DEF readEndnameInfo, RPCIndInv, CallsFine
<1> HIDE DEF n, o, p
<1>6. Fine(r, handler[k])
  BY <1>1, <1>2, <1>3 DEF Fine, CallRecord
<1> HIDE DEF r
<1> QED
  BY <1>4, <1>5, <1>6, OneCall

\* The other steps of processReq (labrpc.go:222-307).
LEMMA StepOther ==
  ASSUME RPCIndInv, NEW k \in Calls,
         Refuse(k) \/ DropRequest(k) \/ SeeReply(k) \/ SeeDead(k) \/ Check(k) \/ Deliver(k)
  PROVE  RPCIndInv'
<1> DEFINE c == call[k]
           lost == [c EXCEPT !.pc = "returned", !.ok = FALSE]
           seen == [c EXCEPT !.pc = "checking", !.replyOK = TRUE]
           dead == [c EXCEPT !.pc = "checking"]
           answered == [c EXCEPT !.pc = "answered"]
           delivered == [c EXCEPT !.pc = "returned", !.ok = TRUE]
<1>1. Fine(c, handler[k])
  BY DEF RPCIndInv, CallsFine
<1>2. handler' = [handler EXCEPT ![k] = handler[k]] /\ UNCHANGED netVars
  BY DEF Refuse, DropRequest, SeeReply, SeeDead, Check, Deliver, RPCIndInv, CallsFine
<1>3. CASE call' = [call EXCEPT ![k] = lost] /\ c.pc \in {"refused", "accepted", "checking"}
  <2>1. Fine(lost, handler[k])
    BY <1>1, <1>3 DEF Fine, CallRecord
  <2> HIDE DEF lost
  <2> QED
    BY <1>2, <1>3, <2>1, OneCall
<1>4. CASE SeeReply(k)
  <2>1. Fine(seen, handler[k])
    BY <1>1, <1>4 DEF Fine, CallRecord, SeeReply
  <2>2. call' = [call EXCEPT ![k] = seen]
    BY <1>4 DEF SeeReply
  <2> HIDE DEF seen
  <2> QED
    BY <1>2, <2>1, <2>2, OneCall
<1>5. CASE SeeDead(k)
  <2>1. Fine(dead, handler[k])
    BY <1>1, <1>5 DEF Fine, CallRecord, SeeDead
  <2>2. call' = [call EXCEPT ![k] = dead]
    BY <1>5 DEF SeeDead
  <2> HIDE DEF dead
  <2> QED
    BY <1>2, <2>1, <2>2, OneCall
<1>6. CASE c.pc = "checking" /\ Answers(k) /\ call' = [call EXCEPT ![k] = answered]
  <2>1. Fine(answered, handler[k])
    BY <1>1, <1>6 DEF Fine, CallRecord, Answers
  <2> HIDE DEF answered
  <2> QED
    BY <1>2, <1>6, <2>1, OneCall
<1>7. CASE Deliver(k)
  <2>1. Fine(delivered, handler[k])
    BY <1>1, <1>7 DEF Fine, CallRecord, Deliver
  <2>2. call' = [call EXCEPT ![k] = delivered]
    BY <1>7 DEF Deliver, Answer
  <2> HIDE DEF delivered
  <2> QED
    BY <1>2, <2>1, <2>2, OneCall
<1> QED
  BY <1>3, <1>4, <1>5, <1>6, <1>7 DEF Refuse, DropRequest, Check, Answer

\* The handler starts (labrpc.go:239-242) ...
LEMMA StepDispatch ==
  ASSUME RPCIndInv, NEW k \in Calls, Dispatch(k)
  PROVE  RPCIndInv'
<1> DEFINE r == [call[k] EXCEPT !.pc = "waiting"]
<1>1. Fine(call[k], handler[k])
  BY DEF RPCIndInv, CallsFine
<1>2. Fine(r, "running")
  BY <1>1 DEF Dispatch, Fine, CallRecord
<1>3. call' = [call EXCEPT ![k] = r] /\ handler' = [handler EXCEPT ![k] = "running"]
  BY DEF Dispatch
<1> HIDE DEF r
<1> QED
  BY <1>2, <1>3, OneCall DEF Dispatch

\* ... and returns.
LEMMA StepHandler ==
  ASSUME RPCIndInv, NEW k \in Calls, HandlerReturns(k)
  PROVE  RPCIndInv'
<1>1. Fine(call[k], handler[k])
  BY DEF RPCIndInv, CallsFine
<1>2. Fine(call[k], "returned")
  BY <1>1 DEF HandlerReturns, Fine
<1>3. call' = [call EXCEPT ![k] = call[k]] /\ handler' = [handler EXCEPT ![k] = "returned"]
  BY DEF HandlerReturns, RPCIndInv, CallsFine
<1> QED
  BY <1>2, <1>3, OneCall DEF HandlerReturns

\* Every step of the goroutine of a request (labrpc.go:218-309).
LEMMA StepProcess ==
  ASSUME RPCIndInv, NEW k \in Calls, processReq(k)
  PROVE  RPCIndInv'
BY StepRead, StepOther, StepDispatch DEF processReq

\* Rearranging the network touches no call (labrpc.go:167-176, 313-373).
LEMMA StepRearrange ==
  ASSUME RPCIndInv, Rearrange
  PROVE  RPCIndInv'
<1>1. UNCHANGED callVars
  BY DEF Rearrange, Cleanup, Reliable, MakeEnd, DeleteEnd, AddServer, DeleteServer, Connect, Enable
<1>2. CallsFine'
  BY <1>1 DEF RPCIndInv, CallsFine, callVars
<1>3. NetFine'
  <2>1. CASE Cleanup \/ \E yes \in BOOLEAN : Reliable(yes)
    BY <2>1 DEF RPCIndInv, NetFine, Cleanup, Reliable
  <2>2. CASE \E e \in Ends : MakeEnd(e) \/ DeleteEnd(e)
    BY <2>2 DEF RPCIndInv, NetFine, MakeEnd, DeleteEnd
  <2>3. CASE \E n \in Names : DeleteServer(n) \/ \E o \in Objects : AddServer(n, o)
    BY <2>3 DEF RPCIndInv, NetFine, AddServer, DeleteServer
  <2>4. CASE \E e \in ends : \/ \E n \in Names : Connect(e, n)
                            \/ \E yes \in BOOLEAN : Enable(e, yes)
    BY <2>4 DEF RPCIndInv, NetFine, Connect, Enable
  <2> QED
    BY <2>1, <2>2, <2>3, <2>4 DEF Rearrange
<1> QED
  BY <1>2, <1>3 DEF RPCIndInv

\* What the invariant says of types and of positive answers.
LEMMA RPCConsequences == RPCIndInv => RPCTypeOK /\ TrueMeansExecuted
<1> SUFFICES ASSUME RPCIndInv PROVE RPCTypeOK /\ TrueMeansExecuted
  OBVIOUS
<1>1. RPCTypeOK
  BY DEF RPCIndInv, NetFine, CallsFine, Fine, CallRecord, RPCTypeOK
<1>2. TrueMeansExecuted
  BY DEF RPCIndInv, CallsFine, Fine, TrueMeansExecuted
<1> QED
  BY <1>1, <1>2

\* Every step of the network keeps the invariant (labrpc.go:94-373).
LEMMA RPCStep == RPCIndInv /\ [RPCNext]_rpcVars => RPCIndInv'
<1> SUFFICES ASSUME RPCIndInv, [RPCNext]_rpcVars PROVE RPCIndInv'
  OBVIOUS
<1>1. CASE UNCHANGED rpcVars
  BY <1>1 DEF rpcVars, netVars, callVars, RPCIndInv, NetFine, CallsFine
<1> QED
  BY <1>1, StepRearrange, StepProcess, StepHandler, StepCall DEF RPCNext

\* Call() returns true only if the handler ran to its end (labrpc.go:29-30),
\* for any network and whoever rearranges it.
THEOREM RPCSafety == RPCSpec => [](RPCTypeOK /\ TrueMeansExecuted)
BY MakeNetworkFine, RPCStep, RPCConsequences, PTL DEF RPCSpec

\* The state of the network and of its calls keeps its type; a request is
\* accepted only with a server to run it (labrpc.go:218-224).
THEOREM RPCTypeCorrect == RPCSpec => []RPCTypeOK
BY RPCSafety, PTL

-----------------------------------------------------------------------------
(* The network implements RemoteCall                                       *)

\* Before anything happens, no call has a result (labrpc.go:140-165).
LEMMA ContractInitially == MakeNetwork => Contract!ContractInit
BY DEF MakeNetwork, NoCall, Result, Contract!ContractInit

\* The result of call k becomes that of c, all others stay.
LEMMA OneResult ==
  ASSUME CallsFine, NEW k \in Calls, NEW c, call' = [call EXCEPT ![k] = c]
  PROVE  [j \in Calls |-> Result(call[j])]'
           = [[j \in Calls |-> Result(call[j])] EXCEPT ![k] = Result(c)]
BY DEF CallsFine

\* Each step of a request is a step of the contract or changes nothing in it
\* (labrpc.go:218-309).
LEMMA ProcessRefines ==
  ASSUME RPCIndInv, NEW k \in Calls, processReq(k)
  PROVE  [Contract!ContractNext]_(Contract!contractVars)
<1> DEFINE res == [j \in Calls |-> Result(call[j])]
<1>1. CallsFine /\ Fine(call[k], handler[k])
  BY DEF RPCIndInv, CallsFine
<1>2. CASE readEndnameInfo(k) \/ SeeReply(k) \/ SeeDead(k)
          \/ (Check(k) /\ call' = [call EXCEPT ![k].pc = "answered"])
  <2>1. PICK c : /\ call' = [call EXCEPT ![k] = c]
                 /\ Result(c) = "pending" /\ Result(call[k]) = "pending"
    <3>1. CASE readEndnameInfo(k)
      BY <1>1, <3>1 DEF readEndnameInfo, Fine, CallRecord, Result
    <3>2. CASE SeeReply(k)
      BY <1>1, <3>2 DEF SeeReply, Fine, CallRecord, Result
    <3>3. CASE SeeDead(k)
      BY <1>1, <3>3 DEF SeeDead, Fine, CallRecord, Result
    <3>4. CASE Check(k) /\ call' = [call EXCEPT ![k].pc = "answered"]
      BY <1>1, <3>4 DEF Check, Fine, CallRecord, Result
    <3> QED
      BY <1>2, <3>1, <3>2, <3>3, <3>4
  <2>2. res' = res
    BY <1>1, <2>1, OneResult
  <2>3. handler' = handler
    BY <1>2 DEF readEndnameInfo, SeeReply, SeeDead, Check
  <2> QED
    BY <2>2, <2>3 DEF Contract!contractVars
<1>3. CASE call' = [call EXCEPT ![k].pc = "returned", ![k].ok = FALSE] /\ handler' = handler
          /\ call[k].pc \in {"accepted", "refused", "checking"}
  <2> DEFINE c == [call[k] EXCEPT !.pc = "returned", !.ok = FALSE]
  <2>1. call' = [call EXCEPT ![k] = c] /\ Result(c) = "failed"
    BY <1>1, <1>3 DEF CallsFine, Fine, CallRecord, Result
  <2> HIDE DEF c
  <2>2. Result(call[k]) = "pending"
    BY <1>3 DEF Result
  <2>3. res' = [res EXCEPT ![k] = "failed"] /\ res[k] = "pending"
    BY <1>1, <2>1, <2>2, OneResult
  <2>4. Contract!Fail(k)
    BY <1>3, <2>3 DEF Contract!Fail
  <2> QED
    BY <2>4 DEF Contract!ContractNext
<1>4. CASE Dispatch(k)
  <2> DEFINE c == [call[k] EXCEPT !.pc = "waiting"]
  <2>1. call' = [call EXCEPT ![k] = c] /\ Result(c) = "pending"
    BY <1>1, <1>4 DEF Dispatch, CallsFine, Fine, CallRecord, Result
  <2> HIDE DEF c
  <2>2. Result(call[k]) = "pending" /\ handler[k] = "idle"
    BY <1>1, <1>4 DEF Dispatch, Fine, Result
  <2>3. res' = res /\ res[k] = "pending"
    BY <1>1, <2>1, <2>2, OneResult
  <2>4. Contract!Execute(k)
    BY <1>4, <2>2, <2>3 DEF Dispatch, Contract!Execute
  <2> QED
    BY <2>4 DEF Contract!ContractNext
<1>5. CASE Deliver(k)
  <2> DEFINE c == [call[k] EXCEPT !.pc = "returned", !.ok = TRUE]
  <2>1. call' = [call EXCEPT ![k] = c] /\ Result(c) = "ok"
    BY <1>1, <1>5 DEF Deliver, Answer, CallsFine, Fine, CallRecord, Result
  <2> HIDE DEF c
  <2>2. Result(call[k]) = "pending" /\ handler[k] = "returned" /\ handler' = handler
    BY <1>1, <1>5 DEF Deliver, Fine, Result
  <2>3. res' = [res EXCEPT ![k] = "ok"] /\ res[k] = "pending"
    BY <1>1, <2>1, <2>2, OneResult
  <2>4. Contract!Succeed(k)
    BY <2>2, <2>3 DEF Contract!Succeed
  <2> QED
    BY <2>4 DEF Contract!ContractNext
<1> QED
  BY <1>2, <1>3, <1>4, <1>5 DEF processReq, Refuse, DropRequest, Check, Answer

\* Call() begins, or finds the network destroyed (labrpc.go:101-107).
LEMMA CallRefines ==
  ASSUME RPCIndInv, NEW k \in Calls, NEW e \in Ends, Call(k, e)
  PROVE  [Contract!ContractNext]_(Contract!contractVars)
<1> DEFINE res == [j \in Calls |-> Result(call[j])]
<1>1. CallsFine /\ call[k] \in CallRecord
  BY DEF RPCIndInv, CallsFine
<1>2. PICK c : call' = [call EXCEPT ![k] = c] /\ Result(c) \in {"pending", "failed"}
  <2> DEFINE q == [call[k] EXCEPT !.pc = "queued", !.end = e]
             d == [call[k] EXCEPT !.pc = "returned", !.ok = FALSE]
  <2>1. CASE call' = [call EXCEPT ![k].pc = "queued", ![k].end = e]
    <3>1. call' = [call EXCEPT ![k] = q] /\ Result(q) = "pending"
      BY <1>1, <2>1 DEF CallsFine, CallRecord, Result
    <3> HIDE DEF q
    <3> QED
      BY <3>1
  <2>2. CASE Answer(k, FALSE)
    <3>1. call' = [call EXCEPT ![k] = d] /\ Result(d) = "failed"
      BY <1>1, <2>2 DEF Answer, CallsFine, CallRecord, Result
    <3> HIDE DEF d
    <3> QED
      BY <3>1
  <2> QED
    BY <2>1, <2>2 DEF Call
<1>3. Result(call[k]) = "none" /\ handler' = handler
  BY DEF Call, Result
<1>4. res' = [res EXCEPT ![k] = Result(c)] /\ res[k] = "none"
  BY <1>1, <1>2, <1>3, OneResult
<1>5. Contract!Invoke(k)
  BY <1>2, <1>3, <1>4 DEF Contract!Invoke
<1> QED
  BY <1>5 DEF Contract!ContractNext

\* The simulated network, for any ends, names, servers and calls, implements
\* the contract: at most one execution of a call, none that begins after the
\* call has returned, and true only after the end of it (labrpc.go:29-30).
THEOREM RPCRefinement == RPCSpec => ImplementsContract
<1>1. RPCIndInv /\ [RPCNext]_rpcVars => [Contract!ContractNext]_(Contract!contractVars)
  <2> SUFFICES ASSUME RPCIndInv, [RPCNext]_rpcVars
               PROVE  [Contract!ContractNext]_(Contract!contractVars)
    OBVIOUS
  <2>1. CASE Rearrange \/ UNCHANGED rpcVars
    <3>1. call' = call /\ handler' = handler
      BY <2>1 DEF Rearrange, Cleanup, Reliable, MakeEnd, DeleteEnd, AddServer, DeleteServer,
                  Connect, Enable, rpcVars, callVars
    <3> QED
      BY <3>1 DEF Contract!contractVars
  <2>2. CASE \E k \in Calls : HandlerReturns(k)
    <3>1. PICK k \in Calls : HandlerReturns(k)
      BY <2>2
    <3>2. Contract!Complete(k)
      BY <3>1 DEF HandlerReturns, Contract!Complete
    <3> QED
      BY <3>2 DEF Contract!ContractNext
  <2> QED
    BY <2>1, <2>2, ProcessRefines, CallRefines DEF RPCNext
<1> QED
  BY MakeNetworkFine, RPCStep, ContractInitially, <1>1, PTL
     DEF RPCSpec, ImplementsContract, Contract!ContractSpec
-----------------------------------------------------------------------------
(* CrashRestart: what is saved outlives the instance that saved it         *)

\* The phases in which what is saved is the persister of the newest instance.
Owned == hpc \in {"add", "connect", "up", "delete", "copy"}

\* Types, and how many persisters were made: three for every restart.
HarnessFine ==
  /\ hpc \in {"up", "delete", "copy", "readState", "readSnapshot", "save", "make", "add", "connect"}
  /\ instance \in 1 .. MaxInstances
  /\ hpc \notin {"add", "connect", "up"} => instance < MaxInstances
  /\ saved = 3 * (instance - 1) + (IF Owned THEN 0 ELSE IF hpc = "make" THEN 2 ELSE 1)
  /\ disk \in [Persisters -> Contents]
  /\ read \in Contents
  /\ persister \in [Objects -> Persisters]
  /\ memory \in [Objects -> SUBSET Calls]
  /\ persisted \subseteq Calls
  /\ saves \in Nat
  /\ snapping \subseteq Objects

\* Only the newest instance can reach what is saved, and not even that one
\* between crash1's first copy and Make().
PersistersFine ==
  /\ \A p \in Persisters : disk[p].raftstate.save = disk[p].snapshot.save
  /\ \A o \in 1 .. instance : /\ persister[o] <= saved
                              /\ o # instance \/ ~Owned => persister[o] # saved
  /\ Owned => persister[instance] = saved /\ Covered(disk[saved]) = memory[instance]
  /\ hpc \in {"readSnapshot", "save"} => read.raftstate = disk[saved].raftstate
  /\ hpc = "save" => read.snapshot = disk[saved].snapshot

\* The network knows the newest instance or none.
ServersFine ==
  /\ \A e \in Ends : connections[e] = Server
  /\ servers[Server] # Nil => servers[Server] = instance /\ hpc \in {"connect", "up", "delete"}

\* A handler that has saved is remembered by its instance, and only such a
\* handler returns.
CallsKnown ==
  \A k \in Calls :
    /\ call[k].name \in {Nil, Server}
    /\ call[k].server # Nil => call[k].server \in 1 .. instance
    /\ handler[k] # "idle" => call[k].server # Nil
    /\ handler[k] = "returned" => k \in persisted
    /\ k \in persisted => handler[k] # "idle" /\ k \in memory[call[k].server]

\* An update that is answered positively is in what is saved.
AckedKept ==
  \A k \in Calls : call[k].pc = "answered" \/ call[k].ok => k \in Covered(disk[saved])

IndInv == RPCIndInv /\ HarnessFine /\ PersistersFine /\ ServersFine /\ CallsKnown /\ AckedKept

-----------------------------------------------------------------------------

\* Arithmetic on the bounds: there is room for every persister.
LEMMA Room ==
  ASSUME HarnessFine
  PROVE  /\ MaxInstances \in Nat /\ Objects = 1 .. MaxInstances /\ Nil \notin Objects
         /\ Server \in Names
         /\ instance \in Objects /\ saved \in Persisters /\ saved \in Nat
         /\ hpc \in {"copy", "save", "make"} => saved + 1 \in Persisters
         /\ hpc \notin {"add", "connect", "up"} => instance + 1 \in Objects
<1>1. MaxInstances \in Nat /\ Objects = 1 .. MaxInstances /\ Nil \notin Objects /\ Server \in Names
  BY CrashRestartAssumption, LabRPCAssumption
<1> QED
  BY <1>1 DEF HarnessFine, Owned, Persisters

\* The server as make_config leaves it (config.go:69-110).
LEMMA InitInv == Init => IndInv
<1> SUFFICES ASSUME Init PROVE IndInv
  OBVIOUS
<1>0. MaxInstances \in Nat \ {0} /\ Objects = 1 .. MaxInstances /\ Nil \notin Objects /\ Server \in Names
  BY CrashRestartAssumption, LabRPCAssumption
<1>1. NetFine
  <2>1. 1 \in Objects
    BY <1>0
  <2>2. servers \in [Names -> Objects \cup {Nil}]
    BY <2>1 DEF Init
  <2>3. connections \in [Ends -> Names \cup {Nil}]
    BY <1>0 DEF Init
  <2> QED
    BY <2>2, <2>3 DEF Init, NetFine
<1>2. Fine(NoCall, "idle")
  BY DEF Fine, CallRecord, NoCall
<1>3. call = [k \in Calls |-> NoCall] /\ handler = [k \in Calls |-> "idle"]
  BY DEF Init
<1>4. CallsFine
  BY <1>2, <1>3 DEF CallsFine, Fine
<1>5. HarnessFine
  <2>1. NoUpdates \in Contents
    BY DEF NoUpdates, Contents, Part, Parts
  <2> QED
    BY <1>0, <2>1 DEF Init, HarnessFine, Owned, Persisters
<1>6. PersistersFine
  <2>1. 0 \in Persisters /\ 1 \in Objects /\ \A o \in 1 .. instance : o = 1
    BY <1>0 DEF Init, Persisters
  <2>2. /\ disk = [p \in Persisters |-> NoUpdates] /\ hpc = "up" /\ saved = 0 /\ instance = 1
        /\ persister = [o \in Objects |-> 0] /\ memory = [o \in Objects |-> {}]
    BY DEF Init
  <2>3. Owned
    BY <2>2 DEF Owned
  <2>4. \A p \in Persisters : disk[p].raftstate = Part({}, 0) /\ disk[p].snapshot = Part({}, 0)
    BY <2>2 DEF NoUpdates
  <2>5. /\ \A p \in Persisters : disk[p].raftstate.save = disk[p].snapshot.save
        /\ Covered(disk[saved]) = {}
    BY <2>1, <2>2, <2>4 DEF Part, Covered
  <2>6. persister[1] = 0 /\ memory[1] = {}
    BY <2>1, <2>2
  <2>7. \A o \in 1 .. instance : persister[o] <= saved
    BY <2>1, <2>2, <2>6
  <2> QED
    BY <2>1, <2>2, <2>3, <2>4, <2>5, <2>6, <2>7 DEF PersistersFine
<1>7. ServersFine
  BY <1>0 DEF Init, ServersFine
<1>8. CallsKnown /\ AckedKept
  BY <1>3 DEF Init, CallsKnown, AckedKept, NoCall
<1> QED
  BY <1>1, <1>4, <1>5, <1>6, <1>7, <1>8 DEF IndInv, RPCIndInv

\* Putting contents into a persister changes that one only.
LEMMA Saved ==
  ASSUME HarnessFine, NEW p \in Persisters, NEW r \in Parts, NEW s \in Parts,
         Save(p, r, s)
  PROVE  /\ disk' \in [Persisters -> Contents]
         /\ disk'[p].raftstate = r /\ disk'[p].snapshot = s
         /\ \A q \in Persisters : q # p => disk'[q] = disk[q]
<1> DEFINE c == [raftstate |-> r, snapshot |-> s]
<1>1. c \in Contents /\ c.raftstate = r /\ c.snapshot = s
  BY DEF Contents
<1>2. disk' = [disk EXCEPT ![p] = c] /\ disk \in [Persisters -> Contents]
  BY DEF Save, HarnessFine
<1> HIDE DEF c
<1> QED
  BY <1>1, <1>2

-----------------------------------------------------------------------------

\* A step of the harness that leaves all calls, disks and instances alone
\* keeps what is said of calls.
LEMMA CallsKeep ==
  ASSUME IndInv, UNCHANGED <<callVars, memory, persisted>>,
         instance' \in {instance, instance + 1}
  PROVE  CallsFine' /\ CallsKnown'
<1>1. CallsFine'
  BY DEF IndInv, RPCIndInv, CallsFine, callVars
<1>2. instance \in Nat
  BY DEF IndInv, HarnessFine
<1>3. CallsKnown'
  BY <1>2 DEF IndInv, CallsKnown, callVars
<1> QED
  BY <1>1, <1>3

\* disconnect(), DeleteServer(), AddServer() and connect() change the network
\* only (config.go:114-115, 337, 364-384).
LEMMA StepNetwork ==
  ASSUME IndInv, Disconnect \/ Delete \/ Add \/ Reconnect
  PROVE  IndInv'
<1>1. UNCHANGED <<callVars, saved, disk, read, instance, persister, memory, persisted,
                  saves, snapping, reliable, ends, connections, done>>
  BY DEF raftVars, Disconnect, Delete, Add, Reconnect, DeleteServer, AddServer
<1>2. CallsFine' /\ CallsKnown'
  BY <1>1, CallsKeep
<1>3. HarnessFine' /\ Owned /\ Owned'
  BY <1>1 DEF IndInv, HarnessFine, Owned, Disconnect, Delete, Add, Reconnect, Step
<1>4. PersistersFine'
  <2>1. hpc' \notin {"readSnapshot", "save"}
    BY <1>3 DEF Owned
  <2> QED
    BY <1>1, <1>3, <2>1 DEF IndInv, PersistersFine
<1>5. NetFine' /\ ServersFine'
  <2>1. NetFine /\ ServersFine /\ instance \in Objects /\ Server \in Names
    BY Room DEF IndInv, RPCIndInv
  <2>2. enabled' \subseteq Ends
    BY <2>1, CrashRestartAssumption
       DEF NetFine, Disconnect, Delete, Add, Reconnect, DeleteServer, AddServer
  <2>3. CASE Disconnect
    BY <1>1, <2>1, <2>2, <2>3 DEF NetFine, ServersFine, Disconnect, Step
  <2>4. CASE Delete
    BY <1>1, <2>1, <2>2, <2>4 DEF NetFine, ServersFine, Delete, DeleteServer, Step
  <2>5. CASE Add
    BY <1>1, <2>1, <2>2, <2>5 DEF NetFine, ServersFine, Add, AddServer, Step
  <2>6. CASE Reconnect
    BY <1>1, <2>1, <2>2, <2>6 DEF NetFine, ServersFine, Reconnect, Step
  <2> QED
    BY <2>3, <2>4, <2>5, <2>6
<1>6. AckedKept'
  BY <1>1 DEF IndInv, AckedKept, callVars
<1> QED
  BY <1>2, <1>3, <1>4, <1>5, <1>6 DEF IndInv, RPCIndInv

\* The two reads of crash1 (config.go:137-138) see the same contents: nobody
\* can reach the copy they read from.
LEMMA StepReadSaved ==
  ASSUME IndInv, ReadRaftState \/ ReadSnapshot
  PROVE  IndInv'
<1>1. UNCHANGED <<rpcVars, saved, disk, instance, persister, memory, persisted, saves, snapping>>
  BY DEF raftVars, ReadRaftState, ReadSnapshot
<1>2. CallsFine' /\ CallsKnown'
  BY <1>1, CallsKeep DEF rpcVars
<1>3. read \in Contents /\ disk[saved] \in Contents
  BY Room DEF IndInv, HarnessFine
<1>4. /\ read' \in Contents
      /\ ReadRaftState => read'.raftstate = disk[saved].raftstate
      /\ ReadSnapshot => /\ read'.raftstate = read.raftstate
                         /\ read'.snapshot = disk[saved].snapshot
  BY <1>3 DEF Contents, ReadRaftState, ReadSnapshot
<1>5. ~Owned /\ ~Owned'
  BY DEF Owned, ReadRaftState, ReadSnapshot, Step
<1>6. HarnessFine'
  BY <1>1, <1>4, <1>5 DEF IndInv, HarnessFine, ReadRaftState, ReadSnapshot, Step
<1>7. PersistersFine'
  BY <1>1, <1>4, <1>5 DEF IndInv, PersistersFine, ReadRaftState, ReadSnapshot, Step
<1>8. NetFine' /\ ServersFine' /\ AckedKept'
  BY <1>1 DEF IndInv, RPCIndInv, NetFine, ServersFine, AckedKept, rpcVars, netVars, callVars,
              ReadRaftState, ReadSnapshot, Step
<1> QED
  BY <1>2, <1>6, <1>7, <1>8 DEF IndInv, RPCIndInv

\* The copies of crash1 (config.go:125) and its second save (config.go:139-140)
\* put what was saved into a persister that no instance has.
LEMMA StepCopy ==
  ASSUME IndInv, CopySaved \/ SaveAgain
  PROVE  IndInv'
<1>1. /\ UNCHANGED <<rpcVars, read, instance, persister, memory, persisted, saves, snapping>>
      /\ saved' = saved + 1
  BY DEF raftVars, CopySaved, SaveAgain, Copy, Fresh
<1>2. CallsFine' /\ CallsKnown'
  BY <1>1, CallsKeep DEF rpcVars
<1>3. saved \in Persisters /\ saved + 1 \in Persisters /\ saved \in Nat
  BY Room DEF IndInv, CopySaved, SaveAgain, Step
<1>4. /\ disk[saved] \in Contents /\ read \in Contents
      /\ disk[saved].raftstate.save = disk[saved].snapshot.save
  BY <1>3 DEF IndInv, HarnessFine, PersistersFine
<1>5. Save(saved + 1, disk[saved].raftstate, disk[saved].snapshot)
  <2>1. CASE CopySaved
    BY <2>1 DEF CopySaved, Copy, Fresh
  <2>2. CASE SaveAgain
    <3>1. read.raftstate = disk[saved].raftstate /\ read.snapshot = disk[saved].snapshot
      BY <2>2 DEF IndInv, PersistersFine, SaveAgain, Step
    <3> QED
      BY <2>2, <3>1 DEF SaveAgain, Fresh
  <2> QED
    BY <2>1, <2>2
<1>6. /\ disk' \in [Persisters -> Contents]
      /\ disk'[saved + 1].raftstate = disk[saved].raftstate
      /\ disk'[saved + 1].snapshot = disk[saved].snapshot
      /\ \A q \in Persisters : q # saved + 1 => disk'[q] = disk[q]
  <2>1. disk[saved].raftstate \in Parts /\ disk[saved].snapshot \in Parts
    BY <1>4 DEF Contents
  <2>2. HarnessFine
    BY DEF IndInv
  <2>3. PICK p, a, b : p = saved + 1 /\ a = disk[saved].raftstate /\ b = disk[saved].snapshot
    OBVIOUS
  <2>4. p \in Persisters /\ a \in Parts /\ b \in Parts /\ Save(p, a, b)
    BY <1>3, <1>5, <2>1, <2>3
  <2>5. /\ disk' \in [Persisters -> Contents] /\ disk'[p].raftstate = a /\ disk'[p].snapshot = b
        /\ \A q \in Persisters : q # p => disk'[q] = disk[q]
    BY <2>2, <2>4, Saved
  <2> QED
    BY <2>3, <2>5
<1>7. ~Owned' /\ hpc' \in {"readState", "make"}
  BY DEF Owned, CopySaved, SaveAgain, Step
<1>8. HarnessFine'
  BY <1>1, <1>6, <1>7 DEF IndInv, HarnessFine, Owned, CopySaved, SaveAgain, Step
<1>9. PersistersFine'
  <2>1. \A p \in Persisters : disk'[p].raftstate.save = disk'[p].snapshot.save
    BY <1>4, <1>6 DEF IndInv, PersistersFine
  <2>2. \A o \in 1 .. instance : persister[o] \in Nat
    BY Room DEF IndInv, HarnessFine, Persisters
  <2> QED
    BY <1>1, <1>3, <1>7, <2>1, <2>2 DEF IndInv, PersistersFine
<1>10. NetFine' /\ ServersFine'
  BY <1>1 DEF IndInv, RPCIndInv, NetFine, ServersFine, rpcVars, netVars, CopySaved, SaveAgain, Step
<1>11. AckedKept'
  <2>1. Covered(disk'[saved']) = Covered(disk[saved])
    BY <1>1, <1>6 DEF Covered
  <2> QED
    BY <1>1, <2>1 DEF IndInv, AckedKept, rpcVars, callVars
<1> QED
  BY <1>2, <1>8, <1>9, <1>10, <1>11 DEF IndInv, RPCIndInv

\* start1 gives the new instance a copy of its own (config.go:305-326).
LEMMA StepMake ==
  ASSUME IndInv, Make
  PROVE  IndInv'
<1> DEFINE n == instance + 1
<1>1. /\ UNCHANGED <<rpcVars, read, persisted>>
      /\ saved' = saved + 1 /\ instance' = n /\ hpc = "make" /\ hpc' = "add"
      /\ Save(saved + 1, disk[saved].raftstate, disk[saved].snapshot)
      /\ persister' = [persister EXCEPT ![n] = saved + 1]
      /\ memory' = [memory EXCEPT ![n] = Covered(disk[saved])]
      /\ UNCHANGED <<saves, snapping>>
  BY DEF Make, Copy, Fresh, Step
<1>2. /\ saved \in Persisters /\ saved + 1 \in Persisters /\ saved \in Nat
      /\ instance \in Objects /\ n \in Objects /\ Objects = 1 .. MaxInstances
      /\ MaxInstances \in Nat /\ Nil \notin Objects /\ Server \in Names
  BY <1>1, Room DEF IndInv
<1>3. /\ disk[saved] \in Contents /\ disk[saved].raftstate.save = disk[saved].snapshot.save
      /\ Covered(disk[saved]) \in SUBSET Calls
  <2>1. disk[saved] \in Contents
    BY <1>2 DEF IndInv, HarnessFine
  <2> QED
    BY <1>2, <2>1 DEF IndInv, PersistersFine, Contents, Parts, Covered
<1>4. /\ disk' \in [Persisters -> Contents]
      /\ disk'[saved + 1].raftstate = disk[saved].raftstate
      /\ disk'[saved + 1].snapshot = disk[saved].snapshot
      /\ \A q \in Persisters : q # saved + 1 => disk'[q] = disk[q]
  <2>1. disk[saved].raftstate \in Parts /\ disk[saved].snapshot \in Parts
    BY <1>3 DEF Contents
  <2>2. HarnessFine
    BY DEF IndInv
  <2>3. PICK p, a, b : p = saved + 1 /\ a = disk[saved].raftstate /\ b = disk[saved].snapshot
    OBVIOUS
  <2>4. p \in Persisters /\ a \in Parts /\ b \in Parts /\ Save(p, a, b)
    BY <1>1, <1>2, <2>1, <2>3
  <2>5. /\ disk' \in [Persisters -> Contents] /\ disk'[p].raftstate = a /\ disk'[p].snapshot = b
        /\ \A q \in Persisters : q # p => disk'[q] = disk[q]
    BY <2>2, <2>4, Saved
  <2> QED
    BY <2>3, <2>5
<1>5. ~Owned /\ Owned'
  BY <1>1 DEF Owned
<1>6. /\ persister' \in [Objects -> Persisters] /\ memory' \in [Objects -> SUBSET Calls]
      /\ persister'[n] = saved + 1 /\ memory'[n] = Covered(disk[saved])
      /\ \A o \in 1 .. instance : persister'[o] = persister[o] /\ memory'[o] = memory[o]
  BY <1>1, <1>2, <1>3 DEF IndInv, HarnessFine
<1>7. HarnessFine'
  BY <1>1, <1>2, <1>4, <1>5, <1>6 DEF IndInv, HarnessFine
<1>8. PersistersFine'
  <2>1. \A p \in Persisters : disk'[p].raftstate.save = disk'[p].snapshot.save
    BY <1>3, <1>4 DEF IndInv, PersistersFine
  <2>2. \A o \in 1 .. instance : /\ persister'[o] <= saved'
                                 /\ persister'[o] # saved'
    <3>1. \A o \in 1 .. instance : persister[o] \in Nat /\ persister[o] <= saved
      BY <1>2 DEF IndInv, HarnessFine, PersistersFine, Persisters
    <3> QED
      BY <1>1, <1>2, <1>6, <3>1
  <2>3. \A o \in 1 .. instance' : o \in 1 .. instance \/ o = n
    BY <1>1, <1>2
  <2>4. \A o \in 1 .. instance' : /\ persister'[o] <= saved'
                                  /\ o # instance' => persister'[o] # saved'
    BY <1>1, <1>2, <1>6, <2>2, <2>3
  <2>5. persister'[instance'] = saved' /\ Covered(disk'[saved']) = memory'[instance']
    BY <1>1, <1>4, <1>6 DEF Covered
  <2>6. hpc' \notin {"readSnapshot", "save"}
    BY <1>1
  <2> QED
    BY <1>5, <2>1, <2>4, <2>5, <2>6 DEF PersistersFine
<1>9. NetFine' /\ ServersFine'
  BY <1>1 DEF IndInv, RPCIndInv, NetFine, ServersFine, rpcVars, netVars
<1>10. CallsFine'
  BY <1>1 DEF IndInv, RPCIndInv, CallsFine, rpcVars, callVars
<1>11. CallsKnown'
  BY <1>1, <1>2, <1>6 DEF IndInv, CallsKnown, rpcVars, callVars
<1>12. AckedKept'
  <2>1. Covered(disk'[saved']) = Covered(disk[saved])
    BY <1>1, <1>4 DEF Covered
  <2> QED
    BY <1>1, <2>1 DEF IndInv, AckedKept, rpcVars, callVars
<1> QED
  BY <1>7, <1>8, <1>9, <1>10, <1>11, <1>12 DEF IndInv, RPCIndInv

-----------------------------------------------------------------------------

\* An instance saves to the persister it was given.  That is the saved one only
\* for the newest instance, and only outside of crash1; what that one saves must
\* cover all it knows of, in one part or the other.
LEMMA StepInstance ==
  ASSUME IndInv, NEW o \in 1 .. instance, NEW m \in SUBSET Calls,
         NEW r \in SUBSET Calls, NEW t \in SUBSET Calls,
         SaveNew(o, r, t), memory[o] \subseteq m, memory' = [memory EXCEPT ![o] = m],
         Owned /\ o = instance => r \cup t = m,
         persisted' \subseteq Calls, persisted \subseteq persisted',
         \A k \in persisted' : handler[k] # "idle" /\ k \in memory'[call[k].server],
         snapping' \subseteq Objects,
         UNCHANGED <<rpcVars, hpc, saved, read, instance, persister>>
  PROVE  IndInv'
<1>1. /\ Objects = 1 .. MaxInstances /\ MaxInstances \in Nat /\ instance \in Objects
      /\ saved \in Persisters /\ saved \in Nat
  BY Room DEF IndInv
<1>2. o \in Objects /\ persister[o] \in Persisters /\ HarnessFine
  BY <1>1 DEF IndInv, HarnessFine
<1>3. /\ memory' \in [Objects -> SUBSET Calls] /\ memory'[o] = m
      /\ \A q \in Objects : q # o => memory'[q] = memory[q]
  BY <1>2 DEF HarnessFine
<1>4. PICK p, a, b : /\ p = persister[o]
                     /\ a = Part(r, saves + 1) /\ b = Part(t, saves + 1)
  OBVIOUS
<1>5. /\ a \in Parts /\ b \in Parts /\ a.save = b.save /\ a.covers = r /\ b.covers = t
      /\ saves' \in Nat
  BY <1>2, <1>4 DEF Part, Parts, SaveNew, HarnessFine
<1>6. p \in Persisters /\ Save(p, a, b)
  BY <1>2, <1>4 DEF SaveNew
<1>7. /\ disk' \in [Persisters -> Contents]
      /\ disk'[p].raftstate = a /\ disk'[p].snapshot = b
      /\ \A q \in Persisters : q # p => disk'[q] = disk[q]
  BY <1>2, <1>5, <1>6, Saved
<1>8. HarnessFine' /\ (Owned' <=> Owned)
  BY <1>2, <1>3, <1>5, <1>7 DEF HarnessFine, Owned
<1>9. \/ /\ Owned /\ o = instance /\ p = saved
         /\ Covered(disk'[saved]) = m /\ Covered(disk[saved]) = memory[o]
      \/ (o # instance \/ ~Owned) /\ p # saved /\ disk'[saved] = disk[saved]
  <2>1. CASE Owned /\ o = instance
    <3>1. p = saved /\ Covered(disk[saved]) = memory[o]
      BY <1>4, <2>1 DEF IndInv, PersistersFine
    <3>2. Covered(disk'[saved]) = r \cup t
      BY <1>5, <1>7, <3>1 DEF Covered
    <3> QED
      BY <2>1, <3>1, <3>2
  <2>2. CASE o # instance \/ ~Owned
    <3>1. p # saved
      BY <1>4, <2>2 DEF IndInv, PersistersFine
    <3> QED
      BY <1>1, <1>7, <2>2, <3>1
  <2> QED
    BY <2>1, <2>2
<1>10. PersistersFine'
  <2>1. \A q \in Persisters : disk'[q].raftstate.save = disk'[q].snapshot.save
    BY <1>5, <1>7 DEF IndInv, PersistersFine
  <2>2. Owned => Covered(disk'[saved]) = memory'[instance]
    BY <1>1, <1>3, <1>9 DEF IndInv, PersistersFine
  <2>3. hpc \in {"readSnapshot", "save"} => disk'[saved] = disk[saved]
    BY <1>9 DEF Owned
  <2> QED
    BY <1>8, <2>1, <2>2, <2>3 DEF IndInv, PersistersFine
<1>11. Covered(disk[saved]) \subseteq Covered(disk'[saved])
  BY <1>9
<1>12. AckedKept'
  BY <1>11 DEF IndInv, AckedKept, rpcVars, callVars
<1>13. CallsKnown'
  BY DEF IndInv, CallsKnown, rpcVars, callVars
<1>14. NetFine' /\ ServersFine' /\ CallsFine'
  BY DEF IndInv, RPCIndInv, NetFine, ServersFine, CallsFine, rpcVars, netVars, callVars
<1> QED
  BY <1>8, <1>10, <1>12, <1>13, <1>14 DEF IndInv, RPCIndInv

\* What the contents of a persister and the memory of an instance are made of,
\* and that the snapshot of the newest instance covers nothing it does not know.
LEMMA InstanceFacts ==
  ASSUME IndInv, NEW o \in 1 .. instance
  PROVE  /\ o \in Objects /\ memory[o] \in SUBSET Calls
         /\ disk[persister[o]].snapshot.covers \in SUBSET Calls
         /\ disk[persister[o]].raftstate.covers \in SUBSET Calls
         /\ Owned /\ o = instance =>
              disk[persister[o]].raftstate.covers \cup disk[persister[o]].snapshot.covers = memory[o]
<1>1. o \in Objects /\ persister[o] \in Persisters /\ memory[o] \in SUBSET Calls
  BY Room DEF IndInv, HarnessFine
<1>2. disk[persister[o]] \in Contents
  BY <1>1 DEF IndInv, HarnessFine
<1>3. Owned /\ o = instance => Covered(disk[persister[o]]) = memory[o]
  BY DEF IndInv, PersistersFine
<1> QED
  BY <1>1, <1>2, <1>3 DEF Contents, Parts, Covered

\* persist() beside the snapshot that is there (src/README.md:216-226).
LEMMA StepSaves ==
  ASSUME IndInv, NEW k \in Calls, HandlerSaves(k)
  PROVE  IndInv'
<1>1. PICK o, m, t : /\ o = call[k].server /\ m = memory[o] \cup {k}
                     /\ t = disk[persister[o]].snapshot.covers
  OBVIOUS
<1>2. /\ UNCHANGED <<rpcVars, hpc, saved, read, instance, persister, snapping>>
      /\ memory' = [memory EXCEPT ![o] = m] /\ SaveNew(o, m \ t, t)
      /\ persisted' = persisted \cup {k} /\ handler[k] = "running"
  BY <1>1 DEF HandlerSaves, persist
<1>3. o \in 1 .. instance
  BY <1>1, <1>2 DEF IndInv, CallsKnown
<1>4. /\ o \in Objects /\ memory[o] \in SUBSET Calls /\ t \in SUBSET Calls
      /\ Owned /\ o = instance => t \subseteq memory[o]
  BY <1>1, <1>3, InstanceFacts
<1>5. /\ m \in SUBSET Calls /\ m \ t \in SUBSET Calls /\ memory[o] \subseteq m /\ k \in m
      /\ Owned /\ o = instance => (m \ t) \cup t = m
  BY <1>1, <1>4
<1>6. persisted' \subseteq Calls /\ snapping' \subseteq Objects
  BY <1>2 DEF IndInv, HarnessFine
<1>7. \A j \in persisted' : handler[j] # "idle" /\ j \in memory'[call[j].server]
  <2>1. /\ memory \in [Objects -> SUBSET Calls]
        /\ \A j \in persisted : /\ j \in Calls /\ handler[j] # "idle"
                                /\ j \in memory[call[j].server] /\ call[j].server \in Objects
    BY Room DEF IndInv, HarnessFine, CallsKnown
  <2>2. /\ memory'[o] = m
        /\ \A q \in Objects : memory[q] \subseteq memory'[q]
    BY <1>2, <1>4, <1>5, <2>1
  <2>3. \A j \in persisted : j \in memory'[call[j].server]
    BY <2>1, <2>2
  <2> QED
    BY <1>1, <1>2, <1>5, <2>1, <2>2, <2>3
<1>8. PICK r : r = m \ t
  OBVIOUS
<1> QED
  BY <1>2, <1>3, <1>4, <1>5, <1>6, <1>7, <1>8, StepInstance

\* The two Saves of Snapshot() (src/README.md:255-256): the snapshot grows
\* beside a Raft state that still covers the rest, and only then is the log
\* truncated.
LEMMA StepSnapshot ==
  ASSUME IndInv, NEW o \in 1 .. instance, SnapshotSaves(o) \/ SnapshotPersists(o)
  PROVE  IndInv'
<1>1. PICK r, s : /\ r = disk[persister[o]].raftstate.covers
                  /\ s = disk[persister[o]].snapshot.covers
  OBVIOUS
<1>2. PICK m : m = memory[o]
  OBVIOUS
<1>3. /\ o \in Objects /\ m \in SUBSET Calls /\ r \in SUBSET Calls /\ s \in SUBSET Calls
      /\ Owned /\ o = instance => r \cup s = m
  BY <1>1, <1>2, InstanceFacts
<1>4. /\ UNCHANGED <<rpcVars, hpc, saved, read, instance, persister, memory, persisted>>
      /\ snapping' \subseteq Objects
  BY <1>3 DEF IndInv, HarnessFine, SnapshotSaves, SnapshotPersists
<1>5. memory \in [Objects -> SUBSET Calls] /\ memory' = [memory EXCEPT ![o] = m]
  BY <1>2, <1>4 DEF IndInv, HarnessFine
<1>6. /\ persisted' \subseteq Calls /\ persisted \subseteq persisted' /\ memory[o] \subseteq m
      /\ \A j \in persisted' : handler[j] # "idle" /\ j \in memory'[call[j].server]
  BY <1>2, <1>4 DEF IndInv, HarnessFine, CallsKnown
<1>7. PICK a, b : /\ a \in SUBSET Calls /\ b \in SUBSET Calls /\ SaveNew(o, a, b)
                  /\ Owned /\ o = instance => a \cup b = m
  <2>1. CASE SnapshotSaves(o)
    <3>1. PICK t \in SUBSET m : s \subseteq t /\ SaveNew(o, r, t)
      BY <1>1, <1>2, <2>1 DEF SnapshotSaves
    <3>2. t \in SUBSET Calls /\ (Owned /\ o = instance => r \cup t = m)
      BY <1>3, <3>1
    <3> QED
      BY <1>3, <3>1, <3>2
  <2>2. CASE SnapshotPersists(o)
    <3>1. SaveNew(o, m \ s, s)
      BY <1>1, <1>2, <2>2 DEF SnapshotPersists, persist
    <3>2. m \ s \in SUBSET Calls /\ (Owned /\ o = instance => (m \ s) \cup s = m)
      BY <1>3
    <3> QED
      BY <1>3, <3>1, <3>2
  <2> QED
    BY <2>1, <2>2
<1> QED
  BY <1>3, <1>4, <1>5, <1>6, <1>7, StepInstance

\* A handler returns after it has saved.
LEMMA StepEnds ==
  ASSUME IndInv, NEW k \in Calls, HandlerEnds(k)
  PROVE  IndInv'
<1>1. /\ UNCHANGED <<netVars, call, harnessVars, raftVars>> /\ k \in persisted
      /\ handler[k] = "running" /\ handler' = [handler EXCEPT ![k] = "returned"]
  BY DEF HandlerEnds, HandlerReturns, harnessVars
<1>2. RPCIndInv'
  BY StepHandler DEF HandlerEnds, IndInv
<1>3. \A j \in Calls : handler'[j] = IF j = k THEN "returned" ELSE handler[j]
  BY <1>1 DEF IndInv, RPCIndInv, CallsFine
<1>4. HarnessFine' /\ PersistersFine' /\ ServersFine' /\ AckedKept'
  BY <1>1 DEF IndInv, HarnessFine, PersistersFine, ServersFine, AckedKept, Owned, Covered,
              netVars, harnessVars, raftVars
<1>5. CallsKnown'
  BY <1>1, <1>3 DEF IndInv, CallsKnown, harnessVars, raftVars
<1> QED
  BY <1>2, <1>4, <1>5 DEF IndInv

\* A request is read, dispatched, checked and answered (labrpc.go:218-309).
\* The last look at the server (labrpc.go:270) makes sure that a reply comes
\* from the newest instance while it still owns what is saved.
LEMMA StepRequest ==
  ASSUME IndInv, NEW k \in Calls, processReq(k) \/ \E e \in Ends : Call(k, e),
         UNCHANGED harnessVars
  PROVE  IndInv'
<1>1. RPCIndInv'
  BY StepProcess, StepCall DEF IndInv
<1>2. UNCHANGED netVars
  BY DEF processReq, readEndnameInfo, Refuse, DropRequest, Dispatch, SeeReply, SeeDead, Check,
         Deliver, Call
<1>3. HarnessFine' /\ PersistersFine' /\ ServersFine'
  BY <1>2 DEF IndInv, HarnessFine, PersistersFine, ServersFine, Owned, Covered,
              netVars, harnessVars, raftVars
<1>4. /\ call \in [Calls -> CallRecord] /\ handler \in [Calls -> {"idle", "running", "returned"}]
      /\ Fine(call[k], handler[k])
  BY DEF IndInv, RPCIndInv, CallsFine
<1>5. \A j \in Calls : j # k => call'[j] = call[j] /\ handler'[j] = handler[j]
  BY <1>4 DEF processReq, readEndnameInfo, Refuse, DropRequest, Dispatch, SeeReply, SeeDead,
              Check, Deliver, Call, Answer
<1>6. /\ call'[k].name \in {Nil, Server}
      /\ call'[k].server # Nil => call'[k].server \in 1 .. instance
      /\ handler'[k] # "idle" => call'[k].server # Nil
      /\ handler'[k] = "returned" => k \in persisted
      /\ k \in persisted => handler'[k] # "idle" /\ k \in memory[call'[k].server]
  <2>0. /\ call[k].name \in {Nil, Server}
        /\ call[k].server # Nil => call[k].server \in 1 .. instance
        /\ handler[k] # "idle" => call[k].server # Nil
        /\ handler[k] = "returned" => k \in persisted
        /\ k \in persisted => handler[k] # "idle" /\ k \in memory[call[k].server]
    BY DEF IndInv, CallsKnown
  <2>1. CASE readEndnameInfo(k)
    <3>1. /\ call[k].end \in Ends /\ handler[k] = "idle" /\ handler' = handler
      BY <1>4, <2>1 DEF readEndnameInfo, Fine
    <3>2. connections[call[k].end] = Server /\ (servers[Server] # Nil => servers[Server] = instance)
      BY <3>1 DEF IndInv, ServersFine
    <3>3. /\ call'[k].name = connections[call[k].end]
          /\ call'[k].server = IF connections[call[k].end] = Nil THEN Nil
                               ELSE servers[connections[call[k].end]]
      BY <1>4, <2>1 DEF readEndnameInfo, CallRecord
    <3>4. instance \in 1 .. instance
      BY DEF IndInv, HarnessFine
    <3> QED
      BY <2>0, <3>1, <3>2, <3>3, <3>4
  <2>2. CASE Dispatch(k)
    <3>1. call'[k].name = call[k].name /\ call'[k].server = call[k].server /\ handler'[k] = "running"
      BY <1>4, <2>2 DEF Dispatch, CallRecord
    <3>2. call[k].server # Nil
      BY <1>4, <2>2 DEF Dispatch, Fine
    <3> QED
      BY <2>0, <3>1, <3>2
  <2>3. CASE ~readEndnameInfo(k) /\ ~Dispatch(k)
    <3>1. call'[k].name = call[k].name /\ call'[k].server = call[k].server /\ handler' = handler
      BY <1>4, <2>3 DEF processReq, Refuse, DropRequest, SeeReply, SeeDead, Check, Deliver, Call,
                        Answer, CallRecord
    <3> QED
      BY <2>0, <3>1
  <2> QED
    BY <2>1, <2>2, <2>3
<1>7. CallsKnown'
  BY <1>5, <1>6 DEF IndInv, CallsKnown, harnessVars, raftVars
<1>8. call'[k].pc = "answered" \/ call'[k].ok => k \in Covered(disk[saved])
  <2>1. CASE Check(k) /\ Answers(k)
    <3>1. call[k].replyOK /\ servers[call[k].name] = call[k].server /\ call[k].pc = "checking"
      BY <2>1 DEF Check, Answers, isServerDead
    <3>2. call[k].name # Nil /\ call[k].server # Nil /\ handler[k] = "returned"
      BY <1>4, <3>1 DEF Fine
    <3>3. call[k].server = instance /\ Owned /\ k \in memory[call[k].server]
      BY <3>1, <3>2 DEF IndInv, CallsKnown, ServersFine, Owned
    <3> QED
      BY <3>3 DEF IndInv, PersistersFine
  <2>2. CASE ~(Check(k) /\ Answers(k))
    <3>1. call'[k].pc = "answered" \/ call'[k].ok => call[k].pc = "answered" \/ call[k].ok
      <4>1. CASE readEndnameInfo(k)
        <5>1. call'[k].pc \in {"accepted", "refused"} /\ call'[k].ok = call[k].ok
          BY <1>4, <4>1 DEF readEndnameInfo, CallRecord
        <5> QED
          BY <5>1
      <4>2. CASE Dispatch(k) \/ SeeReply(k) \/ SeeDead(k)
        <5>1. call'[k].pc \in {"waiting", "checking"} /\ call'[k].ok = call[k].ok
          BY <1>4, <4>2 DEF Dispatch, SeeReply, SeeDead, CallRecord
        <5> QED
          BY <5>1
      <4>3. CASE Refuse(k) \/ DropRequest(k) \/ Check(k)
        <5>1. call'[k].pc = "returned" /\ call'[k].ok = FALSE
          BY <1>4, <2>2, <4>3 DEF Refuse, DropRequest, Check, Answer, CallRecord
        <5> QED
          BY <5>1
      <4>4. CASE Deliver(k)
        BY <4>4 DEF Deliver
      <4>5. CASE \E e \in Ends : Call(k, e)
        <5>1. call'[k].pc \in {"queued", "returned"}
              /\ (call'[k].ok = call[k].ok \/ call'[k].ok = FALSE)
          BY <1>4, <4>5 DEF Call, Answer, CallRecord
        <5> QED
          BY <5>1
      <4> QED
        BY <4>1, <4>2, <4>3, <4>4, <4>5 DEF processReq
    <3> QED
      BY <3>1 DEF IndInv, AckedKept
  <2> QED
    BY <2>1, <2>2
<1>9. AckedKept'
  BY <1>5, <1>8 DEF IndInv, AckedKept, Covered, harnessVars
<1> QED
  BY <1>1, <1>3, <1>7, <1>9 DEF IndInv

-----------------------------------------------------------------------------

\* The strengthened invariant holds in every reachable state.
THEOREM CrashInvariance == Spec => []IndInv
<1>1. IndInv /\ [Next]_vars => IndInv'
  <2> SUFFICES ASSUME IndInv, [Next]_vars PROVE IndInv'
    OBVIOUS
  <2>1. CASE crash1 \/ start1
    BY <2>1, StepNetwork, StepCopy, StepReadSaved, StepMake DEF crash1, start1
  <2>2. CASE \E k \in Calls : HandlerSaves(k) \/ HandlerEnds(k)
    BY <2>2, StepSaves, StepEnds
  <2>3. CASE \E o \in 1 .. instance : SnapshotSaves(o) \/ SnapshotPersists(o)
    BY <2>3, StepSnapshot
  <2>4. CASE \E k \in Calls : /\ processReq(k) \/ \E e \in Ends : Call(k, e)
                             /\ UNCHANGED harnessVars
    BY <2>4, StepRequest
  <2>5. CASE UNCHANGED vars
    BY <2>5 DEF vars, rpcVars, netVars, callVars, harnessVars, raftVars, IndInv, RPCIndInv, NetFine,
                CallsFine, HarnessFine, PersistersFine, ServersFine, CallsKnown, AckedKept, Owned,
                Covered
  <2> QED
    BY <2>1, <2>2, <2>3, <2>4, <2>5 DEF Next
<1> QED
  BY InitInv, <1>1, PTL DEF Spec

\* The types of the harness, of its persisters and of the network under it.
THEOREM CrashTypeCorrect == Spec => []TypeOK
<1>1. IndInv => TypeOK
  <2> SUFFICES ASSUME IndInv PROVE TypeOK
    OBVIOUS
  <2>1. RPCTypeOK
    BY RPCConsequences DEF IndInv
  <2> QED
    BY <2>1, Room DEF IndInv, HarnessFine, TypeOK
<1> QED
  BY CrashInvariance, <1>1, PTL

\* An acknowledged update is in the persister the next instance will be given
\* (labrpc.go:264-270, shardctrler/config.go:234-240), over any number of
\* restarts, also those that fall between the two Saves of Snapshot().
THEOREM AckedAlwaysSurvives == Spec => []AckedSurvives
<1>1. IndInv => AckedSurvives
  BY DEF IndInv, AckedKept, AckedSurvives
<1> QED
  BY CrashInvariance, <1>1, PTL

\* The Raft state and the snapshot that an instance is given were written by one
\* Save, however many instances go on saving while crash1 reads the two parts one
\* after the other (persister.go:51-58, config.go:120-141).
THEOREM SavedByOneSave == Spec => []SavedInSync
<1>1. IndInv => SavedInSync
  BY Room DEF IndInv, PersistersFine, Owned, SavedInSync
<1> QED
  BY CrashInvariance, <1>1, PTL

\* No older instance overwrites what the newest one saved (config.go:301-306),
\* and no Save of the newest one drops an update, those of Snapshot() included.
THEOREM SavedIsNewest == Spec => []NewestOwnsSaved
<1>1. IndInv => NewestOwnsSaved
  BY Room DEF IndInv, PersistersFine, Owned, NewestOwnsSaved
<1> QED
  BY CrashInvariance, <1>1, PTL
====
