-------------------------------- MODULE LabRPC ---------------------------------
(***************************************************************************)
(* The simulated network (src/labrpc/labrpc.go): ClientEnd.Call(), the     *)
(* goroutine processReq runs for every request, the goroutine that runs    *)
(* the handler, and the calls with which a test rearranges the network     *)
(* while requests are under way.                                           *)
(*                                                                         *)
(* Delays are left out except as the interleavings they cause; argument    *)
(* and reply encoding carries no state.                                    *)
(***************************************************************************)
EXTENDS Integers

CONSTANTS
  Ends,          \* names of ClientEnds
  Names,         \* names of servers
  Objects,       \* Server objects (what a *Server points to)
  Calls,         \* calls of ClientEnd.Call()
  Nil            \* no server, no name

ASSUME LabRPCAssumption == Nil \notin Names /\ Nil \notin Objects

VARIABLES
  reliable,      \* Network.reliable
  ends,          \* DOMAIN of Network.ends
  enabled,       \* the ends for which Network.enabled is true
  connections,   \* Network.connections
  servers,       \* Network.servers, Nil for a deleted or unknown server
  done,          \* Network.done is closed
  call,          \* the goroutine of Call() and processReq for each call
  handler        \* the goroutine that runs server.dispatch for each call

netVars  == <<reliable, ends, enabled, connections, servers, done>>
callVars == <<call, handler>>
rpcVars  == <<netVars, callVars>>

NoCall == [pc |-> "idle", end |-> Nil, name |-> Nil, server |-> Nil,
           reliable |-> TRUE, replyOK |-> FALSE, ok |-> FALSE]

-----------------------------------------------------------------------------
(* Rearranging the network                                                 *)

MakeNetwork ==
  /\ reliable = TRUE
  /\ ends = {}
  /\ enabled = {}
  /\ connections = [e \in Ends |-> Nil]
  /\ servers = [n \in Names |-> Nil]
  /\ done = FALSE
  /\ call = [k \in Calls |-> NoCall]
  /\ handler = [k \in Calls |-> "idle"]

Cleanup ==
  /\ ~done
  /\ done' = TRUE
  /\ UNCHANGED <<reliable, ends, enabled, connections, servers, callVars>>

Reliable(yes) ==
  /\ reliable' = yes
  /\ UNCHANGED <<ends, enabled, connections, servers, done, callVars>>

\* A fresh end is disabled and connected to nothing.
MakeEnd(e) ==
  /\ e \notin ends
  /\ ends' = ends \cup {e}
  /\ enabled' = enabled \ {e}
  /\ connections' = [connections EXCEPT ![e] = Nil]
  /\ UNCHANGED <<reliable, servers, done, callVars>>

DeleteEnd(e) ==
  /\ e \in ends
  /\ ends' = ends \ {e}
  /\ enabled' = enabled \ {e}
  /\ connections' = [connections EXCEPT ![e] = Nil]
  /\ UNCHANGED <<reliable, servers, done, callVars>>

AddServer(n, o) ==
  /\ servers' = [servers EXCEPT ![n] = o]
  /\ UNCHANGED <<reliable, ends, enabled, connections, done, callVars>>

DeleteServer(n) ==
  /\ servers' = [servers EXCEPT ![n] = Nil]
  /\ UNCHANGED <<reliable, ends, enabled, connections, done, callVars>>

Connect(e, n) ==
  /\ connections' = [connections EXCEPT ![e] = n]
  /\ UNCHANGED <<reliable, ends, enabled, servers, done, callVars>>

Enable(e, yes) ==
  /\ enabled' = IF yes THEN enabled \cup {e} ELSE enabled \ {e}
  /\ UNCHANGED <<reliable, ends, connections, servers, done, callVars>>

-----------------------------------------------------------------------------
(* One call                                                                *)

Answer(k, ok) == call' = [call EXCEPT ![k].pc = "returned", ![k].ok = ok]

\* Call() hands its request to the network's goroutine, or finds the network
\* destroyed.
Call(k, e) ==
  /\ call[k].pc = "idle" /\ e \in ends
  /\ \/ call' = [call EXCEPT ![k].pc = "queued", ![k].end = e]
     \/ done /\ Answer(k, FALSE)
  /\ UNCHANGED <<netVars, handler>>

readNoNilCheck(k) ==
  LET e == call[k].end
      n == connections[e]
      o == IF n = Nil THEN Nil ELSE servers[n]
  IN
  /\ call[k].pc = "queued"
  /\ call' = [call EXCEPT
       ![k].pc = IF e \in enabled /\ n # Nil THEN "accepted" ELSE "refused",
       ![k].name = n, ![k].server = o, ![k].reliable = reliable]
  /\ UNCHANGED <<netVars, handler>>

\* processReq begins: readEndnameInfo takes one consistent look.
readEndnameInfo(k) ==
  LET e == call[k].end
      n == connections[e]
      o == IF n = Nil THEN Nil ELSE servers[n]
  IN
  /\ call[k].pc = "queued"
  /\ call' = [call EXCEPT
       ![k].pc = IF e \in enabled /\ n # Nil /\ o # Nil THEN "accepted" ELSE "refused",
       ![k].name = n, ![k].server = o, ![k].reliable = reliable]
  /\ UNCHANGED <<netVars, handler>>

\* "simulate no reply and eventual timeout"
Refuse(k) ==
  /\ call[k].pc = "refused"
  /\ Answer(k, FALSE)
  /\ UNCHANGED <<netVars, handler>>

DropRequestLate(k) ==
  /\ call[k].pc = "accepted" /\ ~call[k].reliable
  /\ Answer(k, FALSE)
  /\ handler' = [handler EXCEPT ![k] = "running"]
  /\ UNCHANGED netVars

\* An unreliable network loses the request.
DropRequest(k) ==
  /\ call[k].pc = "accepted" /\ ~call[k].reliable
  /\ Answer(k, FALSE)
  /\ UNCHANGED <<netVars, handler>>

\* The handler starts, in a goroutine of its own.
Dispatch(k) ==
  /\ call[k].pc = "accepted"
  /\ call' = [call EXCEPT ![k].pc = "waiting"]
  /\ handler' = [handler EXCEPT ![k] = "running"]
  /\ UNCHANGED netVars

\* The handler returns.  It need not: code is free to block forever.
HandlerReturns(k) ==
  /\ handler[k] = "running"
  /\ handler' = [handler EXCEPT ![k] = "returned"]
  /\ UNCHANGED <<netVars, call>>

\* The end was disabled, or the name no longer stands for this very server.
isServerDead(k) ==
  call[k].end \notin enabled \/ servers[call[k].name] # call[k].server

\* The waiting loop ends: with the reply, or because a look that is taken
\* every 100 ms finds the server dead.
SeeReply(k) ==
  /\ call[k].pc = "waiting" /\ handler[k] = "returned"
  /\ call' = [call EXCEPT ![k].pc = "checking", ![k].replyOK = TRUE]
  /\ UNCHANGED <<netVars, handler>>

SeeDeadNever(k) == FALSE /\ UNCHANGED rpcVars

SeeDead(k) ==
  /\ call[k].pc = "waiting" /\ isServerDead(k)
  /\ call' = [call EXCEPT ![k].pc = "checking"]
  /\ UNCHANGED <<netVars, handler>>

AnswersIfAlive(k)  == ~isServerDead(k)
AnswersIfReply(k)  == call[k].replyOK

\* replyOK == false || serverDead == true decides against an answer.
Answers(k) == call[k].replyOK /\ ~isServerDead(k)

\* The last look at the server, and the fate of the reply: an unreliable
\* network may lose it, a long delay leaves it "answered" for a while.
Check(k) ==
  /\ call[k].pc = "checking"
  /\ \/ ~Answers(k) /\ Answer(k, FALSE)
     \/ Answers(k) /\ ~call[k].reliable /\ Answer(k, FALSE)
     \/ Answers(k) /\ call' = [call EXCEPT ![k].pc = "answered"]
  /\ UNCHANGED <<netVars, handler>>

\* The reply reaches Call().
Deliver(k) ==
  /\ call[k].pc = "answered"
  /\ Answer(k, TRUE)
  /\ UNCHANGED <<netVars, handler>>

processReq(k) ==
  \/ readEndnameInfo(k) \/ Refuse(k) \/ DropRequest(k) \/ Dispatch(k)
  \/ SeeReply(k) \/ SeeDead(k) \/ Check(k) \/ Deliver(k)

Rearrange ==
  \/ Cleanup
  \/ \E yes \in BOOLEAN : Reliable(yes)
  \/ \E e \in Ends : MakeEnd(e) \/ DeleteEnd(e)
  \/ \E n \in Names, o \in Objects : AddServer(n, o)
  \/ \E n \in Names : DeleteServer(n)
  \/ \E e \in ends, n \in Names : Connect(e, n)
  \/ \E e \in ends, yes \in BOOLEAN : Enable(e, yes)

RPCNext ==
  \/ Rearrange
  \/ \E k \in Calls : processReq(k) \/ HandlerReturns(k) \/ \E e \in Ends : Call(k, e)

RPCSpec == MakeNetwork /\ [][RPCNext]_rpcVars

\* The network's goroutines are scheduled and its timers fire.  Nothing is
\* assumed of handlers, nor of those who rearrange the network.
RPCFairness == \A k \in Calls : WF_rpcVars(processReq(k))

RPCTypeOK ==
  /\ reliable \in BOOLEAN /\ done \in BOOLEAN
  /\ ends \subseteq Ends /\ enabled \subseteq Ends
  /\ connections \in [Ends -> Names \cup {Nil}]
  /\ servers \in [Names -> Objects \cup {Nil}]
  /\ call \in [Calls -> [pc : {"idle", "queued", "accepted", "refused", "waiting",
                               "checking", "answered", "returned"},
                         end : Ends \cup {Nil}, name : Names \cup {Nil},
                         server : Objects \cup {Nil},
                         reliable : BOOLEAN, replyOK : BOOLEAN, ok : BOOLEAN]]
  /\ \A k \in Calls : call[k].pc \in {"accepted", "waiting", "checking", "answered"} =>
       call[k].name # Nil /\ call[k].server # Nil
  /\ handler \in [Calls -> {"idle", "running", "returned"}]

\* Call() returns true only if the server executed the request to its end
\* (labrpc.go:29-30), however the network was rearranged meanwhile.
TrueMeansExecuted ==
  \A k \in Calls : call[k].pc = "returned" /\ call[k].ok => handler[k] = "returned"

Pending(k) == call[k].pc \notin {"idle", "returned"}
Stuck(k)   == call[k].pc = "waiting" /\ handler[k] = "running" /\ ~isServerDead(k)

\* A Call() does not stay pending unless its handler goes on running on a
\* server that is alive (labrpc.go:37-38): a dead server releases it, even
\* when the handler never returns.
CallReturns == \A k \in Calls : []<>(~Pending(k) \/ Stuck(k))
====
