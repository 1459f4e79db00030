------------------------------ MODULE ShardCtrler ------------------------------
(***************************************************************************)
(* The shard controller (src/shardctrler): clerks that retry, RPC handlers *)
(* that submit an Op to Raft and wait on a channel made for the log index, *)
(* and the applier goroutine that consumes the Raft log, filters           *)
(* duplicates by client time stamp and answers the waiting handler.        *)
(*                                                                         *)
(* Raft itself is external: the bodies of src/raft/raft.go are not in the  *)
(* repository.  It appears here as what the controller relies on: a log    *)
(* per server, leaders that may be stale, entries that may be lost before  *)
(* they are committed, and committed entries delivered in order, once per  *)
(* index and per incarnation of the server.                                *)
(***************************************************************************)
EXTENDS Integers, Sequences, FiniteSets

CONSTANTS
  Servers,       \* the replicas of the controller
  Clerks,        \* the clients, one Clerk (and one clientID) each
  Script,        \* Script[c]: the commands clerk c issues, one after the other
  Handles,       \* Handles[c]: Clerk.servers, the order in which c tries them
  ClockSteps,    \* how far the wall clock may move between two time.Now()
  Nil,           \* not an Op, not a message, not a server
  MaxCalls,      \* bound: handler goroutines alive at once for one clerk
  MaxStamp,      \* bound: the wall clock
  MaxLog,        \* bound: the length of a log
  MaxTerm,       \* bound: elections
  MaxFaults      \* bound: lost messages, premature timeouts and crashes

Commands == {"Join", "Leave", "Move", "Query"}

Calls  == Clerks \X (1 .. MaxCalls)
Stamps == 1 .. MaxStamp       \* 0 stands for "no entry in the cache"

\* An Op without its arguments.  seq numbers the operations of one clerk: it
\* stands for the arguments, which the retries of an operation share.
Op == [cmd : Commands, client : Clerks, seq : Nat, ts : Stamps]

NoReply == -1                 \* ReplyQuery left at its zero value

\* What travels through a channel: the Op and the ReplyQuery field of it.
Msg == [op : Op, reply : Nat \cup {NoReply}]

NoOp  == Nil                  \* a log entry whose Command is not an Op
Empty == Nil                  \* a channel with nothing in it
Entry == [term : Nat, op : Op \cup {NoOp}]

ASSUME ConstantsAssumption ==
  /\ IsFiniteSet(Clerks)
  /\ Script \in [Clerks -> Seq(Commands)]
  /\ Handles \in [Clerks -> Seq(Servers)]
  /\ \A c \in Clerks : Len(Handles[c]) > 0
  /\ ClockSteps \subseteq Int
  /\ MaxCalls \in Nat /\ MaxStamp \in Nat \ {0} /\ MaxLog \in Nat
  /\ MaxTerm \in Nat /\ MaxFaults \in Nat
  /\ Nil \notin Op /\ Nil \notin Msg /\ Nil \notin Servers

VARIABLES
  rlog,          \* Raft: the log of each server, persisted
  leaderTerm,    \* Raft: the term a server believes it leads, or 0
  term,          \* Raft: the latest term
  committed,     \* Raft: the entries that can no longer be lost
  lastApplied,   \* index of the last entry a server took from applyCh
  cache,         \* ShardCtrler.cache: latest time stamp seen of each client
  handled,       \* the Ops handed to handleJoin/Leave/Move/Query: this
                 \*   sequence determines ShardCtrler.configs
  indexChan,     \* ShardCtrler.indexChan: index -> channel of capacity 1
  rpc,           \* the handler goroutine of every RPC
  clerk,         \* the Clerk of every client
  faults         \* faults so far

raftVars   == <<rlog, leaderTerm, term, committed>>
serverVars == <<lastApplied, cache, handled, indexChan>>
vars       == <<raftVars, serverVars, rpc, clerk, faults>>

\* The number of the newest configuration after the Ops of h were handled:
\* configs[0] exists from the start, each mutation appends one.
ConfigNum(h) == Cardinality({i \in DOMAIN h : h[i].cmd # "Query"})

\* The map of channels with value v at index i.
Put(chans, i, v) == [j \in DOMAIN chans \cup {i} |-> IF j = i THEN v ELSE chans[j]]

\* Sequence s begins with sequence p.
Continues(s, p) == Len(p) <= Len(s) /\ \A i \in DOMAIN p : s[i] = p[i]

Fault == faults < MaxFaults /\ faults' = faults + 1

-----------------------------------------------------------------------------
(* Clerks                                                                  *)

Idle == [pc |-> "free", srv |-> Nil, index |-> 0, reply |-> NoReply, op |-> Nil]

\* A Clerk between two operations; phase: "new" until the current one has
\* a time stamp, at: position in Handles, call: the RPC it waits for (0 for none),
\* floor: the changes that were acknowledged when the operation began.
MakeClerk ==
  [seq |-> 1, phase |-> "new", at |-> 1, ts |-> 1, call |-> 0, floor |-> 0]

Finished(c)    == clerk[c].seq > Len(Script[c])
Current(c)     == Script[c][clerk[c].seq]
RPC(c)         == <<c, clerk[c].call>>
Listening(h)   == clerk[h[1]].call = h[2]

\* Configuration changes some clerk has already been told are done.
AckedChanges ==
  Cardinality({x \in UNION {{c} \X (1 .. (clerk[c].seq - 1)) : c \in Clerks} :
                 Script[x[1]][x[2]] # "Query"})

\* time.Now(): the monotonic reading does not survive the encoding of the
\* arguments, so what servers compare is the wall clock.
Now(c) == {clerk[c].ts + d : d \in ClockSteps} \cap Stamps

\* srv.Call() in the loop of an operation, with time stamp t in the arguments.
Send(c, t) ==
  /\ clerk[c].call = 0
  /\ \E k \in 1 .. MaxCalls :
       /\ rpc[<<c, k>>].pc = "free"
       /\ \A j \in 1 .. (k - 1) : rpc[<<c, j>>].pc # "free"
       /\ clerk' = [clerk EXCEPT ![c].call = k, ![c].ts = t, ![c].phase = "retry",
                      ![c].floor = IF clerk[c].phase = "new" THEN AckedChanges ELSE @]
       /\ rpc' = [rpc EXCEPT ![<<c, k>>] =
                    [pc |-> "sent", srv |-> Handles[c][clerk[c].at],
                     index |-> 0, reply |-> NoReply,
                     op |-> [cmd |-> Current(c), client |-> c,
                             seq |-> clerk[c].seq, ts |-> t]]]
  /\ UNCHANGED <<raftVars, serverVars, faults>>

\* The time stamp of an operation that reads the clock before its loop.
StampOnce(c) == IF clerk[c].phase = "new" THEN Now(c) ELSE {clerk[c].ts}

Query(c) ==
  /\ ~Finished(c) /\ Current(c) = "Query"
  /\ \E t \in StampOnce(c) : Send(c, t)

\* Join and Leave read the clock again for every RPC they send.
Join(c) ==
  /\ ~Finished(c) /\ Current(c) = "Join"
  /\ \E t \in Now(c) : Send(c, t)

Leave(c) ==
  /\ ~Finished(c) /\ Current(c) = "Leave"
  /\ \E t \in Now(c) : Send(c, t)

MoveRestamped(c) ==
  /\ ~Finished(c) /\ Current(c) = "Move"
  /\ \E t \in Now(c) : Send(c, t)

Move(c) ==
  /\ ~Finished(c) /\ Current(c) = "Move"
  /\ \E t \in StampOnce(c) : Send(c, t)

NextServerNoWrap(c) == [clerk[c] EXCEPT !.call = 0, !.at = @ + 1]
NextServerSticks(c) == [clerk[c] EXCEPT !.call = 0]

\* The clerk after a failed attempt: the loop goes on to the next server.
NextServer(c) ==
  [clerk[c] EXCEPT !.call = 0,
     !.at = IF @ = Len(Handles[c]) THEN 1 ELSE @ + 1]

\* The clerk after its method returned.
NextOperation(c) ==
  [clerk[c] EXCEPT !.call = 0, !.at = 1, !.seq = @ + 1, !.phase = "new"]

\* Call() returned true: reply.WrongLeader decides.
CallReturns(c) ==
  /\ clerk[c].call # 0
  /\ rpc[RPC(c)].pc \in {"ok", "wrongLeader"}
  /\ clerk' = [clerk EXCEPT ![c] = IF rpc[RPC(c)].pc = "ok"
                                     THEN NextOperation(c) ELSE NextServer(c)]
  /\ rpc' = [rpc EXCEPT ![RPC(c)] = Idle]
  /\ UNCHANGED <<raftVars, serverVars, faults>>

-----------------------------------------------------------------------------
(* The network between a clerk and a server (labrpc)                       *)

\* The request is dropped, or the server cannot be reached: no handler runs.
RequestLost(c) ==
  /\ clerk[c].call # 0
  /\ rpc[RPC(c)].pc = "sent"
  /\ Fault
  /\ clerk' = [clerk EXCEPT ![c] = NextServer(c)]
  /\ rpc' = [rpc EXCEPT ![RPC(c)] = Idle]
  /\ UNCHANGED <<raftVars, serverVars>>

\* The reply is dropped, or the connection is cut while the handler runs, or
\* before its goroutine came to run, and it carries on unheard: Call() returns
\* false.
ReplyLost(c) ==
  /\ clerk[c].call # 0
  /\ rpc[RPC(c)].pc \in {"sent", "started", "waiting", "ok", "wrongLeader"}
  /\ Fault
  /\ clerk' = [clerk EXCEPT ![c] = NextServer(c)]
  /\ rpc' = [rpc EXCEPT ![RPC(c)] = IF @.pc \in {"ok", "wrongLeader"} THEN Idle ELSE @]
  /\ UNCHANGED <<raftVars, serverVars>>

\* The server was killed while the handler ran: Call() returns false.
ServerDead(c) ==
  /\ clerk[c].call # 0
  /\ rpc[RPC(c)].pc = "dead"
  /\ clerk' = [clerk EXCEPT ![c] = NextServer(c)]
  /\ rpc' = [rpc EXCEPT ![RPC(c)] = Idle]
  /\ UNCHANGED <<raftVars, serverVars, faults>>

-----------------------------------------------------------------------------
(* RPC handlers: sendToRaftAndWait                                         *)

\* Hidden in the repository; the callers need the Op they submitted, and a
\* client's Op is known by its ClientId and TimeStamp.
isOpMatched(clientOp, raftOp) ==
  clientOp.client = raftOp.client /\ clientOp.ts = raftOp.ts

\* A handler that returns; when nobody listens any more its reply is dropped.
Return(h, record) == IF Listening(h) THEN record ELSE Idle

StartReadsLocally(h) ==
  LET s == rpc[h].srv IN
  /\ rpc[h].pc = "sent"
  /\ \/ /\ leaderTerm[s] = 0
        /\ rpc' = [rpc EXCEPT ![h] = Return(h, [@ EXCEPT !.pc = "wrongLeader"])]
        /\ UNCHANGED rlog
     \/ /\ leaderTerm[s] # 0 /\ rpc[h].op.cmd = "Query"
        /\ rpc' = [rpc EXCEPT ![h] =
                     Return(h, [@ EXCEPT !.pc = "ok", !.reply = ConfigNum(handled[s])])]
        /\ UNCHANGED rlog
     \/ /\ leaderTerm[s] # 0 /\ rpc[h].op.cmd # "Query"
        /\ Len(rlog[s]) < MaxLog
        /\ rpc' = [rpc EXCEPT ![h].pc = "started", ![h].index = Len(rlog[s]) + 1]
        /\ rlog' = [rlog EXCEPT ![s] = Append(@, [term |-> leaderTerm[s], op |-> rpc[h].op])]
  /\ UNCHANGED <<leaderTerm, term, committed, serverVars, clerk, faults>>

\* rf.Start(): refused by a server that does not believe it is the leader,
\* otherwise the Op is appended to its log, whose new length is the index.
Start(h) ==
  LET s == rpc[h].srv IN
  /\ rpc[h].pc = "sent"
  /\ \/ /\ leaderTerm[s] = 0
        /\ rpc' = [rpc EXCEPT ![h] = Return(h, [@ EXCEPT !.pc = "wrongLeader"])]
        /\ UNCHANGED rlog
     \/ /\ leaderTerm[s] # 0
        /\ Len(rlog[s]) < MaxLog
        /\ rpc' = [rpc EXCEPT ![h].pc = "started", ![h].index = Len(rlog[s]) + 1]
        /\ rlog' = [rlog EXCEPT ![s] = Append(@, [term |-> leaderTerm[s], op |-> rpc[h].op])]
  /\ UNCHANGED <<leaderTerm, term, committed, serverVars, clerk, faults>>

\* The entry Raft would next send to applyCh of s, when there is one: it is
\* committed and s has it.
Deliverable(s) ==
  LET i == lastApplied[s] + 1 IN
  /\ i \in DOMAIN committed /\ i \in DOMAIN rlog[s]
  /\ rlog[s][i] = committed[i]

\* opCh <- op would block, inside the critical section of sc.mu.
ApplierStuck(s) ==
  LET i == lastApplied[s] + 1 IN
  /\ Deliverable(s)
  /\ committed[i].op # NoOp
  /\ i \in DOMAIN indexChan[s]
  /\ indexChan[s][i] # Empty

\* With sc.mu held: find or make the channel of the index.
Register(h) ==
  LET s == rpc[h].srv
      i == rpc[h].index
  IN
  /\ rpc[h].pc = "started"
  /\ ~ApplierStuck(s)
  /\ indexChan' = [indexChan EXCEPT ![s] = IF i \in DOMAIN @ THEN @ ELSE Put(@, i, Empty)]
  /\ rpc' = [rpc EXCEPT ![h].pc = "waiting"]
  /\ UNCHANGED <<raftVars, lastApplied, cache, handled, clerk, faults>>

\* The select takes an Op from the channel.  The hidden RPC methods answer
\* WrongLeader unless it matches, which is what the clerk's loop tests.
Receive(h) ==
  LET s == rpc[h].srv
      i == rpc[h].index
      m == indexChan[s][i]
      p == IF isOpMatched(rpc[h].op, m.op) THEN "ok" ELSE "wrongLeader"
  IN
  /\ rpc[h].pc = "waiting"
  /\ m # Empty
  /\ indexChan' = [indexChan EXCEPT ![s] = Put(@, i, Empty)]
  /\ rpc' = [rpc EXCEPT ![h] = Return(h, [@ EXCEPT !.pc = p, !.reply = m.reply])]
  /\ UNCHANGED <<raftVars, lastApplied, cache, handled, clerk, faults>>

\* The Op of h can still be answered: its entry sits in the log of a server
\* that leads the latest term, or is committed, and nobody took the answer.
Hopeful(h) ==
  LET s == rpc[h].srv
      i == rpc[h].index
  IN
  /\ i \in DOMAIN rlog[s]
  /\ rlog[s][i].op = rpc[h].op
  /\ leaderTerm[s] = term \/ i \in DOMAIN committed
  /\ lastApplied[s] < i \/ indexChan[s][i] # Empty

\* The select takes the 500 ms timer; the channel stays in the map.  Only a
\* timeout of a request that could still be answered counts as a fault.
Timeout(h) ==
  /\ rpc[h].pc = "waiting"
  /\ IF Hopeful(h) THEN Fault ELSE UNCHANGED faults
  /\ rpc' = [rpc EXCEPT ![h] = Return(h, [@ EXCEPT !.pc = "wrongLeader"])]
  /\ UNCHANGED <<raftVars, serverVars, clerk>>

-----------------------------------------------------------------------------
(* The applier: runShardCtrler                                             *)

IsNewOther(s, op) == cache[s][op.client] = 0 \/ op.ts # cache[s][op.client]
IsNewFirst(s, op) == cache[s][op.client] = 0

\* The duplicate test of the applier.
IsNew(s, op) == cache[s][op.client] = 0 \/ op.ts > cache[s][op.client]

\* One iteration: take the next ApplyMsg, skip it if its Command is not an
\* Op, otherwise handle it unless it is a duplicate, and hand it to whoever
\* waits (or will wait) at its index.  Only handleQuery fills ReplyQuery.
Apply(s) ==
  LET i  == lastApplied[s] + 1
      op == committed[i].op
      r  == IF IsNew(s, op) /\ op.cmd = "Query" THEN ConfigNum(handled[s]) ELSE NoReply
  IN
  /\ Deliverable(s)
  /\ ~ApplierStuck(s)
  /\ lastApplied' = [lastApplied EXCEPT ![s] = i]
  /\ \/ /\ op = NoOp
        /\ UNCHANGED <<cache, handled, indexChan>>
     \/ /\ op # NoOp
        /\ IF IsNew(s, op)
             THEN /\ cache' = [cache EXCEPT ![s][op.client] = op.ts]
                  /\ handled' = [handled EXCEPT ![s] = Append(@, op)]
             ELSE UNCHANGED <<cache, handled>>
        /\ indexChan' = [indexChan EXCEPT ![s] = Put(@, i, [op |-> op, reply |-> r])]
  /\ UNCHANGED <<raftVars, rpc, clerk, faults>>

NewServerKeepsCache(s) ==
  /\ lastApplied' = [lastApplied EXCEPT ![s] = 0]
  /\ handled' = [handled EXCEPT ![s] = <<>>]
  /\ indexChan' = [indexChan EXCEPT ![s] = <<>>]
  /\ UNCHANGED cache

NewServerKeepsChannels(s) ==
  /\ lastApplied' = [lastApplied EXCEPT ![s] = 0]
  /\ cache' = [cache EXCEPT ![s] = [c \in Clerks |-> 0]]
  /\ handled' = [handled EXCEPT ![s] = <<>>]
  /\ UNCHANGED indexChan

\* A server process as StartServer makes it: configs[0] only, empty maps, and
\* a Raft that delivers its log from the first entry again.
NewServer(s) ==
  /\ lastApplied' = [lastApplied EXCEPT ![s] = 0]
  /\ cache' = [cache EXCEPT ![s] = [c \in Clerks |-> 0]]
  /\ handled' = [handled EXCEPT ![s] = <<>>]
  /\ indexChan' = [indexChan EXCEPT ![s] = <<>>]

\* ShutdownServer, then StartServer on a copy of the persister: the log
\* survives, the handlers of the old process are never heard again.  Only a
\* request that is still on its way reaches the new process.
Restart(s) ==
  /\ term < MaxTerm         \* bound: leave room for one more election
  /\ Fault
  /\ NewServer(s)
  /\ leaderTerm' = [leaderTerm EXCEPT ![s] = 0]
  /\ rpc' = [h \in Calls |->
       IF rpc[h].srv = s /\ rpc[h].pc # "free" /\ ~(rpc[h].pc = "sent" /\ Listening(h))
         THEN Return(h, [rpc[h] EXCEPT !.pc = "dead"]) ELSE rpc[h]]
  /\ UNCHANGED <<rlog, term, committed, clerk>>

-----------------------------------------------------------------------------
(* Raft, as the controller sees it                                         *)

\* s wins an election: its log holds every committed entry.  A new leader
\* starts its term with an entry that is not an Op.
Elect(s) ==
  /\ term < MaxTerm /\ Len(rlog[s]) < MaxLog
  /\ Continues(rlog[s], committed)
  /\ term' = term + 1
  /\ leaderTerm' = [leaderTerm EXCEPT ![s] = term + 1]
  /\ rlog' = [rlog EXCEPT ![s] = Append(@, [term |-> term + 1, op |-> NoOp])]
  /\ UNCHANGED <<committed, serverVars, rpc, clerk, faults>>

\* The leader of the latest term brings another server in line with its log.
Replicate(s, f) ==
  /\ leaderTerm[s] = term /\ term # 0 /\ f # s
  /\ rlog[f] # rlog[s] \/ leaderTerm[f] # 0
  /\ rlog' = [rlog EXCEPT ![f] = rlog[s]]
  /\ leaderTerm' = [leaderTerm EXCEPT ![f] = 0]
  /\ UNCHANGED <<term, committed, serverVars, rpc, clerk, faults>>

\* The leader of the latest term learns that a majority has its next entry.
Commit(s) ==
  LET i == Len(committed) + 1 IN
  /\ leaderTerm[s] = term /\ term # 0
  /\ i \in DOMAIN rlog[s]
  /\ committed' = Append(committed, rlog[s][i])
  /\ UNCHANGED <<rlog, leaderTerm, term, serverVars, rpc, clerk, faults>>

-----------------------------------------------------------------------------

Init ==
  /\ rlog = [s \in Servers |-> <<>>]
  /\ leaderTerm = [s \in Servers |-> 0]
  /\ term = 0
  /\ committed = <<>>
  /\ lastApplied = [s \in Servers |-> 0]
  /\ cache = [s \in Servers |-> [c \in Clerks |-> 0]]
  /\ handled = [s \in Servers |-> <<>>]
  /\ indexChan = [s \in Servers |-> <<>>]
  /\ rpc = [h \in Calls |-> Idle]
  /\ clerk = [c \in Clerks |-> MakeClerk]
  /\ faults = 0

ClerkNext(c)   == Query(c) \/ Join(c) \/ Leave(c) \/ Move(c) \/ CallReturns(c)
NetworkNext(c) == RequestLost(c) \/ ReplyLost(c) \/ ServerDead(c)
HandlerNext(h) == Start(h) \/ Register(h) \/ Receive(h) \/ Timeout(h)
RaftNext(s)    == Elect(s) \/ Commit(s) \/ \E f \in Servers : Replicate(s, f)

Next ==
  \/ \E c \in Clerks : ClerkNext(c) \/ NetworkNext(c)
  \/ \E h \in Calls : HandlerNext(h)
  \/ \E s \in Servers : Apply(s) \/ Restart(s) \/ RaftNext(s)

Spec == Init /\ [][Next]_vars

-----------------------------------------------------------------------------

Handler == [pc : {"free", "sent", "started", "waiting", "ok", "wrongLeader", "dead"},
            srv : Servers \cup {Nil}, index : Nat,
            reply : Nat \cup {NoReply}, op : Op \cup {Nil}]
Clerk   == [seq : Nat, phase : {"new", "retry"}, at : Nat, ts : Nat, call : Nat,
            floor : Nat]

TypeOK ==
  /\ rlog \in [Servers -> Seq(Entry)]
  /\ leaderTerm \in [Servers -> Nat]
  /\ term \in Nat
  /\ committed \in Seq(Entry)
  /\ lastApplied \in [Servers -> Nat]
  /\ cache \in [Servers -> [Clerks -> Nat]]
  /\ handled \in [Servers -> Seq(Op)]
  /\ DOMAIN indexChan = Servers
  /\ \A s \in Servers : /\ DOMAIN indexChan[s] \subseteq Nat
                        /\ \A i \in DOMAIN indexChan[s] :
                             indexChan[s][i] \in Msg \cup {Empty}
  /\ rpc \in [Calls -> Handler]
  /\ clerk \in [Clerks -> Clerk]
  /\ \A c \in Clerks : /\ clerk[c].seq > 0 /\ clerk[c].call <= MaxCalls
                       /\ clerk[c].at \in DOMAIN Handles[c] /\ clerk[c].ts \in Stamps
  /\ faults \in Nat

\* The applier never blocks on opCh <- op (server.go:171).  It would keep
\* sc.mu, and with it every handler of the server, forever.
ApplierNeverBlocks == \A s \in Servers : ~ApplierStuck(s)

\* Replicas go through the same configurations (server.go:148-162): what one
\* has handled is a prefix of what another has, restarts included.
ReplicasAgree ==
  \A s, t \in Servers :
    Continues(handled[t], handled[s]) \/ Continues(handled[s], handled[t])

\* A delayed copy of an operation never takes effect after a later operation
\* of the same clerk did (the time stamp test at server.go:149).
OldNeverAfterNew ==
  \A s \in Servers : \A i, j \in DOMAIN handled[s] :
    i < j /\ handled[s][i].client = handled[s][j].client
      => handled[s][i].seq <= handled[s][j].seq

\* An operation whose clerk method has returned (client.go:48, 67, 88, 108)
\* was handled by every replica that has applied the whole committed log.
AckedIsHandled ==
  \A c \in Clerks, s \in Servers :
    lastApplied[s] = Len(committed) =>
      \A n \in 1 .. (clerk[c].seq - 1) :
        \E i \in DOMAIN handled[s] : handled[s][i].client = c /\ handled[s][i].seq = n

\* Times a replica has handled operation n of clerk c.
TimesHandled(s, c, n) ==
  Cardinality({i \in DOMAIN handled[s] : handled[s][i].client = c /\ handled[s][i].seq = n})

\* Move and Query, which keep their time stamp over retries (client.go:41,
\* 102), take effect at most once however often they are submitted.
FixedStampOnce ==
  \A s \in Servers, c \in Clerks : \A n \in DOMAIN Script[c] :
    Script[c][n] \in {"Move", "Query"} => TimesHandled(s, c, n) <= 1

\* A Query that is answered with a configuration sees every change that any
\* clerk had been told is done before the Query began (client.go:48-50).
QueryReflectsAcked ==
  \A c \in Clerks : clerk[c].call # 0 =>
    LET r == rpc[RPC(c)] IN
    r.pc = "ok" /\ r.op.cmd = "Query" /\ r.reply # NoReply => r.reply >= clerk[c].floor

\* At-most-once semantics as the README states it (README.md:307), for every
\* command: no retry takes effect a second time.
AtMostOnce ==
  \A s \in Servers, c \in Clerks : \A n \in DOMAIN Script[c] : TimesHandled(s, c, n) <= 1

\* Query fetches a configuration (common.go:14): the Op that reaches the
\* handler of a successful Query carries the ReplyQuery of handleQuery.
QueryHasReply ==
  \A h \in Calls : rpc[h].pc = "ok" /\ rpc[h].op.cmd = "Query" => rpc[h].reply # NoReply

-----------------------------------------------------------------------------

GiveUp(h) == rpc[h].pc = "waiting" /\ ~Hopeful(h) /\ Timeout(h)

NoLeader == \A s \in Servers : leaderTerm[s] # term \/ term = 0

\* Goroutines are scheduled, timers fire, a cluster without a leader elects
\* one, and a leader replicates and commits.  Faults are never fair.
Fairness ==
  /\ \A c \in Clerks : WF_vars(ClerkNext(c)) /\ WF_vars(ServerDead(c))
  /\ \A h \in Calls : /\ WF_vars(Start(h)) /\ WF_vars(Register(h)) /\ WF_vars(Receive(h))
                      /\ WF_vars(GiveUp(h))
  /\ \A s \in Servers : WF_vars(Apply(s)) /\ WF_vars(Commit(s))
  /\ \A s, f \in Servers : WF_vars(Replicate(s, f))
  /\ WF_vars(NoLeader /\ \E s \in Servers : Elect(s))

FairSpec == Spec /\ Fairness

\* Once faults cease, every clerk gets through its operations: no answer is
\* lost for good between handler, channel and applier, and the loop over the
\* servers finds the leader (server.go:40-65, client.go:43-53).
ClerksFinish == \A c \in Clerks : <>Finished(c)
====
