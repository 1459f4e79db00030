--------------------------- MODULE ShardCtrlerProofs ---------------------------
(***************************************************************************)
(* Proofs about ShardCtrler, for any number of servers and clerks, any     *)
(* scripts and any value of the bounds.                                    *)
(***************************************************************************)
EXTENDS ShardCtrler, FiniteSetTheorems, TLAPS

\* Zenon is quicker on most steps; what needs arithmetic is left to the solver.
USE ZenonT(10), SMTT(20)

\* Every handler that is under way has a server and an Op.
RpcShape ==
  \A h \in Calls : rpc[h].pc # "free" => rpc[h].srv \in Servers /\ rpc[h].op \in Op

\* A channel that holds an Op belongs to an index the applier is past: it can
\* never be asked to put a second Op into it.
ChannelsPast ==
  \A s \in Servers : \A i \in DOMAIN indexChan[s] :
    indexChan[s][i] # Empty => i <= lastApplied[s]

\* A handler in its select waits on a channel of its server's map.
WaitersHaveChannels ==
  \A h \in Calls : rpc[h].pc = "waiting" => rpc[h].index \in DOMAIN indexChan[rpc[h].srv]

IndInv == TypeOK /\ RpcShape /\ ChannelsPast /\ WaitersHaveChannels

-----------------------------------------------------------------------------

\* Configuration numbers are natural numbers: what handleQuery puts in a reply.
LEMMA ConfigNumNat ==
  ASSUME NEW h \in Seq(Op)
  PROVE  ConfigNum(h) \in Nat
<1>1. DOMAIN h = 1 .. Len(h) /\ Len(h) \in Nat
  OBVIOUS
<1>2. IsFiniteSet(DOMAIN h)
  BY <1>1, FS_Interval
<1>3. IsFiniteSet({i \in DOMAIN h : h[i].cmd # "Query"})
  BY <1>2, FS_Subset
<1> QED
  BY <1>3, FS_CardinalityType DEF ConfigNum

\* The number of acknowledged changes is finite, since the clerks are.
LEMMA AckedChangesNat == TypeOK => AckedChanges \in Nat
<1> SUFFICES ASSUME TypeOK PROVE AckedChanges \in Nat
  OBVIOUS
<1> DEFINE T(c) == {c} \X (1 .. (clerk[c].seq - 1))
<1> DEFINE Ts == {T(c) : c \in Clerks}
<1>1. ASSUME NEW c \in Clerks PROVE IsFiniteSet(T(c))
  <2>1. IsFiniteSet({c})
    BY FS_Singleton
  <2>2. IsFiniteSet(1 .. (clerk[c].seq - 1))
    BY FS_Interval DEF TypeOK, Clerk
  <2> QED
    BY <2>1, <2>2, FS_Product
<1>2. IsFiniteSet(Ts)
  <2> DEFINE f == [c \in Clerks |-> T(c)]
  <2>1. f \in Surjection(Clerks, Ts)
    BY DEF Surjection
  <2> QED
    BY <2>1, FS_Surjection, ConstantsAssumption
<1>3. IsFiniteSet(UNION Ts)
  BY <1>1, <1>2, FS_UNION
<1>4. {x \in UNION Ts : Script[x[1]][x[2]] # "Query"} \subseteq UNION Ts
  OBVIOUS
<1>5. IsFiniteSet({x \in UNION Ts : Script[x[1]][x[2]] # "Query"})
  BY <1>3, <1>4, FS_Subset
<1> QED
  BY <1>5, FS_CardinalityType DEF AckedChanges

-----------------------------------------------------------------------------

\* The servers as make_config starts them (shardctrler/config.go:334-357).
LEMMA InitIndInv == Init => IndInv
<1> SUFFICES ASSUME Init PROVE IndInv
  OBVIOUS
<1>1. TypeOK
  BY ConstantsAssumption DEF Init, TypeOK, Idle, MakeClerk, Handler, Clerk, Calls, Stamps, NoReply
<1>2. RpcShape
  BY DEF Init, RpcShape, Idle
<1>3. ChannelsPast
  BY DEF Init, ChannelsPast
<1>4. WaitersHaveChannels
  BY DEF Init, WaitersHaveChannels, Idle
<1> QED
  BY <1>1, <1>2, <1>3, <1>4 DEF IndInv

\* Clerk.servers is a non-empty list of servers.
LEMMA HandlesDomain ==
  ASSUME NEW c \in Clerks
  PROVE  /\ Len(Handles[c]) \in Nat \ {0}
         /\ DOMAIN Handles[c] = 1 .. Len(Handles[c])
         /\ \A k \in DOMAIN Handles[c] : Handles[c][k] \in Servers
<1>1. Handles[c] \in Seq(Servers)
  BY ConstantsAssumption
<1> QED
  BY <1>1, ConstantsAssumption

\* Going on to the next server stays within Clerk.servers (client.go:45).
LEMMA NextServerType ==
  ASSUME TypeOK, NEW c \in Clerks
  PROVE  /\ NextServer(c) \in Clerk
         /\ NextServer(c).seq > 0 /\ NextServer(c).call <= MaxCalls
         /\ NextServer(c).at \in DOMAIN Handles[c] /\ NextServer(c).ts \in Stamps
<1> DEFINE n == Len(Handles[c])
<1>1. /\ clerk[c] \in Clerk /\ clerk[c].seq > 0 /\ clerk[c].ts \in Stamps
      /\ clerk[c].at \in 1 .. n /\ n \in Nat \ {0}
  BY HandlesDomain DEF TypeOK
<1>2. MaxCalls \in Nat
  BY ConstantsAssumption
<1>3. NextServer(c) = [clerk[c] EXCEPT !.call = 0, !.at = IF @ = n THEN 1 ELSE @ + 1]
  BY DEF NextServer
<1> HIDE DEF n
<1>4. /\ NextServer(c) \in Clerk /\ NextServer(c).call = 0
      /\ NextServer(c).seq > 0 /\ NextServer(c).at \in 1 .. n
      /\ NextServer(c).ts = clerk[c].ts
  <2> DEFINE q == [clerk[c] EXCEPT !.call = 0]
  <2>1. /\ q \in Clerk /\ q.call = 0 /\ q.seq = clerk[c].seq /\ q.at = clerk[c].at
        /\ q.ts = clerk[c].ts
    BY <1>1 DEF Clerk
  <2>2. NextServer(c) = [q EXCEPT !.at = IF @ = n THEN 1 ELSE @ + 1]
    BY <1>3
  <2> HIDE DEF q
  <2> QED
    BY <1>1, <2>1, <2>2 DEF Clerk
<1> QED
  BY <1>1, <1>2, <1>4, HandlesDomain DEF n

\* A method that returns leaves the clerk ready for its next one.
LEMMA NextOperationType ==
  ASSUME TypeOK, NEW c \in Clerks
  PROVE  /\ NextOperation(c) \in Clerk
         /\ NextOperation(c).seq > 0 /\ NextOperation(c).call <= MaxCalls
         /\ NextOperation(c).at \in DOMAIN Handles[c] /\ NextOperation(c).ts \in Stamps
<1>1. clerk[c] \in Clerk /\ clerk[c].seq > 0 /\ clerk[c].ts \in Stamps
  BY DEF TypeOK
<1>2. MaxCalls \in Nat
  BY ConstantsAssumption
<1>3. /\ NextOperation(c) \in Clerk /\ NextOperation(c).call = 0
      /\ NextOperation(c).seq > 0 /\ NextOperation(c).at = 1
      /\ NextOperation(c).ts = clerk[c].ts
  <2> DEFINE q == [clerk[c] EXCEPT !.call = 0]
             r == [q EXCEPT !.at = 1]
             v == [r EXCEPT !.seq = @ + 1]
  <2>1. q \in Clerk /\ q.call = 0 /\ q.seq = clerk[c].seq /\ q.ts = clerk[c].ts
    BY <1>1 DEF Clerk
  <2> HIDE DEF q
  <2>2. r \in Clerk /\ r.call = 0 /\ r.seq = clerk[c].seq /\ r.at = 1 /\ r.ts = clerk[c].ts
    BY <2>1 DEF Clerk
  <2> HIDE DEF r
  <2>3. v \in Clerk /\ v.call = 0 /\ v.seq > 0 /\ v.at = 1 /\ v.ts = clerk[c].ts
    BY <1>1, <2>2 DEF Clerk
  <2>4. NextOperation(c) = [v EXCEPT !.phase = "new"]
    BY DEF NextOperation, v, r, q
  <2> HIDE DEF v
  <2> QED
    BY <2>3, <2>4 DEF Clerk
<1> QED
  BY <1>1, <1>2, <1>3, HandlesDomain

\* A clerk that is not finished has a command to issue.
LEMMA CurrentType ==
  ASSUME TypeOK, NEW c \in Clerks, ~Finished(c)
  PROVE  Current(c) \in Commands
<1>1. Script[c] \in Seq(Commands)
  BY ConstantsAssumption
<1>2. clerk[c].seq \in Nat /\ clerk[c].seq > 0
  BY DEF TypeOK, Clerk
<1> QED
  BY <1>1, <1>2 DEF Finished, Current

\* A clerk sends an RPC (labrpc Call(), client.go:47, 66, 87, 107).
LEMMA StepSend ==
  ASSUME IndInv, NEW c \in Clerks, ~Finished(c), NEW t \in Stamps, Send(c, t)
  PROVE  IndInv'
<1> DEFINE op == [cmd |-> Current(c), client |-> c, seq |-> clerk[c].seq, ts |-> t]
<1> USE DEF Calls
<1>0. clerk[c] \in Clerk /\ Handles[c][clerk[c].at] \in Servers /\ op \in Op
  BY HandlesDomain, CurrentType DEF IndInv, TypeOK, Op, Clerk
<1>1. AckedChanges \in Nat
  BY AckedChangesNat DEF IndInv
<1> HIDE DEF op
<1>2. PICK k \in 1 .. MaxCalls :
        /\ clerk' = [clerk EXCEPT ![c].call = k, ![c].ts = t, ![c].phase = "retry",
                       ![c].floor = IF clerk[c].phase = "new" THEN AckedChanges ELSE @]
        /\ rpc' = [rpc EXCEPT ![<<c, k>>] =
                     [pc |-> "sent", srv |-> Handles[c][clerk[c].at], index |-> 0,
                      reply |-> NoReply, op |-> op]]
  BY DEF Send, op
<1>3. /\ clerk' \in [Clerks -> Clerk]
      /\ \A d \in Clerks : /\ clerk'[d].at = clerk[d].at /\ clerk'[d].seq = clerk[d].seq
                           /\ clerk'[d].call \in {clerk[d].call, k}
                           /\ clerk'[d].ts \in {clerk[d].ts, t}
  <2>1. t \in Nat /\ MaxCalls \in Nat
    BY ConstantsAssumption DEF Stamps
  <2>2. clerk \in [Clerks -> Clerk]
    BY DEF IndInv, TypeOK
  <2> DEFINE q == [clerk[c] EXCEPT !.call = k]
             r == [q EXCEPT !.ts = t]
             v == [r EXCEPT !.phase = "retry"]
             w == [v EXCEPT !.floor = IF clerk[c].phase = "new" THEN AckedChanges ELSE @]
  <2>3. clerk' = [clerk EXCEPT ![c] = w]
    BY <1>2, <2>2
  <2>4. q \in Clerk /\ q.call = k /\ q.seq = clerk[c].seq /\ q.at = clerk[c].at
    BY <1>0, <2>1 DEF Clerk
  <2> HIDE DEF q
  <2>5. r \in Clerk /\ r.call = k /\ r.seq = clerk[c].seq /\ r.at = clerk[c].at /\ r.ts = t
    BY <2>1, <2>4 DEF Clerk
  <2> HIDE DEF r
  <2>6. v \in Clerk /\ v.call = k /\ v.seq = clerk[c].seq /\ v.at = clerk[c].at /\ v.ts = t
    BY <2>5 DEF Clerk
  <2> HIDE DEF v
  <2>7. w \in Clerk /\ w.call = k /\ w.seq = clerk[c].seq /\ w.at = clerk[c].at /\ w.ts = t
    BY <1>1, <2>6 DEF Clerk
  <2> HIDE DEF w
  <2> QED
    BY <2>2, <2>3, <2>7
<1>4. rpc' \in [Calls -> Handler]
  BY <1>0, <1>2 DEF IndInv, TypeOK, Handler
<1>5. \A d \in Clerks : /\ clerk'[d].seq > 0 /\ clerk'[d].call <= MaxCalls
                        /\ clerk'[d].at \in DOMAIN Handles[d] /\ clerk'[d].ts \in Stamps
  <2>1. MaxCalls \in Nat
    BY ConstantsAssumption
  <2>2. \A d \in Clerks : /\ clerk[d].seq > 0 /\ clerk[d].call <= MaxCalls
                          /\ clerk[d].at \in DOMAIN Handles[d] /\ clerk[d].ts \in Stamps
    BY DEF IndInv, TypeOK
  <2> QED
    BY <1>3, <2>1, <2>2
<1>6. TypeOK'
  BY <1>3, <1>4, <1>5 DEF IndInv, TypeOK, Send, raftVars, serverVars
<1>7. RpcShape'
  BY <1>0, <1>2 DEF IndInv, TypeOK, RpcShape
<1>8. ChannelsPast'
  BY DEF IndInv, ChannelsPast, Send, serverVars
<1>9. WaitersHaveChannels'
  BY <1>2 DEF IndInv, TypeOK, WaitersHaveChannels, Send, serverVars
<1> QED
  BY <1>6, <1>7, <1>8, <1>9 DEF IndInv

\* The clerk goes on; its call is over, or its handler runs on unheard.
LEMMA StepClerk ==
  ASSUME IndInv, NEW c \in Clerks,
         CallReturns(c) \/ RequestLost(c) \/ ReplyLost(c) \/ ServerDead(c)
  PROVE  IndInv'
<1>1. /\ UNCHANGED <<rlog, leaderTerm, term, committed, lastApplied, cache, handled, indexChan>>
      /\ faults' \in Nat
  BY DEF IndInv, TypeOK, CallReturns, RequestLost, ReplyLost, ServerDead, Fault,
         raftVars, serverVars
<1>2. /\ clerk' \in [Clerks -> Clerk]
      /\ \A d \in Clerks : /\ clerk'[d].seq > 0 /\ clerk'[d].call <= MaxCalls
                           /\ clerk'[d].at \in DOMAIN Handles[d] /\ clerk'[d].ts \in Stamps
  <2>1. PICK r \in {NextServer(c), NextOperation(c)} : clerk' = [clerk EXCEPT ![c] = r]
    BY DEF CallReturns, RequestLost, ReplyLost, ServerDead
  <2>2. /\ r \in Clerk /\ r.seq > 0 /\ r.call <= MaxCalls
        /\ r.at \in DOMAIN Handles[c] /\ r.ts \in Stamps
    BY NextServerType, NextOperationType DEF IndInv
  <2> QED
    BY <2>1, <2>2 DEF IndInv, TypeOK
<1>3. rpc' = [rpc EXCEPT ![RPC(c)] = Idle] \/ rpc' = rpc
  <2>1. CASE ReplyLost(c)
    BY <2>1 DEF ReplyLost, IndInv, TypeOK
  <2> QED
    BY <2>1 DEF CallReturns, RequestLost, ServerDead
<1>4. Idle \in Handler
  BY DEF Idle, Handler
<1>5. TypeOK'
  BY <1>1, <1>2, <1>3, <1>4 DEF IndInv, TypeOK
<1>6. \A h \in Calls : rpc'[h] = rpc[h] \/ rpc'[h] = Idle
  BY <1>3 DEF IndInv, TypeOK
<1>7. RpcShape'
  BY <1>6 DEF IndInv, RpcShape, Idle
<1>8. ChannelsPast'
  BY <1>1 DEF IndInv, ChannelsPast
<1>9. WaitersHaveChannels'
  BY <1>1, <1>6 DEF IndInv, WaitersHaveChannels, Idle
<1> QED
  BY <1>5, <1>7, <1>8, <1>9 DEF IndInv

-----------------------------------------------------------------------------

\* A handler record that an RpcShape state may hold.
Shaped(r) == r \in Handler /\ (r.pc # "free" => r.srv \in Servers /\ r.op \in Op)

\* Replacing one handler record by a well-shaped one keeps RpcShape.
LEMMA RpcUpdate ==
  ASSUME IndInv, NEW h \in Calls, NEW r, Shaped(r), rpc' = [rpc EXCEPT ![h] = r]
  PROVE  rpc' \in [Calls -> Handler] /\ RpcShape'
<1>1. rpc' \in [Calls -> Handler]
  BY DEF IndInv, TypeOK, Shaped
<1>2. \A g \in Calls : rpc'[g] = IF g = h THEN r ELSE rpc[g]
  BY DEF IndInv, TypeOK
<1> QED
  BY <1>1, <1>2 DEF IndInv, RpcShape, Shaped

\* A handler that is under way knows its server and its Op.
LEMMA HandlerShaped ==
  ASSUME IndInv, NEW h \in Calls, rpc[h].pc # "free"
  PROVE  /\ rpc[h] \in Handler /\ Shaped(rpc[h])
         /\ rpc[h].srv \in Servers /\ rpc[h].op \in Op
BY DEF IndInv, TypeOK, RpcShape, Shaped

\* A handler that returns is well shaped, heard or not.
LEMMA ReturnShaped ==
  ASSUME NEW h, NEW r, Shaped(r)
  PROVE  Shaped(Return(h, r))
<1>1. Shaped(Idle)
  BY DEF Shaped, Idle, Handler
<1> QED
  BY <1>1 DEF Return

\* rf.Start() touches no channel and makes nobody wait (server.go:41-45).
LEMMA StepStart ==
  ASSUME IndInv, NEW h \in Calls, Start(h)
  PROVE  IndInv'
<1> DEFINE s == rpc[h].srv
<1>1. rpc[h] \in Handler /\ s \in Servers /\ rpc[h].op \in Op
  BY HandlerShaped DEF Start
<1>2. /\ UNCHANGED <<leaderTerm, term, committed, lastApplied, cache, handled, indexChan,
                     clerk, faults>>
  BY DEF Start, serverVars
<1>3. rlog' \in [Servers -> Seq(Entry)]
  <2>1. [term |-> leaderTerm[s], op |-> rpc[h].op] \in Entry
    BY <1>1 DEF IndInv, TypeOK, Entry
  <2>2. rlog[s] \in Seq(Entry)
    BY <1>1 DEF IndInv, TypeOK
  <2>3. Append(rlog[s], [term |-> leaderTerm[s], op |-> rpc[h].op]) \in Seq(Entry)
    BY <2>1, <2>2
  <2>4. \/ rlog' = rlog
        \/ rlog' = [rlog EXCEPT ![s] = Append(rlog[s], [term |-> leaderTerm[s], op |-> rpc[h].op])]
    BY DEF Start
  <2>5. rlog \in [Servers -> Seq(Entry)]
    BY DEF IndInv, TypeOK
  <2> QED
    BY <2>3, <2>4, <2>5
<1>4. /\ rpc' \in [Calls -> Handler] /\ RpcShape'
      /\ \A g \in Calls : rpc'[g] = rpc[g] \/ rpc'[g].pc # "waiting"
  <2>1. CASE rpc' = [rpc EXCEPT ![h] = Return(h, [rpc[h] EXCEPT !.pc = "wrongLeader"])]
    <3>1. Shaped([rpc[h] EXCEPT !.pc = "wrongLeader"])
      BY <1>1 DEF Shaped, Handler
    <3>2. Return(h, [rpc[h] EXCEPT !.pc = "wrongLeader"]).pc # "waiting"
      BY <1>1 DEF Return, Idle, Handler
    <3> QED
      BY <2>1, <3>1, <3>2, ReturnShaped, RpcUpdate DEF IndInv, TypeOK
  <2>2. CASE rpc' = [rpc EXCEPT ![h].pc = "started", ![h].index = Len(rlog[s]) + 1]
    <3> DEFINE q == [rpc[h] EXCEPT !.pc = "started"]
               r == [q EXCEPT !.index = Len(rlog[s]) + 1]
    <3>1. Shaped(q) /\ q.pc = "started" /\ q.srv \in Servers /\ q.op \in Op
      BY <1>1 DEF Shaped, Handler
    <3>2. rpc' = [rpc EXCEPT ![h] = r]
      BY <2>2 DEF IndInv, TypeOK
    <3>3. Len(rlog[s]) + 1 \in Nat
      BY <1>1 DEF IndInv, TypeOK
    <3> HIDE DEF q
    <3>4. Shaped(r) /\ r.pc = "started"
      BY <3>1, <3>3 DEF Shaped, Handler
    <3> QED
      BY <3>2, <3>4, RpcUpdate DEF IndInv, TypeOK
  <2> QED
    BY <2>1, <2>2 DEF Start, IndInv, TypeOK
<1>5. TypeOK'
  BY <1>2, <1>3, <1>4 DEF IndInv, TypeOK
<1>6. ChannelsPast'
  BY <1>2 DEF IndInv, ChannelsPast
<1>7. WaitersHaveChannels'
  BY <1>2, <1>4 DEF IndInv, WaitersHaveChannels
<1> QED
  BY <1>4, <1>5, <1>6, <1>7 DEF IndInv

\* What the map of channels of one server may be.
Channels(m) ==
  DOMAIN m \subseteq Nat /\ \A i \in DOMAIN m : m[i] \in Msg \cup {Empty}

\* Putting a value in a map of channels leaves the other channels alone.
LEMMA PutChannels ==
  ASSUME NEW m, Channels(m), NEW i \in Nat, NEW v \in Msg \cup {Empty}
  PROVE  /\ Channels(Put(m, i, v))
         /\ DOMAIN Put(m, i, v) = DOMAIN m \cup {i}
         /\ \A j \in DOMAIN m \cup {i} : Put(m, i, v)[j] = IF j = i THEN v ELSE m[j]
BY DEF Channels, Put

\* An emptied channel.
LEMMA PutEmpty ==
  ASSUME NEW m, Channels(m), NEW i \in Nat
  PROVE  /\ Channels(Put(m, i, Empty))
         /\ DOMAIN Put(m, i, Empty) = DOMAIN m \cup {i}
         /\ \A j \in DOMAIN m \cup {i} : Put(m, i, Empty)[j] = IF j = i THEN Empty ELSE m[j]
BY DEF Channels, Put

\* Every server has a well-formed map of channels.
LEMMA ChannelsOf ==
  ASSUME IndInv, NEW s \in Servers
  PROVE  Channels(indexChan[s])
BY DEF IndInv, TypeOK, Channels

\* Replacing the map of one server leaves those of the others alone.
LEMMA IndexChanUpdate ==
  ASSUME IndInv, NEW s \in Servers, NEW m, Channels(m),
         indexChan' = [indexChan EXCEPT ![s] = m]
  PROVE  /\ DOMAIN indexChan' = Servers
         /\ \A t \in Servers : Channels(indexChan'[t])
         /\ \A t \in Servers : indexChan'[t] = IF t = s THEN m ELSE indexChan[t]
<1>1. DOMAIN indexChan = Servers
  BY DEF IndInv, TypeOK
<1>2. /\ DOMAIN indexChan' = Servers
      /\ \A t \in Servers : indexChan'[t] = IF t = s THEN m ELSE indexChan[t]
  BY <1>1
<1> QED
  BY <1>2, ChannelsOf

\* A channel that is made is empty, and one that exists is kept
\* (server.go:49-54).
LEMMA StepRegister ==
  ASSUME IndInv, NEW h \in Calls, Register(h)
  PROVE  IndInv'
<1> DEFINE s == rpc[h].srv
           i == rpc[h].index
           m == IF i \in DOMAIN indexChan[s] THEN indexChan[s] ELSE Put(indexChan[s], i, Empty)
<1>1. /\ rpc[h] \in Handler /\ s \in Servers /\ rpc[h].op \in Op /\ i \in Nat
  BY HandlerShaped DEF Register, Handler
<1>2. UNCHANGED <<rlog, leaderTerm, term, committed, lastApplied, cache, handled, clerk, faults>>
  BY DEF Register, raftVars
<1>3. /\ Channels(m) /\ i \in DOMAIN m /\ DOMAIN indexChan[s] \subseteq DOMAIN m
      /\ \A j \in DOMAIN m : m[j] # Empty => j \in DOMAIN indexChan[s] /\ m[j] = indexChan[s][j]
  <2>1. Channels(indexChan[s])
    BY <1>1, ChannelsOf
  <2>2. /\ Channels(Put(indexChan[s], i, Empty))
        /\ DOMAIN Put(indexChan[s], i, Empty) = DOMAIN indexChan[s] \cup {i}
        /\ \A j \in DOMAIN indexChan[s] \cup {i} :
             Put(indexChan[s], i, Empty)[j] = IF j = i THEN Empty ELSE indexChan[s][j]
    BY <1>1, <2>1, PutEmpty
  <2> QED
    BY <2>1, <2>2
<1>4. indexChan' = [indexChan EXCEPT ![s] = m]
  BY DEF Register
<1> HIDE DEF m
<1>5. /\ DOMAIN indexChan' = Servers
      /\ \A t \in Servers : Channels(indexChan'[t])
      /\ \A t \in Servers : indexChan'[t] = IF t = s THEN m ELSE indexChan[t]
  BY <1>1, <1>3, <1>4, IndexChanUpdate
<1>6. /\ rpc' \in [Calls -> Handler] /\ RpcShape'
      /\ \A g \in Calls : /\ rpc'[g].srv = rpc[g].srv /\ rpc'[g].index = rpc[g].index
                          /\ g # h => rpc'[g] = rpc[g]
  <2> DEFINE r == [rpc[h] EXCEPT !.pc = "waiting"]
  <2>1. Shaped(r) /\ r.srv = s /\ r.index = i
    BY <1>1 DEF Shaped, Handler
  <2>2. rpc' = [rpc EXCEPT ![h] = r]
    BY DEF Register, IndInv, TypeOK
  <2> HIDE DEF r
  <2> QED
    BY <2>1, <2>2, RpcUpdate DEF IndInv, TypeOK
<1>7. TypeOK'
  BY <1>2, <1>5, <1>6 DEF IndInv, TypeOK, Channels
<1>8. ChannelsPast'
  BY <1>2, <1>3, <1>5 DEF IndInv, ChannelsPast
<1>9. WaitersHaveChannels'
  <2>1. \A g \in Calls : rpc'[g].pc = "waiting" => rpc'[g].srv \in Servers
    BY <1>6 DEF RpcShape
  <2> QED
    BY <1>1, <1>3, <1>5, <1>6, <2>1 DEF IndInv, WaitersHaveChannels
<1> QED
  BY <1>6, <1>7, <1>8, <1>9 DEF IndInv

\* Taking an Op out of a channel empties it and keeps it in the map
\* (server.go:59-60).
LEMMA StepReceive ==
  ASSUME IndInv, NEW h \in Calls, Receive(h)
  PROVE  IndInv'
<1> DEFINE s == rpc[h].srv
           i == rpc[h].index
           m == indexChan[s][i]
           n == Put(indexChan[s], i, Empty)
           p == IF isOpMatched(rpc[h].op, m.op) THEN "ok" ELSE "wrongLeader"
<1>1. /\ rpc[h] \in Handler /\ s \in Servers /\ rpc[h].op \in Op /\ i \in Nat
  BY HandlerShaped DEF Receive, Handler
<1>2. UNCHANGED <<rlog, leaderTerm, term, committed, lastApplied, cache, handled, clerk, faults>>
  BY DEF Receive, raftVars
<1>3. i \in DOMAIN indexChan[s] /\ m \in Msg
  BY <1>1, ChannelsOf DEF Receive, IndInv, WaitersHaveChannels, Channels
<1>4. /\ Channels(n) /\ DOMAIN n = DOMAIN indexChan[s]
      /\ \A j \in DOMAIN n : n[j] # Empty => n[j] = indexChan[s][j]
  <2>1. Channels(indexChan[s])
    BY <1>1, ChannelsOf
  <2>2. /\ Channels(Put(indexChan[s], i, Empty))
        /\ DOMAIN Put(indexChan[s], i, Empty) = DOMAIN indexChan[s] \cup {i}
        /\ \A j \in DOMAIN indexChan[s] \cup {i} :
             Put(indexChan[s], i, Empty)[j] = IF j = i THEN Empty ELSE indexChan[s][j]
    BY <1>1, <2>1, PutEmpty
  <2> QED
    BY <1>3, <2>2
<1>5. indexChan' = [indexChan EXCEPT ![s] = n]
  BY DEF Receive
<1> HIDE DEF n
<1>6. /\ DOMAIN indexChan' = Servers
      /\ \A t \in Servers : Channels(indexChan'[t])
      /\ \A t \in Servers : indexChan'[t] = IF t = s THEN n ELSE indexChan[t]
  BY <1>1, <1>4, <1>5, IndexChanUpdate
<1>7. /\ rpc' \in [Calls -> Handler] /\ RpcShape'
      /\ \A g \in Calls : rpc'[g] = rpc[g] \/ rpc'[g].pc # "waiting"
  <2> DEFINE q == [rpc[h] EXCEPT !.pc = p]
             r == [q EXCEPT !.reply = m.reply]
  <2>1. Shaped(q) /\ q.pc \in {"ok", "wrongLeader"} /\ q.srv \in Servers /\ q.op \in Op
    BY <1>1 DEF Shaped, Handler
  <2>2. rpc' = [rpc EXCEPT ![h] = Return(h, r)]
    BY DEF Receive, IndInv, TypeOK
  <2>3. m.reply \in Nat \cup {NoReply}
    BY <1>3 DEF Msg
  <2> HIDE DEF q, m
  <2>4. Shaped(r) /\ r.pc \in {"ok", "wrongLeader"}
    BY <2>1, <2>3 DEF Shaped, Handler
  <2> HIDE DEF r
  <2>5. Shaped(Return(h, r)) /\ Return(h, r).pc # "waiting"
    BY <2>4, ReturnShaped DEF Return, Idle
  <2> QED
    BY <2>2, <2>5, RpcUpdate DEF IndInv, TypeOK
<1>8. TypeOK'
  BY <1>2, <1>6, <1>7 DEF IndInv, TypeOK, Channels
<1>9. ChannelsPast'
  BY <1>2, <1>4, <1>6 DEF IndInv, ChannelsPast
<1>10. WaitersHaveChannels'
  <2>1. \A g \in Calls : rpc'[g].pc = "waiting" => rpc'[g].srv \in Servers
    BY <1>7 DEF RpcShape
  <2> QED
    BY <1>1, <1>4, <1>6, <1>7, <2>1 DEF IndInv, WaitersHaveChannels
<1> QED
  BY <1>7, <1>8, <1>9, <1>10 DEF IndInv

\* The timer leaves every channel as it is (server.go:61-63).
LEMMA StepTimeout ==
  ASSUME IndInv, NEW h \in Calls, Timeout(h)
  PROVE  IndInv'
<1> DEFINE r == [rpc[h] EXCEPT !.pc = "wrongLeader"]
<1>1. /\ UNCHANGED <<rlog, leaderTerm, term, committed, lastApplied, cache, handled,
                     indexChan, clerk>>
      /\ faults' \in Nat
  BY DEF Timeout, Fault, raftVars, serverVars, IndInv, TypeOK
<1>2. Shaped(r) /\ r.pc = "wrongLeader"
  BY HandlerShaped DEF Timeout, Shaped, Handler
<1>3. rpc' = [rpc EXCEPT ![h] = Return(h, r)]
  BY DEF Timeout, IndInv, TypeOK
<1> HIDE DEF r
<1>4. Shaped(Return(h, r)) /\ Return(h, r).pc # "waiting"
  BY <1>2, ReturnShaped DEF Return, Idle
<1>5. /\ rpc' \in [Calls -> Handler] /\ RpcShape'
      /\ \A g \in Calls : rpc'[g] = rpc[g] \/ rpc'[g].pc # "waiting"
  BY <1>3, <1>4, RpcUpdate DEF IndInv, TypeOK
<1>6. TypeOK'
  BY <1>1, <1>5 DEF IndInv, TypeOK
<1>7. ChannelsPast'
  BY <1>1 DEF IndInv, ChannelsPast
<1>8. WaitersHaveChannels'
  BY <1>1, <1>5 DEF IndInv, WaitersHaveChannels
<1> QED
  BY <1>5, <1>6, <1>7, <1>8 DEF IndInv

-----------------------------------------------------------------------------

\* The applier fills the channel of the index it has just reached, which
\* nobody has filled before (server.go:164-171).
LEMMA StepApply ==
  ASSUME IndInv, NEW s \in Servers, Apply(s)
  PROVE  IndInv'
<1> DEFINE i  == lastApplied[s] + 1
           op == committed[i].op
           r  == IF IsNew(s, op) /\ op.cmd = "Query" THEN ConfigNum(handled[s]) ELSE NoReply
           m  == [op |-> op, reply |-> r]
<1>1. UNCHANGED <<rlog, leaderTerm, term, committed, rpc, clerk, faults>>
  BY DEF Apply, raftVars
<1>2. i \in Nat /\ lastApplied[s] \in Nat /\ op \in Op \cup {NoOp}
  <2>1. i \in DOMAIN committed /\ committed \in Seq(Entry)
    BY DEF Apply, Deliverable, IndInv, TypeOK
  <2>2. committed[i] \in Entry
    BY <2>1
  <2>3. lastApplied[s] \in Nat
    BY DEF IndInv, TypeOK
  <2> QED
    BY <2>2, <2>3 DEF Entry
<1>3. /\ lastApplied' = [lastApplied EXCEPT ![s] = i]
      /\ lastApplied' \in [Servers -> Nat]
  BY <1>2 DEF Apply, IndInv, TypeOK
<1>4. CASE op = NoOp
  <2>1. UNCHANGED <<cache, handled, indexChan>>
    BY <1>4 DEF Apply
  <2>2. TypeOK'
    BY <1>1, <1>3, <2>1 DEF IndInv, TypeOK
  <2>3. RpcShape' /\ WaitersHaveChannels'
    BY <1>1, <2>1 DEF IndInv, RpcShape, WaitersHaveChannels
  <2>4. ChannelsPast'
    <3>1. \A t \in Servers : lastApplied'[t] >= lastApplied[t]
      BY <1>2, <1>3 DEF IndInv, TypeOK
    <3> QED
      BY <1>3, <2>1, <3>1 DEF IndInv, TypeOK, ChannelsPast
  <2> QED
    BY <2>2, <2>3, <2>4 DEF IndInv
<1>5. CASE op # NoOp
  <2> DEFINE n == Put(indexChan[s], i, m)
  <2>1. op \in Op /\ op.client \in Clerks /\ op.ts \in Nat
    BY <1>2, <1>5, ConstantsAssumption DEF Op, Stamps
  <2>2. cache' \in [Servers -> [Clerks -> Nat]]
    <3>1. cache' = [cache EXCEPT ![s] = [cache[s] EXCEPT ![op.client] = op.ts]] \/ cache' = cache
      BY <1>5 DEF Apply, IndInv, TypeOK
    <3>2. [cache[s] EXCEPT ![op.client] = op.ts] \in [Clerks -> Nat]
      BY <2>1 DEF IndInv, TypeOK
    <3> QED
      BY <3>1, <3>2 DEF IndInv, TypeOK
  <2>3. handled' \in [Servers -> Seq(Op)]
    <3>1. handled[s] \in Seq(Op)
      BY DEF IndInv, TypeOK
    <3>2. Append(handled[s], op) \in Seq(Op)
      BY <2>1, <3>1
    <3>3. handled \in [Servers -> Seq(Op)]
      BY DEF IndInv, TypeOK
    <3>4. handled' = [handled EXCEPT ![s] = Append(handled[s], op)] \/ handled' = handled
      BY <1>5 DEF Apply
    <3> QED
      BY <3>2, <3>3, <3>4
  <2>4. m \in Msg
    BY <2>1, ConfigNumNat DEF Msg, IndInv, TypeOK
  <2>5. indexChan' = [indexChan EXCEPT ![s] = n]
    BY <1>5 DEF Apply
  <2>6. /\ Channels(n) /\ DOMAIN n = DOMAIN indexChan[s] \cup {i}
        /\ \A j \in DOMAIN n : n[j] = IF j = i THEN m ELSE indexChan[s][j]
    <3>1. Channels(indexChan[s])
      BY ChannelsOf
    <3>2. i \in Nat /\ m \in Msg \cup {Empty}
      BY <1>2, <2>4
    <3> HIDE DEF m, i
    <3>3. Channels(Put(indexChan[s], i, m))
      BY <3>1, <3>2, PutChannels
    <3>4. DOMAIN Put(indexChan[s], i, m) = DOMAIN indexChan[s] \cup {i}
      BY <3>1, <3>2, PutChannels
    <3>5. ASSUME NEW j \in DOMAIN indexChan[s] \cup {i}
          PROVE  Put(indexChan[s], i, m)[j] = IF j = i THEN m ELSE indexChan[s][j]
      BY DEF Put
    <3> QED
      BY <3>3, <3>4, <3>5
  <2> HIDE DEF n
  <2>7. /\ DOMAIN indexChan' = Servers
        /\ \A t \in Servers : Channels(indexChan'[t])
        /\ \A t \in Servers : indexChan'[t] = IF t = s THEN n ELSE indexChan[t]
    BY <2>5, <2>6, IndexChanUpdate
  <2>8. TypeOK'
    BY <1>1, <1>3, <2>2, <2>3, <2>7 DEF IndInv, TypeOK, Channels
  <2>9. RpcShape'
    BY <1>1 DEF IndInv, RpcShape
  <2>10. WaitersHaveChannels'
    BY <1>1, <2>6, <2>7 DEF IndInv, RpcShape, WaitersHaveChannels
  <2>11. ChannelsPast'
    <3>1. \A t \in Servers : lastApplied'[t] = IF t = s THEN i ELSE lastApplied[t]
      BY <1>3 DEF IndInv, TypeOK
    <3>2. ASSUME NEW j \in DOMAIN n, n[j] # Empty
          PROVE  j <= i
      <4>1. CASE j = i
        BY <1>2, <4>1
      <4>2. CASE j # i
        <5>1. j \in DOMAIN indexChan[s] /\ indexChan[s][j] # Empty
          BY <2>6, <3>2, <4>2
        <5>2. j \in Nat /\ j <= lastApplied[s]
          BY <5>1, ChannelsOf DEF IndInv, ChannelsPast, Channels
        <5> QED
          BY <1>2, <5>2
      <4> QED
        BY <4>1, <4>2
    <3> QED
      BY <2>7, <3>1, <3>2 DEF IndInv, ChannelsPast
  <2> QED
    BY <2>8, <2>9, <2>10, <2>11 DEF IndInv
<1> QED
  BY <1>4, <1>5

\* A restarted server begins with no channels, and none of the handlers
\* that waited on the old ones waits any more (server.go:127).
LEMMA StepRestart ==
  ASSUME IndInv, NEW s \in Servers, Restart(s)
  PROVE  IndInv'
<1>1. UNCHANGED <<rlog, term, committed, clerk>> /\ faults' \in Nat
  BY DEF Restart, Fault, IndInv, TypeOK
<1>2. /\ leaderTerm' \in [Servers -> Nat]
      /\ lastApplied' \in [Servers -> Nat]
      /\ cache' \in [Servers -> [Clerks -> Nat]]
      /\ handled' \in [Servers -> Seq(Op)]
      /\ \A t \in Servers : t # s => lastApplied'[t] = lastApplied[t]
  BY DEF Restart, NewServer, IndInv, TypeOK
<1>3. /\ DOMAIN indexChan' = Servers
      /\ \A t \in Servers : Channels(indexChan'[t])
      /\ \A t \in Servers : indexChan'[t] = IF t = s THEN <<>> ELSE indexChan[t]
  <2>1. Channels(<<>>)
    BY DEF Channels
  <2>2. indexChan' = [indexChan EXCEPT ![s] = <<>>]
    BY DEF Restart, NewServer
  <2> QED
    BY <2>1, <2>2, IndexChanUpdate
<1>4. ASSUME NEW h \in Calls
      PROVE  /\ Shaped(rpc'[h])
             /\ rpc'[h].pc = "waiting" => rpc'[h] = rpc[h] /\ rpc[h].srv # s
  <2> DEFINE r == [rpc[h] EXCEPT !.pc = "dead"]
  <2>1. Shaped(rpc[h])
    BY DEF IndInv, TypeOK, RpcShape, Shaped
  <2>2. CASE rpc[h].srv = s /\ rpc[h].pc # "free" /\ ~(rpc[h].pc = "sent" /\ Listening(h))
    <3>1. rpc'[h] = Return(h, r)
      BY <2>2 DEF Restart
    <3>2. Shaped(r) /\ r.pc = "dead"
      BY <2>1, <2>2 DEF Shaped, Handler
    <3> HIDE DEF r
    <3> QED
      BY <3>1, <3>2, ReturnShaped DEF Return, Idle
  <2>3. CASE ~(rpc[h].srv = s /\ rpc[h].pc # "free" /\ ~(rpc[h].pc = "sent" /\ Listening(h)))
    <3>1. rpc'[h] = rpc[h]
      BY <2>3 DEF Restart
    <3> QED
      BY <2>1, <2>3, <3>1
  <2> QED
    BY <2>2, <2>3
<1>5. rpc' \in [Calls -> Handler]
  <2>1. \E f : rpc' = [h \in Calls |-> f[h]]
    BY DEF Restart
  <2> QED
    BY <1>4, <2>1 DEF Shaped
<1>6. TypeOK'
  BY <1>1, <1>2, <1>3, <1>5 DEF IndInv, TypeOK, Channels
<1>7. RpcShape'
  BY <1>4 DEF RpcShape, Shaped
<1>8. ChannelsPast'
  <2> SUFFICES ASSUME NEW t \in Servers, NEW i \in DOMAIN indexChan'[t],
                      indexChan'[t][i] # Empty
               PROVE  i <= lastApplied'[t]
    BY DEF ChannelsPast
  <2>1. t # s
    BY <1>3
  <2> QED
    BY <1>2, <1>3, <2>1 DEF IndInv, ChannelsPast
<1>9. WaitersHaveChannels'
  BY <1>3, <1>4 DEF IndInv, WaitersHaveChannels, Shaped
<1> QED
  BY <1>6, <1>7, <1>8, <1>9 DEF IndInv

\* Elections, replication and commitment stay within Raft.
LEMMA StepRaft ==
  ASSUME IndInv, NEW s \in Servers, RaftNext(s)
  PROVE  IndInv'
<1>1. UNCHANGED <<lastApplied, cache, handled, indexChan, rpc, clerk, faults>>
  BY DEF RaftNext, Elect, Commit, Replicate, serverVars
<1>2. /\ rlog' \in [Servers -> Seq(Entry)] /\ leaderTerm' \in [Servers -> Nat]
      /\ term' \in Nat /\ committed' \in Seq(Entry)
  <2> rlog[s] \in Seq(Entry) /\ committed \in Seq(Entry) /\ term \in Nat
    BY DEF IndInv, TypeOK
  <2>1. CASE Elect(s)
    <3>1. [term |-> term + 1, op |-> NoOp] \in Entry
      BY DEF Entry
    <3>2. Append(rlog[s], [term |-> term + 1, op |-> NoOp]) \in Seq(Entry)
      BY <3>1
    <3>3. /\ rlog \in [Servers -> Seq(Entry)] /\ leaderTerm \in [Servers -> Nat]
          /\ term + 1 \in Nat
      BY DEF IndInv, TypeOK
    <3> QED
      BY <2>1, <3>2, <3>3 DEF Elect
  <2>2. CASE Commit(s)
    <3>1. rlog[s][Len(committed) + 1] \in Entry
      BY <2>2 DEF Commit
    <3>2. Append(committed, rlog[s][Len(committed) + 1]) \in Seq(Entry)
      BY <3>1
    <3> QED
      BY <2>2, <3>2 DEF Commit, IndInv, TypeOK
  <2>3. ASSUME NEW f \in Servers, Replicate(s, f)
        PROVE  /\ rlog' \in [Servers -> Seq(Entry)] /\ leaderTerm' \in [Servers -> Nat]
               /\ term' \in Nat /\ committed' \in Seq(Entry)
    BY <2>3 DEF Replicate, IndInv, TypeOK
  <2> QED
    BY <2>1, <2>2, <2>3 DEF RaftNext
<1>3. TypeOK'
  BY <1>1, <1>2 DEF IndInv, TypeOK
<1> QED
  BY <1>1, <1>3 DEF IndInv, RpcShape, ChannelsPast, WaitersHaveChannels

-----------------------------------------------------------------------------

\* The strengthened invariant holds in every reachable state.
THEOREM Invariance == Spec => []IndInv
<1>1. IndInv /\ [Next]_vars => IndInv'
  <2> SUFFICES ASSUME IndInv, [Next]_vars PROVE IndInv'
    OBVIOUS
  <2>1. ASSUME NEW c \in Clerks, Query(c) \/ Join(c) \/ Leave(c) \/ Move(c)
        PROVE  IndInv'
    <3>1. PICK t \in Now(c) \cup StampOnce(c) : ~Finished(c) /\ Send(c, t)
      BY <2>1 DEF Query, Join, Leave, Move
    <3>2. t \in Stamps
      BY <3>1 DEF Now, StampOnce, IndInv, TypeOK
    <3> QED
      BY <3>1, <3>2, StepSend
  <2>2. ASSUME NEW c \in Clerks, CallReturns(c) \/ NetworkNext(c)
        PROVE  IndInv'
    BY <2>2, StepClerk DEF NetworkNext
  <2>3. ASSUME NEW h \in Calls, HandlerNext(h)
        PROVE  IndInv'
    BY <2>3, StepStart, StepRegister, StepReceive, StepTimeout DEF HandlerNext
  <2>4. ASSUME NEW s \in Servers, Apply(s) \/ Restart(s) \/ RaftNext(s)
        PROVE  IndInv'
    BY <2>4, StepApply, StepRestart, StepRaft
  <2>5. CASE UNCHANGED vars
    BY <2>5 DEF vars, raftVars, serverVars, IndInv, TypeOK, RpcShape, ChannelsPast,
                WaitersHaveChannels
  <2> QED
    BY <2>1, <2>2, <2>3, <2>4, <2>5 DEF Next, ClerkNext
<1> QED
  BY InitIndInv, <1>1, PTL DEF Spec

\* Every variable keeps its type: the RPC handlers, the applier and the clerks
\* of src/shardctrler never leave their data in a shape they do not expect.
THEOREM TypeCorrect == Spec => []TypeOK
<1>1. IndInv => TypeOK
  BY DEF IndInv
<1> QED
  BY Invariance, <1>1, PTL

\* The applier never blocks on opCh <- op (server.go:171), whatever handlers
\* time out, retry, share an index or come too late, and whatever Raft loses.
THEOREM ApplierProgress == Spec => []ApplierNeverBlocks
<1>1. IndInv => ApplierNeverBlocks
  <2> SUFFICES ASSUME IndInv, NEW s \in Servers, ApplierStuck(s)
               PROVE  FALSE
    BY DEF ApplierNeverBlocks
  <2>1. lastApplied[s] + 1 \in DOMAIN indexChan[s] /\ indexChan[s][lastApplied[s] + 1] # Empty
    BY DEF ApplierStuck
  <2>2. lastApplied[s] + 1 <= lastApplied[s]
    BY <2>1 DEF IndInv, ChannelsPast
  <2>3. lastApplied[s] \in Nat
    BY DEF IndInv, TypeOK
  <2> QED
    BY <2>2, <2>3
<1> QED
  BY Invariance, <1>1, PTL

-----------------------------------------------------------------------------
(***************************************************************************)
(* What the time stamps of the clerks and the cache of the servers achieve *)
(* together, for any number of servers and clerks, any scripts and any     *)
(* value of the bounds: no old operation takes effect after a newer one of *)
(* its clerk, and one that keeps its stamp takes effect once.  The clock   *)
(* of a clerk may stand still but must not go back.                        *)
(***************************************************************************)

FixedStamp == {"Move", "Query"}

\* Op o is somewhere in the system: with a handler, in a log, or handled.
Issued(o) ==
  \/ \E h \in Calls : rpc[h].op = o
  \/ \E s \in Servers : \E i \in DOMAIN rlog[s] : rlog[s][i].op = o
  \/ \E i \in DOMAIN committed : committed[i].op = o
  \/ \E s \in Servers : \E i \in DOMAIN handled[s] : handled[s][i] = o

\* Op o was made by its clerk, in the operation it is in or in an earlier one.
Traced(o) ==
  /\ o.ts <= clerk[o.client].ts /\ 0 < o.seq /\ o.seq <= clerk[o.client].seq
  /\ clerk[o.client].phase = "new" => o.seq < clerk[o.client].seq
  /\ o.cmd = Script[o.client][o.seq]
  /\ o.seq = clerk[o.client].seq /\ o.cmd \in FixedStamp => o.ts = clerk[o.client].ts

\* Stamps order the Ops of a clerk as its script does.
InOrder(o, p) ==
  o.client = p.client =>
    /\ o.ts < p.ts => o.seq <= p.seq
    /\ o.seq = p.seq /\ o.cmd \in FixedStamp => o.ts = p.ts

AllTraced  == \A o \in Op : Issued(o) => Traced(o)
AllInOrder == \A o, p \in Op : Issued(o) /\ Issued(p) => InOrder(o, p)

\* The cache holds the stamp of what was handled last, the greatest so far.
CacheTop ==
  \A s \in Servers : \A i \in DOMAIN handled[s] :
    handled[s][i].ts <= cache[s][handled[s][i].client]

Increasing ==
  \A s \in Servers : \A i, j \in DOMAIN handled[s] :
    i < j /\ handled[s][i].client = handled[s][j].client => handled[s][i].ts < handled[s][j].ts

Stamped  == AllTraced /\ AllInOrder
Filtered == CacheTop /\ Increasing
OrderInv == Stamped /\ Filtered

-----------------------------------------------------------------------------
(* Where Ops come from                                                     *)

\* The step leaves each clerk in its operation or takes it to the next.
ClerksKept ==
  \A c \in Clerks : /\ clerk'[c].ts = clerk[c].ts
                    /\ \/ clerk'[c].seq = clerk[c].seq /\ clerk'[c].phase = clerk[c].phase
                       \/ clerk'[c].seq = clerk[c].seq + 1 /\ clerk'[c].phase = "new"

\* Besides, it makes no Op.
NoneMade == ClerksKept /\ \A o \in Op : Issued(o)' => Issued(o)

\* A step that makes no Op keeps stamps and scripts in line.
LEMMA NothingNew ==
  ASSUME IndInv, Stamped, NoneMade
  PROVE  Stamped'
<1>1. ASSUME NEW o \in Op, Issued(o)' PROVE Traced(o)'
  <2>1. Traced(o) /\ o.client \in Clerks /\ o.seq \in Nat /\ clerk[o.client].seq \in Nat
    BY <1>1 DEF NoneMade, Stamped, AllTraced, Op, IndInv, TypeOK, Clerk
  <2> QED
    BY <2>1 DEF NoneMade, ClerksKept, Traced
<1>2. AllInOrder'
  BY DEF NoneMade, Stamped, AllInOrder, InOrder
<1> QED
  BY <1>1, <1>2 DEF Stamped, AllTraced

\* A clerk that sends keeps the stamp it sent, stays in its operation, and now retries.
LEMMA SendClerk ==
  ASSUME IndInv, NEW c \in Clerks, NEW t \in Stamps, Send(c, t)
  PROVE  /\ clerk'[c].ts = t /\ clerk'[c].seq = clerk[c].seq /\ clerk'[c].phase = "retry"
         /\ \A d \in Clerks \ {c} : clerk'[d] = clerk[d]
<1>1. clerk \in [Clerks -> Clerk]
  BY DEF IndInv, TypeOK
<1>2. PICK k \in 1 .. MaxCalls :
        clerk' = [clerk EXCEPT ![c].call = k, ![c].ts = t, ![c].phase = "retry",
                    ![c].floor = IF clerk[c].phase = "new" THEN AckedChanges ELSE @]
  BY DEF Send
<1> QED
  BY <1>1, <1>2 DEF Clerk

\* A clerk that sends makes one Op (client.go:41-47, 64-66, 84-87, 102-107).
LEMMA SendMakes ==
  ASSUME IndInv, NEW c \in Clerks, ~Finished(c), NEW t \in Stamps, Send(c, t)
  PROVE  LET op == [cmd |-> Current(c), client |-> c, seq |-> clerk[c].seq, ts |-> t] IN
         /\ op \in Op /\ op.client = c /\ op.seq = clerk[c].seq /\ op.ts = t
         /\ op.cmd = Script[c][clerk[c].seq]
         /\ \A o \in Op : Issued(o)' => Issued(o) \/ o = op
         /\ \A h \in Calls : \/ rpc'[h] = rpc[h] /\ (h[1] = c => h[2] # clerk'[c].call)
                             \/ h = <<c, clerk'[c].call>> /\ rpc'[h].pc = "sent" /\ rpc'[h].op = op
<1> DEFINE op == [cmd |-> Current(c), client |-> c, seq |-> clerk[c].seq, ts |-> t]
<1>1. clerk \in [Clerks -> Clerk] /\ rpc \in [Calls -> Handler]
  BY DEF IndInv, TypeOK
<1>2. /\ op \in Op /\ op.client = c /\ op.seq = clerk[c].seq /\ op.ts = t
      /\ op.cmd = Script[c][clerk[c].seq]
  BY <1>1, CurrentType DEF IndInv, Op, Clerk, Current
<1>3. PICK k \in 1 .. MaxCalls :
        /\ clerk' = [clerk EXCEPT ![c].call = k, ![c].ts = t, ![c].phase = "retry",
                       ![c].floor = IF clerk[c].phase = "new" THEN AckedChanges ELSE @]
        /\ rpc' = [rpc EXCEPT ![<<c, k>>] =
                     [pc |-> "sent", srv |-> Handles[c][clerk[c].at], index |-> 0,
                      reply |-> NoReply, op |-> op]]
  BY DEF Send, op
<1> HIDE DEF op
<1>4. clerk'[c].call = k
  BY <1>1, <1>3 DEF Clerk
<1>5. ASSUME NEW o \in Op, Issued(o)' PROVE Issued(o) \/ o = op
  <2>1. UNCHANGED <<rlog, committed, handled>>
    BY DEF Send, raftVars, serverVars
  <2>2. \A h \in Calls : rpc'[h].op = rpc[h].op \/ rpc'[h].op = op
    BY <1>1, <1>3
  <2> QED
    BY <1>5, <2>1, <2>2 DEF Issued
<1>6. ASSUME NEW h \in Calls
      PROVE  \/ rpc'[h] = rpc[h] /\ (h[1] = c => h[2] # k)
             \/ h = <<c, k>> /\ rpc'[h].pc = "sent" /\ rpc'[h].op = op
  <2>1. CASE h = <<c, k>>
    BY <1>1, <1>3, <2>1
  <2>2. CASE h # <<c, k>>
    <3>1. h[1] = c => h[2] # k
      BY <2>2 DEF Calls
    <3> QED
      BY <1>1, <1>3, <2>2, <3>1
  <2> QED
    BY <2>1, <2>2
<1> QED
  BY <1>2, <1>4, <1>5, <1>6 DEF op

\* The Op it makes is the newest of its client.
LEMMA SendNewest ==
  ASSUME IndInv, Stamped, NEW c \in Clerks, ~Finished(c), NEW t \in Stamps, Send(c, t),
         t >= clerk[c].ts,
         clerk[c].phase # "new" /\ Current(c) \in FixedStamp => t = clerk[c].ts
  PROVE  Stamped'
<1> DEFINE op == [cmd |-> Current(c), client |-> c, seq |-> clerk[c].seq, ts |-> t]
<1>1. clerk \in [Clerks -> Clerk]
  BY DEF IndInv, TypeOK
<1>2. /\ op \in Op /\ op.client = c /\ op.seq = clerk[c].seq /\ op.ts = t
      /\ op.cmd = Script[c][clerk[c].seq]
  BY SendMakes
<1>3. /\ clerk'[c].ts = t /\ clerk'[c].seq = clerk[c].seq /\ clerk'[c].phase = "retry"
      /\ \A d \in Clerks \ {c} : clerk'[d] = clerk[d]
  BY SendClerk
<1>4. \A o \in Op : Issued(o)' => Issued(o) \/ o = op
  BY SendMakes
<1> HIDE DEF op
<1>5. t \in Nat /\ clerk[c].ts \in Nat /\ clerk[c].seq \in Nat /\ clerk[c].seq > 0
  BY <1>1 DEF Stamps, Clerk, IndInv, TypeOK
<1>6. ASSUME NEW o \in Op, Issued(o), o.client = c
      PROVE  /\ o.ts <= t /\ o.seq <= clerk[c].seq /\ o.ts \in Nat /\ o.seq \in Nat
             /\ o.seq = clerk[c].seq /\ o.cmd \in FixedStamp => o.ts = t
             /\ o.seq = clerk[c].seq => o.cmd = Current(c)
  <2>1. Traced(o) /\ o.ts \in Nat /\ o.seq \in Nat
    BY <1>6 DEF Stamped, AllTraced, Op, Stamps
  <2> QED
    BY <1>5, <1>6, <2>1 DEF Traced, Current
<1>7. ASSUME NEW o \in Op, Issued(o)' PROVE Traced(o)'
  <2>1. CASE o = op
    BY <1>2, <1>3, <1>5, <2>1 DEF Traced
  <2>2. CASE Issued(o) /\ o.client = c
    <3>1. Traced(o)
      BY <2>2 DEF Stamped, AllTraced
    <3> QED
      BY <1>3, <1>6, <2>2, <3>1 DEF Traced
  <2>3. CASE Issued(o) /\ o.client # c
    <3>1. Traced(o) /\ clerk'[o.client] = clerk[o.client]
      BY <1>3, <2>3 DEF Stamped, AllTraced, Op
    <3> QED
      BY <3>1 DEF Traced
  <2> QED
    BY <1>4, <1>7, <2>1, <2>2, <2>3
<1>8. ASSUME NEW o \in Op, NEW p \in Op, Issued(o)', Issued(p)' PROVE InOrder(o, p)
  <2>1. CASE Issued(o) /\ Issued(p)
    BY <2>1 DEF Stamped, AllInOrder
  <2>2. CASE Issued(o) /\ p = op
    BY <1>2, <1>5, <1>6, <2>2 DEF InOrder
  <2>3. CASE o = op /\ Issued(p)
    BY <1>2, <1>5, <1>6, <2>3 DEF InOrder, Current
  <2>4. CASE o = op /\ p = op
    BY <1>2, <1>5, <2>4 DEF InOrder
  <2> QED
    BY <1>4, <1>8, <2>1, <2>2, <2>3, <2>4
<1> QED
  BY <1>7, <1>8 DEF Stamped, AllTraced, AllInOrder, InOrder

\* A clerk stamps its Op when it begins an operation, or for every RPC.
LEMMA SendStamp ==
  ASSUME ClockSteps \subseteq Nat, IndInv, NEW c \in Clerks,
         Query(c) \/ Join(c) \/ Leave(c) \/ Move(c)
  PROVE  /\ ~Finished(c)
         /\ \E t \in Stamps :
              /\ Send(c, t) /\ t >= clerk[c].ts
              /\ clerk[c].phase = "new" => t \in Now(c)
              /\ clerk[c].phase # "new" /\ Current(c) \in FixedStamp => t = clerk[c].ts
<1>1. clerk[c] \in Clerk /\ clerk[c].ts \in Stamps /\ ~Finished(c)
  BY DEF IndInv, TypeOK, Query, Join, Leave, Move
<1>2. \A t \in Now(c) : t \in Stamps /\ t >= clerk[c].ts
  BY <1>1 DEF Now, Stamps, Clerk
<1>3. clerk[c].ts >= clerk[c].ts
  BY <1>1 DEF Clerk
<1> QED
  BY <1>1, <1>2, <1>3 DEF Query, Join, Leave, Move, StampOnce, FixedStamp

\* Sending keeps the order.
LEMMA OrderSend ==
  ASSUME ClockSteps \subseteq Nat, IndInv, OrderInv, NEW c \in Clerks,
         Query(c) \/ Join(c) \/ Leave(c) \/ Move(c)
  PROVE  OrderInv'
<1>1. PICK t \in Stamps :
        /\ Send(c, t) /\ t >= clerk[c].ts
        /\ clerk[c].phase # "new" /\ Current(c) \in FixedStamp => t = clerk[c].ts
  BY SendStamp
<1>2. Stamped'
  BY <1>1, SendNewest, SendStamp DEF OrderInv
<1>3. UNCHANGED <<cache, handled>>
  BY <1>1 DEF Send, serverVars
<1> QED
  BY <1>2, <1>3 DEF OrderInv, Filtered, CacheTop, Increasing

\* What the loop of a clerk does to its record leaves its stamp alone.
LEMMA ClerkFields ==
  ASSUME IndInv, NEW c \in Clerks
  PROVE  /\ NextServer(c).ts = clerk[c].ts /\ NextServer(c).seq = clerk[c].seq
         /\ NextServer(c).phase = clerk[c].phase
         /\ NextOperation(c).ts = clerk[c].ts /\ NextOperation(c).seq = clerk[c].seq + 1
         /\ NextOperation(c).phase = "new"
<1>1. clerk[c] \in Clerk
  BY DEF IndInv, TypeOK
<1> QED
  BY <1>1 DEF NextServer, NextOperation, Clerk

\* Handlers keep the Op they were called with, and logs hold what came from
\* handlers: such a step makes no Op.
LEMMA Moved ==
  ASSUME \A h \in Calls : rpc'[h].op \in {rpc[h].op, Nil},
         \A s \in Servers : \A i \in DOMAIN rlog'[s] :
           rlog'[s][i].op = Nil \/ \E o : o = rlog'[s][i].op /\ Issued(o),
         \A i \in DOMAIN committed' : Issued(committed'[i].op),
         UNCHANGED handled, ClerksKept
  PROVE  NoneMade
<1>1. ASSUME NEW o \in Op, Issued(o)' PROVE Issued(o)
  <2>1. o # Nil
    BY ConstantsAssumption
  <2>2. CASE \E h \in Calls : rpc'[h].op = o
    BY <2>1, <2>2 DEF Issued
  <2>3. CASE \E s \in Servers : \E i \in DOMAIN rlog'[s] : rlog'[s][i].op = o
    BY <2>1, <2>3
  <2>4. CASE \E i \in DOMAIN committed' : committed'[i].op = o
    BY <2>4
  <2>5. CASE \E s \in Servers : \E i \in DOMAIN handled'[s] : handled'[s][i] = o
    BY <2>5 DEF Issued
  <2> QED
    BY <1>1, <2>2, <2>3, <2>4, <2>5 DEF Issued
<1> QED
  BY <1>1 DEF NoneMade

\* The end of a Call(), heard or not, and of a method.
LEMMA ClerkMoves ==
  ASSUME IndInv, NEW c \in Clerks,
         CallReturns(c) \/ RequestLost(c) \/ ReplyLost(c) \/ ServerDead(c)
  PROVE  NoneMade /\ UNCHANGED <<cache, handled>>
<1>1. UNCHANGED <<rlog, committed, cache, handled>>
  BY DEF CallReturns, RequestLost, ReplyLost, ServerDead, raftVars, serverVars
<1>2. PICK r \in {NextServer(c), NextOperation(c)} : clerk' = [clerk EXCEPT ![c] = r]
  BY DEF CallReturns, RequestLost, ReplyLost, ServerDead
<1>3. clerk \in [Clerks -> Clerk] /\ rpc \in [Calls -> Handler]
  BY DEF IndInv, TypeOK
<1>4. ClerksKept
  BY <1>2, <1>3, ClerkFields DEF ClerksKept
<1>5. rpc' = [rpc EXCEPT ![RPC(c)] = Idle] \/ rpc' = rpc
  <2>1. CASE ReplyLost(c)
    BY <1>3, <2>1 DEF ReplyLost
  <2> QED
    BY <2>1 DEF CallReturns, RequestLost, ServerDead
<1>6. \A h \in Calls : rpc'[h].op \in {rpc[h].op, Nil}
  BY <1>3, <1>5 DEF Idle
<1> QED
  BY <1>1, <1>4, <1>6, Moved DEF Issued

\* A handler that goes on keeps its Op, or is done with it.
LEMMA ReturnKeepsOp ==
  ASSUME IndInv, NEW h \in Calls, NEW r, r.op = rpc[h].op, rpc' = [rpc EXCEPT ![h] = Return(h, r)]
  PROVE  \A g \in Calls : rpc'[g].op \in {rpc[g].op, Nil}
BY DEF IndInv, TypeOK, Return, Idle

\* rf.Start() puts the handler's own Op into the log (server.go:41).
LEMMA StartMoves ==
  ASSUME IndInv, NEW h \in Calls, Start(h)
  PROVE  NoneMade /\ UNCHANGED <<cache, handled>>
<1> DEFINE s == rpc[h].srv
           e == [term |-> leaderTerm[s], op |-> rpc[h].op]
<1>1. rpc[h] \in Handler /\ s \in Servers /\ rpc \in [Calls -> Handler]
  BY HandlerShaped DEF Start, IndInv, TypeOK
<1>2. UNCHANGED <<committed, cache, handled, clerk>>
  BY DEF Start, serverVars
<1>3. \A g \in Calls : rpc'[g].op \in {rpc[g].op, Nil}
  <2>1. CASE leaderTerm[s] = 0
    <3> DEFINE r == [rpc[h] EXCEPT !.pc = "wrongLeader"]
    <3>1. r.op = rpc[h].op
      BY <1>1 DEF Handler
    <3>2. rpc' = [rpc EXCEPT ![h] = Return(h, r)]
      BY <1>1, <2>1 DEF Start
    <3> QED
      BY <3>1, <3>2, ReturnKeepsOp
  <2>2. CASE leaderTerm[s] # 0
    <3>1. rpc' = [rpc EXCEPT ![h].pc = "started", ![h].index = Len(rlog[s]) + 1]
      BY <2>2 DEF Start
    <3> QED
      BY <1>1, <3>1 DEF Handler
  <2> QED
    BY <2>1, <2>2
<1>4. ASSUME NEW f \in Servers, NEW i \in DOMAIN rlog'[f]
      PROVE  \E o : o = rlog'[f][i].op /\ Issued(o)
  <2>1. rlog \in [Servers -> Seq(Entry)]
    BY DEF IndInv, TypeOK
  <2>2. rlog' = rlog \/ rlog' = [rlog EXCEPT ![s] = Append(rlog[s], e)]
    BY DEF Start
  <2>3. (i \in DOMAIN rlog[f] /\ rlog'[f][i] = rlog[f][i]) \/ rlog'[f][i] = e
    <3>1. CASE rlog'[f] = rlog[f]
      BY <3>1
    <3>2. CASE rlog'[f] = Append(rlog[f], e)
      <4>1. rlog[f] \in Seq(Entry)
        BY <2>1
      <4> HIDE DEF e
      <4>2. DOMAIN Append(rlog[f], e) = 1 .. (Len(rlog[f]) + 1) /\ Len(rlog[f]) \in Nat
        BY <4>1
      <4>3. \A k \in 1 .. Len(rlog[f]) : Append(rlog[f], e)[k] = rlog[f][k]
        BY <4>1
      <4>4. Append(rlog[f], e)[Len(rlog[f]) + 1] = e /\ DOMAIN rlog[f] = 1 .. Len(rlog[f])
        BY <4>1
      <4> QED
        BY <3>2, <4>2, <4>3, <4>4
    <3>3. rlog'[f] = rlog[f] \/ rlog'[f] = Append(rlog[f], e)
      BY <2>1, <2>2
    <3> QED
      BY <3>1, <3>2, <3>3
  <2>4. Issued(rpc[h].op)
    BY DEF Issued
  <2> QED
    BY <2>3, <2>4 DEF Issued
<1> QED
  BY <1>2, <1>3, <1>4, Moved DEF Issued, ClerksKept

\* The rest of sendToRaftAndWait (server.go:47-65).
LEMMA WaitMoves ==
  ASSUME IndInv, NEW h \in Calls, Register(h) \/ Receive(h) \/ Timeout(h)
  PROVE  NoneMade /\ UNCHANGED <<cache, handled>>
<1>1. rpc[h] \in Handler /\ rpc \in [Calls -> Handler]
  BY DEF IndInv, TypeOK
<1>2. UNCHANGED <<rlog, committed, cache, handled, clerk>>
  BY DEF Register, Receive, Timeout, raftVars, serverVars
<1>3. \A g \in Calls : rpc'[g].op \in {rpc[g].op, Nil}
  <2>1. CASE Register(h)
    BY <1>1, <2>1 DEF Register, Handler
  <2>2. CASE Receive(h)
    <3> DEFINE m == indexChan[rpc[h].srv][rpc[h].index]
               q == IF isOpMatched(rpc[h].op, m.op) THEN "ok" ELSE "wrongLeader"
               r == [rpc[h] EXCEPT !.pc = q, !.reply = m.reply]
    <3>1. r.op = rpc[h].op
      BY <1>1 DEF Handler
    <3>2. rpc' = [rpc EXCEPT ![h] = Return(h, r)]
      BY <1>1, <2>2 DEF Receive
    <3> HIDE DEF r
    <3> QED
      BY <3>1, <3>2, ReturnKeepsOp
  <2>3. CASE Timeout(h)
    <3> DEFINE r == [rpc[h] EXCEPT !.pc = "wrongLeader"]
    <3>1. r.op = rpc[h].op
      BY <1>1 DEF Handler
    <3>2. rpc' = [rpc EXCEPT ![h] = Return(h, r)]
      BY <1>1, <2>3 DEF Timeout
    <3> HIDE DEF r
    <3> QED
      BY <3>1, <3>2, ReturnKeepsOp
  <2> QED
    BY <2>1, <2>2, <2>3
<1> QED
  BY <1>2, <1>3, Moved DEF Issued, ClerksKept

\* Raft moves entries between logs and commits them; the entry a leader begins
\* its term with is not an Op.
LEMMA RaftMoves ==
  ASSUME IndInv, NEW s \in Servers, RaftNext(s)
  PROVE  NoneMade /\ UNCHANGED <<cache, handled>>
<1>1. UNCHANGED <<rpc, cache, handled, clerk>>
  BY DEF RaftNext, Elect, Commit, Replicate, serverVars
<1>2. rlog \in [Servers -> Seq(Entry)] /\ committed \in Seq(Entry)
  BY DEF IndInv, TypeOK
<1>3. ASSUME NEW f \in Servers, NEW i \in DOMAIN rlog'[f]
      PROVE  rlog'[f][i].op = Nil \/ \E o : o = rlog'[f][i].op /\ Issued(o)
  <2>1. CASE Elect(s)
    <3> DEFINE e == [term |-> term + 1, op |-> NoOp]
    <3>1. rlog' = [rlog EXCEPT ![s] = Append(rlog[s], e)]
      BY <2>1 DEF Elect
    <3>2. (i \in DOMAIN rlog[f] /\ rlog'[f][i] = rlog[f][i]) \/ rlog'[f][i] = e
      BY <1>2, <3>1
    <3> QED
      BY <3>2 DEF Issued, NoOp
  <2>2. CASE Commit(s)
    BY <2>2 DEF Commit, Issued
  <2>3. CASE \E g \in Servers : Replicate(s, g)
    BY <1>2, <2>3 DEF Replicate, Issued
  <2> QED
    BY <2>1, <2>2, <2>3 DEF RaftNext
<1>4. ASSUME NEW i \in DOMAIN committed' PROVE Issued(committed'[i].op)
  <2>1. CASE Commit(s)
    <3> DEFINE k == Len(committed) + 1
    <3>1. k \in DOMAIN rlog[s] /\ committed' = Append(committed, rlog[s][k])
      BY <2>1 DEF Commit
    <3>2. (i \in DOMAIN committed /\ committed'[i] = committed[i]) \/ committed'[i] = rlog[s][k]
      BY <1>2, <3>1
    <3> QED
      BY <3>1, <3>2 DEF Issued
  <2>2. CASE UNCHANGED committed
    BY <2>2 DEF Issued
  <2> QED
    BY <2>1, <2>2 DEF RaftNext, Elect, Replicate
<1> QED
  BY <1>1, <1>3, <1>4, Moved DEF ClerksKept

-----------------------------------------------------------------------------
(* What a server handles                                                   *)

\* What the applier does when it handles an Op: it appends it, and the cache has
\* its stamp (server.go:148-162).
LEMMA ApplyHandles ==
  ASSUME IndInv, NEW s \in Servers, Apply(s), ~UNCHANGED <<cache, handled>>
  PROVE  LET op == committed[lastApplied[s] + 1].op
             n  == Len(handled[s])
         IN
         /\ IsNew(s, op) /\ op \in Op /\ op.client \in Clerks /\ op.ts \in Nat /\ op.ts > 0
         /\ Issued(op)
         /\ n \in Nat /\ DOMAIN handled[s] = 1 .. n /\ DOMAIN handled'[s] = 1 .. (n + 1)
         /\ handled'[s][n + 1] = op
         /\ \A j \in 1 .. n : handled'[s][j] = handled[s][j] /\ handled[s][j] \in Op
         /\ \A f \in Servers \ {s} : handled'[f] = handled[f] /\ cache'[f] = cache[f]
         /\ cache'[s][op.client] = op.ts
         /\ \A c \in Clerks \ {op.client} : cache'[s][c] = cache[s][c]
<1> DEFINE i  == lastApplied[s] + 1
           op == committed[i].op
           n  == Len(handled[s])
<1>1. /\ handled \in [Servers -> Seq(Op)] /\ cache \in [Servers -> [Clerks -> Nat]]
      /\ committed \in Seq(Entry) /\ i \in DOMAIN committed
  BY DEF IndInv, TypeOK, Apply, Deliverable
<1>2. /\ op # NoOp /\ IsNew(s, op)
      /\ cache' = [cache EXCEPT ![s][op.client] = op.ts]
      /\ handled' = [handled EXCEPT ![s] = Append(handled[s], op)]
  BY DEF Apply
<1>3. op \in Op /\ op.client \in Clerks /\ op.ts \in Nat /\ op.ts > 0 /\ Issued(op)
  <2>1. committed[i] \in Entry
    BY <1>1
  <2>2. op \in Op
    BY <1>2, <2>1 DEF Entry
  <2> QED
    BY <1>1, <2>2 DEF Op, Stamps, Issued
<1> HIDE DEF op, i
<1>4. /\ n \in Nat /\ DOMAIN handled[s] = 1 .. n /\ DOMAIN handled'[s] = 1 .. (n + 1)
      /\ handled'[s][n + 1] = op
      /\ \A j \in 1 .. n : handled'[s][j] = handled[s][j] /\ handled[s][j] \in Op
      /\ \A f \in Servers \ {s} : handled'[f] = handled[f] /\ cache'[f] = cache[f]
  BY <1>1, <1>2, <1>3
<1>5. /\ cache'[s][op.client] = op.ts
      /\ \A c \in Clerks \ {op.client} : cache'[s][c] = cache[s][c]
  BY <1>1, <1>2, <1>3
<1> QED
  BY <1>2, <1>3, <1>4, <1>5 DEF op, i

\* The applier handles what is committed, and makes no Op itself.
LEMMA ApplyMoves ==
  ASSUME IndInv, NEW s \in Servers, Apply(s)
  PROVE  NoneMade
<1>1. UNCHANGED <<rlog, committed, rpc, clerk>>
  BY DEF Apply, raftVars
<1>2. CASE UNCHANGED <<cache, handled>>
  BY <1>1, <1>2, Moved DEF Issued, ClerksKept
<1>3. CASE ~UNCHANGED <<cache, handled>>
  <2> DEFINE op == committed[lastApplied[s] + 1].op
             n  == Len(handled[s])
  <2>1. Issued(op) /\ op \in Op
    BY <1>3, ApplyHandles
  <2>2. /\ n \in Nat /\ DOMAIN handled[s] = 1 .. n /\ DOMAIN handled'[s] = 1 .. (n + 1)
        /\ handled'[s][n + 1] = op
        /\ \A j \in 1 .. n : handled'[s][j] = handled[s][j] /\ handled[s][j] \in Op
        /\ \A f \in Servers \ {s} : handled'[f] = handled[f] /\ cache'[f] = cache[f]
    BY <1>3, ApplyHandles
  <2> HIDE DEF op
  <2>3. ASSUME NEW o \in Op, Issued(o)' PROVE Issued(o)
    <3>1. CASE \E f \in Servers : \E j \in DOMAIN handled'[f] : handled'[f][j] = o
      <4>1. PICK f \in Servers : \E j \in DOMAIN handled'[f] : handled'[f][j] = o
        BY <3>1
      <4>2. CASE f # s
        BY <2>2, <4>1, <4>2 DEF Issued
      <4>3. CASE f = s
        <5>1. PICK j \in 1 .. (n + 1) : handled'[s][j] = o
          BY <2>2, <4>1, <4>3
        <5>2. CASE j = n + 1
          BY <2>1, <2>2, <5>1, <5>2
        <5>3. CASE j # n + 1
          <6>1. j \in 1 .. n
            BY <2>2, <5>3
          <6> QED
            BY <2>2, <5>1, <6>1 DEF Issued
        <5> QED
          BY <5>2, <5>3
      <4> QED
        BY <4>2, <4>3
    <3>2. CASE ~ \E f \in Servers : \E j \in DOMAIN handled'[f] : handled'[f][j] = o
      BY <1>1, <2>3, <3>2 DEF Issued
    <3> QED
      BY <3>1, <3>2
  <2> QED
    BY <1>1, <2>3 DEF NoneMade, ClerksKept
<1> QED
  BY <1>2, <1>3

\* An Op is handled only if its stamp is above all of its client so far, which
\* the cache knows.
LEMMA ApplyFilters ==
  ASSUME IndInv, OrderInv, NEW s \in Servers, Apply(s)
  PROVE  Filtered'
<1>1. cache \in [Servers -> [Clerks -> Nat]]
  BY DEF IndInv, TypeOK
<1>2. CASE UNCHANGED <<cache, handled>>
  BY <1>2 DEF OrderInv, Filtered, CacheTop, Increasing
<1>3. CASE ~UNCHANGED <<cache, handled>>
  <2> DEFINE op == committed[lastApplied[s] + 1].op
             n  == Len(handled[s])
  <2>1. IsNew(s, op) /\ op \in Op /\ op.client \in Clerks /\ op.ts \in Nat /\ op.ts > 0
    BY <1>3, ApplyHandles
  <2>2. /\ n \in Nat /\ DOMAIN handled[s] = 1 .. n /\ DOMAIN handled'[s] = 1 .. (n + 1)
        /\ handled'[s][n + 1] = op
        /\ \A j \in 1 .. n : handled'[s][j] = handled[s][j] /\ handled[s][j] \in Op
        /\ \A f \in Servers \ {s} : handled'[f] = handled[f] /\ cache'[f] = cache[f]
    BY <1>3, ApplyHandles
  <2>3. /\ cache'[s][op.client] = op.ts
        /\ \A c \in Clerks \ {op.client} : cache'[s][c] = cache[s][c]
    BY <1>3, ApplyHandles
  <2> HIDE DEF op
  <2>4. ASSUME NEW j \in 1 .. n, handled[s][j].client = op.client
        PROVE  handled[s][j].ts < op.ts
    <3>1. handled[s][j].ts <= cache[s][op.client]
      BY <2>2, <2>4 DEF OrderInv, Filtered, CacheTop
    <3>2. handled[s][j] \in Op /\ cache[s][op.client] \in Nat
      BY <1>1, <2>1, <2>2
    <3>3. handled[s][j].ts \in Nat /\ handled[s][j].ts > 0
      BY <3>2 DEF Op, Stamps
    <3> QED
      BY <2>1, <3>1, <3>2, <3>3 DEF IsNew
  <2>5. CacheTop'
    <3>1. ASSUME NEW f \in Servers, NEW j \in DOMAIN handled'[f]
          PROVE  handled'[f][j].ts <= cache'[f][handled'[f][j].client]
      <4>1. CASE f # s
        BY <2>2, <4>1 DEF OrderInv, Filtered, CacheTop
      <4>2. CASE f = s /\ j = n + 1
        BY <2>1, <2>2, <2>3, <4>2
      <4>3. CASE f = s /\ j # n + 1
        <5>1. j \in 1 .. n /\ handled'[s][j] = handled[s][j] /\ handled[s][j] \in Op
          BY <2>2, <4>3
        <5>2. handled[s][j].client \in Clerks /\ handled[s][j].ts \in Nat
          BY <5>1 DEF Op, Stamps
        <5>3. CASE handled[s][j].client = op.client
          BY <2>1, <2>3, <2>4, <4>3, <5>1, <5>2, <5>3
        <5>4. CASE handled[s][j].client # op.client
          BY <2>2, <2>3, <4>3, <5>1, <5>2, <5>4 DEF OrderInv, Filtered, CacheTop
        <5> QED
          BY <5>3, <5>4
      <4> QED
        BY <4>1, <4>2, <4>3
    <3> QED
      BY <3>1 DEF CacheTop
  <2>6. Increasing'
    <3>1. ASSUME NEW f \in Servers, NEW j \in DOMAIN handled'[f], NEW k \in DOMAIN handled'[f],
                 j < k, handled'[f][j].client = handled'[f][k].client
          PROVE  handled'[f][j].ts < handled'[f][k].ts
      <4>1. CASE f # s
        BY <2>2, <3>1, <4>1 DEF OrderInv, Filtered, Increasing
      <4>2. CASE f = s /\ k = n + 1
        <5>1. j \in 1 .. n /\ handled'[s][j] = handled[s][j] /\ handled'[s][k] = op
          BY <2>2, <3>1, <4>2
        <5> QED
          BY <2>4, <3>1, <4>2, <5>1
      <4>3. CASE f = s /\ k # n + 1
        <5>1. /\ j \in 1 .. n /\ handled'[s][j] = handled[s][j]
              /\ k \in 1 .. n /\ handled'[s][k] = handled[s][k]
          BY <2>2, <3>1, <4>3
        <5> QED
          BY <2>2, <3>1, <4>3, <5>1 DEF OrderInv, Filtered, Increasing
      <4> QED
        BY <4>1, <4>2, <4>3
    <3> QED
      BY <3>1 DEF Increasing
  <2> QED
    BY <2>5, <2>6 DEF Filtered
<1> QED
  BY <1>2, <1>3

\* A restarted server has handled nothing and has an empty cache.
LEMMA RestartForgets ==
  ASSUME IndInv, NEW s \in Servers, Restart(s)
  PROVE  /\ NoneMade /\ handled'[s] = <<>> /\ cache'[s] = [c \in Clerks |-> 0]
         /\ \A f \in Servers \ {s} : handled'[f] = handled[f] /\ cache'[f] = cache[f]
<1>1. /\ handled \in [Servers -> Seq(Op)] /\ cache \in [Servers -> [Clerks -> Nat]]
      /\ rpc \in [Calls -> Handler]
  BY DEF IndInv, TypeOK
<1>2. /\ UNCHANGED <<rlog, committed, clerk>>
      /\ handled' = [handled EXCEPT ![s] = <<>>]
      /\ cache' = [cache EXCEPT ![s] = [c \in Clerks |-> 0]]
  BY DEF Restart, NewServer
<1>3. /\ handled'[s] = <<>> /\ cache'[s] = [c \in Clerks |-> 0]
      /\ \A f \in Servers \ {s} : handled'[f] = handled[f] /\ cache'[f] = cache[f]
  BY <1>1, <1>2
<1>4. ASSUME NEW h \in Calls PROVE rpc'[h].op \in {rpc[h].op, Nil}
  <2> DEFINE r == [rpc[h] EXCEPT !.pc = "dead"]
  <2>1. r.op = rpc[h].op
    BY <1>1 DEF Handler
  <2>2. rpc'[h] = rpc[h] \/ rpc'[h] = Return(h, r)
    BY DEF Restart
  <2> HIDE DEF r
  <2> QED
    BY <2>1, <2>2 DEF Return, Idle
<1>5. ASSUME NEW o \in Op, Issued(o)' PROVE Issued(o)
  <2>1. o # Nil
    BY ConstantsAssumption
  <2> QED
    BY <1>2, <1>3, <1>4, <1>5, <2>1 DEF Issued
<1> QED
  BY <1>2, <1>3, <1>5 DEF NoneMade, ClerksKept

\* Every step but the sending of an RPC moves Ops that exist already.
LEMMA StepMoves ==
  ASSUME IndInv, [Next]_vars
  PROVE  NoneMade \/ \E c \in Clerks : Query(c) \/ Join(c) \/ Leave(c) \/ Move(c)
<1>1. ASSUME NEW c \in Clerks, CallReturns(c) \/ NetworkNext(c) PROVE NoneMade
  BY <1>1, ClerkMoves DEF NetworkNext
<1>2. ASSUME NEW h \in Calls, HandlerNext(h) PROVE NoneMade
  BY <1>2, StartMoves, WaitMoves DEF HandlerNext
<1>3. ASSUME NEW s \in Servers, Apply(s) \/ Restart(s) \/ RaftNext(s) PROVE NoneMade
  BY <1>3, ApplyMoves, RestartForgets, RaftMoves
<1>4. CASE UNCHANGED vars
  <2>1. UNCHANGED <<rpc, rlog, committed, handled, clerk>>
    BY <1>4 DEF vars, raftVars, serverVars
  <2> QED
    BY <2>1, Moved DEF Issued, ClerksKept
<1> QED
  BY <1>1, <1>2, <1>3, <1>4 DEF Next, ClerkNext

-----------------------------------------------------------------------------

\* Stamps and cache are in order in every reachable state.
THEOREM OrderInvariance ==
  ASSUME ClockSteps \subseteq Nat
  PROVE  Spec => [](IndInv /\ OrderInv)
<1>1. Init => OrderInv
  <2> SUFFICES ASSUME Init PROVE OrderInv
    OBVIOUS
  <2>1. ASSUME NEW o \in Op PROVE ~Issued(o)
    <3>1. o # Nil
      BY ConstantsAssumption
    <3> QED
      BY <3>1 DEF Init, Issued, Idle
  <2> QED
    BY <2>1 DEF Init, OrderInv, Stamped, AllTraced, AllInOrder, Filtered, CacheTop, Increasing
<1>2. IndInv /\ IndInv' /\ OrderInv /\ [Next]_vars => OrderInv'
  <2> SUFFICES ASSUME IndInv, OrderInv, [Next]_vars PROVE OrderInv'
    OBVIOUS
  <2>1. CASE \E c \in Clerks : Query(c) \/ Join(c) \/ Leave(c) \/ Move(c)
    BY <2>1, OrderSend
  <2>2. CASE NoneMade
    <3>1. Stamped'
      BY <2>2, NothingNew DEF OrderInv
    <3>2. ASSUME NEW s \in Servers, Apply(s) PROVE Filtered'
      BY <3>2, ApplyFilters
    <3>3. ASSUME NEW s \in Servers, Restart(s) PROVE Filtered'
      BY <3>3, RestartForgets DEF OrderInv, Filtered, CacheTop, Increasing
    <3>4. ASSUME UNCHANGED <<cache, handled>> PROVE Filtered'
      BY <3>4 DEF OrderInv, Filtered, CacheTop, Increasing
    <3>5. \/ UNCHANGED <<cache, handled>>
          \/ \E s \in Servers : Apply(s) \/ Restart(s)
          \/ \E c \in Clerks : Query(c) \/ Join(c) \/ Leave(c) \/ Move(c)
      <4>1. CASE UNCHANGED vars
        BY <4>1 DEF vars, serverVars
      <4> QED
        BY <4>1, ClerkMoves, StartMoves, WaitMoves, RaftMoves
        DEF Next, ClerkNext, NetworkNext, HandlerNext
    <3>6. CASE Filtered'
      BY <3>1, <3>6 DEF OrderInv
    <3> QED
      BY <2>1, <3>2, <3>3, <3>4, <3>5, <3>6
  <2> QED
    BY <2>1, <2>2, StepMoves
<1> QED
  BY <1>1, <1>2, Invariance, PTL DEF Spec

\* Whatever is lost, delayed or retried, a copy of an operation does not take
\* effect after a later operation of its clerk (server.go:149).
THEOREM NoneOutOfOrder ==
  ASSUME ClockSteps \subseteq Nat
  PROVE  Spec => []OldNeverAfterNew
<1>1. IndInv /\ OrderInv => OldNeverAfterNew
  <2> SUFFICES ASSUME IndInv, OrderInv, NEW s \in Servers,
                      NEW i \in DOMAIN handled[s], NEW j \in DOMAIN handled[s],
                      i < j, handled[s][i].client = handled[s][j].client
               PROVE  handled[s][i].seq <= handled[s][j].seq
    BY DEF OldNeverAfterNew
  <2> DEFINE o == handled[s][i]
             p == handled[s][j]
  <2>1. o \in Op /\ p \in Op
    BY DEF IndInv, TypeOK
  <2>2. Issued(o) /\ Issued(p)
    BY DEF Issued
  <2>3. o.ts < p.ts
    BY DEF OrderInv, Filtered, Increasing
  <2> QED
    BY <2>1, <2>2, <2>3 DEF OrderInv, Stamped, AllInOrder, InOrder
<1> QED
  BY <1>1, OrderInvariance, PTL

\* Move and Query, which keep their stamp (client.go:41, 102), take effect at
\* most once on every replica.
THEOREM FixedOnce ==
  ASSUME ClockSteps \subseteq Nat
  PROVE  Spec => []FixedStampOnce
<1>1. IndInv /\ OrderInv => FixedStampOnce
  <2> SUFFICES ASSUME IndInv, OrderInv, NEW s \in Servers, NEW c \in Clerks,
                      NEW n \in DOMAIN Script[c], Script[c][n] \in {"Move", "Query"}
               PROVE  TimesHandled(s, c, n) <= 1
    BY DEF FixedStampOnce
  <2> DEFINE T == {i \in DOMAIN handled[s] : handled[s][i].client = c /\ handled[s][i].seq = n}
  <2>1. handled[s] \in Seq(Op)
    BY DEF IndInv, TypeOK
  <2>2. ASSUME NEW i \in T, NEW j \in T, i < j PROVE FALSE
    <3> DEFINE o == handled[s][i]
               p == handled[s][j]
    <3>1. /\ o \in Op /\ p \in Op /\ Issued(o) /\ Issued(p)
          /\ o.client = c /\ p.client = c /\ o.seq = n /\ p.seq = n
      BY <2>1 DEF Issued
    <3>2. o.ts < p.ts
      BY <2>2, <3>1 DEF OrderInv, Filtered, Increasing
    <3>3. o.cmd \in FixedStamp
      BY <3>1 DEF OrderInv, Stamped, AllTraced, Traced, FixedStamp
    <3>4. o.ts = p.ts /\ o.ts \in Nat
      BY <3>1, <3>3 DEF OrderInv, Stamped, AllInOrder, InOrder, Op, Stamps
    <3> QED
      BY <3>2, <3>4
  <2>3. \A i, j \in T : i = j
    <3>1. \A i \in T : i \in Nat
      BY <2>1
    <3> QED
      BY <2>2, <3>1
  <2> HIDE DEF T
  <2>4. Cardinality(T) <= 1
    <3>1. CASE T = {}
      BY <3>1, FS_EmptySet
    <3>2. CASE T # {}
      <4>1. PICK i : T = {i}
        BY <2>3, <3>2
      <4> QED
        <5>1. Cardinality({i}) = 1
          BY FS_Singleton
        <5> QED
          BY <4>1, <5>1
    <3> QED
      BY <3>1, <3>2
  <2> QED
    BY <2>4 DEF TimesHandled, T
<1> QED
  BY <1>1, OrderInvariance, PTL

-----------------------------------------------------------------------------
(***************************************************************************)
(* What a clerk was told is done is in force: the time stamp filter never  *)
(* drops an operation altogether.  The clock must advance between two      *)
(* operations of a clerk, since isOpMatched and the filter know an         *)
(* operation by nothing but its stamp.                                     *)
(***************************************************************************)

\* A stamp belongs to one operation: the clock advances between two of them.
Distinct ==
  /\ \A o \in Op : Issued(o) /\ clerk[o.client].phase = "retry" /\ o.ts = clerk[o.client].ts
       => o.seq = clerk[o.client].seq
  /\ \A o, p \in Op : Issued(o) /\ Issued(p) /\ o.client = p.client /\ o.ts = p.ts
       => o.seq = p.seq

\* The handler a clerk listens to works for the clerk's current operation.
Heard ==
  \A h \in Calls : rpc[h].pc # "free" /\ Listening(h) =>
    rpc[h].op.client = h[1] /\ rpc[h].op.seq = clerk[h[1]].seq

\* What lies in a channel is a committed Op.
Answers ==
  \A s \in Servers : \A i \in DOMAIN indexChan[s] : indexChan[s][i] # Empty =>
    \E j \in DOMAIN committed : committed[j].op = indexChan[s][i].op

\* A handler says OK of an Op that matches a committed one.
OkCommitted ==
  \A h \in Calls : rpc[h].pc = "ok" =>
    \E j \in DOMAIN committed : committed[j].op \in Op /\ isOpMatched(rpc[h].op, committed[j].op)

\* Entry j of the committed log is operation n of clerk c.
Carries(j, c, n) ==
  committed[j].op \in Op /\ committed[j].op.client = c /\ committed[j].op.seq = n

\* What a clerk was told is done is committed.
AckedCommitted ==
  \A c \in Clerks : \A n \in 1 .. (clerk[c].seq - 1) : \E j \in DOMAIN committed : Carries(j, c, n)

\* An operation is committed after all that its clerk did before.
OneByOne ==
  \A i \in DOMAIN committed : committed[i].op \in Op =>
    \A n \in 1 .. (committed[i].op.seq - 1) :
      \E j \in DOMAIN committed : j < i /\ Carries(j, committed[i].op.client, n)

\* A server has handled operation n of clerk c.
Done(s, c, n) ==
  \E k \in DOMAIN handled[s] : handled[s][k].client = c /\ handled[s][k].seq = n

\* What a server handled it took from the log, as far as it has applied it.
Sourced ==
  \A s \in Servers :
    /\ lastApplied[s] <= Len(committed)
    /\ \A k \in DOMAIN handled[s] : \E j \in DOMAIN committed :
         j <= lastApplied[s] /\ committed[j].op = handled[s][k]

\* Of what it has applied, it has handled every operation, if not every copy.
NoneSkipped ==
  \A s \in Servers : \A j \in DOMAIN committed :
    j <= lastApplied[s] /\ committed[j].op \in Op
      => Done(s, committed[j].op.client, committed[j].op.seq)

\* A stamp is in the cache because an Op with it was handled.
CacheHeld ==
  \A s \in Servers, c \in Clerks : cache[s][c] # 0 =>
    \E k \in DOMAIN handled[s] : handled[s][k].client = c /\ handled[s][k].ts = cache[s][c]

Delivered == Heard /\ Answers /\ OkCommitted /\ AckedCommitted /\ OneByOne
Replayed  == Sourced /\ NoneSkipped /\ CacheHeld
AckedInv  == Distinct /\ Delivered /\ Replayed

-----------------------------------------------------------------------------
(* Stamps                                                                  *)

\* A step that makes no Op keeps stamps apart.
LEMMA DistinctKept ==
  ASSUME IndInv, Distinct, NoneMade
  PROVE  Distinct'
<1>1. ASSUME NEW o \in Op, Issued(o)', clerk'[o.client].phase = "retry",
             o.ts = clerk'[o.client].ts
      PROVE  o.seq = clerk'[o.client].seq
  <2>1. Issued(o) /\ o.client \in Clerks
    BY <1>1 DEF NoneMade, Op
  <2>2. /\ clerk'[o.client].ts = clerk[o.client].ts
        /\ clerk'[o.client].seq = clerk[o.client].seq
        /\ clerk'[o.client].phase = clerk[o.client].phase
    BY <1>1, <2>1 DEF NoneMade, ClerksKept
  <2> QED
    BY <1>1, <2>1, <2>2 DEF Distinct
<1>2. ASSUME NEW o \in Op, NEW p \in Op, Issued(o)', Issued(p)', o.client = p.client, o.ts = p.ts
      PROVE  o.seq = p.seq
  BY <1>2 DEF NoneMade, Distinct
<1> QED
  BY <1>1, <1>2 DEF Distinct

\* A clerk that begins an operation reads a later time than ever before.
LEMMA DistinctSend ==
  ASSUME ClockSteps \subseteq Nat \ {0}, IndInv, OrderInv, Distinct, NEW c \in Clerks,
         Query(c) \/ Join(c) \/ Leave(c) \/ Move(c)
  PROVE  Distinct'
<1>1. PICK t \in Stamps : /\ ~Finished(c) /\ Send(c, t) /\ t >= clerk[c].ts
                          /\ clerk[c].phase = "new" => t \in Now(c)
  BY SendStamp
<1>2. t \in Nat /\ clerk[c] \in Clerk
  BY DEF Stamps, IndInv, TypeOK
<1>3. clerk[c].phase = "new" => t > clerk[c].ts
  BY <1>1, <1>2 DEF Now, Clerk
<1> DEFINE op == [cmd |-> Current(c), client |-> c, seq |-> clerk[c].seq, ts |-> t]
<1>4. /\ op \in Op /\ op.client = c /\ op.seq = clerk[c].seq /\ op.ts = t
  BY <1>1, SendMakes
<1>5. /\ clerk'[c].ts = t /\ clerk'[c].seq = clerk[c].seq /\ clerk'[c].phase = "retry"
      /\ \A d \in Clerks \ {c} : clerk'[d] = clerk[d]
  BY <1>1, SendClerk
<1>6. \A o \in Op : Issued(o)' => Issued(o) \/ o = op
  BY <1>1, SendMakes
<1> HIDE DEF op
<1>7. ASSUME NEW o \in Op, Issued(o), o.client = c, o.ts = t PROVE o.seq = clerk[c].seq
  <2>1. o.ts <= clerk[c].ts
    BY <1>7 DEF OrderInv, Stamped, AllTraced, Traced
  <2>2. o.ts = clerk[c].ts /\ clerk[c].phase = "retry"
    BY <1>1, <1>2, <1>3, <1>7, <2>1 DEF Clerk
  <2> QED
    BY <1>7, <2>2 DEF Distinct
<1>8. ASSUME NEW o \in Op, Issued(o)', clerk'[o.client].phase = "retry",
             o.ts = clerk'[o.client].ts
      PROVE  o.seq = clerk'[o.client].seq
  <2>1. CASE o = op
    BY <1>4, <1>5, <2>1
  <2>2. CASE Issued(o) /\ o.client = c
    BY <1>5, <1>7, <1>8, <2>2
  <2>3. CASE Issued(o) /\ o.client # c
    <3>1. clerk'[o.client] = clerk[o.client]
      BY <1>5, <2>3 DEF Op
    <3> QED
      BY <1>8, <2>3, <3>1 DEF Distinct
  <2> QED
    BY <1>6, <1>8, <2>1, <2>2, <2>3
<1>9. ASSUME NEW o \in Op, NEW p \in Op, Issued(o)', Issued(p)', o.client = p.client, o.ts = p.ts
      PROVE  o.seq = p.seq
  <2>1. CASE Issued(o) /\ Issued(p)
    BY <1>9, <2>1 DEF Distinct
  <2>2. CASE o = op \/ p = op
    BY <1>4, <1>6, <1>7, <1>9, <2>2
  <2> QED
    BY <1>6, <1>9, <2>1, <2>2
<1> QED
  BY <1>8, <1>9 DEF Distinct

-----------------------------------------------------------------------------
(* From the handler to the clerk                                           *)

\* The committed log only grows.
Grows == \A j \in DOMAIN committed : j \in DOMAIN committed' /\ committed'[j] = committed[j]

\* Handlers go on with their Op, or end.
RpcKept ==
  \A h \in Calls : rpc'[h].pc # "free" => rpc[h].pc # "free" /\ rpc'[h].op = rpc[h].op

\* No clerk's method returns.
NoReturn ==
  \A c \in Clerks : \/ clerk'[c] = clerk[c]
                    \/ clerk'[c].seq = clerk[c].seq /\ clerk'[c].call = 0

\* Handlers that go on stay what their clerks listen to.
LEMMA HeardKept ==
  ASSUME IndInv, Heard, RpcKept, NoReturn
  PROVE  Heard'
<1> SUFFICES ASSUME NEW h \in Calls, rpc'[h].pc # "free", clerk'[h[1]].call = h[2]
             PROVE  rpc'[h].op.client = h[1] /\ rpc'[h].op.seq = clerk'[h[1]].seq
  BY DEF Heard, Listening
<1>1. h[1] \in Clerks /\ h[2] # 0
  BY DEF Calls
<1>2. clerk'[h[1]] = clerk[h[1]]
  BY <1>1 DEF NoReturn
<1> QED
  BY <1>2 DEF RpcKept, Heard, Listening

\* What a longer log still says of the clerks.
LEMMA AckedKept ==
  ASSUME IndInv, AckedCommitted, Grows, NoReturn
  PROVE  AckedCommitted'
<1> SUFFICES ASSUME NEW c \in Clerks, NEW n \in 1 .. (clerk'[c].seq - 1)
             PROVE  \E j \in DOMAIN committed' : Carries(j, c, n)'
  BY DEF AckedCommitted
<1>1. clerk'[c].seq = clerk[c].seq
  BY DEF NoReturn
<1>2. PICK j \in DOMAIN committed : Carries(j, c, n)
  BY <1>1 DEF AckedCommitted
<1> QED
  BY <1>2 DEF Grows, Carries

\* What is said of the log holds of a longer one, what is in it and who is told.
LEMMA DeliveredKept ==
  ASSUME IndInv, Delivered, RpcKept, NoReturn, UNCHANGED committed, Answers', OkCommitted'
  PROVE  Delivered'
<1>1. Grows
  BY DEF Grows
<1>2. OneByOne'
  BY DEF Delivered, OneByOne, Carries
<1> QED
  BY <1>1, <1>2, HeardKept, AckedKept DEF Delivered

\* Handlers answer OK only when they receive.
LEMMA OkKept ==
  ASSUME OkCommitted, RpcKept, Grows,
         \A h \in Calls : rpc'[h].pc = "ok" => rpc[h].pc = "ok"
  PROVE  OkCommitted'
<1> SUFFICES ASSUME NEW h \in Calls, rpc'[h].pc = "ok"
             PROVE  \E j \in DOMAIN committed' : /\ committed'[j].op \in Op
                                                 /\ isOpMatched(rpc'[h].op, committed'[j].op)
  BY DEF OkCommitted
<1>1. PICK j \in DOMAIN committed :
        committed[j].op \in Op /\ isOpMatched(rpc[h].op, committed[j].op)
  BY DEF OkCommitted
<1>2. rpc'[h].op = rpc[h].op
  BY DEF RpcKept
<1> QED
  BY <1>1, <1>2 DEF Grows

\* The channels, with the log grown.
LEMMA AnswersKept ==
  ASSUME Answers, Grows, UNCHANGED indexChan
  PROVE  Answers'
BY DEF Answers, Grows

\* An RPC that was just sent works for its clerk's operation.
LEMMA DeliveredSend ==
  ASSUME ClockSteps \subseteq Nat, IndInv, Delivered, NEW c \in Clerks,
         Query(c) \/ Join(c) \/ Leave(c) \/ Move(c)
  PROVE  Delivered'
<1>1. PICK t \in Stamps : ~Finished(c) /\ Send(c, t)
  BY SendStamp
<1> DEFINE op == [cmd |-> Current(c), client |-> c, seq |-> clerk[c].seq, ts |-> t]
<1>2. UNCHANGED <<committed, indexChan>>
  BY <1>1 DEF Send, raftVars, serverVars
<1>3. op.client = c /\ op.seq = clerk[c].seq
  OBVIOUS
<1>4. /\ clerk'[c].ts = t /\ clerk'[c].seq = clerk[c].seq /\ clerk'[c].phase = "retry"
      /\ \A d \in Clerks \ {c} : clerk'[d] = clerk[d]
  BY <1>1, SendClerk
<1>5. \A h \in Calls : \/ rpc'[h] = rpc[h] /\ (h[1] = c => h[2] # clerk'[c].call)
                       \/ h = <<c, clerk'[c].call>> /\ rpc'[h].pc = "sent" /\ rpc'[h].op = op
  BY <1>1, SendMakes
<1> HIDE DEF op
<1>6. Heard'
  <2> SUFFICES ASSUME NEW h \in Calls, rpc'[h].pc # "free", clerk'[h[1]].call = h[2]
               PROVE  rpc'[h].op.client = h[1] /\ rpc'[h].op.seq = clerk'[h[1]].seq
    BY DEF Heard, Listening
  <2>1. CASE rpc'[h] = rpc[h] /\ (h[1] = c => h[2] # clerk'[c].call)
    <3>1. h[1] \in Clerks \ {c}
      BY <2>1 DEF Calls
    <3> QED
      BY <1>4, <2>1, <3>1 DEF Delivered, Heard, Listening
  <2>2. CASE h = <<c, clerk'[c].call>> /\ rpc'[h].op = op
    BY <1>3, <1>4, <2>2
  <2> QED
    BY <1>5, <2>1, <2>2
<1>7. OkCommitted'
  <2>1. \A h \in Calls : rpc'[h].pc = "ok" => rpc'[h] = rpc[h]
    BY <1>5
  <2> QED
    BY <1>2, <2>1 DEF Delivered, OkCommitted
<1>8. AckedCommitted'
  <2>1. \A d \in Clerks : clerk'[d].seq = clerk[d].seq
    BY <1>4
  <2> QED
    BY <1>2, <2>1 DEF Delivered, AckedCommitted, Carries
<1>9. Answers' /\ OneByOne'
  BY <1>2 DEF Delivered, Answers, OneByOne, Carries
<1> QED
  BY <1>6, <1>7, <1>8, <1>9 DEF Delivered

\* A Call() that failed, or said WrongLeader, leaves the clerk in its operation.
LEMMA DeliveredFailed ==
  ASSUME IndInv, Delivered, NEW c \in Clerks,
         \/ CallReturns(c) /\ rpc[RPC(c)].pc # "ok"
         \/ RequestLost(c) \/ ReplyLost(c) \/ ServerDead(c)
  PROVE  Delivered'
<1>1. UNCHANGED <<committed, indexChan>>
  BY DEF CallReturns, RequestLost, ReplyLost, ServerDead, raftVars, serverVars
<1>2. clerk' = [clerk EXCEPT ![c] = NextServer(c)]
  BY DEF CallReturns, RequestLost, ReplyLost, ServerDead
<1>3. clerk \in [Clerks -> Clerk] /\ rpc \in [Calls -> Handler]
  BY DEF IndInv, TypeOK
<1>4. NextServer(c).seq = clerk[c].seq /\ NextServer(c).call = 0
  BY <1>3 DEF NextServer, Clerk
<1>5. NoReturn
  BY <1>2, <1>3, <1>4 DEF NoReturn
<1>6. rpc' = [rpc EXCEPT ![RPC(c)] = Idle] \/ rpc' = rpc
  <2>1. CASE ReplyLost(c)
    BY <1>3, <2>1 DEF ReplyLost
  <2> QED
    BY <2>1 DEF CallReturns, RequestLost, ServerDead
<1>7. \A h \in Calls : rpc'[h] = rpc[h] \/ rpc'[h] = Idle
  BY <1>3, <1>6
<1>8. RpcKept /\ \A h \in Calls : rpc'[h].pc = "ok" => rpc[h].pc = "ok"
  BY <1>7 DEF RpcKept, Idle
<1>9. Grows
  BY <1>1 DEF Grows
<1> QED
  BY <1>1, <1>5, <1>8, <1>9, AnswersKept, OkKept, DeliveredKept DEF Delivered

\* A Call() that said OK: the operation of the clerk is committed, since the Op
\* that matched has its stamp (client.go:47-50).
LEMMA DeliveredOk ==
  ASSUME IndInv, Distinct, Delivered, NEW c \in Clerks,
         CallReturns(c), rpc[RPC(c)].pc = "ok"
  PROVE  Delivered'
<1> DEFINE h == RPC(c)
           m == clerk[c].seq
<1>1. UNCHANGED <<committed, indexChan>>
  BY DEF CallReturns, raftVars, serverVars
<1>2. clerk \in [Clerks -> Clerk] /\ rpc \in [Calls -> Handler] /\ m \in Nat
  BY DEF IndInv, TypeOK, Clerk
<1>3. h \in Calls /\ h[1] = c /\ h[2] = clerk[c].call
  <2>1. clerk[c].call \in 1 .. MaxCalls
    BY <1>2, ConstantsAssumption DEF CallReturns, IndInv, TypeOK, Clerk
  <2> QED
    BY <2>1 DEF RPC, Calls
<1>4. clerk' = [clerk EXCEPT ![c] = NextOperation(c)] /\ rpc' = [rpc EXCEPT ![h] = Idle]
  BY DEF CallReturns
<1>5. NextOperation(c).seq = m + 1 /\ NextOperation(c).call = 0
  BY <1>2 DEF NextOperation, Clerk
<1>6. /\ clerk'[c].seq = m + 1 /\ clerk'[c].call = 0
      /\ \A d \in Clerks \ {c} : clerk'[d] = clerk[d]
  BY <1>2, <1>4, <1>5
<1>7. \A g \in Calls : rpc'[g] = rpc[g] \/ rpc'[g] = Idle
  BY <1>2, <1>4
<1>8. \E j \in DOMAIN committed : Carries(j, c, m)
  <2>1. rpc[h].op \in Op /\ rpc[h].op.client = c /\ rpc[h].op.seq = m
    BY <1>3 DEF Delivered, Heard, Listening, IndInv, RpcShape
  <2>2. PICK j \in DOMAIN committed :
          committed[j].op \in Op /\ isOpMatched(rpc[h].op, committed[j].op)
    BY <1>3 DEF Delivered, OkCommitted
  <2>3. Issued(rpc[h].op) /\ Issued(committed[j].op)
    BY <1>3 DEF Issued
  <2>4. committed[j].op.seq = m
    BY <2>1, <2>2, <2>3 DEF Distinct, isOpMatched
  <2> QED
    BY <2>1, <2>2, <2>4 DEF Carries, isOpMatched
<1> HIDE DEF h, m
<1>9. AckedCommitted'
  <2> SUFFICES ASSUME NEW d \in Clerks, NEW n \in 1 .. (clerk'[d].seq - 1)
               PROVE  \E j \in DOMAIN committed : Carries(j, d, n)
    BY <1>1 DEF AckedCommitted, Carries
  <2>1. CASE d # c
    BY <1>6, <2>1 DEF Delivered, AckedCommitted
  <2>2. CASE d = c /\ n = m
    BY <1>8, <2>2
  <2>3. CASE d = c /\ n # m
    <3>1. n \in 1 .. (clerk[c].seq - 1)
      BY <1>2, <1>6, <2>3 DEF m
    <3> QED
      BY <2>3, <3>1 DEF Delivered, AckedCommitted
  <2> QED
    BY <2>1, <2>2, <2>3
<1>10. Heard'
  <2> SUFFICES ASSUME NEW g \in Calls, rpc'[g].pc # "free", clerk'[g[1]].call = g[2]
               PROVE  rpc'[g].op.client = g[1] /\ rpc'[g].op.seq = clerk'[g[1]].seq
    BY DEF Heard, Listening
  <2>1. g[1] \in Clerks \ {c}
    BY <1>6 DEF Calls
  <2>2. rpc'[g] = rpc[g]
    BY <1>7 DEF Idle
  <2> QED
    BY <1>6, <2>1, <2>2 DEF Delivered, Heard, Listening
<1>11. OkCommitted'
  BY <1>1, <1>7 DEF Delivered, OkCommitted, Idle
<1>12. Answers' /\ OneByOne'
  BY <1>1 DEF Delivered, Answers, OneByOne, Carries
<1> QED
  BY <1>9, <1>10, <1>11, <1>12 DEF Delivered

\* A handler that returns keeps its Op until its clerk has heard of it.
LEMMA ReturnKept ==
  ASSUME IndInv, NEW h \in Calls, rpc[h].pc # "free", NEW r, r.op = rpc[h].op,
         rpc' = [rpc EXCEPT ![h] = Return(h, r)]
  PROVE  /\ RpcKept
         /\ \A g \in Calls \ {h} : rpc'[g] = rpc[g]
         /\ rpc'[h].pc = "ok" => r.pc = "ok"
<1>1. rpc \in [Calls -> Handler]
  BY DEF IndInv, TypeOK
<1>2. \A g \in Calls \ {h} : rpc'[g] = rpc[g]
  BY <1>1
<1>3. rpc'[h] = r \/ rpc'[h] = Idle
  BY <1>1 DEF Return
<1> QED
  BY <1>2, <1>3 DEF RpcKept, Idle

\* Putting nothing, or a committed Op, into a channel.
LEMMA AnswersPut ==
  ASSUME IndInv, Answers, NEW s \in Servers, NEW i, NEW v,
         v = Empty \/ \E j \in DOMAIN committed : committed[j].op = v.op,
         indexChan' = [indexChan EXCEPT ![s] = Put(indexChan[s], i, v)], UNCHANGED committed
  PROVE  Answers'
<1> SUFFICES ASSUME NEW f \in Servers, NEW k \in DOMAIN indexChan'[f], indexChan'[f][k] # Empty
             PROVE  \E j \in DOMAIN committed : committed[j].op = indexChan'[f][k].op
  BY DEF Answers
<1>1. DOMAIN indexChan = Servers
  BY DEF IndInv, TypeOK
<1>2. CASE f # s
  <2>1. indexChan'[f] = indexChan[f]
    BY <1>1, <1>2
  <2> QED
    BY <2>1 DEF Answers
<1>3. CASE f = s
  <2>1. indexChan'[s] = Put(indexChan[s], i, v)
    BY <1>1
  <2>2. (k = i /\ indexChan'[s][k] = v) \/ (k \in DOMAIN indexChan[s] /\ indexChan'[s][k] = indexChan[s][k])
    BY <1>3, <2>1 DEF Put
  <2> QED
    BY <1>3, <2>2 DEF Answers
<1> QED
  BY <1>2, <1>3

\* Handlers submit, wait and give up without a word on the log.
LEMMA DeliveredWait ==
  ASSUME IndInv, Delivered, NEW h \in Calls, Start(h) \/ Register(h) \/ Timeout(h)
  PROVE  Delivered'
<1>1. rpc \in [Calls -> Handler] /\ rpc[h] \in Handler /\ rpc[h].pc \in {"sent", "started", "waiting"}
  BY DEF IndInv, TypeOK, Start, Register, Timeout
<1>2. UNCHANGED <<committed, clerk>>
  BY DEF Start, Register, Timeout, raftVars
<1>3. RpcKept /\ \A g \in Calls : rpc'[g].pc = "ok" => rpc[g].pc = "ok"
  <2>1. CASE rpc' = [rpc EXCEPT ![h] = Return(h, [rpc[h] EXCEPT !.pc = "wrongLeader"])]
    <3> DEFINE r == [rpc[h] EXCEPT !.pc = "wrongLeader"]
    <3>1. r.op = rpc[h].op /\ r.pc = "wrongLeader"
      BY <1>1 DEF Handler
    <3>2. rpc' = [rpc EXCEPT ![h] = Return(h, r)]
      BY <2>1
    <3> HIDE DEF r
    <3>3. /\ RpcKept /\ \A g \in Calls \ {h} : rpc'[g] = rpc[g]
          /\ rpc'[h].pc = "ok" => r.pc = "ok"
      BY <1>1, <3>1, <3>2, ReturnKept
    <3> QED
      BY <3>1, <3>3
  <2>2. CASE rpc' = [rpc EXCEPT ![h].pc = "started", ![h].index = Len(rlog[rpc[h].srv]) + 1]
    BY <1>1, <2>2 DEF RpcKept, Handler
  <2>3. CASE rpc' = [rpc EXCEPT ![h].pc = "waiting"]
    BY <1>1, <2>3 DEF RpcKept, Handler
  <2> QED
    BY <1>1, <2>1, <2>2, <2>3 DEF Start, Register, Timeout
<1>4. Answers'
  <2>1. CASE UNCHANGED indexChan
    BY <1>2, <2>1, AnswersKept DEF Delivered, Grows
  <2>2. CASE /\ rpc[h].srv \in Servers
             /\ indexChan' = [indexChan EXCEPT ![rpc[h].srv] =
                                Put(indexChan[rpc[h].srv], rpc[h].index, Empty)]
    BY <1>2, <2>2, AnswersPut DEF Delivered
  <2>3. rpc[h].srv \in Servers /\ DOMAIN indexChan = Servers
    BY <1>1 DEF IndInv, RpcShape, TypeOK
  <2>4. CASE Register(h)
    <3>1. CASE rpc[h].index \in DOMAIN indexChan[rpc[h].srv]
      <4>1. indexChan' = [indexChan EXCEPT ![rpc[h].srv] = indexChan[rpc[h].srv]]
        BY <2>3, <2>4, <3>1 DEF Register
      <4>2. \A s \in Servers : indexChan'[s] = indexChan[s]
        BY <2>3, <4>1
      <4> QED
        BY <1>2, <4>2 DEF Delivered, Answers
    <3>2. CASE rpc[h].index \notin DOMAIN indexChan[rpc[h].srv]
      <4>1. indexChan' = [indexChan EXCEPT ![rpc[h].srv] =
                            Put(indexChan[rpc[h].srv], rpc[h].index, Empty)]
        BY <2>3, <2>4, <3>2 DEF Register
      <4> QED
        BY <2>2, <2>3, <4>1
    <3> QED
      BY <3>1, <3>2
  <2> QED
    BY <2>1, <2>4 DEF Start, Timeout, serverVars
<1>5. OkCommitted'
  BY <1>2, <1>3, OkKept DEF Delivered, Grows
<1> QED
  BY <1>2, <1>3, <1>4, <1>5, DeliveredKept DEF NoReturn

\* A handler answers OK when the Op it receives, a committed one, matches its
\* own (server.go:57-60).
LEMMA DeliveredReceive ==
  ASSUME IndInv, Delivered, NEW h \in Calls, Receive(h)
  PROVE  Delivered'
<1> DEFINE s == rpc[h].srv
           i == rpc[h].index
           m == indexChan[s][i]
           q == IF isOpMatched(rpc[h].op, m.op) THEN "ok" ELSE "wrongLeader"
           r == [rpc[h] EXCEPT !.pc = q, !.reply = m.reply]
<1>1. /\ rpc \in [Calls -> Handler] /\ rpc[h] \in Handler /\ rpc[h].pc = "waiting"
      /\ s \in Servers /\ i \in DOMAIN indexChan[s] /\ m \in Msg /\ m # Empty
  BY DEF IndInv, TypeOK, Receive, RpcShape, WaitersHaveChannels
<1>2. UNCHANGED <<committed, clerk>> /\ indexChan' = [indexChan EXCEPT ![s] = Put(indexChan[s], i, Empty)]
  BY <1>1 DEF Receive, raftVars, IndInv, TypeOK
<1>3. PICK j \in DOMAIN committed : committed[j].op = m.op /\ m.op \in Op
  BY <1>1 DEF Delivered, Answers, Msg
<1>4. r.op = rpc[h].op /\ r.pc = q
  BY <1>1 DEF Handler
<1>5. rpc' = [rpc EXCEPT ![h] = Return(h, r)]
  BY <1>1 DEF Receive
<1> HIDE DEF r, m, i, s
<1>6. /\ RpcKept /\ \A g \in Calls \ {h} : rpc'[g] = rpc[g]
      /\ rpc'[h].pc = "ok" => r.pc = "ok"
  BY <1>1, <1>4, <1>5, ReturnKept
<1>7. OkCommitted'
  <2> SUFFICES ASSUME NEW g \in Calls, rpc'[g].pc = "ok"
               PROVE  \E k \in DOMAIN committed : /\ committed[k].op \in Op
                                                  /\ isOpMatched(rpc'[g].op, committed[k].op)
    BY <1>2 DEF OkCommitted
  <2>1. CASE g # h
    BY <1>6, <2>1 DEF Delivered, OkCommitted
  <2>2. CASE g = h
    <3>1. isOpMatched(rpc[h].op, m.op) /\ rpc'[h].op = rpc[h].op
      BY <1>4, <1>6, <2>2 DEF RpcKept
    <3> QED
      BY <1>3, <2>2, <3>1
  <2> QED
    BY <2>1, <2>2
<1>8. Answers'
  BY <1>1, <1>2, AnswersPut DEF Delivered
<1> QED
  BY <1>2, <1>6, <1>7, <1>8, DeliveredKept DEF NoReturn

\* Raft commits an Op when its clerk is at it or past it, so that what the clerk
\* did before is in the log already.
LEMMA DeliveredRaft ==
  ASSUME IndInv, OrderInv, Delivered, NEW s \in Servers, RaftNext(s)
  PROVE  Delivered' /\ Grows
<1>1. UNCHANGED <<indexChan, rpc, clerk>>
  BY DEF RaftNext, Elect, Commit, Replicate, serverVars
<1>2. RpcKept /\ NoReturn
  BY <1>1 DEF RpcKept, NoReturn
<1>3. CASE UNCHANGED committed
  BY <1>1, <1>2, <1>3, AnswersKept, OkKept, DeliveredKept DEF Delivered, Grows
<1>4. CASE Commit(s)
  <2> DEFINE n == Len(committed)
             e == rlog[s][n + 1]
  <2>1. committed \in Seq(Entry) /\ rlog[s] \in Seq(Entry)
    BY DEF IndInv, TypeOK
  <2>2. n + 1 \in DOMAIN rlog[s] /\ committed' = Append(committed, e)
    BY <1>4 DEF Commit
  <2>3. e \in Entry
    BY <2>1, <2>2
  <2> HIDE DEF e
  <2>4. /\ n \in Nat /\ DOMAIN committed = 1 .. n /\ DOMAIN committed' = 1 .. (n + 1)
        /\ committed'[n + 1] = e
        /\ \A j \in 1 .. n : committed'[j] = committed[j]
    BY <2>1, <2>2, <2>3
  <2> HIDE DEF n
  <2>5. Grows
    BY <2>4 DEF Grows
  <2>6. ASSUME e.op \in Op, NEW k \in 1 .. (e.op.seq - 1)
        PROVE  \E j \in DOMAIN committed : Carries(j, e.op.client, k)
    <3>1. Issued(e.op)
      BY <2>2 DEF Issued, e
    <3>2. e.op.seq <= clerk[e.op.client].seq /\ e.op.client \in Clerks /\ e.op.seq \in Nat
      BY <2>6, <3>1 DEF OrderInv, Stamped, AllTraced, Traced, Op
    <3>3. clerk[e.op.client].seq \in Nat
      BY <3>2 DEF IndInv, TypeOK, Clerk
    <3>4. k \in 1 .. (clerk[e.op.client].seq - 1)
      BY <3>2, <3>3
    <3> QED
      BY <3>2, <3>4 DEF Delivered, AckedCommitted
  <2>7. OneByOne'
    <3> SUFFICES ASSUME NEW i \in DOMAIN committed', committed'[i].op \in Op,
                        NEW k \in 1 .. (committed'[i].op.seq - 1)
                 PROVE  \E j \in DOMAIN committed' :
                          /\ j < i /\ committed'[j].op \in Op
                          /\ committed'[j].op.client = committed'[i].op.client
                          /\ committed'[j].op.seq = k
      BY DEF OneByOne, Carries
    <3>1. CASE i = n + 1
      <4>1. PICK j \in 1 .. n : Carries(j, e.op.client, k)
        BY <2>4, <2>6, <3>1
      <4>2. committed'[j] = committed[j] /\ j < i /\ j \in 1 .. (n + 1)
        BY <2>4, <3>1
      <4> QED
        BY <2>4, <3>1, <4>1, <4>2 DEF Carries
    <3>2. CASE i # n + 1
      <4>1. i \in 1 .. n /\ committed'[i] = committed[i]
        BY <2>4, <3>2
      <4>2. PICK j \in 1 .. n : j < i /\ Carries(j, committed[i].op.client, k)
        BY <2>4, <4>1 DEF Delivered, OneByOne
      <4>3. committed'[j] = committed[j] /\ j \in 1 .. (n + 1)
        BY <2>4
      <4> QED
        BY <2>4, <4>1, <4>2, <4>3 DEF Carries
    <3> QED
      BY <3>1, <3>2
  <2> QED
    BY <1>1, <1>2, <2>5, <2>7, HeardKept, AckedKept, AnswersKept, OkKept DEF Delivered
<1> QED
  BY <1>3, <1>4 DEF RaftNext, Elect, Replicate, Grows

\* The applier puts the committed Op into the channel of its index.
LEMMA DeliveredApply ==
  ASSUME IndInv, Delivered, NEW s \in Servers, Apply(s)
  PROVE  Delivered'
<1> DEFINE i  == lastApplied[s] + 1
           op == committed[i].op
           x  == IF IsNew(s, op) /\ op.cmd = "Query" THEN ConfigNum(handled[s]) ELSE NoReply
<1>1. UNCHANGED <<committed, rpc, clerk>> /\ i \in DOMAIN committed
  BY DEF Apply, raftVars, Deliverable
<1>2. RpcKept /\ NoReturn /\ Grows
  BY <1>1 DEF RpcKept, NoReturn, Grows
<1>3. Answers'
  <2>1. CASE UNCHANGED indexChan
    BY <1>2, <2>1, AnswersKept DEF Delivered
  <2>2. CASE indexChan' = [indexChan EXCEPT ![s] = Put(@, i, [op |-> op, reply |-> x])]
    <3> DEFINE v == [op |-> op, reply |-> x]
    <3>1. \E j \in DOMAIN committed : committed[j].op = v.op
      BY <1>1
    <3>2. indexChan' = [indexChan EXCEPT ![s] = Put(indexChan[s], i, v)]
      BY <2>2 DEF IndInv, TypeOK
    <3> HIDE DEF v
    <3> QED
      BY <1>1, <3>1, <3>2, AnswersPut DEF Delivered
  <2> QED
    BY <2>1, <2>2 DEF Apply
<1>4. OkCommitted'
  BY <1>1, <1>2, OkKept DEF Delivered
<1> QED
  BY <1>1, <1>2, <1>3, <1>4, DeliveredKept

\* The handlers of a server that went down are not heard, its channels are gone.
LEMMA DeliveredRestart ==
  ASSUME IndInv, Delivered, NEW s \in Servers, Restart(s)
  PROVE  Delivered'
<1>1. /\ UNCHANGED <<committed, clerk>> /\ DOMAIN indexChan = Servers
      /\ indexChan' = [indexChan EXCEPT ![s] = <<>>]
  BY DEF Restart, NewServer, IndInv, TypeOK
<1>2. RpcKept /\ \A h \in Calls : rpc'[h].pc = "ok" => rpc[h].pc = "ok"
  <2>1. ASSUME NEW h \in Calls
        PROVE  /\ rpc'[h].pc # "free" => rpc[h].pc # "free" /\ rpc'[h].op = rpc[h].op
               /\ rpc'[h].pc = "ok" => rpc[h].pc = "ok"
    <3> DEFINE r == [rpc[h] EXCEPT !.pc = "dead"]
    <3>1. r.op = rpc[h].op /\ r.pc = "dead"
      BY DEF IndInv, TypeOK, Handler
    <3>2. rpc'[h] = rpc[h] \/ (rpc[h].pc # "free" /\ rpc'[h] = Return(h, r))
      BY DEF Restart
    <3> HIDE DEF r
    <3> QED
      BY <3>1, <3>2 DEF Return, Idle
  <2> QED
    BY <2>1 DEF RpcKept
<1>3. Answers'
  <2>1. indexChan'[s] = <<>> /\ \A f \in Servers \ {s} : indexChan'[f] = indexChan[f]
    BY <1>1
  <2> QED
    BY <1>1, <2>1 DEF Delivered, Answers
<1>4. OkCommitted'
  BY <1>1, <1>2, OkKept DEF Delivered, Grows
<1> QED
  BY <1>1, <1>2, <1>3, <1>4, DeliveredKept DEF NoReturn

-----------------------------------------------------------------------------
(* From the log to the configurations                                      *)

\* What a server has handled of a log holds of a longer one.
LEMMA ReplayedKept ==
  ASSUME IndInv, Replayed, Grows, UNCHANGED <<lastApplied, cache, handled>>,
         committed' \in Seq(Entry)
  PROVE  Replayed'
<1>1. /\ committed \in Seq(Entry) /\ DOMAIN committed = 1 .. Len(committed) /\ Len(committed) \in Nat
      /\ DOMAIN committed' = 1 .. Len(committed') /\ Len(committed') \in Nat
      /\ lastApplied \in [Servers -> Nat]
  BY DEF IndInv, TypeOK
<1>2. Len(committed) <= Len(committed')
  BY <1>1 DEF Grows
<1>3. Sourced'
  <2> SUFFICES ASSUME NEW s \in Servers
               PROVE  /\ lastApplied[s] <= Len(committed')
                      /\ \A k \in DOMAIN handled[s] : \E j \in DOMAIN committed' :
                           j <= lastApplied[s] /\ committed'[j].op = handled[s][k]
    BY DEF Sourced
  <2>1. lastApplied[s] <= Len(committed) /\ lastApplied[s] \in Nat
    BY <1>1 DEF Replayed, Sourced
  <2>2. ASSUME NEW k \in DOMAIN handled[s]
        PROVE  \E j \in DOMAIN committed' : j <= lastApplied[s] /\ committed'[j].op = handled[s][k]
    BY DEF Replayed, Sourced, Grows
  <2> QED
    BY <1>1, <1>2, <2>1, <2>2
<1>4. NoneSkipped'
  <2> SUFFICES ASSUME NEW s \in Servers, NEW j \in DOMAIN committed',
                      j <= lastApplied[s], committed'[j].op \in Op
               PROVE  Done(s, committed'[j].op.client, committed'[j].op.seq)
    BY DEF NoneSkipped, Done
  <2>1. j \in DOMAIN committed
    BY <1>1 DEF Replayed, Sourced
  <2>2. committed'[j] = committed[j]
    BY <2>1 DEF Grows
  <2> QED
    BY <2>1, <2>2 DEF Replayed, NoneSkipped
<1>5. CacheHeld'
  BY DEF Replayed, CacheHeld
<1> QED
  BY <1>3, <1>4, <1>5 DEF Replayed

\* A server that starts again has applied nothing.
LEMMA ReplayedRestart ==
  ASSUME IndInv, Replayed, NEW s \in Servers, Restart(s)
  PROVE  Replayed'
<1>1. UNCHANGED committed /\ lastApplied' = [lastApplied EXCEPT ![s] = 0]
  BY DEF Restart, NewServer
<1>2. lastApplied \in [Servers -> Nat] /\ committed \in Seq(Entry)
  BY DEF IndInv, TypeOK
<1>3. lastApplied'[s] = 0 /\ \A f \in Servers \ {s} : lastApplied'[f] = lastApplied[f]
  BY <1>1, <1>2
<1>4. /\ handled'[s] = <<>> /\ cache'[s] = [c \in Clerks |-> 0]
      /\ \A f \in Servers \ {s} : handled'[f] = handled[f] /\ cache'[f] = cache[f]
  BY RestartForgets
<1>5. Sourced'
  BY <1>1, <1>2, <1>3, <1>4 DEF Replayed, Sourced
<1>6. NoneSkipped'
  <2>1. \A j \in DOMAIN committed : j \in Nat /\ j > 0
    BY <1>2
  <2> QED
    BY <1>1, <1>3, <1>4, <2>1 DEF Replayed, NoneSkipped, Done
<1>7. CacheHeld'
  BY <1>4 DEF Replayed, CacheHeld
<1> QED
  BY <1>5, <1>6, <1>7 DEF Replayed

\* The filter drops a copy only of what was handled already: a stamp that is not
\* new is one of the same operation, or of a later one, which was committed
\* after it (server.go:149).
LEMMA OldIsDone ==
  ASSUME IndInv, OrderInv, Distinct, Delivered, Replayed, NEW s \in Servers,
         NEW i \in DOMAIN committed, committed[i].op \in Op, ~IsNew(s, committed[i].op)
  PROVE  Done(s, committed[i].op.client, committed[i].op.seq)
<1> DEFINE o == committed[i].op
<1>1. o \in Op /\ o.client \in Clerks /\ o.ts \in Nat /\ o.seq \in Nat /\ Issued(o)
  BY DEF Op, Stamps, Issued
<1>2. cache[s][o.client] \in Nat /\ cache[s][o.client] # 0 /\ o.ts <= cache[s][o.client]
  BY <1>1 DEF IsNew, IndInv, TypeOK
<1>3. PICK k \in DOMAIN handled[s] :
        handled[s][k].client = o.client /\ handled[s][k].ts = cache[s][o.client]
  BY <1>1, <1>2 DEF Replayed, CacheHeld
<1> DEFINE p == handled[s][k]
<1>4. p \in Op /\ p.seq \in Nat /\ p.ts \in Nat /\ Issued(p) /\ p.client = o.client /\ o.ts <= p.ts
  <2>1. handled[s] \in Seq(Op)
    BY DEF IndInv, TypeOK
  <2>2. p \in Op
    BY <2>1
  <2>3. Issued(p)
    BY DEF Issued
  <2> QED
    BY <1>2, <1>3, <2>2, <2>3 DEF Op, Stamps
<1>5. o.seq <= p.seq
  <2>1. CASE o.ts = p.ts
    BY <1>1, <1>4, <2>1 DEF Distinct
  <2>2. CASE o.ts < p.ts
    BY <1>1, <1>4, <2>2 DEF OrderInv, Stamped, AllInOrder, InOrder
  <2> QED
    BY <1>1, <1>4, <2>1, <2>2
<1>6. CASE o.seq = p.seq
  BY <1>3, <1>6 DEF Done
<1>7. CASE o.seq < p.seq
  <2>1. PICK j \in DOMAIN committed : j <= lastApplied[s] /\ committed[j].op = p
    BY DEF Replayed, Sourced
  <2>2. o.seq # 0
    BY <1>1 DEF OrderInv, Stamped, AllTraced, Traced
  <2>3. o.seq \in 1 .. (p.seq - 1)
    BY <1>1, <1>4, <1>7, <2>2
  <2>4. PICK l \in DOMAIN committed : l < j /\ Carries(l, p.client, o.seq)
    BY <1>4, <2>1, <2>3 DEF Delivered, OneByOne
  <2>5. l <= lastApplied[s]
    BY <2>1, <2>4 DEF IndInv, TypeOK
  <2> QED
    BY <1>4, <2>4, <2>5 DEF Replayed, NoneSkipped, Carries
<1> QED
  BY <1>1, <1>4, <1>5, <1>6, <1>7

\* After the step, a server has handled operation n of clerk c.
DoneAfter(s, c, n) ==
  \E k \in DOMAIN handled'[s] : handled'[s][k].client = c /\ handled'[s][k].seq = n

\* What the applier does to the sequence of handled Ops.
LEMMA ApplyAppends ==
  ASSUME IndInv, NEW s \in Servers, Apply(s)
  PROVE  /\ \A f \in Servers : \A k \in DOMAIN handled[f] :
              k \in DOMAIN handled'[f] /\ handled'[f][k] = handled[f][k]
         /\ \A f \in Servers : \A k \in DOMAIN handled'[f] :
              \/ k \in DOMAIN handled[f] /\ handled'[f][k] = handled[f][k]
              \/ f = s /\ handled'[f][k] = committed[lastApplied[s] + 1].op
<1>1. CASE UNCHANGED <<cache, handled>>
  BY <1>1
<1>2. CASE ~UNCHANGED <<cache, handled>>
  <2> DEFINE op == committed[lastApplied[s] + 1].op
             n  == Len(handled[s])
  <2>1. /\ n \in Nat /\ DOMAIN handled[s] = 1 .. n /\ DOMAIN handled'[s] = 1 .. (n + 1)
        /\ handled'[s][n + 1] = op
        /\ \A j \in 1 .. n : handled'[s][j] = handled[s][j] /\ handled[s][j] \in Op
        /\ \A f \in Servers \ {s} : handled'[f] = handled[f] /\ cache'[f] = cache[f]
    BY <1>2, ApplyHandles
  <2> HIDE DEF op, n
  <2>2. ASSUME NEW f \in Servers, NEW k \in DOMAIN handled[f]
        PROVE  k \in DOMAIN handled'[f] /\ handled'[f][k] = handled[f][k]
    BY <2>1
  <2>3. ASSUME NEW f \in Servers, NEW k \in DOMAIN handled'[f]
        PROVE  \/ k \in DOMAIN handled[f] /\ handled'[f][k] = handled[f][k]
               \/ f = s /\ handled'[f][k] = op
    BY <2>1
  <2> QED
    BY <2>2, <2>3 DEF op
<1> QED
  BY <1>1, <1>2

\* An entry that is applied has been handled, now or before.
LEMMA AppliedIsDone ==
  ASSUME IndInv, OrderInv, Distinct, Delivered, Replayed, NEW s \in Servers, Apply(s),
         committed[lastApplied[s] + 1].op \in Op
  PROVE  LET op == committed[lastApplied[s] + 1].op IN DoneAfter(s, op.client, op.seq)
<1> DEFINE i  == lastApplied[s] + 1
           op == committed[i].op
<1>1. i \in DOMAIN committed
  BY DEF Apply, Deliverable
<1>2. op # NoOp
  BY ConstantsAssumption DEF NoOp
<1>3. CASE IsNew(s, op)
  <2>1. handled' = [handled EXCEPT ![s] = Append(handled[s], op)]
    BY <1>2, <1>3 DEF Apply
  <2>2. handled \in [Servers -> Seq(Op)]
    BY DEF IndInv, TypeOK
  <2> HIDE DEF op
  <2>3. handled'[s] = Append(handled[s], op) /\ handled[s] \in Seq(Op)
    BY <2>1, <2>2
  <2>4. /\ Len(handled[s]) + 1 \in DOMAIN handled'[s]
        /\ handled'[s][Len(handled[s]) + 1] = op
    BY <2>3
  <2> QED
    BY <2>4 DEF DoneAfter, op
<1>4. CASE ~IsNew(s, op)
  <2>1. Done(s, op.client, op.seq)
    BY <1>1, <1>4, OldIsDone
  <2> HIDE DEF op
  <2>2. PICK k \in DOMAIN handled[s] : handled[s][k].client = op.client /\ handled[s][k].seq = op.seq
    BY <2>1 DEF Done
  <2>3. k \in DOMAIN handled'[s] /\ handled'[s][k] = handled[s][k]
    BY ApplyAppends
  <2> QED
    BY <2>2, <2>3 DEF DoneAfter, op
<1> QED
  BY <1>3, <1>4

\* The applier goes one entry further, and has handled its operation.
LEMMA ReplayedApply ==
  ASSUME IndInv, OrderInv, Distinct, Delivered, Replayed, NEW s \in Servers, Apply(s)
  PROVE  Replayed'
<1> DEFINE i  == lastApplied[s] + 1
<1>1. /\ committed \in Seq(Entry) /\ lastApplied \in [Servers -> Nat]
      /\ DOMAIN committed = 1 .. Len(committed) /\ Len(committed) \in Nat
  BY DEF IndInv, TypeOK
<1>2. /\ i \in DOMAIN committed /\ UNCHANGED committed
      /\ lastApplied' = [lastApplied EXCEPT ![s] = i]
  BY DEF Apply, Deliverable, raftVars
<1>3. /\ lastApplied'[s] = i /\ lastApplied[s] \in Nat /\ i \in Nat /\ i <= Len(committed)
      /\ i = lastApplied[s] + 1
      /\ \A f \in Servers \ {s} : lastApplied'[f] = lastApplied[f]
      /\ \A f \in Servers : lastApplied[f] \in Nat /\ lastApplied[f] <= lastApplied'[f]
      /\ \A j \in DOMAIN committed : j \in Nat
  BY <1>1, <1>2
<1>4. ASSUME NEW f \in Servers, NEW k \in DOMAIN handled'[f]
      PROVE  \E j \in DOMAIN committed : j <= lastApplied'[f] /\ committed[j].op = handled'[f][k]
  <2>1. CASE k \in DOMAIN handled[f] /\ handled'[f][k] = handled[f][k]
    <3>1. PICK j \in DOMAIN committed : j <= lastApplied[f] /\ committed[j].op = handled[f][k]
      BY <2>1 DEF Replayed, Sourced
    <3>2. j <= lastApplied'[f]
      BY <1>1, <1>3, <3>1
    <3> QED
      BY <2>1, <3>1, <3>2
  <2>2. CASE f = s /\ handled'[f][k] = committed[i].op
    BY <1>2, <1>3, <2>2
  <2> QED
    BY <2>1, <2>2, ApplyAppends
<1>5. Sourced'
  <2>1. \A f \in Servers : lastApplied'[f] <= Len(committed)
    BY <1>3 DEF Replayed, Sourced
  <2> QED
    BY <1>2, <1>4, <2>1 DEF Sourced
<1>6. ASSUME NEW f \in Servers, NEW j \in DOMAIN committed,
             j <= lastApplied'[f], committed[j].op \in Op
      PROVE  DoneAfter(f, committed[j].op.client, committed[j].op.seq)
  <2>1. CASE j <= lastApplied[f]
    <3>1. PICK k \in DOMAIN handled[f] : /\ handled[f][k].client = committed[j].op.client
                                         /\ handled[f][k].seq = committed[j].op.seq
      BY <1>6, <2>1 DEF Replayed, NoneSkipped, Done
    <3>2. k \in DOMAIN handled'[f] /\ handled'[f][k] = handled[f][k]
      BY ApplyAppends
    <3> QED
      BY <3>1, <3>2 DEF DoneAfter
  <2>2. CASE ~(j <= lastApplied[f])
    <3>1. f = s /\ j = i
      BY <1>1, <1>3, <1>6, <2>2
    <3> QED
      BY <1>6, <3>1, AppliedIsDone
  <2> QED
    BY <2>1, <2>2
<1>7. NoneSkipped'
  BY <1>2, <1>6 DEF NoneSkipped, Done, DoneAfter
<1>8. CacheHeld'
  <2>1. CASE UNCHANGED <<cache, handled>>
    BY <2>1 DEF Replayed, CacheHeld
  <2>2. CASE ~UNCHANGED <<cache, handled>>
    <3> DEFINE op == committed[lastApplied[s] + 1].op
               n  == Len(handled[s])
    <3>1. /\ n \in Nat /\ DOMAIN handled'[s] = 1 .. (n + 1) /\ handled'[s][n + 1] = op
          /\ \A f \in Servers \ {s} : handled'[f] = handled[f] /\ cache'[f] = cache[f]
      BY <2>2, ApplyHandles
    <3>2. /\ cache'[s][op.client] = op.ts
          /\ \A c \in Clerks \ {op.client} : cache'[s][c] = cache[s][c]
      BY <2>2, ApplyHandles
    <3> HIDE DEF op, n
    <3>3. ASSUME NEW f \in Servers, NEW c \in Clerks, cache'[f][c] # 0
          PROVE  \E k \in DOMAIN handled'[f] :
                   handled'[f][k].client = c /\ handled'[f][k].ts = cache'[f][c]
      <4>1. CASE f = s /\ c = op.client
        BY <3>1, <3>2, <4>1
      <4>2. CASE ~(f = s /\ c = op.client)
        <5>1. cache'[f][c] = cache[f][c]
          BY <3>1, <3>2, <4>2
        <5>2. PICK k \in DOMAIN handled[f] :
                handled[f][k].client = c /\ handled[f][k].ts = cache[f][c]
          BY <3>3, <5>1 DEF Replayed, CacheHeld
        <5>3. k \in DOMAIN handled'[f] /\ handled'[f][k] = handled[f][k]
          BY ApplyAppends
        <5> QED
          BY <5>1, <5>2, <5>3
      <4> QED
        BY <4>1, <4>2
    <3> QED
      BY <3>3 DEF CacheHeld
  <2> QED
    BY <2>1, <2>2
<1> QED
  BY <1>5, <1>7, <1>8 DEF Replayed

-----------------------------------------------------------------------------

\* Every step but those of Raft leaves the committed log, and every step but
\* applying and restarting leaves what is made of it.
LEMMA AckedStep ==
  ASSUME ClockSteps \subseteq Nat \ {0}, IndInv, IndInv', OrderInv, AckedInv, [Next]_vars
  PROVE  AckedInv'
<1> USE DEF AckedInv
<1>1. committed \in Seq(Entry) /\ committed' \in Seq(Entry)
  BY DEF IndInv, TypeOK
<1>2. ASSUME UNCHANGED <<committed, lastApplied, cache, handled>> PROVE Replayed'
  BY <1>1, <1>2, ReplayedKept DEF Grows
<1>3. ASSUME NEW c \in Clerks, Query(c) \/ Join(c) \/ Leave(c) \/ Move(c) PROVE AckedInv'
  <2>1. UNCHANGED <<committed, lastApplied, cache, handled>>
    BY <1>3 DEF Query, Join, Leave, Move, Send, raftVars, serverVars
  <2> QED
    BY <1>2, <1>3, <2>1, DistinctSend, DeliveredSend
<1>4. ASSUME NEW c \in Clerks, CallReturns(c) \/ NetworkNext(c) PROVE AckedInv'
  <2>1. UNCHANGED <<committed, lastApplied, cache, handled>>
    BY <1>4 DEF CallReturns, NetworkNext, RequestLost, ReplyLost, ServerDead, raftVars, serverVars
  <2>2. Distinct'
    BY <1>4, ClerkMoves, DistinctKept DEF NetworkNext
  <2>3. Delivered'
    BY <1>4, DeliveredOk, DeliveredFailed DEF NetworkNext
  <2> QED
    BY <1>2, <2>1, <2>2, <2>3
<1>5. ASSUME NEW h \in Calls, HandlerNext(h) PROVE AckedInv'
  <2>1. UNCHANGED <<committed, lastApplied, cache, handled>>
    BY <1>5 DEF HandlerNext, Start, Register, Receive, Timeout, raftVars, serverVars
  <2>2. Distinct'
    BY <1>5, StartMoves, WaitMoves, DistinctKept DEF HandlerNext
  <2>3. Delivered'
    BY <1>5, DeliveredWait, DeliveredReceive DEF HandlerNext
  <2> QED
    BY <1>2, <2>1, <2>2, <2>3
<1>6. ASSUME NEW s \in Servers, RaftNext(s) PROVE AckedInv'
  <2>1. UNCHANGED <<lastApplied, cache, handled>>
    BY <1>6 DEF RaftNext, Elect, Commit, Replicate, serverVars
  <2>2. Distinct'
    BY <1>6, RaftMoves, DistinctKept
  <2>3. Delivered' /\ Grows
    BY <1>6, DeliveredRaft
  <2> QED
    BY <1>1, <2>1, <2>2, <2>3, ReplayedKept
<1>7. ASSUME NEW s \in Servers, Apply(s) PROVE AckedInv'
  BY <1>7, ApplyMoves, DistinctKept, DeliveredApply, ReplayedApply
<1>8. ASSUME NEW s \in Servers, Restart(s) PROVE AckedInv'
  BY <1>8, RestartForgets, DistinctKept, DeliveredRestart, ReplayedRestart
<1>9. CASE UNCHANGED vars
  <2>1. UNCHANGED <<rlog, committed, indexChan, lastApplied, cache, handled, rpc, clerk>>
    BY <1>9 DEF vars, raftVars, serverVars
  <2>2. Distinct'
    BY <2>1, Moved, DistinctKept DEF Issued, ClerksKept
  <2>3. Delivered'
    BY <2>1, AnswersKept, OkKept, DeliveredKept DEF Delivered, RpcKept, NoReturn, Grows
  <2> QED
    BY <1>2, <2>1, <2>2, <2>3
<1> QED
  BY <1>3, <1>4, <1>5, <1>6, <1>7, <1>8, <1>9 DEF Next, ClerkNext

\* Log, channels, handlers and clerks keep what they say of each other.
THEOREM AckedInvariance ==
  ASSUME ClockSteps \subseteq Nat \ {0}
  PROVE  Spec => [](IndInv /\ OrderInv /\ AckedInv)
<1>1. Init => AckedInv
  <2> SUFFICES ASSUME Init PROVE AckedInv
    OBVIOUS
  <2>1. ASSUME NEW o \in Op PROVE ~Issued(o)
    <3>1. o # Nil
      BY ConstantsAssumption
    <3> QED
      BY <3>1 DEF Init, Issued, Idle
  <2>2. Distinct
    BY <2>1 DEF Distinct
  <2>3. Heard /\ OkCommitted
    BY DEF Init, Idle, Heard, OkCommitted
  <2>4. Answers /\ AckedCommitted /\ OneByOne
    BY DEF Init, MakeClerk, Answers, AckedCommitted, OneByOne
  <2>5. Replayed
    BY DEF Init, Replayed, Sourced, NoneSkipped, CacheHeld
  <2> QED
    BY <2>2, <2>3, <2>4, <2>5 DEF AckedInv, Delivered
<1>2. IndInv /\ IndInv' /\ OrderInv /\ AckedInv /\ [Next]_vars => AckedInv'
  BY AckedStep
<1>3. ClockSteps \subseteq Nat
  OBVIOUS
<1>4. Spec => [](IndInv /\ OrderInv)
  BY <1>3, OrderInvariance
<1> QED
  BY <1>1, <1>2, <1>4, PTL DEF Spec

\* An operation whose method has returned is in the log, and the applier has let
\* a copy of it through (server.go:149, client.go:48, 67, 88, 108).
THEOREM AckedIsDone ==
  ASSUME ClockSteps \subseteq Nat \ {0}
  PROVE  Spec => []AckedIsHandled
<1>1. IndInv /\ AckedInv => AckedIsHandled
  <2> SUFFICES ASSUME IndInv, AckedInv, NEW c \in Clerks, NEW s \in Servers,
                      lastApplied[s] = Len(committed), NEW n \in 1 .. (clerk[c].seq - 1)
               PROVE  Done(s, c, n)
    BY DEF AckedIsHandled, Done
  <2>1. PICK j \in DOMAIN committed : Carries(j, c, n)
    BY DEF AckedInv, Delivered, AckedCommitted
  <2>2. j <= lastApplied[s]
    BY DEF IndInv, TypeOK
  <2> QED
    BY <2>1, <2>2 DEF Carries, AckedInv, Replayed, NoneSkipped
<1> QED
  BY <1>1, AckedInvariance, PTL
====
