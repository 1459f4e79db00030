------------------------ MODULE ShardCtrlerServiceProofs ------------------------
(***************************************************************************)
(* The replicated shard controller is one service, for any number of       *)
(* servers and clerks, any scripts and any value of the bounds: clerks see *)
(* the actions of ConfigService, and a Query sees what was acknowledged    *)
(* before it began.  Both need a clock that advances between two readings. *)
(***************************************************************************)
EXTENDS ShardCtrlerReplayProofs

\* Zenon is quicker on most steps; what needs arithmetic is left to the solver.
USE ZenonT(10), SMTT(20)

-----------------------------------------------------------------------------
(* The invariant of the service                                            *)

\* Clerks listen to their latest RPC.
LEMMA HeardLatestStep ==
  ASSUME ClockSteps \subseteq Nat, IndInv, HeardLatest, [Next]_vars
  PROVE  HeardLatest'
<1>1. CASE ~Sends
  <2>1. ASSUME NEW c \in Clerks PROVE clerk'[c] = clerk[c] \/ clerk'[c].call = 0
    BY <1>1, ClerksStep, ClerkFieldsMore DEF ClerkStep
  <2>2. ASSUME NEW h \in Calls, rpc'[h].pc # "free", clerk'[h[1]].call = h[2]
        PROVE  rpc'[h].op.ts = clerk'[h[1]].ts
    <3>1. h[1] \in Clerks /\ h[2] # 0
      BY DEF Calls
    <3>2. clerk'[h[1]] = clerk[h[1]]
      BY <2>1, <2>2, <3>1
    <3>3. rpc[h].pc # "free" /\ rpc'[h].op = rpc[h].op
      BY <1>1, <2>2, HandlersStep DEF HandlerStep
    <3> QED
      BY <2>2, <3>2, <3>3 DEF HeardLatest, Listening
  <2> QED
    BY <2>1, <2>2 DEF HeardLatest, Listening
<1>2. ASSUME NEW c \in Clerks, Query(c) \/ Join(c) \/ Leave(c) \/ Move(c) PROVE HeardLatest'
  <2>1. PICK t \in Stamps : ~Finished(c) /\ Send(c, t)
    BY <1>2, SendStamp
  <2> DEFINE op == [cmd |-> Current(c), client |-> c, seq |-> clerk[c].seq, ts |-> t]
  <2>2. op.ts = t
    OBVIOUS
  <2>3. /\ clerk'[c].ts = t /\ clerk'[c].seq = clerk[c].seq /\ clerk'[c].phase = "retry"
        /\ \A d \in Clerks \ {c} : clerk'[d] = clerk[d]
    BY <2>1, SendClerk
  <2>4. \A h \in Calls : \/ rpc'[h] = rpc[h] /\ (h[1] = c => h[2] # clerk'[c].call)
                         \/ h = <<c, clerk'[c].call>> /\ rpc'[h].pc = "sent" /\ rpc'[h].op = op
    BY <2>1, SendMakes
  <2> HIDE DEF op
  <2>5. ASSUME NEW h \in Calls, rpc'[h].pc # "free", clerk'[h[1]].call = h[2]
        PROVE  rpc'[h].op.ts = clerk'[h[1]].ts
    <3>1. CASE rpc'[h] = rpc[h] /\ (h[1] = c => h[2] # clerk'[c].call)
      <4>1. h[1] \in Clerks \ {c}
        BY <2>5, <3>1 DEF Calls
      <4> QED
        BY <2>3, <2>5, <3>1, <4>1 DEF HeardLatest, Listening
    <3>2. CASE h = <<c, clerk'[c].call>> /\ rpc'[h].op = op
      BY <2>2, <2>3, <3>2
    <3> QED
      BY <2>4, <3>1, <3>2
  <2>6. ASSUME NEW d \in Clerks, clerk'[d].call # 0 PROVE clerk'[d].phase = "retry"
    BY <2>3, <2>6 DEF HeardLatest
  <2> QED
    BY <2>5, <2>6 DEF HeardLatest, Listening
<1> QED
  BY <1>1, <1>2 DEF Sends

\* Clerks send what their script says.
LEMMA ScriptedStep ==
  ASSUME ClockSteps \subseteq Nat, IndInv, Scripted, [Next]_vars
  PROVE  Scripted'
<1>1. CASE NoneMade
  BY <1>1 DEF NoneMade, Scripted
<1>2. ASSUME NEW c \in Clerks, Query(c) \/ Join(c) \/ Leave(c) \/ Move(c) PROVE Scripted'
  <2>1. PICK t \in Stamps : ~Finished(c) /\ Send(c, t)
    BY <1>2, SendStamp
  <2> DEFINE op == [cmd |-> Current(c), client |-> c, seq |-> clerk[c].seq, ts |-> t]
  <2>2. op.client = c /\ op.seq = clerk[c].seq
    OBVIOUS
  <2>3. \A o \in Op : Issued(o)' => Issued(o) \/ o = op
    BY <2>1, SendMakes
  <2> HIDE DEF op
  <2>4. clerk[c].seq <= Len(Script[c])
    <3>1. Script[c] \in Seq(Commands) /\ clerk[c].seq \in Nat
      BY ConstantsAssumption DEF IndInv, TypeOK, Clerk
    <3> QED
      BY <2>1, <3>1 DEF Finished
  <2> QED
    BY <2>2, <2>3, <2>4 DEF Scripted
<1> QED
  BY <1>1, <1>2, StepMoves

\* When a method returns, its last Op is committed, or one with its stamp.
LEMMA AckedTopStep ==
  ASSUME ClockSteps \subseteq Nat, IndInv, IndInv', OrderInv, Delivered, HeardLatest, AckedTop,
         [Next]_vars
  PROVE  AckedTop'
<1>1. ASSUME NEW o \in Op, Issued(o)', o.seq < clerk'[o.client].seq
      PROVE  \E j \in DOMAIN committed : From(j, o.client) /\ o.ts <= committed[j].op.ts
  <2> DEFINE c == o.client
  <2>1. c \in Clerks /\ o.seq \in Nat /\ o.ts \in Nat /\ clerk[c] \in Clerk
    BY DEF Op, Stamps, IndInv, TypeOK
  <2>2. CASE Issued(o) /\ o.seq < clerk[c].seq
    BY <2>2 DEF AckedTop
  <2>3. CASE Sends
    <3>1. PICK d \in Clerks : Query(d) \/ Join(d) \/ Leave(d) \/ Move(d)
      BY <2>3 DEF Sends
    <3>2. PICK t \in Stamps : ~Finished(d) /\ Send(d, t)
      BY <3>1, SendStamp
    <3> DEFINE op == [cmd |-> Current(d), client |-> d, seq |-> clerk[d].seq, ts |-> t]
    <3>3. op.client = d /\ op.seq = clerk[d].seq
      OBVIOUS
    <3>4. /\ clerk'[d].ts = t /\ clerk'[d].seq = clerk[d].seq /\ clerk'[d].phase = "retry"
          /\ \A e \in Clerks \ {d} : clerk'[e] = clerk[e]
      BY <3>2, SendClerk
    <3>5. \A x \in Op : Issued(x)' => Issued(x) \/ x = op
      BY <3>2, SendMakes
    <3> HIDE DEF op
    <3>6. clerk'[c].seq = clerk[c].seq
      BY <2>1, <3>4
    <3> QED
      BY <1>1, <2>1, <2>2, <3>3, <3>5, <3>6 DEF Clerk
  <2>4. CASE ~Sends
    <3>1. NoneMade
      BY <2>4, StepMoves DEF Sends
    <3>2. Issued(o)
      BY <1>1, <3>1 DEF NoneMade
    <3>3. CASE ~(o.seq < clerk[c].seq)
      <4>1. clerk'[c] = NextOperation(c) /\ Told(c) /\ o.seq = clerk[c].seq
        <5>1. ClerkStep(c)
          BY <2>1, <2>4, ClerksStep
        <5>2. NextServer(c).seq = clerk[c].seq /\ NextOperation(c).seq = clerk[c].seq + 1
          BY <2>1, ClerkFields
        <5>3. clerk[c].seq \in Nat
          BY <2>1 DEF Clerk
        <5> QED
          BY <1>1, <2>1, <3>3, <5>1, <5>2, <5>3 DEF ClerkStep
      <4> DEFINE h == RPC(c)
      <4>2. h \in Calls /\ h[1] = c /\ h[2] = clerk[c].call
        <5>1. clerk[c].call \in 1 .. MaxCalls
          <6>1. clerk[c].call # 0
            BY <4>1 DEF Told, CallReturns
          <6>2. clerk[c].call \in Nat /\ clerk[c].call <= MaxCalls
            BY <2>1 DEF IndInv, TypeOK, Clerk
          <6> QED
            BY <6>1, <6>2, ConstantsAssumption
        <5> QED
          BY <2>1, <5>1 DEF RPC, Calls
      <4>3. rpc[h].pc = "ok"
        BY <4>1 DEF Told
      <4>4. rpc[h].op \in Op /\ rpc[h].op.client = c /\ rpc[h].op.ts = clerk[c].ts
        BY <4>2, <4>3, HandlerShaped DEF Delivered, Heard, HeardLatest, Listening
      <4>5. PICK j \in DOMAIN committed :
              committed[j].op \in Op /\ isOpMatched(rpc[h].op, committed[j].op)
        BY <4>2, <4>3 DEF Delivered, OkCommitted
      <4>6. committed[j].op.client = c /\ committed[j].op.ts = clerk[c].ts
        BY <4>4, <4>5 DEF isOpMatched
      <4>7. o.ts <= clerk[c].ts
        BY <3>2 DEF OrderInv, Stamped, AllTraced, Traced
      <4>8. committed[j].op # NoOp
        BY <4>5, ConstantsAssumption DEF NoOp
      <4> QED
        BY <4>6, <4>7, <4>8 DEF From
    <3> QED
      BY <2>2, <3>2, <3>3
  <2> QED
    BY <2>3, <2>4
<1>2. ASSUME NEW o \in Op, Issued(o)', o.seq < clerk'[o.client].seq
      PROVE  \E j \in DOMAIN committed' : From(j, o.client)' /\ o.ts <= committed'[j].op.ts
  <2>1. PICK j \in DOMAIN committed : From(j, o.client) /\ o.ts <= committed[j].op.ts
    BY <1>1, <1>2
  <2>2. j \in DOMAIN committed' /\ committed'[j] = committed[j]
    BY CommittedGrows DEF Grows
  <2> QED
    BY <2>1, <2>2 DEF From
<1> QED
  BY <1>2 DEF AckedTop

\* After the step, number r is what the Query of client c with stamp t found.
FoundLater(r, c, t) ==
  \E k \in DOMAIN Effected' :
    /\ Effected'[k].client = c /\ Effected'[k].ts = t /\ Effected'[k].cmd = "Query"
    /\ r = ChangesBefore(Effected', k)

\* Numbers come from handleQuery, and are passed on.
LEMMA RepliesStep ==
  ASSUME ClockSteps \subseteq Nat, IndInv, IndInv', ReplayInv, Replies, [Next]_vars
  PROVE  Replies'
<1>1. ChannelReplies'
  <2> SUFFICES ASSUME NEW s \in Servers, NEW i \in DOMAIN indexChan'[s],
                      indexChan'[s][i] # Empty, indexChan'[s][i].reply # NoReply
               PROVE  Found(indexChan[s][i].reply, indexChan[s][i].op.client, indexChan[s][i].op.ts)'
    BY DEF ChannelReplies
  <2>1. ChannelStep(s, i)
    BY ChannelsStep
  <2>2. CASE i \in DOMAIN indexChan[s] /\ indexChan'[s][i] = indexChan[s][i]
    <3> DEFINE m == indexChan[s][i]
    <3>1. Found(m.reply, m.op.client, m.op.ts)
      BY <2>2 DEF Replies, ChannelReplies
    <3>2. FoundLater(m.reply, m.op.client, m.op.ts)
      BY <3>1, FoundKept DEF FoundLater, Found
    <3> QED
      BY <2>2, <3>2 DEF FoundLater, Found
  <2>3. CASE ~(i \in DOMAIN indexChan[s] /\ indexChan'[s][i] = indexChan[s][i])
    <3> DEFINE o == committed[lastApplied[s] + 1].op
               x == IF IsNew(s, o) /\ o.cmd = "Query" THEN ConfigNum(handled[s]) ELSE NoReply
    <3>1. Deliverable(s) /\ o # NoOp /\ indexChan'[s][i] = [op |-> o, reply |-> x]
      BY <2>1, <2>3 DEF ChannelStep
    <3>2. indexChan'[s][i].op = o /\ indexChan'[s][i].reply = x
      BY <3>1
    <3>3. IsNew(s, o) /\ o.cmd = "Query" /\ x = ConfigNum(handled[s])
      BY <3>2
    <3>4. Found(x, o.client, o.ts)
      BY <3>1, <3>3, QueryFinds
    <3>5. FoundLater(x, o.client, o.ts)
      BY <3>4, FoundKept DEF FoundLater, Found
    <3> HIDE DEF o, x
    <3> QED
      BY <3>2, <3>5 DEF FoundLater, Found
  <2> QED
    BY <2>2, <2>3
<1>2. OkReplies'
  <2> SUFFICES ASSUME NEW h \in Calls, rpc'[h].pc = "ok", rpc'[h].reply # NoReply
               PROVE  Found(rpc[h].reply, rpc[h].op.client, rpc[h].op.ts)'
    BY DEF OkReplies
  <2>1. rpc'[h] = rpc[h] \/ (Matched(h) /\ rpc'[h].op = rpc[h].op)
    <3>1. CASE ~Sends
      BY <3>1, HandlersStep DEF HandlerStep
    <3>2. CASE Sends
      <4>1. PICK c \in Clerks : Query(c) \/ Join(c) \/ Leave(c) \/ Move(c)
        BY <3>2 DEF Sends
      <4>2. PICK t \in Stamps : ~Finished(c) /\ Send(c, t)
        BY <4>1, SendStamp
      <4> DEFINE op == [cmd |-> Current(c), client |-> c, seq |-> clerk[c].seq, ts |-> t]
      <4>3. \A g \in Calls : \/ rpc'[g] = rpc[g] /\ (g[1] = c => g[2] # clerk'[c].call)
                             \/ g = <<c, clerk'[c].call>> /\ rpc'[g].pc = "sent" /\ rpc'[g].op = op
        BY <4>2, SendMakes
      <4> QED
        BY <4>3
    <3> QED
      BY <3>1, <3>2
  <2>2. CASE rpc'[h] = rpc[h]
    <3>1. Found(rpc[h].reply, rpc[h].op.client, rpc[h].op.ts)
      BY <2>2 DEF Replies, OkReplies
    <3>2. FoundLater(rpc[h].reply, rpc[h].op.client, rpc[h].op.ts)
      BY <3>1, FoundKept DEF FoundLater, Found
    <3> QED
      BY <2>2, <3>2 DEF FoundLater, Found
  <2>3. CASE Matched(h) /\ rpc'[h].op = rpc[h].op
    <3> DEFINE m == indexChan[rpc[h].srv][rpc[h].index]
    <3>1. /\ rpc[h].srv \in Servers /\ rpc[h].index \in DOMAIN indexChan[rpc[h].srv] /\ m # Empty
      BY <2>3, HandlerShaped DEF Matched, Receive, IndInv, WaitersHaveChannels
    <3>2. m.op.client = rpc[h].op.client /\ m.op.ts = rpc[h].op.ts /\ rpc'[h].reply = m.reply
      BY <2>3 DEF Matched, isOpMatched
    <3>3. Found(m.reply, m.op.client, m.op.ts)
      BY <3>1, <3>2 DEF Replies, ChannelReplies
    <3> HIDE DEF m
    <3>4. FoundLater(m.reply, m.op.client, m.op.ts)
      BY <3>3, FoundKept DEF FoundLater, Found
    <3> QED
      BY <2>3, <3>2, <3>4 DEF FoundLater, Found
  <2> QED
    BY <2>1, <2>2, <2>3
<1> QED
  BY <1>1, <1>2 DEF Replies

\* The floor is set when an operation begins, from what took effect by then.
LEMMA FloorBelowStep ==
  ASSUME ClockSteps \subseteq Nat, IndInv, IndInv', OrderInv, Distinct, OneByOne, AckedCommitted,
         FloorBelow, [Next]_vars
  PROVE  FloorBelow'
<1>1. /\ Effected \in Seq(Op) /\ Effected' \in Seq(Op) /\ Continues(Effected', Effected)
      /\ Len(Effected) \in Nat /\ Len(Effected') \in Nat
  BY EffectedGrows
<1>2. /\ ConfigNum(Effected) \in Nat /\ ConfigNum(Effected') \in Nat
      /\ \A k \in Nat : ChangesBefore(Effected, k) \in Nat /\ ChangesBefore(Effected', k) \in Nat
  <2>1. \A k \in Nat : ChangesBefore(Effected, k) \in Nat
    BY <1>1, Counted
  <2>2. \A k \in Nat : ChangesBefore(Effected', k) \in Nat
    BY <1>1, Counted
  <2>3. ConfigNum(Effected) = ChangesBefore(Effected, Len(Effected) + 1)
    BY <1>1, CountedAll
  <2>4. ConfigNum(Effected') = ChangesBefore(Effected', Len(Effected') + 1)
    BY <1>1, CountedAll
  <2>5. Len(Effected) + 1 \in Nat /\ Len(Effected') + 1 \in Nat
    BY <1>1
  <2>6. ConfigNum(Effected) \in Nat
    BY <2>1, <2>3, <2>5
  <2>7. ConfigNum(Effected') \in Nat
    BY <2>2, <2>4, <2>5
  <2> QED
    BY <2>1, <2>2, <2>6, <2>7
<1>3. \A k \in 1 .. (Len(Effected) + 1) : ChangesBefore(Effected', k) = ChangesBefore(Effected, k)
  BY <1>1, CountedKept
<1>4. \A k \in Nat : k > Len(Effected) => ConfigNum(Effected) <= ChangesBefore(Effected', k)
  BY <1>1, CountedKept
<1>5. ConfigNum(Effected) <= ConfigNum(Effected')
  BY <1>1, CountedKept
<1>6. ASSUME NEW c \in Clerks, clerk[c].phase = "retry", clerk'[c].seq = clerk[c].seq,
             clerk'[c].floor = clerk[c].floor
      PROVE  /\ clerk'[c].floor <= ConfigNum(Effected')
             /\ \A k \in DOMAIN Effected' :
                  Effected'[k].client = c /\ Effected'[k].seq = clerk'[c].seq
                    => clerk'[c].floor <= ChangesBefore(Effected', k)
  <2>1. clerk[c].floor \in Nat /\ clerk[c].floor <= ConfigNum(Effected)
    BY <1>6 DEF FloorBelow, IndInv, TypeOK, Clerk
  <2>2. ASSUME NEW k \in DOMAIN Effected', Effected'[k].client = c, Effected'[k].seq = clerk[c].seq
        PROVE  clerk[c].floor <= ChangesBefore(Effected', k)
    <3>0. k \in Nat /\ k >= 1
      BY <1>1
    <3>1. k \in Nat /\ k >= 1 /\ ChangesBefore(Effected', k) \in Nat
      BY <1>2, <3>0
    <3>2. CASE k <= Len(Effected)
      <4>1. k \in DOMAIN Effected /\ Effected'[k] = Effected[k] /\ k \in 1 .. (Len(Effected) + 1)
        BY <1>1, <3>1, <3>2 DEF Continues
      <4>2. clerk[c].floor <= ChangesBefore(Effected, k)
        BY <1>6, <2>2, <4>1 DEF FloorBelow
      <4> QED
        BY <1>3, <4>1, <4>2
    <3>3. CASE k > Len(Effected)
      <4>1. ConfigNum(Effected) <= ChangesBefore(Effected', k)
        BY <1>4, <3>1, <3>3
      <4>2. ConfigNum(Effected) \in Nat
        BY <1>2
      <4> QED
        BY <2>1, <3>1, <4>1, <4>2
    <3> QED
      BY <1>1, <3>1, <3>2, <3>3
  <2> QED
    BY <1>2, <1>5, <1>6, <2>1, <2>2
<1>7. CASE ~Sends
  <2>1. ASSUME NEW c \in Clerks, clerk'[c].phase = "retry"
        PROVE  /\ clerk[c].phase = "retry" /\ clerk'[c].seq = clerk[c].seq
               /\ clerk'[c].floor = clerk[c].floor
    BY <1>7, <2>1, ClerksStep, ClerkFields, ClerkFieldsMore DEF ClerkStep
  <2> QED
    BY <1>6, <2>1 DEF FloorBelow
<1>8. ASSUME NEW c \in Clerks, Query(c) \/ Join(c) \/ Leave(c) \/ Move(c) PROVE FloorBelow'
  <2>1. PICK t \in Stamps : Send(c, t)
    BY <1>8, SendStamp
  <2>2. PICK k \in 1 .. MaxCalls :
          clerk' = [clerk EXCEPT ![c].call = k, ![c].ts = t, ![c].phase = "retry",
                      ![c].floor = IF clerk[c].phase = "new" THEN AckedChanges ELSE @]
    BY <2>1 DEF Send
  <2>3. clerk \in [Clerks -> Clerk] /\ clerk[c].phase \in {"new", "retry"}
    BY DEF IndInv, TypeOK, Clerk
  <2>4. \A d \in Clerks \ {c} : clerk'[d] = clerk[d]
    BY <2>2, <2>3
  <2>5. /\ clerk'[c].seq = clerk[c].seq
        /\ clerk[c].phase # "new" => clerk'[c].floor = clerk[c].floor
        /\ clerk[c].phase = "new" => clerk'[c].floor = AckedChanges
    BY <2>2, <2>3 DEF Clerk
  <2>6. Effected' = Effected
    BY <2>1 DEF Send, raftVars, Effected
  <2>7. CASE clerk[c].phase = "new"
    <3>1. clerk'[c].floor <= ConfigNum(Effected')
      BY <2>5, <2>6, <2>7, AckedBelow
    <3>2. ASSUME NEW j \in DOMAIN Effected', Effected'[j].client = c PROVE Effected'[j].seq # clerk'[c].seq
      <4>1. Effected[j] \in Op /\ Issued(Effected[j]) /\ Effected[j].client = c
        BY <2>6, <3>2, EffectedCommitted
      <4>2. Effected[j].seq < clerk[c].seq /\ clerk[c].seq \in Nat /\ Effected[j].seq \in Nat
        BY <2>3, <2>7, <4>1 DEF OrderInv, Stamped, AllTraced, Traced, Clerk, Op
      <4> QED
        BY <2>5, <2>6, <4>2
    <3>3. ASSUME NEW d \in Clerks, clerk'[d].phase = "retry"
          PROVE  /\ clerk'[d].floor <= ConfigNum(Effected')
                 /\ \A j \in DOMAIN Effected' :
                      Effected'[j].client = d /\ Effected'[j].seq = clerk'[d].seq
                        => clerk'[d].floor <= ChangesBefore(Effected', j)
      <4>1. CASE d = c
        BY <3>1, <3>2, <4>1
      <4>2. CASE d # c
        BY <1>6, <2>4, <3>3, <4>2
      <4> QED
        BY <4>1, <4>2
    <3> QED
      BY <3>3 DEF FloorBelow
  <2>8. CASE clerk[c].phase = "retry"
    <3>1. ASSUME NEW d \in Clerks, clerk'[d].phase = "retry"
          PROVE  /\ clerk[d].phase = "retry" /\ clerk'[d].seq = clerk[d].seq
                 /\ clerk'[d].floor = clerk[d].floor
      BY <2>4, <2>5, <2>8, <3>1
    <3> QED
      BY <1>6, <3>1 DEF FloorBelow
  <2> QED
    BY <2>3, <2>7, <2>8
<1> QED
  BY <1>7, <1>8 DEF Sends

\* All of it holds in every state.
THEOREM ServiceInvariance ==
  ASSUME ClockSteps \subseteq Nat \ {0}
  PROVE  Spec => [](IndInv /\ OrderInv /\ AckedInv /\ ReplayInv /\ ServiceInv)
<1>0. ClockSteps \subseteq Nat
  OBVIOUS
<1>1. ASSUME Init PROVE ServiceInv
  <2>1. ASSUME NEW o \in Op PROVE ~Issued(o)
    <3>1. o # Nil
      BY ConstantsAssumption
    <3> QED
      BY <1>1, <3>1 DEF Init, Issued, Idle
  <2>2. HeardLatest
    BY <1>1 DEF Init, Idle, MakeClerk, HeardLatest
  <2>3. Scripted /\ AckedTop
    BY <2>1 DEF Scripted, AckedTop
  <2>4. Replies
    BY <1>1 DEF Init, Idle, Replies, ChannelReplies, OkReplies
  <2>5. FloorBelow
    BY <1>1 DEF Init, MakeClerk, FloorBelow
  <2> QED
    BY <2>2, <2>3, <2>4, <2>5 DEF ServiceInv
<1>2. ASSUME IndInv, IndInv', OrderInv, AckedInv, ReplayInv, ServiceInv, [Next]_vars
      PROVE  ServiceInv'
  <2>1. /\ Distinct /\ Delivered /\ OneByOne /\ AckedCommitted
        /\ HeardLatest /\ Scripted /\ AckedTop /\ Replies /\ FloorBelow
    BY <1>2 DEF AckedInv, Delivered, ServiceInv
  <2>2. HeardLatest'
    BY <1>0, <1>2, <2>1, HeardLatestStep
  <2>3. Scripted'
    BY <1>0, <1>2, <2>1, ScriptedStep
  <2>4. AckedTop'
    BY <1>0, <1>2, <2>1, AckedTopStep
  <2>5. Replies'
    BY <1>0, <1>2, <2>1, RepliesStep
  <2>6. FloorBelow'
    BY <1>0, <1>2, <2>1, FloorBelowStep
  <2> QED
    BY <2>2, <2>3, <2>4, <2>5, <2>6 DEF ServiceInv
<1>3. Spec => [](IndInv /\ OrderInv /\ AckedInv)
  BY AckedInvariance
<1>4. Spec => [](IndInv /\ ReplayInv)
  BY ReplayInvariance
<1> QED
  BY <1>1, <1>2, <1>3, <1>4, PTL DEF Spec

\* A Query that is answered with a configuration is answered with one that
\* reflects every change acknowledged before it was called (server.go:124-176).
THEOREM QuerySeesAcked ==
  ASSUME ClockSteps \subseteq Nat \ {0}
  PROVE  Spec => []QueryReflectsAcked
<1>1. ASSUME IndInv, Distinct, Heard, HeardLatest, OkReplies, FloorBelow PROVE QueryReflectsAcked
  <2> SUFFICES ASSUME NEW c \in Clerks, clerk[c].call # 0, rpc[RPC(c)].pc = "ok",
                      rpc[RPC(c)].reply # NoReply
               PROVE  rpc[RPC(c)].reply >= clerk[c].floor
    BY DEF QueryReflectsAcked
  <2> DEFINE h == RPC(c)
  <2>1. h \in Calls /\ h[1] = c /\ h[2] = clerk[c].call /\ clerk[c] \in Clerk
    <3>1. clerk[c] \in Clerk /\ clerk[c].call <= MaxCalls
      BY <1>1 DEF IndInv, TypeOK
    <3>2. clerk[c].call \in 1 .. MaxCalls
      BY <3>1, ConstantsAssumption DEF Clerk
    <3> QED
      BY <3>1, <3>2 DEF RPC, Calls
  <2>2. rpc[h].op.client = c /\ rpc[h].op.ts = clerk[c].ts /\ clerk[c].phase = "retry"
    BY <1>1, <2>1 DEF Heard, HeardLatest, Listening
  <2>3. PICK k \in DOMAIN Effected :
          /\ Effected[k].client = rpc[h].op.client /\ Effected[k].ts = rpc[h].op.ts
          /\ rpc[h].reply = ChangesBefore(Effected, k)
    BY <1>1, <2>1 DEF OkReplies, Found
  <2>4. Effected \in Seq(Op) /\ Effected[k] \in Op /\ Issued(Effected[k]) /\ k \in Nat
    BY <1>1, EffectedCommitted
  <2>5. Effected[k].seq = clerk[c].seq
    BY <1>1, <2>2, <2>3, <2>4 DEF Distinct
  <2>6. clerk[c].floor <= ChangesBefore(Effected, k)
    BY <1>1, <2>2, <2>3, <2>5 DEF FloorBelow
  <2>7. clerk[c].floor \in Nat /\ ChangesBefore(Effected, k) \in Nat
    BY <2>1, <2>4, Counted DEF Clerk
  <2> QED
    BY <2>3, <2>6, <2>7
<1>2. IndInv /\ OrderInv /\ AckedInv /\ ReplayInv /\ ServiceInv => QueryReflectsAcked
  BY <1>1 DEF AckedInv, Delivered, ServiceInv, Replies
<1> QED
  BY <1>2, ServiceInvariance, PTL

-----------------------------------------------------------------------------
(* The controller implements ConfigService                                 *)

\* The history is what took effect, without the stamps.
LEMMA HistoryAt ==
  ASSUME IndInv
  PROVE  /\ DOMAIN History = DOMAIN Effected
         /\ \A k \in DOMAIN Effected :
              /\ History[k] = Unstamped(Effected[k])
              /\ Service!NumAt(k) = ChangesBefore(Effected, k)
<1>1. DOMAIN History = DOMAIN Effected /\ \A k \in DOMAIN Effected : History[k] = Unstamped(Effected[k])
  BY DEF History, Effected
<1>2. Effected \in Seq(Op)
  BY EffectedCommitted
<1>3. ASSUME NEW k \in DOMAIN Effected PROVE Service!NumAt(k) = ChangesBefore(Effected, k)
  <2>1. \A j \in 1 .. (k - 1) : j \in DOMAIN Effected
    BY <1>2
  <2>2. \A j \in 1 .. (k - 1) : History[j].cmd = Effected[j].cmd
    BY <1>1, <2>1 DEF Unstamped
  <2> DEFINE S == {j \in 1 .. (k - 1) : History[j].cmd # "Query"}
             T == {j \in 1 .. (k - 1) : Effected[j].cmd # "Query"}
  <2>3. S = T
    BY <2>2
  <2>4. Service!NumAt(k) = Cardinality(S)
    <3>1. Service!Cardinality(S) = Cardinality(S)
      BY DEF Service!Cardinality, Cardinality
    <3> QED
      BY <3>1 DEF Service!NumAt
  <2>5. ChangesBefore(Effected, k) = Cardinality(T)
    BY DEF ChangesBefore
  <2> HIDE DEF S, T
  <2> QED
    BY <2>3, <2>4, <2>5
<1> QED
  BY <1>1, <1>3

\* The RPC a clerk waits for.
LEMMA RpcCall ==
  ASSUME IndInv, NEW c \in Clerks, clerk[c].call # 0
  PROVE  /\ RPC(c) \in Calls /\ RPC(c)[1] = c /\ RPC(c)[2] = clerk[c].call
         /\ RPC(c) = <<c, clerk[c].call>>
<1>1. clerk[c].call \in Nat /\ clerk[c].call <= MaxCalls /\ MaxCalls \in Nat
  BY ConstantsAssumption DEF IndInv, TypeOK, Clerk
<1>2. clerk[c].call \in 1 .. MaxCalls
  BY <1>1
<1> QED
  BY <1>2 DEF RPC, Calls

\* Answers that stay or are lost, and nothing else.
LEMMA NoNews ==
  ASSUME SeqOf' = SeqOf, History' = History,
         \A c \in Clerks : AnswerOf'[c] = AnswerOf[c] \/ AnswerOf'[c] = Unanswered
  PROVE  Service!ServiceNext
<1> DEFINE cs == {c \in Clerks : AnswerOf'[c] = Unanswered}
<1>1. AnswerOf' = [c \in Clerks |-> AnswerOf'[c]]
  BY DEF AnswerOf
<1>2. \A c \in Clerks : AnswerOf'[c] = IF c \in cs THEN Unanswered ELSE AnswerOf[c]
  OBVIOUS
<1>3. AnswerOf' = [c \in Clerks |-> IF c \in cs THEN Unanswered ELSE AnswerOf[c]]
  BY <1>1, <1>2
<1>4. Service!Lose(cs)
  BY <1>3 DEF Service!Lose
<1> QED
  BY <1>4 DEF Service!ServiceNext

\* An operation that took effect, and the clerk that is in it.
LEMMA TookIt ==
  ASSUME IndInv, OrderInv, Scripted, NEW c \in Clerks, NEW k \in DOMAIN Effected,
         Effected[k].client = c, Effected[k].seq = clerk[c].seq
  PROVE  /\ Service!Active(c) /\ History[k] = Service!Operation(c)
         /\ Effected[k].cmd = Service!Operation(c).cmd
<1>1. Effected[k] \in Op /\ Issued(Effected[k])
  BY EffectedCommitted
<1>2. Effected[k].cmd = Script[c][clerk[c].seq] /\ clerk[c].seq <= Len(Script[c])
  BY <1>1 DEF OrderInv, Stamped, AllTraced, Traced, Scripted
<1>3. SeqOf[c] = clerk[c].seq
  BY DEF SeqOf
<1>4. History[k] = Unstamped(Effected[k])
  BY HistoryAt
<1> QED
  BY <1>2, <1>3, <1>4 DEF Service!Active, Service!Operation, Unstamped

\* A clerk's method returns.
LEMMA ToldFinishes ==
  ASSUME IndInv, NEW c \in Clerks, Told(c)
  PROVE  Service!Finish(c)
<1> DEFINE h == RPC(c)
<1>1. /\ clerk \in [Clerks -> Clerk] /\ rpc \in [Calls -> Handler] /\ clerk[c].call # 0
      /\ rpc[h].pc = "ok" /\ h = <<c, clerk[c].call>> /\ h \in Calls
      /\ clerk' = [clerk EXCEPT ![c] = NextOperation(c)] /\ rpc' = [rpc EXCEPT ![h] = Idle]
      /\ committed' = committed
  BY RpcCall DEF Told, CallReturns, IndInv, TypeOK, raftVars
<1>2. NextOperation(c).seq = clerk[c].seq + 1 /\ NextOperation(c).call = 0
  BY ClerkFields, ClerkFieldsMore
<1>3. SeqOf' = [SeqOf EXCEPT ![c] = @ + 1]
  BY <1>1, <1>2 DEF SeqOf
<1>4. AnswerOf[c] = rpc[h].reply /\ rpc[h].reply # Unanswered
  <2>1. rpc[h].reply \in Nat \cup {NoReply}
    BY <1>1 DEF Handler
  <2> QED
    BY <1>1, <2>1 DEF AnswerOf, NoReply, Unanswered
<1>5. AnswerOf' = [AnswerOf EXCEPT ![c] = Unanswered]
  <2>1. clerk'[c].call = 0
    BY <1>1, <1>2
  <2>2. ASSUME NEW d \in Clerks, d # c PROVE AnswerOf'[d] = AnswerOf[d]
    <3>1. clerk'[d] = clerk[d]
      BY <1>1, <2>2
    <3>2. clerk[d].call # 0 => RPC(d) \in Calls \ {h}
      BY <1>1, <2>2, RpcCall
    <3>3. RPC(d)' = RPC(d)
      BY <3>1 DEF RPC
    <3>4. clerk[d].call # 0 => rpc'[RPC(d)] = rpc[RPC(d)]
      BY <1>1, <3>2
    <3> QED
      BY <3>1, <3>3, <3>4 DEF AnswerOf
  <2>3. AnswerOf'[c] = Unanswered
    BY <2>1 DEF AnswerOf
  <2>4. AnswerOf = [d \in Clerks |-> AnswerOf[d]] /\ AnswerOf' = [d \in Clerks |-> AnswerOf'[d]]
    BY DEF AnswerOf
  <2> QED
    BY <2>2, <2>3, <2>4
<1>6. History' = History
  BY <1>1 DEF History
<1>7. AnswerOf[c] # Unanswered
  BY <1>4
<1> QED
  BY <1>3, <1>5, <1>6, <1>7 DEF Service!Finish

\* No clerk hears anything, and nothing is committed.
LEMMA QuietStep ==
  ASSUME IndInv, [Next]_vars, ~Sends, committed' = committed, \A c \in Clerks : ~Told(c),
         \A c \in Clerks : clerk[c].call # 0 => ~Matched(RPC(c))
  PROVE  Service!ServiceNext
<1>1. \A c \in Clerks : clerk'[c] = clerk[c] \/ (clerk'[c].seq = clerk[c].seq /\ clerk'[c].call = 0)
  BY ClerksStep, ClerkFields, ClerkFieldsMore DEF ClerkStep
<1>2. SeqOf' = SeqOf
  BY <1>1 DEF SeqOf
<1>3. History' = History
  BY DEF History
<1>4. ASSUME NEW c \in Clerks PROVE AnswerOf'[c] = AnswerOf[c] \/ AnswerOf'[c] = Unanswered
  <2>1. CASE clerk'[c].call = 0
    BY <2>1 DEF AnswerOf
  <2>2. CASE clerk'[c] = clerk[c] /\ clerk[c].call # 0
    <3>1. RPC(c)' = RPC(c) /\ RPC(c) \in Calls
      BY <2>2, RpcCall DEF RPC
    <3>2. rpc'[RPC(c)].pc = "ok" => rpc'[RPC(c)] = rpc[RPC(c)]
      BY <2>2, <3>1, HandlersStep DEF HandlerStep
    <3> QED
      BY <2>2, <3>1, <3>2 DEF AnswerOf
  <2> QED
    BY <1>1, <2>1, <2>2
<1> QED
  BY <1>2, <1>3, <1>4, NoNews

\* A clerk sends an RPC: it has no answer yet.
LEMMA SendLoses ==
  ASSUME ClockSteps \subseteq Nat, IndInv, NEW c \in Clerks,
         Query(c) \/ Join(c) \/ Leave(c) \/ Move(c)
  PROVE  Service!ServiceNext
<1>1. PICK t \in Stamps : ~Finished(c) /\ Send(c, t)
  BY SendStamp
<1> DEFINE op == [cmd |-> Current(c), client |-> c, seq |-> clerk[c].seq, ts |-> t]
<1>2. /\ clerk'[c].seq = clerk[c].seq
      /\ \A d \in Clerks \ {c} : clerk'[d] = clerk[d]
  BY <1>1, SendClerk
<1>3. \A h \in Calls : \/ rpc'[h] = rpc[h] /\ (h[1] = c => h[2] # clerk'[c].call)
                       \/ h = <<c, clerk'[c].call>> /\ rpc'[h].pc = "sent" /\ rpc'[h].op = op
  BY <1>1, SendMakes
<1> HIDE DEF op
<1>4. SeqOf' = SeqOf
  BY <1>2 DEF SeqOf
<1>5. History' = History
  BY <1>1 DEF History, Send, raftVars
<1>6. AnswerOf'[c] = Unanswered
  <2>1. clerk'[c].call \in 1 .. MaxCalls
    BY <1>1 DEF Send, IndInv, TypeOK, Clerk
  <2>2. RPC(c)' \in Calls /\ RPC(c)'[1] = c /\ RPC(c)'[2] = clerk'[c].call
    BY <2>1 DEF RPC, Calls
  <2> QED
    BY <1>3, <2>2 DEF AnswerOf
<1>7. ASSUME NEW d \in Clerks, d # c PROVE AnswerOf'[d] = AnswerOf[d]
  <2>1. clerk'[d] = clerk[d] /\ RPC(d)' = RPC(d)
    BY <1>2, <1>7 DEF RPC
  <2>2. clerk[d].call # 0 => RPC(d) \in Calls /\ RPC(d)[1] = d
    BY RpcCall
  <2>3. clerk[d].call # 0 => rpc'[RPC(d)] = rpc[RPC(d)]
    BY <1>3, <1>7, <2>2
  <2> QED
    BY <2>1, <2>3 DEF AnswerOf
<1> QED
  BY <1>4, <1>5, <1>6, <1>7, NoNews

\* A handler takes from its channel what the clerk that listens to it waits for.
LEMMA MatchAnswers ==
  ASSUME IndInv, OrderInv, AckedInv, ServiceInv, NEW c \in Clerks, clerk[c].call # 0, Matched(RPC(c))
  PROVE  Service!Answer(c)
<1> DEFINE h == RPC(c)
           m == indexChan[rpc[h].srv][rpc[h].index]
<1>1. /\ clerk \in [Clerks -> Clerk] /\ rpc \in [Calls -> Handler]
      /\ h \in Calls /\ h[1] = c /\ h[2] = clerk[c].call /\ h = <<c, clerk[c].call>>
  BY RpcCall DEF IndInv, TypeOK
<1>2. /\ rpc[h].pc = "waiting" /\ m # Empty /\ isOpMatched(rpc[h].op, m.op)
      /\ clerk' = clerk /\ committed' = committed
      /\ rpc' = [rpc EXCEPT ![h] = Return(h, [@ EXCEPT !.pc = "ok", !.reply = m.reply])]
  BY DEF Matched, Receive, raftVars
<1>3. rpc[h].srv \in Servers /\ rpc[h].index \in DOMAIN indexChan[rpc[h].srv]
  BY <1>1, <1>2, HandlerShaped DEF IndInv, WaitersHaveChannels
<1> HIDE DEF m
<1>4. /\ rpc'[h].pc = "ok" /\ rpc'[h].reply = m.reply
      /\ \A g \in Calls \ {h} : rpc'[g] = rpc[g]
  <2>1. Listening(h)
    BY <1>1 DEF Listening
  <2>2. rpc' = [rpc EXCEPT ![h] = [@ EXCEPT !.pc = "ok", !.reply = m.reply]]
    BY <1>2, <2>1 DEF Return
  <2> QED
    BY <1>1, <2>2 DEF Handler
<1>5. AnswerOf' = [AnswerOf EXCEPT ![c] = m.reply]
  <2>1. AnswerOf'[c] = m.reply
    <3>1. RPC(c)' = h /\ clerk'[c].call # 0
      BY <1>2 DEF RPC
    <3> QED
      BY <1>4, <3>1 DEF AnswerOf
  <2>2. ASSUME NEW d \in Clerks, d # c PROVE AnswerOf'[d] = AnswerOf[d]
    <3>1. clerk'[d] = clerk[d] /\ RPC(d)' = RPC(d)
      BY <1>2 DEF RPC
    <3>2. clerk[d].call # 0 => RPC(d) \in Calls \ {h}
      BY <1>1, <2>2, RpcCall
    <3> QED
      BY <1>4, <3>1, <3>2 DEF AnswerOf
  <2>3. AnswerOf = [d \in Clerks |-> AnswerOf[d]] /\ AnswerOf' = [d \in Clerks |-> AnswerOf'[d]]
    BY DEF AnswerOf
  <2> QED
    BY <2>1, <2>2, <2>3
<1>6. History' = History /\ SeqOf' = SeqOf
  BY <1>2 DEF History, SeqOf
<1>7. AnswerOf[c] = Unanswered
  BY <1>2 DEF AnswerOf
<1>8. m.op.client = c /\ m.op.ts = clerk[c].ts /\ clerk[c].phase = "retry"
  <2>1. rpc[h].op.client = c /\ rpc[h].op.ts = clerk[c].ts /\ clerk[c].phase = "retry"
    BY <1>1, <1>2 DEF AckedInv, Delivered, Heard, ServiceInv, HeardLatest, Listening
  <2> QED
    BY <1>2, <2>1 DEF isOpMatched
<1>9. PICK k \in DOMAIN Effected : Effected[k].client = c /\ Effected[k].seq = clerk[c].seq
  <2>1. PICK j \in DOMAIN committed : committed[j].op = m.op
    BY <1>2, <1>3 DEF AckedInv, Delivered, Answers, m
  <2>2. m.op \in Op
    <3>1. m \in Msg \cup {Empty}
      BY <1>3 DEF IndInv, TypeOK, m
    <3> QED
      BY <1>2, <3>1 DEF Msg
  <2>3. Issued(m.op)
    BY <2>1 DEF Issued
  <2>4. m.op.seq = clerk[c].seq /\ clerk[c].seq \in Nat
    BY <1>1, <1>8, <2>2, <2>3 DEF AckedInv, Distinct, Clerk
  <2>5. Carries(j, c, clerk[c].seq)
    BY <1>8, <2>1, <2>2, <2>4 DEF Carries
  <2> QED
    BY <2>4, <2>5, CommittedTook DEF AckedInv, Delivered
<1>10. Service!Active(c) /\ History[k] = Service!Operation(c) /\ k \in DOMAIN History
  BY <1>9, TookIt, HistoryAt DEF ServiceInv
<1>11. m.reply \in Service!Answers(c)
  <2>1. CASE m.reply = NoReply
    BY <2>1 DEF Service!Answers
  <2>2. CASE m.reply # NoReply
    <3>1. Found(m.reply, m.op.client, m.op.ts)
      BY <1>2, <1>3, <2>2 DEF ServiceInv, Replies, ChannelReplies, m
    <3>2. PICK n \in DOMAIN Effected :
            /\ Effected[n].client = c /\ Effected[n].ts = clerk[c].ts /\ Effected[n].cmd = "Query"
            /\ m.reply = ChangesBefore(Effected, n)
      BY <1>8, <3>1 DEF Found
    <3>3. Effected[n] \in Op /\ Issued(Effected[n])
      BY EffectedCommitted
    <3>4. Effected[n].seq = clerk[c].seq
      BY <1>8, <3>2, <3>3 DEF AckedInv, Distinct
    <3>5. History[n] = Service!Operation(c) /\ Service!Operation(c).cmd = "Query" /\ n \in DOMAIN History
      BY <3>2, <3>4, TookIt, HistoryAt DEF ServiceInv
    <3>6. m.reply = Service!NumAt(n)
      BY <3>2, HistoryAt
    <3> QED
      BY <3>5, <3>6 DEF Service!Answers
  <2> QED
    BY <2>1, <2>2
<1>12. Service!TookEffect(Service!Operation(c))
  BY <1>10 DEF Service!TookEffect
<1> QED
  BY <1>5, <1>6, <1>7, <1>10, <1>11, <1>12 DEF Service!Answer

\* The newest entry takes effect, or nothing changes.
LEMMA CommitEffects ==
  ASSUME IndInv, OrderInv, ServiceInv, NEW s \in Servers, Commit(s)
  PROVE  Service!ServiceNext
<1> DEFINE e == rlog[s][Len(committed) + 1]
           n == Len(committed)
           o == e.op
           c == o.client
<1>1. /\ committed' = Append(committed, e) /\ committed \in Seq(Entry) /\ e \in Entry /\ n \in Nat
      /\ rpc' = rpc /\ clerk' = clerk /\ n + 1 \in DOMAIN rlog[s]
  BY DEF Commit, IndInv, TypeOK
<1>2. SeqOf' = SeqOf /\ AnswerOf' = AnswerOf
  BY <1>1 DEF SeqOf, AnswerOf, RPC
<1>3. \E i \in DOMAIN rlog[s] : rlog[s][i].op = o
  BY <1>1
<1> HIDE DEF e
<1>4. CASE ~TakesEffect(Append(committed, e), n + 1)
  <2>1. Effective(committed') = Effective(committed)
    BY <1>1, <1>4, EffectiveAppend
  <2>2. History' = History
    BY <2>1 DEF History
  <2> QED
    BY <1>2, <2>2, NoNews
<1>5. CASE TakesEffect(Append(committed, e), n + 1)
  <2>1. /\ Append(committed, e)[n + 1] = e
        /\ \A j \in 1 .. ((n + 1) - 1) : Append(committed, e)[j] = committed[j]
    BY <1>1
  <2>2. /\ o # NoOp
        /\ \A j \in 1 .. ((n + 1) - 1) :
             committed[j].op # NoOp /\ committed[j].op.client = c => committed[j].op.ts < o.ts
    BY <1>5, <2>1 DEF TakesEffect
  <2>3. \A j \in DOMAIN committed : From(j, c) => committed[j].op.ts < o.ts
    BY <1>1, <2>2 DEF From
  <2>4. o \in Op /\ Issued(o) /\ c \in Clerks /\ o.ts \in Nat
    <3>1. o \in Op
      BY <1>1, <2>2 DEF Entry
    <3> QED
      BY <1>3, <3>1 DEF Issued, Op, Stamps
  <2>5. Traced(o) /\ o.seq \in Nat /\ clerk[c].seq \in Nat /\ clerk[c] \in Clerk
    BY <2>4 DEF OrderInv, Stamped, AllTraced, Op, IndInv, TypeOK, Clerk
  <2>6. ~(o.seq < clerk[c].seq)
    <3>1. SUFFICES ASSUME o.seq < clerk[c].seq PROVE FALSE
      OBVIOUS
    <3>2. PICK j \in DOMAIN committed : From(j, c) /\ o.ts <= committed[j].op.ts
      BY <2>4, <3>1 DEF ServiceInv, AckedTop
    <3>3. committed[j].op.ts \in Nat /\ committed[j].op.ts < o.ts
      <4>1. committed[j] \in Entry /\ committed[j].op # NoOp
        BY <1>1, <3>2 DEF From
      <4>2. committed[j].op \in Op
        BY <4>1 DEF Entry
      <4> QED
        BY <2>3, <3>2, <4>2 DEF Op, Stamps
    <3> QED
      BY <2>4, <3>2, <3>3
  <2>7. /\ o.seq = clerk[c].seq /\ o.cmd = Script[c][clerk[c].seq]
        /\ clerk[c].seq <= Len(Script[c])
    <3>1. o.seq = clerk[c].seq
      BY <2>5, <2>6 DEF Traced
    <3> QED
      BY <2>4, <2>5, <3>1 DEF Traced, ServiceInv, Scripted
  <2>8. SeqOf[c] = clerk[c].seq
    BY <2>4 DEF SeqOf
  <2>9. Service!Active(c) /\ Service!Operation(c) = Unstamped(o) /\ Service!Operation(c).cmd = o.cmd
    BY <2>7, <2>8 DEF Service!Active, Service!Operation, Unstamped
  <2>10. Effected' = Append(Effected, o) /\ Effected \in Seq(Op)
    BY <1>1, <1>5, EffectiveAppend, EffectedCommitted DEF Effected
  <2>11. History' = Append(History, Service!Operation(c))
    <3>1. History = [k \in 1 .. Len(Effected) |-> Unstamped(Effected[k])]
      BY <2>10 DEF History, Effected
    <3>2. History' = [k \in DOMAIN Effected' |-> Unstamped(Effected'[k])]
      BY DEF History, Effected
    <3>3. DOMAIN Effected' = 1 .. (Len(Effected) + 1) /\ Len(Effected) \in Nat
      BY <2>4, <2>10
    <3>4. ASSUME NEW k \in 1 .. (Len(Effected) + 1)
          PROVE  Effected'[k] = IF k <= Len(Effected) THEN Effected[k] ELSE o
      BY <2>4, <2>10, <3>3
    <3> DEFINE U == [client : Clerks, seq : Nat, cmd : Commands]
    <3>5. \A k \in 1 .. Len(Effected) : Unstamped(Effected[k]) \in U
      <4>1. \A k \in 1 .. Len(Effected) : Effected[k] \in Op
        BY <2>10
      <4>2. \A p \in Op : Unstamped(p) \in U
        BY DEF Unstamped, Op
      <4> HIDE DEF U
      <4> QED
        BY <4>1, <4>2
    <3> HIDE DEF U
    <3>6. History \in Seq(U) /\ Len(History) = Len(Effected)
      BY <3>1, <3>3, <3>5
    <3>7. Append(History, Unstamped(o)) =
            [k \in 1 .. (Len(History) + 1) |-> IF k <= Len(History) THEN History[k] ELSE Unstamped(o)]
      BY <3>6
    <3>8. \A k \in 1 .. (Len(Effected) + 1) :
            Unstamped(Effected'[k]) = IF k <= Len(Effected) THEN History[k] ELSE Unstamped(o)
      BY <3>1, <3>3, <3>4
    <3> QED
      BY <2>9, <3>2, <3>3, <3>6, <3>7, <3>8
  <2>12. ASSUME o.cmd \in {"Move", "Query"}, Service!TookEffect(Service!Operation(c)) PROVE FALSE
    <3>1. PICK k \in DOMAIN Effected : Unstamped(Effected[k]) = Unstamped(o)
      BY <2>9, <2>12, HistoryAt DEF Service!TookEffect
    <3>2. Effected[k].client = c /\ Effected[k].seq = o.seq /\ Effected[k].cmd = o.cmd
      BY <3>1 DEF Unstamped
    <3>3. /\ Effected[k] \in Op /\ Issued(Effected[k])
          /\ \E i \in Effects(committed) : Effected[k] = committed[i].op
      BY EffectedCommitted
    <3>4. Effected[k].ts = o.ts
      BY <2>4, <2>12, <3>2, <3>3 DEF OrderInv, Stamped, AllInOrder, InOrder, FixedStamp
    <3>5. PICK i \in Effects(committed) : Effected[k] = committed[i].op
      BY <3>3
    <3>6. i \in DOMAIN committed /\ From(i, c)
      BY <3>2, <3>5 DEF Effects, TakesEffect, From
    <3> QED
      BY <2>3, <2>4, <3>4, <3>5, <3>6
  <2>13. Service!Effect(c)
    BY <1>2, <2>9, <2>11, <2>12 DEF Service!Effect
  <2> QED
    BY <2>4, <2>13 DEF Service!ServiceNext
<1> QED
  BY <1>4, <1>5

\* Replicas, retries, lost messages, elections and restarts together behave
\* like one sequence of operations (server.go:40-65, 134-176; client.go:37-110).
THEOREM ControllerImplementsService ==
  ASSUME ClockSteps \subseteq Nat \ {0}
  PROVE  Spec => ImplementsService
<1>1. Init => Service!ServiceInit
  <2> SUFFICES ASSUME Init PROVE Service!ServiceInit
    OBVIOUS
  <2>1. committed = <<>>
    BY DEF Init
  <2>2. Effective(committed) = <<>>
    <3>1. committed \in Seq(Entry) /\ Len(committed) = 0
      BY <2>1
    <3> DEFINE p == SubSeq(committed, 1, 0)
    <3>2. p \in Seq(Entry) /\ Len(p) = 0
      BY <3>1, Prefix
    <3>3. p = committed
      BY <2>1, <3>2
    <3>4. Effective(p) = <<>>
      BY <3>1, NothingEffective
    <3> HIDE DEF p
    <3> QED
      BY <3>3, <3>4
  <2>3. History = <<>>
    BY <2>2 DEF History
  <2>4. SeqOf = [c \in Clerks |-> 1] /\ AnswerOf = [c \in Clerks |-> Unanswered]
    BY DEF Init, MakeClerk, SeqOf, AnswerOf
  <2> QED
    BY <2>3, <2>4 DEF Service!ServiceInit
<1>2. ASSUME IndInv, OrderInv, AckedInv, ServiceInv, [Next]_vars
      PROVE  [Service!ServiceNext]_(Service!serviceVars)
  <2>1. CASE Sends
    BY <1>2, <2>1, SendLoses DEF Sends
  <2>2. CASE \E c \in Clerks : Told(c)
    BY <1>2, <2>2, ToldFinishes DEF Service!ServiceNext
  <2>3. CASE \E c \in Clerks : clerk[c].call # 0 /\ Matched(RPC(c))
    BY <1>2, <2>3, MatchAnswers DEF Service!ServiceNext
  <2>4. CASE \E s \in Servers : Commit(s)
    BY <1>2, <2>4, CommitEffects
  <2>5. committed' = committed \/ \E s \in Servers : Commit(s)
    BY <1>2, CommittedStep
  <2>6. CASE /\ ~Sends /\ committed' = committed /\ \A c \in Clerks : ~Told(c)
             /\ \A c \in Clerks : clerk[c].call # 0 => ~Matched(RPC(c))
    BY <1>2, <2>6, QuietStep
  <2> QED
    BY <2>1, <2>2, <2>3, <2>4, <2>5, <2>6
<1>3. IndInv /\ OrderInv /\ AckedInv /\ ReplayInv /\ ServiceInv /\ [Next]_vars
        => [Service!ServiceNext]_(Service!serviceVars)
  BY <1>2
<1> QED
  BY <1>1, <1>3, ServiceInvariance, PTL DEF Spec, ImplementsService, Service!ServiceSpec
====
