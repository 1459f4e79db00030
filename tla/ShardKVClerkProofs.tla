-------------------------- MODULE ShardKVClerkProofs ---------------------------
(***************************************************************************)
(* Proofs about ShardKVClerk, for any number of clerks, keys and groups,   *)
(* any scripts, any sequence of configurations and any number of faults:   *)
(* what the clerk makes of one time stamp per operation and of retries     *)
(* over servers and groups, given groups that filter by stamp and hand     *)
(* their acknowledgements on with the shards.                              *)
(***************************************************************************)
EXTENDS ShardKVClerk, TLAPS

\* Zenon is quicker on most steps; what needs arithmetic is left to the solver.
USE ZenonT(10), SMTT(20)

ClerkRecord ==
  [pc : {"idle", "query", "call", "wait", "reply"}, seq : Nat, clock : Nat, ts : Nat,
   config : 0..Last, si : Nat, index : Nat, reply : Reply, floor : SUBSET Updates]

\* The group of the key, in the configuration the clerk goes by.
Gid(c) == Config(c).Shards[key2shard(Op(c).key)]

\* A clerk is in an operation of its script; when it calls, it calls a group
\* that its configuration lists.
InScript(c) == clerk[c].pc # "idle" => clerk[c].seq <= Len(Script[c])
Listed(c)   == clerk[c].pc \in {"call", "wait", "reply"} => Gid(c) \in DOMAIN Config(c).Groups

\* What TypeOK says of one clerk, and these two facts.
ClerkOK(c) ==
  /\ clerk[c].seq \in 1..Len(Script[c]) + 1
  /\ clerk[c].config \in 0..num
  /\ clerk[c].pc \in {"call", "wait", "reply"} => clerk[c].si \in DOMAIN Servers(c)
  /\ InScript(c) /\ Listed(c)

ClerksOK == clerk \in [Clerks -> ClerkRecord] /\ \A c \in Clerks : ClerkOK(c)

GroupsOK ==
  /\ num \in 0..Last
  /\ owner \in [Shards -> [gid : Gids \cup {0}, serving : BOOLEAN]]
  /\ store \in [Keys -> Seq(Updates)]
  /\ ack \in [Gids -> [Clerks -> Nat]]
  /\ rlog \in [Gids -> Seq(Entry)]
  /\ leader \in [Gids -> Names]
  /\ faults \in 0..MaxFaults

Typed == ClerksOK /\ GroupsOK

\* It implies the type invariant.
LEMMA TypedIsTypeOK == Typed => TypeOK
  BY DEF Typed, ClerksOK, GroupsOK, TypeOK, ClerkOK, ClerkRecord

-----------------------------------------------------------------------------
(* Types                                                                   *)

\* Members of a sequence.
LEMMA Members ==
  ASSUME NEW S, NEW q \in Seq(S)
  PROVE  DOMAIN q = 1..Len(q) /\ Len(q) \in Nat /\ \A i \in DOMAIN q : q[i] \in S
  OBVIOUS

\* What clerks are asked for.
LEMMA OpTyped ==
  ASSUME NEW c \in Clerks, NEW n \in Nat, 0 < n, n <= Len(Script[c])
  PROVE  Script[c][n].op \in Commands /\ Script[c][n].key \in Keys
<1>1. Script[c] \in Seq([op : Commands, key : Keys])
  BY ShardKVClerkAssumption
<1>2. \A i \in DOMAIN Script[c] : Script[c][i] \in [op : Commands, key : Keys]
  BY <1>1, Members
<1>3. n \in DOMAIN Script[c]
  BY <1>1
<1> QED
  BY <1>2, <1>3

\* Shards of keys.
LEMMA ShardTyped ==
  ASSUME NEW k \in Keys
  PROVE  key2shard(k) \in 0..NShards-1 /\ key2shard(k) \in Shards
<1>1. k \in Seq(0..255) /\ NShards \in Nat \ {0}
  BY ShardKVClerkAssumption
<1>2. (IF Len(k) > 0 THEN k[1] ELSE 0) \in Nat
  <2>1. CASE Len(k) > 0
    <3>1. 1 \in DOMAIN k
      BY <1>1, <2>1
    <3>2. \A i \in DOMAIN k : k[i] \in 0..255
      BY <1>1, Members
    <3>3. k[1] \in 0..255
      BY <3>1, <3>2
    <3>4. k[1] \in Nat
      BY <3>3
    <3> QED
      BY <2>1, <3>4
  <2> QED
    BY <2>1
<1>3. key2shard(k) \in 0..NShards-1
  BY <1>1, <1>2 DEF key2shard
<1> QED
  BY <1>3 DEF Shards

\* The servers of the groups that a configuration lists.
LEMMA ServersTyped ==
  ASSUME NEW n \in 0..Last, NEW g \in DOMAIN Configs[n].Groups
  PROVE  /\ g \in Gids /\ Configs[n].Groups[g] \in Seq(Gids \X Nat)
         /\ \A i \in DOMAIN Configs[n].Groups[g] : GroupOf(Configs[n].Groups[g][i]) \in Gids
<1>1. g \in Gids /\ Configs[n].Groups[g] \in Seq(Gids \X Nat)
  BY ShardKVClerkAssumption
<1>2. \A i \in DOMAIN Configs[n].Groups[g] : Configs[n].Groups[g][i] \in Gids \X Nat
  BY <1>1
<1> QED
  BY <1>1, <1>2 DEF GroupOf

\* The server a clerk calls belongs to a group.
LEMMA ServerTyped ==
  ASSUME Typed, NEW c \in Clerks, clerk[c].pc \in {"call", "wait", "reply"}
  PROVE  /\ GroupOf(Server(c)) \in Gids /\ Servers(c) \in Seq(Gids \X Nat)
         /\ clerk[c].si \in DOMAIN Servers(c)
<1>1. clerk[c].config \in 0..Last /\ Gid(c) \in DOMAIN Configs[clerk[c].config].Groups
  BY DEF Typed, ClerksOK, ClerkOK, ClerkRecord, Listed, Config
<1>2. Servers(c) = Configs[clerk[c].config].Groups[Gid(c)] /\ Server(c) = Servers(c)[clerk[c].si]
  BY DEF Servers, Server, Gid, Config
<1>3. clerk[c].si \in DOMAIN Servers(c)
  BY DEF Typed, ClerksOK, ClerkOK
<1> QED
  BY <1>1, <1>2, <1>3, ServersTyped

\* What the script asks of a clerk that is in an operation.
LEMMA CurrentTyped ==
  ASSUME Typed, NEW c \in Clerks, clerk[c].seq <= Len(Script[c])
  PROVE  /\ Op(c).op \in Commands /\ Op(c).key \in Keys
         /\ clerk[c].seq \in Nat /\ clerk[c].seq > 0
<1>1. clerk[c].seq \in 1..Len(Script[c]) + 1 /\ clerk[c].seq \in Nat
  BY DEF Typed, ClerksOK, ClerkOK, ClerkRecord
<1>2. Len(Script[c]) \in Nat
  BY ShardKVClerkAssumption
<1>3. clerk[c].seq > 0
  BY <1>1, <1>2
<1> QED
  BY <1>1, <1>3, OpTyped DEF Op

\* A step of one clerk leaves the others as they are.
LEMMA OneMoves ==
  ASSUME Typed, NEW c \in Clerks, NEW r \in ClerkRecord, clerk' = [clerk EXCEPT ![c] = r],
         num' = num, ClerkOK(c)'
  PROVE  ClerksOK'
<1>1. clerk \in [Clerks -> ClerkRecord]
  BY DEF Typed, ClerksOK
<1>2. clerk' \in [Clerks -> ClerkRecord] /\ \A d \in Clerks \ {c} : clerk'[d] = clerk[d]
  BY <1>1
<1>3. ASSUME NEW d \in Clerks, d # c PROVE ClerkOK(d)'
  <2>1. clerk'[d] = clerk[d] /\ ClerkOK(d)
    BY <1>2, <1>3 DEF Typed, ClerksOK
  <2> QED
    BY <2>1 DEF ClerkOK, InScript, Listed, Gid, Servers, Config, Op
<1> QED
  BY <1>2, <1>3 DEF ClerksOK

\* What was acknowledged is something some clerk was asked for.
LEMMA AckedTyped ==
  ASSUME NEW k
  PROVE  Acked(k) \subseteq Updates
<1>1. \A c \in Clerks : Len(Script[c]) \in Nat
  BY ShardKVClerkAssumption
<1> QED
  BY <1>1 DEF Acked, Updates

\* An RPC is made when the configuration knows the group.
LEMMA EnterTyped ==
  ASSUME Typed, NEW c \in Clerks, clerk[c].pc = "query", NEW n \in 0..num, Enter(c, n), num' = num
  PROVE  ClerksOK'
<1> DEFINE gid   == Configs[n].Shards[key2shard(Op(c).key)]
           known == gid \in DOMAIN Configs[n].Groups /\ Configs[n].Groups[gid] # <<>>
           r     == [clerk[c] EXCEPT !.config = n, !.si = 1, !.pc = IF known THEN "call" ELSE "query"]
<1>1. clerk \in [Clerks -> ClerkRecord] /\ clerk[c] \in ClerkRecord /\ ClerkOK(c) /\ num \in 0..Last
  BY DEF Typed, ClerksOK, GroupsOK
<1>2. n \in 0..Last /\ Last \in Nat
  BY <1>1, ShardKVClerkAssumption
<1>3. clerk' = [clerk EXCEPT ![c] = r]
  BY DEF Enter
<1>4. r \in ClerkRecord
  BY <1>1, <1>2 DEF ClerkRecord
<1>5. /\ clerk'[c].seq = clerk[c].seq /\ clerk'[c].config = n /\ clerk'[c].si = 1
      /\ clerk'[c].pc = IF known THEN "call" ELSE "query"
  BY <1>1, <1>3 DEF ClerkRecord
<1>6. clerk[c].pc # "idle" /\ clerk[c].seq <= Len(Script[c]) /\ clerk[c].seq \in 1..Len(Script[c]) + 1
  BY <1>1 DEF ClerkOK, InScript
<1>7. Gid(c)' = gid /\ Servers(c)' = Configs[n].Groups[gid] /\ Config(c)' = Configs[n]
  BY <1>5 DEF Gid, Servers, Config, Op
<1>8. known => gid \in DOMAIN Configs[n].Groups /\ 1 \in DOMAIN Configs[n].Groups[gid]
  <2>1. known => Configs[n].Groups[gid] \in Seq(Gids \X Nat)
    BY <1>2, ServersTyped
  <2> QED
    BY <2>1
<1> HIDE DEF r, gid, known
<1>9. ClerkOK(c)'
  BY <1>5, <1>6, <1>7, <1>8 DEF ClerkOK, InScript, Listed
<1> QED
  BY <1>3, <1>4, <1>9, OneMoves

\* The arguments of Get and PutAppend are made.
LEMMA BeginTyped ==
  ASSUME Typed, NEW c \in Clerks, ~Finished(c), Begin(c)
  PROVE  ClerksOK'
<1> DEFINE r == [clerk[c] EXCEPT !.pc = "query", !.clock = @ + 1, !.ts = clerk[c].clock + 1,
                                 !.floor = Acked(Op(c).key), !.reply = Failed]
<1>1. clerk \in [Clerks -> ClerkRecord] /\ clerk[c] \in ClerkRecord /\ ClerkOK(c) /\ num' = num
  BY DEF Typed, ClerksOK, Begin
<1>2. clerk' = [clerk EXCEPT ![c] = r]
  BY DEF Begin
<1>3. Acked(Op(c).key) \subseteq Updates /\ Failed \in Reply
  BY AckedTyped DEF Failed, Reply
<1>4. r \in ClerkRecord
  <2>1. clerk[c].clock \in Nat
    BY <1>1 DEF ClerkRecord
  <2>2. clerk[c].clock + 1 \in Nat
    BY <2>1
  <2>3. r = [clerk[c] EXCEPT !.pc = "query", !.clock = clerk[c].clock + 1, !.ts = clerk[c].clock + 1,
                             !.floor = Acked(Op(c).key), !.reply = Failed]
    BY <1>1 DEF ClerkRecord
  <2>4. Acked(Op(c).key) \in SUBSET Updates
    BY <1>3
  <2> HIDE DEF r
  <2> QED
    BY <1>1, <1>3, <2>2, <2>3, <2>4 DEF ClerkRecord
<1>5. clerk'[c].seq = clerk[c].seq /\ clerk'[c].config = clerk[c].config /\ clerk'[c].pc = "query"
  BY <1>1, <1>2 DEF ClerkRecord
<1>6. clerk[c].seq <= Len(Script[c])
  <2>1. clerk[c].seq \in Nat /\ Len(Script[c]) \in Nat
    BY <1>1, ShardKVClerkAssumption DEF ClerkRecord
  <2> QED
    BY <2>1 DEF Finished
<1> HIDE DEF r
<1>7. ClerkOK(c)'
  BY <1>1, <1>5, <1>6 DEF ClerkOK, InScript, Listed
<1> QED
  BY <1>1, <1>2, <1>4, <1>7, OneMoves

\* A handler answers, or the RPC fails.
LEMMA AnswerTyped ==
  ASSUME Typed, NEW c \in Clerks, clerk[c].pc \in {"call", "wait", "reply"}, NEW x \in Reply,
         Answer(c, x), num' = num
  PROVE  ClerksOK'
<1> DEFINE r == [clerk[c] EXCEPT !.pc = "reply", !.reply = x, !.index = 0]
<1>1. clerk \in [Clerks -> ClerkRecord] /\ clerk[c] \in ClerkRecord /\ ClerkOK(c)
  BY DEF Typed, ClerksOK
<1>2. clerk' = [clerk EXCEPT ![c] = r]
  BY DEF Answer
<1>3. r \in ClerkRecord
  BY <1>1 DEF ClerkRecord
<1>4. /\ clerk'[c].seq = clerk[c].seq /\ clerk'[c].config = clerk[c].config
      /\ clerk'[c].si = clerk[c].si /\ clerk'[c].pc = "reply"
  BY <1>1, <1>2 DEF ClerkRecord
<1>5. Gid(c)' = Gid(c) /\ Servers(c)' = Servers(c) /\ Config(c)' = Config(c)
  BY <1>4 DEF Gid, Servers, Config, Op
<1> HIDE DEF r
<1>6. ClerkOK(c)'
  BY <1>1, <1>4, <1>5 DEF ClerkOK, InScript, Listed
<1> QED
  BY <1>2, <1>3, <1>6, OneMoves

\* Get and PutAppend look at the reply.
LEMMA ReturnTyped ==
  ASSUME Typed, NEW c \in Clerks, CallReturns(c)
  PROVE  ClerksOK'
<1>1. clerk \in [Clerks -> ClerkRecord] /\ clerk[c] \in ClerkRecord /\ ClerkOK(c) /\ num' = num
  BY DEF Typed, ClerksOK, CallReturns
<1>2. clerk[c].pc = "reply" /\ clerk[c].seq <= Len(Script[c]) /\ clerk[c].si \in DOMAIN Servers(c)
  BY <1>1 DEF CallReturns, ClerkOK, InScript
<1>3. Failed \in Reply /\ Len(Script[c]) \in Nat /\ clerk[c].seq \in Nat /\ clerk[c].si \in Nat
  <2>1. Failed \in Reply
    BY DEF Failed, Reply
  <2> QED
    BY <1>1, <2>1, ShardKVClerkAssumption DEF ClerkRecord
<1>4. ASSUME NEW p \in {"query", "call"}, NEW i \in Nat, p = "call" => i \in DOMAIN Servers(c),
             clerk' = [clerk EXCEPT ![c].pc = p, ![c].si = i, ![c].reply = Failed]
      PROVE  ClerksOK'
  <2> DEFINE r == [clerk[c] EXCEPT !.pc = p, !.si = i, !.reply = Failed]
  <2>1. clerk' = [clerk EXCEPT ![c] = r]
    BY <1>4
  <2>2. r \in ClerkRecord
    BY <1>1, <1>3 DEF ClerkRecord
  <2>3. /\ clerk'[c].seq = clerk[c].seq /\ clerk'[c].config = clerk[c].config
        /\ clerk'[c].si = i /\ clerk'[c].pc = p
    BY <1>1, <1>4 DEF ClerkRecord
  <2>4. Gid(c)' = Gid(c) /\ Servers(c)' = Servers(c) /\ Config(c)' = Config(c)
    BY <2>3 DEF Gid, Servers, Config, Op
  <2> HIDE DEF r
  <2>5. ClerkOK(c)'
    BY <1>1, <1>2, <1>4, <2>3, <2>4 DEF ClerkOK, InScript, Listed
  <2> QED
    BY <1>1, <2>1, <2>2, <2>5, OneMoves
<1>5. CASE clerk' = [clerk EXCEPT ![c].pc = "idle", ![c].seq = @ + 1]
  <2> DEFINE r == [clerk[c] EXCEPT !.pc = "idle", !.seq = @ + 1]
  <2>1. clerk' = [clerk EXCEPT ![c] = r]
    BY <1>5
  <2>2. r \in ClerkRecord
    <3>1. clerk[c].seq + 1 \in Nat
      BY <1>3
    <3> QED
      BY <1>1, <3>1 DEF ClerkRecord
  <2>3. clerk'[c].seq = clerk[c].seq + 1 /\ clerk'[c].config = clerk[c].config /\ clerk'[c].pc = "idle"
    BY <1>1, <1>5 DEF ClerkRecord
  <2> HIDE DEF r
  <2>4. clerk[c].seq + 1 \in 1..Len(Script[c]) + 1
    BY <1>2, <1>3
  <2>5. ClerkOK(c)'
    BY <1>1, <2>3, <2>4 DEF ClerkOK, InScript, Listed
  <2> QED
    BY <1>1, <2>1, <2>2, <2>5, OneMoves
<1>6. CASE clerk' = [clerk EXCEPT ![c].pc = "query", ![c].reply = Failed]
  <2>1. clerk' = [clerk EXCEPT ![c].pc = "query", ![c].si = clerk[c].si, ![c].reply = Failed]
    BY <1>1, <1>6 DEF ClerkRecord
  <2> QED
    BY <1>3, <1>4, <2>1
<1>7. CASE clerk' = [clerk EXCEPT ![c].pc = IF LastServer(c) THEN AfterLoop ELSE "call",
                                  ![c].si = IF LastServer(c) THEN @ ELSE @ + 1, ![c].reply = Failed]
  <2> DEFINE p == IF LastServer(c) THEN AfterLoop ELSE "call"
             i == IF LastServer(c) THEN clerk[c].si ELSE clerk[c].si + 1
  <2>1. p \in {"query", "call"} /\ i \in Nat
    BY <1>3 DEF AfterLoop
  <2>2. p = "call" => i \in DOMAIN Servers(c)
    <3>1. Servers(c) \in Seq(Gids \X Nat)
      BY <1>2, ServerTyped
    <3>2. DOMAIN Servers(c) = 1..Len(Servers(c)) /\ Len(Servers(c)) \in Nat
      BY <3>1
    <3> QED
      BY <1>2, <1>3, <3>2 DEF LastServer, AfterLoop
  <2>3. clerk' = [clerk EXCEPT ![c].pc = p, ![c].si = i, ![c].reply = Failed]
    BY <1>7
  <2> HIDE DEF p, i
  <2> QED
    BY <1>4, <2>1, <2>2, <2>3
<1> QED
  BY <1>5, <1>6, <1>7 DEF CallReturns, Returned

\* rf.Start appends the operation of the clerk.
LEMMA SubmitTyped ==
  ASSUME Typed, NEW c \in Clerks, Submit(c)
  PROVE  /\ ClerksOK' /\ GroupsOK'
<1> DEFINE g == GroupOf(Server(c))
           e == [op |-> Op(c).op, key |-> Op(c).key, client |-> c, seq |-> clerk[c].seq,
                 ts |-> clerk[c].ts]
           r == [clerk[c] EXCEPT !.pc = "wait", !.index = Len(rlog[g]) + 1]
<1>1. /\ clerk \in [Clerks -> ClerkRecord] /\ clerk[c] \in ClerkRecord /\ ClerkOK(c)
      /\ clerk[c].pc = "call" /\ num' = num
  BY DEF Typed, ClerksOK, Submit
<1>2. g \in Gids /\ rlog[g] \in Seq(Entry) /\ rlog \in [Gids -> Seq(Entry)]
  BY <1>1, ServerTyped DEF Typed, GroupsOK
<1>3. /\ clerk' = [clerk EXCEPT ![c] = r] /\ rlog' = [rlog EXCEPT ![g] = Append(@, e)]
      /\ UNCHANGED <<num, owner, store, ack, leader, faults>>
  BY DEF Submit
<1>4. e \in Entry
  <2>1. Op(c).op \in Commands /\ Op(c).key \in Keys
    BY <1>1, CurrentTyped DEF ClerkOK, InScript
  <2>2. clerk[c].seq \in Nat /\ clerk[c].ts \in Nat
    BY <1>1 DEF ClerkRecord
  <2> QED
    BY <2>1, <2>2 DEF Entry
<1> HIDE DEF e, g
<1>5. Append(rlog[g], e) \in Seq(Entry)
  BY <1>2, <1>4
<1>6. rlog' \in [Gids -> Seq(Entry)]
  BY <1>2, <1>3, <1>5
<1>7. GroupsOK'
  BY <1>3, <1>6 DEF Typed, GroupsOK
<1>8. r \in ClerkRecord
  <2>1. Len(rlog[g]) + 1 \in Nat
    BY <1>2
  <2> QED
    BY <1>1, <2>1 DEF ClerkRecord
<1>9. /\ clerk'[c].seq = clerk[c].seq /\ clerk'[c].config = clerk[c].config
      /\ clerk'[c].si = clerk[c].si /\ clerk'[c].pc = "wait"
  BY <1>1, <1>3 DEF ClerkRecord
<1>10. Gid(c)' = Gid(c) /\ Servers(c)' = Servers(c) /\ Config(c)' = Config(c)
  BY <1>9 DEF Gid, Servers, Config, Op
<1> HIDE DEF r
<1>11. ClerkOK(c)'
  BY <1>1, <1>9, <1>10 DEF ClerkOK, InScript, Listed
<1> QED
  BY <1>1, <1>3, <1>7, <1>8, <1>11, OneMoves

\* What handlers answer.
LEMMA RefusalTyped ==
  /\ Refusal("OK") \in Reply /\ Refusal("ErrWrongGroup") \in Reply
  /\ Refusal("ErrWrongLeader") \in Reply /\ Failed \in Reply
<1>1. \A x \in Errs : x \in Errs \cup {""}
  OBVIOUS
<1>2. <<>> \in Seq(Updates)
  OBVIOUS
<1>3. \A x \in Errs : Refusal(x) \in Reply
  BY <1>1, <1>2 DEF Refusal, Reply
<1>4. "OK" \in Errs /\ "ErrWrongGroup" \in Errs /\ "ErrWrongLeader" \in Errs
  BY DEF Errs
<1>5. Failed \in Reply
  BY DEF Failed, Reply
<1> QED
  BY <1>3, <1>4, <1>5

\* A clerk that is one index nearer to its own, and one that has its answer.
Nearer(c)   == [clerk[c] EXCEPT !.index = @ - 1]
Hears(c, x) == [clerk[c] EXCEPT !.pc = "reply", !.index = 0, !.reply = x]

\* What applying an index does to a clerk: nothing, or it comes nearer to its
\* index, or it has its answer, which is the outcome if the operation is its own.
LEMMA ReceivedCases ==
  ASSUME NEW g, NEW e, NEW r, Received(g, e, r)
  PROVE  \A c \in Clerks :
           \/ clerk'[c] = clerk[c]
           \/ clerk[c].pc = "wait" /\ clerk[c].index > 0 /\ clerk'[c] = Nearer(c)
           \/ clerk[c].pc = "wait" /\ isOpMatched(c, e) /\ clerk'[c] = Hears(c, r)
           \/ clerk[c].pc = "wait" /\ clerk'[c] = Hears(c, Refusal("ErrWrongLeader"))
<1>1. PICK hears \in SUBSET Due(g) :
        clerk' = [c \in Clerks |->
         IF c \in hears
           THEN [clerk[c] EXCEPT !.pc = "reply", !.index = 0,
                                 !.reply = IF isOpMatched(c, e) THEN r ELSE Refusal("ErrWrongLeader")]
         ELSE IF clerk[c].pc = "wait" /\ GroupOf(Server(c)) = g /\ clerk[c].index > 0
           THEN [clerk[c] EXCEPT !.index = @ - 1]
         ELSE clerk[c]]
  BY DEF Received
<1>2. \A c \in hears : clerk[c].pc = "wait"
  BY DEF Due
<1> QED
  BY <1>1, <1>2 DEF Nearer, Hears

\* Nothing else about the clerk changes.
LEMMA WaiterFields ==
  ASSUME Typed, NEW c \in Clerks
  PROVE  /\ clerk[c].index > 0 => Nearer(c) \in ClerkRecord
         /\ Nearer(c).seq = clerk[c].seq /\ Nearer(c).config = clerk[c].config
         /\ Nearer(c).si = clerk[c].si /\ Nearer(c).clock = clerk[c].clock
         /\ Nearer(c).ts = clerk[c].ts /\ Nearer(c).floor = clerk[c].floor
         /\ Nearer(c).pc = clerk[c].pc /\ Nearer(c).reply = clerk[c].reply
         /\ \A x \in Reply :
              /\ Hears(c, x) \in ClerkRecord
              /\ Hears(c, x).seq = clerk[c].seq /\ Hears(c, x).config = clerk[c].config
              /\ Hears(c, x).si = clerk[c].si /\ Hears(c, x).clock = clerk[c].clock
              /\ Hears(c, x).ts = clerk[c].ts /\ Hears(c, x).floor = clerk[c].floor
              /\ Hears(c, x).pc = "reply" /\ Hears(c, x).reply = x
<1>1. clerk[c] \in ClerkRecord
  BY DEF Typed, ClerksOK
<1>2. ASSUME clerk[c].index > 0 PROVE Nearer(c) \in ClerkRecord
  <2>1. clerk[c].index - 1 \in Nat
    BY <1>1, <1>2 DEF ClerkRecord
  <2> QED
    BY <1>1, <2>1 DEF Nearer, ClerkRecord
<1> QED
  BY <1>1, <1>2 DEF Nearer, Hears, ClerkRecord

\* The handlers that wait for the index.
LEMMA ReceivedTyped ==
  ASSUME Typed, NEW g, NEW e, NEW r \in Reply, Received(g, e, r), num' = num
  PROVE  ClerksOK'
<1>1. clerk \in [Clerks -> ClerkRecord] /\ \A c \in Clerks : ClerkOK(c)
  BY DEF Typed, ClerksOK
<1>2. ASSUME NEW c \in Clerks PROVE clerk'[c] \in ClerkRecord /\ ClerkOK(c)'
  <2> DEFINE Stays == /\ clerk'[c] \in ClerkRecord /\ clerk'[c].seq = clerk[c].seq
                      /\ clerk'[c].config = clerk[c].config /\ clerk'[c].si = clerk[c].si
                      /\ \/ clerk'[c].pc = clerk[c].pc
                         \/ clerk[c].pc = "wait" /\ clerk'[c].pc = "reply"
  <2>1. ASSUME clerk'[c] = clerk[c] PROVE Stays
    BY <1>1, <2>1
  <2>2. ASSUME clerk[c].index > 0, clerk'[c] = Nearer(c) PROVE Stays
    BY <2>2, WaiterFields
  <2>3. ASSUME NEW x \in Reply, clerk[c].pc = "wait", clerk'[c] = Hears(c, x) PROVE Stays
    BY <2>3, WaiterFields
  <2> HIDE DEF Stays
  <2>4. Stays
    BY <2>1, <2>2, <2>3, ReceivedCases, RefusalTyped
  <2> USE DEF Stays
  <2>5. Gid(c)' = Gid(c) /\ Servers(c)' = Servers(c) /\ Config(c)' = Config(c)
    BY <2>4 DEF Gid, Servers, Config, Op
  <2>6. ClerkOK(c)'
    BY <1>1, <2>4, <2>5 DEF ClerkOK, InScript, Listed
  <2> QED
    BY <2>4, <2>6
<1>3. clerk' = [c \in Clerks |-> clerk'[c]]
  BY DEF Received
<1>4. clerk' \in [Clerks -> ClerkRecord]
  BY <1>2, <1>3
<1> QED
  BY <1>2, <1>4 DEF ClerksOK

-----------------------------------------------------------------------------
(* The invariant                                                           *)

\* The clock counts the operations that were begun, so that the stamp of an
\* operation is its place in the script.
ClerkStamped(c) ==
  /\ clerk[c].clock = clerk[c].ts
  /\ clerk[c].pc = "idle" => clerk[c].seq = clerk[c].ts + 1
  /\ clerk[c].pc # "idle" => clerk[c].seq = clerk[c].ts

\* What is logged is an operation that its clerk has begun.
Logged(e) ==
  /\ e.ts = e.seq /\ 0 < e.seq /\ e.seq <= clerk[e.client].ts
  /\ e.op = Script[e.client][e.seq].op /\ e.key = Script[e.client][e.seq].key

Stamped ==
  /\ \A c \in Clerks : ClerkStamped(c)
  /\ \A g \in Gids : \A i \in DOMAIN rlog[g] : Logged(rlog[g][i])

\* Groups acknowledge what was begun.
AckBelow == \A g \in Gids, c \in Clerks : ack[g][c] <= clerk[c].ts

\* What is in the store was acknowledged by the group that has the shard.
StoreBelow ==
  \A k \in Keys : \A i \in DOMAIN store[k] :
    /\ owner[key2shard(k)].gid \in Gids
    /\ store[k][i][2] <= ack[owner[key2shard(k)].gid][store[k][i][1]]

\* The updates that a group has acknowledged, all up to a stamp, are stored.
AckStored ==
  \A g \in Gids, c \in Clerks : \A n \in 1 .. ack[g][c] :
    Script[c][n].op # "Get" => <<c, n>> \in Range(store[Script[c][n].key])

\* The reply at hand ends the operation.
Succeeds(c) ==
  clerk[c].pc = "reply" /\ clerk[c].reply.ok /\ clerk[c].reply.err \in Success(Op(c).op)

\* Then the update is in the store, or the value shows all it must.
ReplyRight(c) ==
  Succeeds(c) => IF Op(c).op = "Get" THEN clerk[c].floor \subseteq Range(clerk[c].reply.value)
                                     ELSE <<c, clerk[c].seq>> \in Range(store[Op(c).key])

\* What the operation must show has been acknowledged.
FloorAcked(c) == clerk[c].pc # "idle" => clerk[c].floor \subseteq Acked(Op(c).key)

GetSaw(c) ==
  clerk[c].pc = "idle" /\ clerk[c].seq > 1 /\ Script[c][clerk[c].seq - 1].op = "Get"
    => clerk[c].floor \subseteq Range(clerk[c].reply.value)

Filtered == AckBelow /\ StoreBelow /\ AckStored /\ UpdatesOnceInOrder /\ AckedIsStored
Answered == \A c \in Clerks : ReplyRight(c) /\ FloorAcked(c) /\ GetSaw(c)
IndInv   == Typed /\ Stamped /\ Filtered /\ Answered

-----------------------------------------------------------------------------
(* The applier                                                             *)

\* The entry that is applied, and those that are left.
LEMMA NextEntry ==
  ASSUME Typed, NEW g \in Gids, rlog[g] # <<>>
  PROVE  /\ Head(rlog[g]) \in Entry /\ Tail(rlog[g]) \in Seq(Entry)
         /\ \E i \in DOMAIN rlog[g] : rlog[g][i] = Head(rlog[g])
         /\ \A i \in DOMAIN Tail(rlog[g]) : \E j \in DOMAIN rlog[g] : rlog[g][j] = Tail(rlog[g])[i]
<1>1. rlog[g] \in Seq(Entry)
  BY DEF Typed, GroupsOK
<1>2. /\ Head(rlog[g]) = rlog[g][1] /\ 1 \in DOMAIN rlog[g] /\ Tail(rlog[g]) \in Seq(Entry)
      /\ Len(rlog[g]) \in Nat /\ DOMAIN rlog[g] = 1 .. Len(rlog[g])
  BY <1>1
<1>3. Head(rlog[g]) \in Entry
  BY <1>1, <1>2, Members
<1>4. ASSUME NEW i \in DOMAIN Tail(rlog[g])
      PROVE  i + 1 \in DOMAIN rlog[g] /\ rlog[g][i + 1] = Tail(rlog[g])[i]
  BY <1>1, <1>2
<1> QED
  BY <1>2, <1>3, <1>4

\* The value of the key when the entry has been applied.
ValueAfter(g) ==
  LET e == Head(rlog[g]) IN
  IF e.ts > ack[g][e.client] /\ e.op # "Get"
    THEN Append(store[e.key], <<e.client, e.seq>>) ELSE store[e.key]

\* The outcome that is sent to the handler.
Outcome(g) ==
  IF Head(rlog[g]).op # "Get" THEN Refusal("OK")
    ELSE [ok |-> TRUE, err |-> IF ValueAfter(g) = <<>> THEN "ErrNoKey" ELSE "OK",
          value |-> ValueAfter(g)]

\* Applying an entry of a key that the group serves, and of one that it does not.
LEMMA ApplyCases ==
  ASSUME Typed, NEW g \in Gids, Apply(g)
  PROVE  LET e == Head(rlog[g]) IN
         /\ rlog[g] # <<>> /\ rlog' = [rlog EXCEPT ![g] = Tail(@)]
         /\ UNCHANGED <<num, owner, leader, faults>>
         /\ \/ /\ Serves(g, e.key)
               /\ store' = [store EXCEPT ![e.key] = ValueAfter(g)]
               /\ ack' = IF e.ts > ack[g][e.client] THEN [ack EXCEPT ![g][e.client] = e.ts] ELSE ack
               /\ Received(g, e, Outcome(g))
            \/ /\ UNCHANGED <<store, ack>>
               /\ Received(g, e, Refusal("ErrWrongGroup"))
  BY DEF Apply, ValueAfter, Outcome

\* Values and outcomes.
LEMMA OutcomeTyped ==
  ASSUME Typed, Stamped, NEW g \in Gids, rlog[g] # <<>>
  PROVE  /\ ValueAfter(g) \in Seq(Updates) /\ Outcome(g) \in Reply
         /\ LET e == Head(rlog[g]) IN
            \/ ValueAfter(g) = store[e.key]
            \/ /\ e.ts > ack[g][e.client] /\ e.op # "Get"
               /\ ValueAfter(g) = Append(store[e.key], <<e.client, e.seq>>)
<1> DEFINE e == Head(rlog[g])
<1>1. e \in Entry /\ Logged(e)
  BY NextEntry DEF Stamped
<1>2. e.key \in Keys /\ e.client \in Clerks /\ e.seq \in Nat \ {0}
  BY <1>1 DEF Entry, Logged
<1>3. store[e.key] \in Seq(Updates) /\ <<e.client, e.seq>> \in Updates
  BY <1>2 DEF Typed, GroupsOK, Updates
<1>4. Append(store[e.key], <<e.client, e.seq>>) \in Seq(Updates)
  BY <1>3
<1>5. ValueAfter(g) \in Seq(Updates)
  BY <1>3, <1>4 DEF ValueAfter
<1>6. Outcome(g) \in Reply
  <2>1. CASE e.op # "Get"
    BY <2>1, RefusalTyped DEF Outcome
  <2>2. CASE e.op = "Get"
    BY <1>5, <2>2 DEF Outcome, Reply, Errs
  <2> QED
    BY <2>1, <2>2
<1> QED
  BY <1>5, <1>6 DEF ValueAfter

\* Applying keeps the types.
LEMMA ApplyTyped ==
  ASSUME Typed, Stamped, NEW g \in Gids, Apply(g)
  PROVE  Typed'
<1> DEFINE e == Head(rlog[g])
<1>1. /\ rlog[g] # <<>> /\ rlog' = [rlog EXCEPT ![g] = Tail(@)]
      /\ UNCHANGED <<num, owner, leader, faults>>
  BY ApplyCases
<1>2. /\ rlog \in [Gids -> Seq(Entry)] /\ store \in [Keys -> Seq(Updates)]
      /\ ack \in [Gids -> [Clerks -> Nat]]
  BY DEF Typed, GroupsOK
<1>3. e \in Entry /\ Tail(rlog[g]) \in Seq(Entry)
  BY <1>1, NextEntry
<1>4. rlog' \in [Gids -> Seq(Entry)]
  BY <1>1, <1>2, <1>3
<1>5. e.key \in Keys /\ e.client \in Clerks /\ e.ts \in Nat
  BY <1>3 DEF Entry
<1>6. ValueAfter(g) \in Seq(Updates) /\ Outcome(g) \in Reply /\ Refusal("ErrWrongGroup") \in Reply
  BY <1>1, OutcomeTyped, RefusalTyped
<1> HIDE DEF e
<1>7. store' \in [Keys -> Seq(Updates)] /\ ack' \in [Gids -> [Clerks -> Nat]]
  <2>1. \/ store' = [store EXCEPT ![e.key] = ValueAfter(g)]
        \/ store' = store
    BY ApplyCases DEF e
  <2>2. \/ ack' = [ack EXCEPT ![g][e.client] = e.ts]
        \/ ack' = ack
    BY ApplyCases DEF e
  <2>3. store' \in [Keys -> Seq(Updates)]
    BY <1>2, <1>5, <1>6, <2>1
  <2>4. ack' \in [Gids -> [Clerks -> Nat]]
    <3>1. ack[g] \in [Clerks -> Nat]
      BY <1>2
    <3>2. [ack[g] EXCEPT ![e.client] = e.ts] \in [Clerks -> Nat]
      BY <1>5, <3>1
    <3>3. ack' = [ack EXCEPT ![g] = [ack[g] EXCEPT ![e.client] = e.ts]] \/ ack' = ack
      BY <1>2, <2>2
    <3> QED
      BY <1>2, <3>2, <3>3
  <2> QED
    BY <2>3, <2>4
<1>8. GroupsOK'
  BY <1>1, <1>4, <1>7 DEF Typed, GroupsOK
<1>9. Received(g, e, Outcome(g)) \/ Received(g, e, Refusal("ErrWrongGroup"))
  BY ApplyCases DEF e
<1>10. ClerksOK'
  BY <1>1, <1>6, <1>9, ReceivedTyped
<1> QED
  BY <1>8, <1>10 DEF Typed

-----------------------------------------------------------------------------
(* Types are kept                                                          *)

\* Shards move together with what was acknowledged.
LEMMA AcquireTyped ==
  ASSUME Typed, NEW sh \in Shards, Acquire(sh)
  PROVE  /\ Typed'
         /\ \A g \in Gids, c \in Clerks : ack'[g][c] >= ack[g][c]
         /\ \A g \in Gids, c \in Clerks : \E h \in Gids : ack'[g][c] = ack[h][c]
         /\ Target(sh) \in Gids
         /\ owner[sh].gid \in Gids => \A c \in Clerks : ack'[Target(sh)][c] >= ack[owner[sh].gid][c]
<1> DEFINE g == Target(sh)
           o == owner[sh].gid
           a == [c \in Clerks |-> IF ack[o][c] > ack[g][c] THEN ack[o][c] ELSE ack[g][c]]
<1>1. /\ num \in 0..Last /\ owner \in [Shards -> [gid : Gids \cup {0}, serving : BOOLEAN]]
      /\ ack \in [Gids -> [Clerks -> Nat]] /\ o \in Gids \cup {0}
  BY DEF Typed, GroupsOK
<1>2. g \in Gids
  <2>1. sh \in 0..NShards-1
    BY ShardTyped DEF Shards
  <2>2. Configs[num].Shards \in [0..NShards-1 -> Gids \cup {0}]
    BY <1>1, ShardKVClerkAssumption
  <2>3. Target(sh) \in Gids \cup {0}
    BY <2>1, <2>2 DEF Target
  <2> QED
    BY <2>3 DEF Acquire
<1>3. /\ owner' = [owner EXCEPT ![sh] = [gid |-> g, serving |-> TRUE]]
      /\ UNCHANGED <<num, store, rlog, leader, clerk, faults>>
  BY DEF Acquire
<1>4. CASE o = 0
  <2>1. ack' = ack
    BY <1>4 DEF Acquire
  <2>2. owner' \in [Shards -> [gid : Gids \cup {0}, serving : BOOLEAN]]
    BY <1>1, <1>2, <1>3
  <2>3. GroupsOK'
    BY <1>3, <2>1, <2>2 DEF Typed, GroupsOK
  <2>4. ClerksOK'
    BY <1>3 DEF Typed, ClerksOK, ClerkOK, InScript, Listed, Gid, Config, Servers, Op
  <2>5. 0 \notin Gids
    BY ShardKVClerkAssumption
  <2>6. \A h \in Gids, c \in Clerks : ack[h][c] \in Nat
    BY <1>1
  <2> QED
    BY <1>2, <1>4, <2>1, <2>3, <2>4, <2>5, <2>6 DEF Typed
<1>5. CASE o # 0
  <2>1. ack' = [ack EXCEPT ![g] = a]
    BY <1>5 DEF Acquire
  <2>2. o \in Gids /\ \A h \in Gids, c \in Clerks : ack[h][c] \in Nat
    BY <1>1, <1>5
  <2>3. a \in [Clerks -> Nat]
    BY <1>2, <2>2
  <2>4. \A c \in Clerks : a[c] >= ack[o][c] /\ a[c] >= ack[g][c] /\ a[c] \in {ack[o][c], ack[g][c]}
    BY <1>2, <2>2
  <2> HIDE DEF a
  <2>5. ack' \in [Gids -> [Clerks -> Nat]] /\ ack'[g] = a /\ \A h \in Gids \ {g} : ack'[h] = ack[h]
    BY <1>1, <1>2, <2>1, <2>3
  <2>6. owner' \in [Shards -> [gid : Gids \cup {0}, serving : BOOLEAN]]
    BY <1>1, <1>2, <1>3
  <2>7. GroupsOK'
    BY <1>3, <2>5, <2>6 DEF Typed, GroupsOK
  <2>8. ClerksOK'
    BY <1>3 DEF Typed, ClerksOK, ClerkOK, InScript, Listed, Gid, Config, Servers, Op
  <2>9. \A h \in Gids, c \in Clerks : ack'[h][c] >= ack[h][c]
    BY <1>2, <2>2, <2>4, <2>5
  <2>10. \A h \in Gids, c \in Clerks : \E i \in Gids : ack'[h][c] = ack[i][c]
    BY <1>2, <2>2, <2>4, <2>5
  <2> QED
    BY <1>2, <2>4, <2>5, <2>7, <2>8, <2>9, <2>10 DEF Typed
<1> QED
  BY <1>4, <1>5

\* Every step keeps the types.
LEMMA TypedStep ==
  ASSUME Typed, Stamped, [Next]_vars
  PROVE  Typed'
<1>1. ASSUME NEW c \in Clerks, ClerkNext(c) PROVE Typed'
  <2>1. UNCHANGED <<num, groupVars>> /\ (UNCHANGED faults \/ Fault)
    BY <1>1 DEF ClerkNext, Get, PutAppend, Begin, QueryReturns, CallReturns
  <2>2. GroupsOK'
    BY <2>1, ShardKVClerkAssumption DEF Typed, GroupsOK, groupVars, Fault
  <2>3. CASE Get(c) \/ PutAppend(c)
    BY <2>2, <2>3, BeginTyped DEF Get, PutAppend, Typed
  <2>4. CASE QueryReturns(c)
    <3>1. num \in Nat
      BY DEF Typed, GroupsOK
    <3>2. 0 \in 0..num /\ num \in 0..num
      BY <3>1
    <3>3. clerk[c].pc = "query" /\ (Enter(c, num) \/ Enter(c, 0)) /\ num' = num
      BY <2>4 DEF QueryReturns
    <3> QED
      BY <2>2, <3>2, <3>3, EnterTyped DEF Typed
  <2>5. CASE CallReturns(c)
    BY <2>2, <2>5, ReturnTyped DEF Typed
  <2> QED
    BY <1>1, <2>3, <2>4, <2>5 DEF ClerkNext
<1>2. ASSUME NEW c \in Clerks, HandlerNext(c) \/ Lost(c) PROVE Typed'
  <2>1. CASE Submit(c)
    BY <2>1, SubmitTyped DEF Typed
  <2>2. CASE WrongGroup(c) \/ WrongLeader(c) \/ Timeout(c) \/ Lost(c)
    <3>1. UNCHANGED <<num, groupVars>> /\ (UNCHANGED faults \/ Fault)
      BY <2>2 DEF WrongGroup, WrongLeader, Timeout, Lost
    <3>2. GroupsOK'
      BY <3>1, ShardKVClerkAssumption DEF Typed, GroupsOK, groupVars, Fault
    <3>3. /\ clerk[c].pc \in {"call", "wait", "reply"} /\ num' = num
          /\ \E x \in Reply : Answer(c, x)
      BY <2>2, RefusalTyped DEF WrongGroup, WrongLeader, Timeout, Lost
    <3> QED
      BY <3>2, <3>3, AnswerTyped DEF Typed
  <2> QED
    BY <1>2, <2>1, <2>2 DEF HandlerNext
<1>3. ASSUME NEW g \in Gids, ChangeLeader(g) PROVE Typed'
  <2>1. PICK s \in Names : leader' = [leader EXCEPT ![g] = s]
    BY <1>3 DEF ChangeLeader
  <2>2. PICK k \in 0..Len(rlog[g]) : rlog' = [rlog EXCEPT ![g] = SubSeq(@, 1, k)]
    BY <1>3 DEF ChangeLeader
  <2>3. rlog \in [Gids -> Seq(Entry)] /\ leader \in [Gids -> Names]
    BY DEF Typed, GroupsOK
  <2>4. SubSeq(rlog[g], 1, k) \in Seq(Entry)
    BY <2>3
  <2>5. rlog' \in [Gids -> Seq(Entry)] /\ leader' \in [Gids -> Names]
    BY <2>1, <2>2, <2>3, <2>4
  <2>6. UNCHANGED <<num, owner, store, ack, clerk>> /\ Fault
    BY <1>3 DEF ChangeLeader
  <2>7. GroupsOK'
    BY <2>5, <2>6, ShardKVClerkAssumption DEF Typed, GroupsOK, Fault
  <2>8. ClerksOK'
    BY <2>6 DEF Typed, ClerksOK, ClerkOK, InScript, Listed, Gid, Config, Servers, Op
  <2> QED
    BY <2>7, <2>8 DEF Typed
<1>4. ASSUME NEW sh \in Shards, Release(sh) PROVE Typed'
  <2>1. owner' = [owner EXCEPT ![sh].serving = FALSE] /\ UNCHANGED <<num, store, ack, rlog, leader, clerk, faults>>
    BY <1>4 DEF Release
  <2>2. owner' \in [Shards -> [gid : Gids \cup {0}, serving : BOOLEAN]]
    BY <2>1 DEF Typed, GroupsOK
  <2>3. GroupsOK'
    BY <2>1, <2>2 DEF Typed, GroupsOK
  <2>4. ClerksOK'
    BY <2>1 DEF Typed, ClerksOK, ClerkOK, InScript, Listed, Gid, Config, Servers, Op
  <2> QED
    BY <2>3, <2>4 DEF Typed
<1>5. CASE NextConfig
  <2>1. num < Last /\ num' = num + 1 /\ UNCHANGED <<groupVars, clerk, faults>>
    BY <1>5 DEF NextConfig
  <2>2. GroupsOK'
    BY <2>1, ShardKVClerkAssumption DEF Typed, GroupsOK, groupVars
  <2>3. \A c \in Clerks : clerk[c].config \in 0..num'
    BY <2>1 DEF Typed, ClerksOK, ClerkOK, GroupsOK
  <2>4. ClerksOK'
    BY <2>1, <2>3 DEF Typed, ClerksOK, ClerkOK, InScript, Listed, Gid, Config, Servers, Op
  <2> QED
    BY <2>2, <2>4 DEF Typed
<1>6. CASE UNCHANGED vars
  <2>1. GroupsOK'
    BY <1>6 DEF vars, groupVars, Typed, GroupsOK
  <2>2. ClerksOK'
    BY <1>6 DEF vars, Typed, ClerksOK, ClerkOK, InScript, Listed, Gid, Config, Servers, Op
  <2> QED
    BY <2>1, <2>2 DEF Typed
<1> QED
  BY <1>1, <1>2, <1>3, <1>4, <1>5, <1>6, ApplyTyped, AcquireTyped DEF Next

-----------------------------------------------------------------------------
(* What a step does to clerks and logs                                     *)

\* Clerk c stays in its operation, or out of one, and hears of no success.
WorksOn(c) ==
  /\ clerk'[c].pc = "idle" <=> clerk[c].pc = "idle"
  /\ clerk'[c].seq = clerk[c].seq /\ clerk'[c].clock = clerk[c].clock
  /\ clerk'[c].ts = clerk[c].ts /\ clerk'[c].floor = clerk[c].floor
  /\ clerk[c].pc = "idle" \/ Succeeds(c)' => clerk'[c].reply = clerk[c].reply
  /\ Succeeds(c)' => Succeeds(c)

\* Get or PutAppend of clerk c returns.
Ends(c) ==
  /\ Succeeds(c)
  /\ clerk' = [clerk EXCEPT ![c].pc = "idle", ![c].seq = @ + 1]
  /\ UNCHANGED <<num, groupVars, faults>>

\* The entry that Submit appends.
EntryOf(c) ==
  [op |-> Op(c).op, key |-> Op(c).key, client |-> c, seq |-> clerk[c].seq, ts |-> clerk[c].ts]

\* No handler's refusal ends an operation.
LEMMA RefusalsFail ==
  ASSUME NEW o
  PROVE  \A x \in {Failed, Refusal("ErrWrongGroup"), Refusal("ErrWrongLeader")} :
           ~(x.ok /\ x.err \in Success(o))
<1>1. "ErrWrongGroup" \notin Success(o) /\ "ErrWrongLeader" \notin Success(o)
  BY DEF Success
<1>2. ~Failed.ok /\ Refusal("ErrWrongGroup").err = "ErrWrongGroup"
  BY DEF Failed, Refusal
<1>3. Refusal("ErrWrongLeader").err = "ErrWrongLeader"
  BY DEF Refusal
<1> QED
  BY <1>1, <1>2, <1>3

\* A clerk that hears x.
LEMMA HearsFailure ==
  ASSUME Typed, NEW c \in Clerks, clerk[c].pc # "idle",
         NEW x \in {Failed, Refusal("ErrWrongGroup"), Refusal("ErrWrongLeader")},
         clerk'[c] = Hears(c, x)
  PROVE  WorksOn(c)
<1>1. x \in Reply
  BY RefusalTyped
<1>2. /\ clerk'[c].seq = clerk[c].seq /\ clerk'[c].clock = clerk[c].clock
      /\ clerk'[c].ts = clerk[c].ts /\ clerk'[c].floor = clerk[c].floor
      /\ clerk'[c].pc = "reply" /\ clerk'[c].reply = x
  BY <1>1, WaiterFields
<1>3. ~Succeeds(c)'
  BY <1>2, RefusalsFail DEF Succeeds
<1> QED
  BY <1>2, <1>3 DEF WorksOn

\* Clerks begin or end operations, or work on, or an entry is applied.
LEMMA ClerksStep ==
  ASSUME Typed, [Next]_vars
  PROVE  \/ \E c \in Clerks : ~Finished(c) /\ Begin(c)
         \/ \E c \in Clerks : Ends(c)
         \/ \E g \in Gids : Apply(g)
         \/ store' = store /\ \A c \in Clerks : WorksOn(c)
<1>1. clerk \in [Clerks -> ClerkRecord]
  BY DEF Typed, ClerksOK
<1>2. ASSUME NEW c \in Clerks, clerk'[c] = clerk[c] PROVE WorksOn(c)
  BY <1>2 DEF WorksOn, Succeeds, Op
<1>3. ASSUME NEW c \in Clerks, \A d \in Clerks \ {c} : clerk'[d] = clerk[d], WorksOn(c), store' = store
      PROVE  store' = store /\ \A d \in Clerks : WorksOn(d)
  BY <1>2, <1>3
<1>4. ASSUME NEW c \in Clerks, QueryReturns(c) PROVE store' = store /\ \A d \in Clerks : WorksOn(d)
  <2>1. PICK n \in {num, 0} : Enter(c, n)
    BY <1>4 DEF QueryReturns
  <2> DEFINE p == IF /\ Configs[n].Shards[key2shard(Op(c).key)] \in DOMAIN Configs[n].Groups
                     /\ Configs[n].Groups[Configs[n].Shards[key2shard(Op(c).key)]] # <<>>
                    THEN "call" ELSE "query"
  <2>2. p \in {"call", "query"} /\ clerk' = [clerk EXCEPT ![c].config = n, ![c].si = 1, ![c].pc = p]
    BY <2>1 DEF Enter
  <2> HIDE DEF p
  <2>3. /\ \A d \in Clerks \ {c} : clerk'[d] = clerk[d]
        /\ clerk'[c].seq = clerk[c].seq /\ clerk'[c].clock = clerk[c].clock
        /\ clerk'[c].ts = clerk[c].ts /\ clerk'[c].floor = clerk[c].floor
        /\ clerk'[c].pc = p
    BY <1>1, <2>2 DEF ClerkRecord
  <2>4. WorksOn(c)
    BY <1>4, <2>2, <2>3 DEF WorksOn, Succeeds, QueryReturns
  <2> QED
    BY <1>3, <1>4, <2>3, <2>4 DEF QueryReturns, groupVars
<1>5. ASSUME NEW c \in Clerks, CallReturns(c)
      PROVE  Ends(c) \/ (store' = store /\ \A d \in Clerks : WorksOn(d))
  <2>1. ASSUME NEW p \in {"query", "call"}, NEW i,
               clerk' = [clerk EXCEPT ![c].pc = p, ![c].si = i, ![c].reply = Failed]
        PROVE  store' = store /\ \A d \in Clerks : WorksOn(d)
    <3>1. /\ \A d \in Clerks \ {c} : clerk'[d] = clerk[d]
          /\ clerk'[c].seq = clerk[c].seq /\ clerk'[c].clock = clerk[c].clock
          /\ clerk'[c].ts = clerk[c].ts /\ clerk'[c].floor = clerk[c].floor
          /\ clerk'[c].pc = p
      BY <1>1, <2>1 DEF ClerkRecord
    <3>2. WorksOn(c)
      BY <1>5, <3>1 DEF WorksOn, Succeeds, CallReturns
    <3> QED
      BY <1>3, <1>5, <3>1, <3>2 DEF CallReturns, groupVars
  <2>2. CASE /\ clerk[c].reply.ok /\ clerk[c].reply.err \in Success(Op(c).op)
             /\ clerk' = [clerk EXCEPT ![c].pc = "idle", ![c].seq = @ + 1]
    BY <1>5, <2>2 DEF Ends, Succeeds, CallReturns
  <2>3. CASE clerk' = [clerk EXCEPT ![c].pc = "query", ![c].reply = Failed]
    <3>1. clerk' = [clerk EXCEPT ![c].pc = "query", ![c].si = clerk[c].si, ![c].reply = Failed]
      BY <1>1, <2>3 DEF ClerkRecord
    <3> QED
      BY <2>1, <3>1
  <2>4. CASE clerk' = [clerk EXCEPT ![c].pc = IF LastServer(c) THEN AfterLoop ELSE "call",
                                    ![c].si = IF LastServer(c) THEN @ ELSE @ + 1, ![c].reply = Failed]
    <3> DEFINE p == IF LastServer(c) THEN AfterLoop ELSE "call"
               i == IF LastServer(c) THEN clerk[c].si ELSE clerk[c].si + 1
    <3>1. p \in {"query", "call"}
      BY DEF AfterLoop
    <3>2. clerk' = [clerk EXCEPT ![c].pc = p, ![c].si = i, ![c].reply = Failed]
      BY <2>4
    <3> HIDE DEF p, i
    <3> QED
      BY <2>1, <3>1, <3>2
  <2> QED
    BY <1>5, <2>2, <2>3, <2>4 DEF CallReturns, Returned
<1>6. ASSUME NEW c \in Clerks, WrongGroup(c) \/ WrongLeader(c) \/ Timeout(c) \/ Lost(c)
      PROVE  store' = store /\ \A d \in Clerks : WorksOn(d)
  <2>1. PICK x \in {Failed, Refusal("ErrWrongGroup"), Refusal("ErrWrongLeader")} : Answer(c, x)
    BY <1>6 DEF WrongGroup, WrongLeader, Timeout, Lost
  <2>2. clerk[c].pc # "idle" /\ store' = store
    BY <1>6 DEF WrongGroup, WrongLeader, Timeout, Lost, groupVars
  <2>3. clerk'[c] = Hears(c, x) /\ \A d \in Clerks \ {c} : clerk'[d] = clerk[d]
    BY <1>1, <2>1 DEF Answer, Hears
  <2> QED
    BY <1>3, <2>2, <2>3, HearsFailure
<1>7. ASSUME NEW c \in Clerks, Submit(c) PROVE store' = store /\ \A d \in Clerks : WorksOn(d)
  <2>1. /\ store' = store /\ clerk[c].pc = "call"
        /\ \E i : clerk' = [clerk EXCEPT ![c].pc = "wait", ![c].index = i]
    BY <1>7 DEF Submit
  <2>2. /\ \A d \in Clerks \ {c} : clerk'[d] = clerk[d]
        /\ clerk'[c].seq = clerk[c].seq /\ clerk'[c].clock = clerk[c].clock
        /\ clerk'[c].ts = clerk[c].ts /\ clerk'[c].floor = clerk[c].floor
        /\ clerk'[c].pc = "wait"
    BY <1>1, <2>1 DEF ClerkRecord
  <2>3. WorksOn(c)
    BY <2>1, <2>2 DEF WorksOn, Succeeds
  <2> QED
    BY <1>3, <2>1, <2>2, <2>3
<1>8. ASSUME UNCHANGED <<store, clerk>> PROVE store' = store /\ \A d \in Clerks : WorksOn(d)
  BY <1>2, <1>8
<1>9. /\ \A g \in Gids : ChangeLeader(g) => UNCHANGED <<store, clerk>>
      /\ \A sh \in Shards : Release(sh) \/ Acquire(sh) => UNCHANGED <<store, clerk>>
      /\ NextConfig \/ UNCHANGED vars => UNCHANGED <<store, clerk>>
  BY DEF ChangeLeader, Release, Acquire, NextConfig, vars, groupVars
<1>10. \A c \in Clerks : Get(c) \/ PutAppend(c) => ~Finished(c) /\ Begin(c)
  BY DEF Get, PutAppend
<1> QED
  BY <1>4, <1>5, <1>6, <1>7, <1>8, <1>9, <1>10 DEF Next, ClerkNext, HandlerNext

\* What is in a log was there before or has just been submitted.
LEMMA LogStep ==
  ASSUME Typed, [Next]_vars, NEW g \in Gids
  PROVE  \A i \in DOMAIN rlog'[g] :
           \/ \E j \in DOMAIN rlog[g] : rlog'[g][i] = rlog[g][j]
           \/ \E c \in Clerks : Submit(c) /\ rlog'[g][i] = EntryOf(c)
<1>1. rlog \in [Gids -> Seq(Entry)] /\ rlog[g] \in Seq(Entry)
  BY DEF Typed, GroupsOK
<1>2. CASE rlog'[g] = rlog[g]
  BY <1>2
<1>3. CASE rlog[g] # <<>> /\ rlog'[g] = Tail(rlog[g])
  BY <1>3, NextEntry
<1>4. CASE \E k \in 0..Len(rlog[g]) : rlog'[g] = SubSeq(rlog[g], 1, k)
  <2>1. PICK k \in 0..Len(rlog[g]) : rlog'[g] = SubSeq(rlog[g], 1, k)
    BY <1>4
  <2>2. \A i \in DOMAIN rlog'[g] : i \in DOMAIN rlog[g] /\ rlog'[g][i] = rlog[g][i]
    BY <1>1, <2>1
  <2> QED
    BY <2>2
<1>5. ASSUME NEW c \in Clerks, Submit(c), rlog'[g] = Append(rlog[g], EntryOf(c))
      PROVE  \A i \in DOMAIN rlog'[g] : (\E j \in DOMAIN rlog[g] : rlog'[g][i] = rlog[g][j])
                                        \/ rlog'[g][i] = EntryOf(c)
  BY <1>1, <1>5
<1>6. ASSUME NEW c \in Clerks, Submit(c)
      PROVE  rlog'[g] = rlog[g] \/ rlog'[g] = Append(rlog[g], EntryOf(c))
  BY <1>1, <1>6 DEF Submit, EntryOf
<1>7. ASSUME NEW h \in Gids, Apply(h) PROVE rlog'[g] = rlog[g] \/ (rlog[g] # <<>> /\ rlog'[g] = Tail(rlog[g]))
  BY <1>1, <1>7 DEF Apply
<1>8. ASSUME NEW h \in Gids, ChangeLeader(h)
      PROVE  rlog'[g] = rlog[g] \/ \E k \in 0..Len(rlog[g]) : rlog'[g] = SubSeq(rlog[g], 1, k)
  BY <1>1, <1>8 DEF ChangeLeader
<1>9. /\ \A c \in Clerks : ClerkNext(c) \/ WrongGroup(c) \/ WrongLeader(c) \/ Timeout(c) \/ Lost(c) => rlog' = rlog
      /\ \A sh \in Shards : Release(sh) \/ Acquire(sh) => rlog' = rlog
      /\ NextConfig \/ UNCHANGED vars => rlog' = rlog
  BY DEF ClerkNext, Get, PutAppend, Begin, QueryReturns, CallReturns, WrongGroup, WrongLeader,
         Timeout, Lost, Release, Acquire, NextConfig, vars, groupVars
<1> QED
  BY <1>2, <1>3, <1>4, <1>5, <1>6, <1>7, <1>8, <1>9 DEF Next, HandlerNext

\* Applying: a clerk works on, or hears the outcome of its own operation.
LEMMA ApplyClerks ==
  ASSUME Typed, NEW g \in Gids, Apply(g), NEW c \in Clerks
  PROVE  \/ WorksOn(c)
         \/ /\ clerk[c].pc = "wait" /\ isOpMatched(c, Head(rlog[g])) /\ Serves(g, Head(rlog[g]).key)
            /\ store' = [store EXCEPT ![Head(rlog[g]).key] = ValueAfter(g)]
            /\ clerk'[c] = Hears(c, Outcome(g))
<1> DEFINE e == Head(rlog[g])
<1>1. CASE clerk'[c] = clerk[c]
  BY <1>1 DEF WorksOn, Succeeds, Op
<1>2. CASE clerk[c].pc = "wait" /\ clerk'[c] = Nearer(c)
  <2>1. /\ clerk'[c].seq = clerk[c].seq /\ clerk'[c].clock = clerk[c].clock
        /\ clerk'[c].ts = clerk[c].ts /\ clerk'[c].floor = clerk[c].floor
        /\ clerk'[c].pc = clerk[c].pc /\ clerk'[c].reply = clerk[c].reply
    BY <1>2, WaiterFields
  <2> QED
    BY <1>2, <2>1 DEF WorksOn, Succeeds
<1>3. ASSUME NEW x \in {Failed, Refusal("ErrWrongGroup"), Refusal("ErrWrongLeader")},
             clerk[c].pc = "wait", clerk'[c] = Hears(c, x)
      PROVE  WorksOn(c)
  BY <1>3, HearsFailure
<1> HIDE DEF e
<1>4. \/ /\ Serves(g, e.key) /\ store' = [store EXCEPT ![e.key] = ValueAfter(g)]
         /\ Received(g, e, Outcome(g))
      \/ Received(g, e, Refusal("ErrWrongGroup"))
  BY ApplyCases DEF e
<1>5. ASSUME NEW r, Received(g, e, r)
      PROVE  \/ clerk'[c] = clerk[c]
             \/ clerk[c].pc = "wait" /\ clerk'[c] = Nearer(c)
             \/ clerk[c].pc = "wait" /\ isOpMatched(c, e) /\ clerk'[c] = Hears(c, r)
             \/ clerk[c].pc = "wait" /\ clerk'[c] = Hears(c, Refusal("ErrWrongLeader"))
  BY <1>5, ReceivedCases
<1>6. CASE Received(g, e, Refusal("ErrWrongGroup"))
  BY <1>1, <1>2, <1>3, <1>5, <1>6
<1>7. CASE /\ Serves(g, e.key) /\ store' = [store EXCEPT ![e.key] = ValueAfter(g)]
           /\ Received(g, e, Outcome(g))
  <2>1. \/ WorksOn(c)
        \/ clerk[c].pc = "wait" /\ isOpMatched(c, e) /\ clerk'[c] = Hears(c, Outcome(g))
    <3>1. \/ clerk'[c] = clerk[c]
          \/ clerk[c].pc = "wait" /\ clerk'[c] = Nearer(c)
          \/ clerk[c].pc = "wait" /\ isOpMatched(c, e) /\ clerk'[c] = Hears(c, Outcome(g))
          \/ clerk[c].pc = "wait" /\ clerk'[c] = Hears(c, Refusal("ErrWrongLeader"))
      BY <1>5, <1>7
    <3>2. clerk[c].pc = "wait" /\ clerk'[c] = Hears(c, Refusal("ErrWrongLeader")) => WorksOn(c)
      BY <1>3
    <3> QED
      BY <1>1, <1>2, <3>1, <3>2 DEF e
  <2> QED
    BY <1>7, <2>1 DEF e
<1> QED
  BY <1>4, <1>6, <1>7

\* An operation begins.
LEMMA BeginFields ==
  ASSUME Typed, NEW c \in Clerks, Begin(c)
  PROVE  /\ clerk[c].pc = "idle" /\ clerk'[c].pc = "query" /\ clerk'[c].seq = clerk[c].seq
         /\ clerk'[c].clock = clerk[c].clock + 1 /\ clerk'[c].ts = clerk[c].clock + 1
         /\ clerk'[c].floor = Acked(Op(c).key)
         /\ \A d \in Clerks \ {c} : clerk'[d] = clerk[d]
         /\ UNCHANGED <<num, groupVars, faults>>
<1>1. clerk \in [Clerks -> ClerkRecord]
  BY DEF Typed, ClerksOK
<1> QED
  BY <1>1 DEF Begin, ClerkRecord

\* An operation ends.
LEMMA EndFields ==
  ASSUME Typed, NEW c \in Clerks, Ends(c)
  PROVE  /\ clerk[c].pc = "reply" /\ clerk'[c].pc = "idle" /\ clerk'[c].seq = clerk[c].seq + 1
         /\ clerk'[c].clock = clerk[c].clock /\ clerk'[c].ts = clerk[c].ts
         /\ clerk'[c].floor = clerk[c].floor /\ clerk'[c].reply = clerk[c].reply
         /\ \A d \in Clerks \ {c} : clerk'[d] = clerk[d]
         /\ UNCHANGED <<num, groupVars, faults>>
<1>1. clerk \in [Clerks -> ClerkRecord]
  BY DEF Typed, ClerksOK
<1> QED
  BY <1>1 DEF Ends, Succeeds, ClerkRecord

\* Clerk c is as far in its script as it was, and has begun as much.
SameOp(c) ==
  /\ clerk'[c].pc = "idle" <=> clerk[c].pc = "idle"
  /\ clerk'[c].seq = clerk[c].seq /\ clerk'[c].clock = clerk[c].clock
  /\ clerk'[c].ts = clerk[c].ts /\ clerk'[c].floor = clerk[c].floor

\* So it is unless an operation begins or ends.
LEMMA OpStep ==
  ASSUME Typed, Stamped, [Next]_vars, NEW c \in Clerks
  PROVE  SameOp(c) \/ (~Finished(c) /\ Begin(c)) \/ Ends(c)
<1>1. WorksOn(c) \/ clerk'[c] = clerk[c] => SameOp(c)
  BY DEF WorksOn, SameOp
<1>2. ASSUME NEW g \in Gids, Apply(g) PROVE SameOp(c)
  <2>1. rlog[g] # <<>>
    BY <1>2 DEF Apply
  <2>2. Outcome(g) \in Reply
    BY <2>1, OutcomeTyped
  <2>3. ASSUME clerk[c].pc = "wait", clerk'[c] = Hears(c, Outcome(g)) PROVE SameOp(c)
    BY <2>2, <2>3, WaiterFields DEF SameOp
  <2> QED
    BY <1>1, <1>2, <2>3, ApplyClerks
<1>3. ASSUME NEW d \in Clerks, d # c, Begin(d) \/ Ends(d) PROVE clerk'[c] = clerk[c]
  BY <1>3, BeginFields, EndFields
<1> QED
  BY <1>1, <1>2, <1>3, ClerksStep

\* Clerks stamp their operations one after the other, and log no others.
LEMMA StampedStep ==
  ASSUME Typed, Stamped, [Next]_vars
  PROVE  Stamped'
<1>1. \A c \in Clerks : /\ clerk[c].seq \in Nat /\ clerk[c].ts \in Nat /\ clerk[c].clock \in Nat
                        /\ clerk[c].seq > 0 /\ ClerkStamped(c)
  <2>1. \A c \in Clerks : clerk[c] \in ClerkRecord /\ clerk[c].seq \in 1..Len(Script[c]) + 1 /\ ClerkStamped(c)
    BY DEF Typed, ClerksOK, ClerkOK, Stamped
  <2>2. \A c \in Clerks : Len(Script[c]) \in Nat
    BY ShardKVClerkAssumption
  <2> QED
    BY <2>1, <2>2 DEF ClerkRecord
<1>2. ASSUME NEW c \in Clerks PROVE ClerkStamped(c)' /\ clerk'[c].ts >= clerk[c].ts
  <2>1. CASE SameOp(c)
    BY <1>1, <2>1 DEF SameOp, ClerkStamped
  <2>2. CASE Begin(c)
    BY <1>1, <2>2, BeginFields DEF ClerkStamped
  <2>3. CASE Ends(c)
    BY <1>1, <2>3, EndFields DEF ClerkStamped
  <2> QED
    BY <2>1, <2>2, <2>3, OpStep
<1>3. ASSUME NEW g \in Gids, NEW i \in DOMAIN rlog'[g] PROVE Logged(rlog[g][i])'
  <2> DEFINE e == rlog'[g][i]
  <2>1. ASSUME NEW x \in Entry, Logged(x) PROVE Logged(x)'
    <3>1. x.client \in Clerks /\ x.seq \in Nat /\ clerk'[x.client].ts >= clerk[x.client].ts
      BY <1>2, <2>1 DEF Entry
    <3>2. clerk[x.client].ts \in Nat /\ clerk'[x.client].ts \in Nat
      <4>1. clerk'[x.client] \in ClerkRecord
        BY <3>1, TypedStep DEF Typed, ClerksOK
      <4> QED
        BY <1>1, <3>1, <4>1 DEF ClerkRecord
    <3> QED
      BY <2>1, <3>1, <3>2 DEF Logged
  <2>2. CASE \E j \in DOMAIN rlog[g] : e = rlog[g][j]
    <3>1. PICK j \in DOMAIN rlog[g] : e = rlog[g][j]
      BY <2>2
    <3>2. e \in Entry /\ Logged(e)
      BY <3>1, Members DEF Stamped, Typed, GroupsOK
    <3> QED
      BY <2>1, <3>2 DEF Logged
  <2>3. CASE \E c \in Clerks : Submit(c) /\ e = EntryOf(c)
    <3>1. PICK c \in Clerks : Submit(c) /\ e = EntryOf(c)
      BY <2>3
    <3>2. clerk[c].pc = "call"
      BY <3>1 DEF Submit
    <3>3. clerk[c].seq <= Len(Script[c])
      BY <3>2 DEF Typed, ClerksOK, ClerkOK, InScript
    <3>4. EntryOf(c) \in Entry
      BY <1>1, <3>3, CurrentTyped DEF EntryOf, Entry
    <3>5. Logged(EntryOf(c))
      BY <1>1, <3>2 DEF EntryOf, Logged, ClerkStamped, Op
    <3> QED
      BY <2>1, <3>1, <3>4, <3>5 DEF Logged
  <2> QED
    BY <2>2, <2>3, LogStep
<1> QED
  BY <1>2, <1>3 DEF Stamped

-----------------------------------------------------------------------------
(* Acknowledged updates and the store                                      *)

\* Numbers of operations.
LEMMA ClerkNumbers ==
  ASSUME Typed, NEW c \in Clerks
  PROVE  /\ clerk[c].seq \in Nat /\ clerk[c].ts \in Nat /\ clerk[c].clock \in Nat
         /\ clerk[c].seq > 0 /\ clerk[c].seq <= Len(Script[c]) + 1 /\ Len(Script[c]) \in Nat
<1>1. clerk[c] \in ClerkRecord /\ clerk[c].seq \in 1..Len(Script[c]) + 1
  BY DEF Typed, ClerksOK, ClerkOK
<1>2. Len(Script[c]) \in Nat
  BY ShardKVClerkAssumption
<1> QED
  BY <1>1, <1>2 DEF ClerkRecord

\* What has been acknowledged, before and after a step.
LEMMA AckedIff ==
  ASSUME NEW k
  PROVE  /\ \A u : u \in Acked(k) <=>
              \E c \in Clerks : \E n \in 1..Len(Script[c]) :
                u = <<c, n>> /\ n < clerk[c].seq /\ Script[c][n].op # "Get" /\ Script[c][n].key = k
         /\ \A u : u \in Acked(k)' <=>
              \E c \in Clerks : \E n \in 1..Len(Script[c]) :
                u = <<c, n>> /\ n < clerk'[c].seq /\ Script[c][n].op # "Get" /\ Script[c][n].key = k
<1> DEFINE U == UNION {{c} \X (1..Len(Script[c])) : c \in Clerks}
<1>1. \A u : u \in U <=> \E c \in Clerks : \E n \in 1..Len(Script[c]) : u = <<c, n>>
  OBVIOUS
<1>2. /\ Acked(k) = {u \in U : u[2] < clerk[u[1]].seq /\ Script[u[1]][u[2]].op # "Get" /\ Script[u[1]][u[2]].key = k}
      /\ Acked(k)' = {u \in U : u[2] < clerk'[u[1]].seq /\ Script[u[1]][u[2]].op # "Get" /\ Script[u[1]][u[2]].key = k}
  BY DEF Acked
<1> HIDE DEF U
<1> QED
  BY <1>1, <1>2

\* An update is acknowledged when its operation ends, and for good.
LEMMA AckedStep ==
  ASSUME Typed, Stamped, [Next]_vars, NEW k
  PROVE  /\ Acked(k) \subseteq Acked(k)'
         /\ \A u \in Acked(k)' :
              \/ u \in Acked(k)
              \/ \E c \in Clerks : /\ Ends(c) /\ u = <<c, clerk[c].seq>>
                                   /\ Op(c).op # "Get" /\ Op(c).key = k
<1>1. \A c \in Clerks : /\ clerk[c].seq \in Nat
                        /\ clerk'[c].seq = clerk[c].seq \/ (Ends(c) /\ clerk'[c].seq = clerk[c].seq + 1)
  BY OpStep, ClerkNumbers, BeginFields, EndFields DEF SameOp
<1>2. Acked(k) \subseteq Acked(k)'
  <2>1. ASSUME NEW c \in Clerks, NEW n \in 1..Len(Script[c]), n < clerk[c].seq PROVE n < clerk'[c].seq
    <3>1. n \in Nat
      BY ShardKVClerkAssumption
    <3> QED
      BY <1>1, <2>1, <3>1
  <2> QED
    BY <2>1, AckedIff
<1>3. ASSUME NEW u \in Acked(k)'
      PROVE  \/ u \in Acked(k)
             \/ \E c \in Clerks : Ends(c) /\ u = <<c, clerk[c].seq>> /\ Op(c).op # "Get" /\ Op(c).key = k
  <2>1. PICK c \in Clerks : \E n \in 1..Len(Script[c]) :
               u = <<c, n>> /\ n < clerk'[c].seq /\ Script[c][n].op # "Get" /\ Script[c][n].key = k
    BY AckedIff
  <2>2. PICK n \in 1..Len(Script[c]) :
               u = <<c, n>> /\ n < clerk'[c].seq /\ Script[c][n].op # "Get" /\ Script[c][n].key = k
    BY <2>1
  <2>3. n \in Nat
    BY ShardKVClerkAssumption
  <2>4. n < clerk[c].seq \/ (Ends(c) /\ n = clerk[c].seq)
    BY <1>1, <2>2, <2>3
  <2>5. CASE n < clerk[c].seq
    BY <2>2, <2>5, AckedIff
  <2>6. CASE Ends(c) /\ n = clerk[c].seq
    BY <2>2, <2>6 DEF Op
  <2> QED
    BY <2>4, <2>5, <2>6
<1> QED
  BY <1>2, <1>3

\* A longer sequence.
LEMMA Appended ==
  ASSUME NEW S, NEW q \in Seq(S), NEW x \in S
  PROVE  /\ Len(q) \in Nat /\ DOMAIN q = 1..Len(q) /\ DOMAIN Append(q, x) = 1..Len(q) + 1
         /\ \A i \in DOMAIN q : i \in DOMAIN Append(q, x) /\ Append(q, x)[i] = q[i]
         /\ Append(q, x)[Len(q) + 1] = x
         /\ \A i \in DOMAIN Append(q, x) : i \in DOMAIN q \/ i = Len(q) + 1
         /\ Range(q) \subseteq Range(Append(q, x)) /\ x \in Range(Append(q, x))
<1>1. /\ Len(q) \in Nat /\ DOMAIN q = 1..Len(q) /\ DOMAIN Append(q, x) = 1..Len(q) + 1
      /\ \A i \in DOMAIN q : Append(q, x)[i] = q[i]
      /\ Append(q, x)[Len(q) + 1] = x
  OBVIOUS
<1>2. /\ \A i \in DOMAIN q : i \in DOMAIN Append(q, x)
      /\ Len(q) + 1 \in DOMAIN Append(q, x)
      /\ \A i \in DOMAIN Append(q, x) : i \in DOMAIN q \/ i = Len(q) + 1
  BY <1>1
<1> QED
  BY <1>1, <1>2 DEF Range

\* The entry that g applies next.
Applied(g) == Head(rlog[g])

\* What applying it does: nothing, or it is new to the group that has its shard.
LEMMA ApplyEffect ==
  ASSUME Typed, Stamped, NEW g \in Gids, Apply(g)
  PROVE  /\ Applied(g) \in Entry /\ Logged(Applied(g)) /\ owner' = owner
         /\ \/ UNCHANGED <<store, ack>>
            \/ /\ owner[key2shard(Applied(g).key)].gid = g
               /\ Applied(g).ts > ack[g][Applied(g).client]
               /\ ack' = [ack EXCEPT ![g] = [ack[g] EXCEPT ![Applied(g).client] = Applied(g).ts]]
               /\ store' = IF Applied(g).op = "Get" THEN store
                           ELSE [store EXCEPT ![Applied(g).key] = Append(@, <<Applied(g).client, Applied(g).seq>>)]
<1> DEFINE e == Applied(g)
<1>1. rlog[g] # <<>> /\ owner' = owner
  BY ApplyCases
<1>2. e \in Entry /\ Logged(e)
  BY <1>1, NextEntry DEF Applied, Stamped
<1>3. /\ e.key \in Keys /\ e.client \in Clerks
      /\ store \in [Keys -> Seq(Updates)] /\ ack \in [Gids -> [Clerks -> Nat]]
  BY <1>2 DEF Entry, Typed, GroupsOK
<1>4. ValueAfter(g) = IF e.ts > ack[g][e.client] /\ e.op # "Get"
                        THEN Append(store[e.key], <<e.client, e.seq>>) ELSE store[e.key]
  BY DEF ValueAfter, Applied
<1>5. \/ UNCHANGED <<store, ack>>
      \/ /\ Serves(g, e.key) /\ store' = [store EXCEPT ![e.key] = ValueAfter(g)]
         /\ ack' = IF e.ts > ack[g][e.client] THEN [ack EXCEPT ![g][e.client] = e.ts] ELSE ack
  BY ApplyCases DEF Applied
<1> HIDE DEF e
<1>6. CASE /\ Serves(g, e.key) /\ store' = [store EXCEPT ![e.key] = ValueAfter(g)]
           /\ ack' = IF e.ts > ack[g][e.client] THEN [ack EXCEPT ![g][e.client] = e.ts] ELSE ack
  <2>1. owner[key2shard(e.key)].gid = g
    BY <1>6 DEF Serves
  <2>2. CASE ~(e.ts > ack[g][e.client])
    BY <1>1, <1>2, <1>3, <1>4, <1>6, <2>2 DEF e
  <2>3. CASE e.ts > ack[g][e.client]
    <3>1. ack' = [ack EXCEPT ![g] = [ack[g] EXCEPT ![e.client] = e.ts]]
      BY <1>3, <1>6, <2>3
    <3>2. store' = IF e.op = "Get" THEN store ELSE [store EXCEPT ![e.key] = Append(@, <<e.client, e.seq>>)]
      BY <1>3, <1>4, <1>6, <2>3
    <3> QED
      BY <1>1, <1>2, <2>1, <2>3, <3>1, <3>2 DEF e
  <2> QED
    BY <2>2, <2>3
<1> QED
  BY <1>1, <1>2, <1>5, <1>6 DEF e

\* Steps that touch the store, the acknowledgements or the owners of shards.
LEMMA GroupStep ==
  ASSUME Typed, [Next]_vars
  PROVE  \/ \E g \in Gids : Apply(g)
         \/ \E sh \in Shards : Acquire(sh)
         \/ UNCHANGED <<store, ack>> /\ \A sh \in Shards : owner'[sh].gid = owner[sh].gid
<1>1. owner \in [Shards -> [gid : Gids \cup {0}, serving : BOOLEAN]]
  BY DEF Typed, GroupsOK
<1>2. ASSUME NEW sh \in Shards, Release(sh)
      PROVE  UNCHANGED <<store, ack>> /\ \A s \in Shards : owner'[s].gid = owner[s].gid
  BY <1>1, <1>2 DEF Release
<1>3. /\ \A c \in Clerks : ClerkNext(c) \/ HandlerNext(c) \/ Lost(c) => UNCHANGED <<store, ack, owner>>
      /\ \A g \in Gids : ChangeLeader(g) => UNCHANGED <<store, ack, owner>>
      /\ NextConfig \/ UNCHANGED vars => UNCHANGED <<store, ack, owner>>
  BY DEF ClerkNext, Get, PutAppend, Begin, QueryReturns, CallReturns, HandlerNext, WrongGroup, WrongLeader,
         Submit, Timeout, Lost, ChangeLeader, NextConfig, vars, groupVars
<1> QED
  BY <1>2, <1>3 DEF Next

\* The store and the acknowledgements only grow.
LEMMA Monotone ==
  ASSUME Typed, Stamped, [Next]_vars
  PROVE  /\ \A g \in Gids, c \in Clerks : ack'[g][c] >= ack[g][c] /\ ack[g][c] \in Nat /\ ack'[g][c] \in Nat
         /\ \A k \in Keys : Range(store[k]) \subseteq Range(store'[k])
         /\ \A c \in Clerks : clerk'[c].ts >= clerk[c].ts /\ clerk[c].ts \in Nat /\ clerk'[c].ts \in Nat
<1>1. /\ ack \in [Gids -> [Clerks -> Nat]] /\ ack' \in [Gids -> [Clerks -> Nat]]
      /\ store \in [Keys -> Seq(Updates)]
  BY TypedStep DEF Typed, GroupsOK
<1>2. \A g \in Gids, c \in Clerks : ack[g][c] \in Nat /\ ack'[g][c] \in Nat
  BY <1>1
<1>3. ASSUME NEW g \in Gids, Apply(g)
      PROVE  /\ \A h \in Gids, c \in Clerks : ack'[h][c] >= ack[h][c]
             /\ \A k \in Keys : Range(store[k]) \subseteq Range(store'[k])
  <2> DEFINE e == Applied(g)
  <2>1. e \in Entry /\ Logged(e)
    BY <1>3, ApplyEffect
  <2>2. e.key \in Keys /\ e.client \in Clerks /\ e.ts \in Nat /\ <<e.client, e.seq>> \in Updates
    BY <2>1 DEF Entry, Logged, Updates
  <2>3. CASE UNCHANGED <<store, ack>>
    BY <1>2, <2>3
  <2>4. CASE /\ e.ts > ack[g][e.client]
             /\ ack' = [ack EXCEPT ![g] = [ack[g] EXCEPT ![e.client] = e.ts]]
             /\ store' = IF e.op = "Get" THEN store
                         ELSE [store EXCEPT ![e.key] = Append(@, <<e.client, e.seq>>)]
    <3> HIDE DEF e
    <3>1. \A h \in Gids, c \in Clerks : ack'[h][c] = ack[h][c] \/ (h = g /\ c = e.client /\ ack'[h][c] = e.ts)
      BY <1>1, <2>2, <2>4
    <3>2. \A h \in Gids, c \in Clerks : ack'[h][c] >= ack[h][c]
      BY <1>2, <2>2, <2>4, <3>1
    <3>3. Range(store[e.key]) \subseteq Range(Append(store[e.key], <<e.client, e.seq>>))
      BY <1>1, <2>2, Appended
    <3>4. \A k \in Keys : store'[k] = store[k] \/ (k = e.key /\ store'[k] = Append(store[k], <<e.client, e.seq>>))
      BY <1>1, <2>2, <2>4
    <3> QED
      BY <3>2, <3>3, <3>4
  <2> QED
    BY <1>3, <2>3, <2>4, ApplyEffect
<1>4. ASSUME NEW sh \in Shards, Acquire(sh)
      PROVE  store' = store /\ \A h \in Gids, c \in Clerks : ack'[h][c] >= ack[h][c]
  BY <1>4, AcquireTyped DEF Acquire
<1>5. ASSUME UNCHANGED <<store, ack>>
      PROVE  store' = store /\ \A h \in Gids, c \in Clerks : ack'[h][c] >= ack[h][c]
  BY <1>2, <1>5
<1>6. /\ \A g \in Gids, c \in Clerks : ack'[g][c] >= ack[g][c]
      /\ \A k \in Keys : Range(store[k]) \subseteq Range(store'[k])
  BY <1>3, <1>4, <1>5, GroupStep
<1>7. ASSUME NEW c \in Clerks
      PROVE  clerk'[c].ts >= clerk[c].ts /\ clerk[c].ts \in Nat /\ clerk'[c].ts \in Nat
  <2>1. clerk[c].ts \in Nat /\ clerk[c].clock = clerk[c].ts
    BY ClerkNumbers DEF Stamped, ClerkStamped
  <2>2. clerk'[c].ts \in {clerk[c].ts, clerk[c].ts + 1}
    BY <2>1, OpStep, BeginFields, EndFields DEF SameOp
  <2> QED
    BY <2>1, <2>2
<1> QED
  BY <1>2, <1>6, <1>7

\* A group that applies or fetches acknowledges no more than was begun.
LEMMA AckBelowStep ==
  ASSUME Typed, Stamped, AckBelow, [Next]_vars
  PROVE  AckBelow' /\ \A g \in Gids, c \in Clerks : ack'[g][c] <= clerk[c].ts
<1>1. ASSUME NEW g \in Gids, NEW c \in Clerks, ack'[g][c] <= clerk[c].ts PROVE ack'[g][c] <= clerk'[c].ts
  BY <1>1, Monotone
<1>2. ASSUME NEW h \in Gids, Apply(h) PROVE \A g \in Gids, c \in Clerks : ack'[g][c] <= clerk[c].ts
  <2> DEFINE e == Applied(h)
  <2>1. e \in Entry /\ Logged(e)
    BY <1>2, ApplyEffect
  <2>2. e.client \in Clerks /\ e.ts <= clerk[e.client].ts
    BY <2>1 DEF Entry, Logged
  <2>3. CASE UNCHANGED <<store, ack>>
    BY <2>3 DEF AckBelow
  <2>4. CASE ack' = [ack EXCEPT ![h] = [ack[h] EXCEPT ![e.client] = e.ts]]
    <3> HIDE DEF e
    <3>1. ack \in [Gids -> [Clerks -> Nat]]
      BY DEF Typed, GroupsOK
    <3>2. \A g \in Gids, c \in Clerks : ack'[g][c] = ack[g][c] \/ (c = e.client /\ ack'[g][c] = e.ts)
      BY <2>2, <2>4, <3>1
    <3> QED
      BY <2>2, <3>2 DEF AckBelow
  <2> QED
    BY <1>2, <2>3, <2>4, ApplyEffect
<1>3. ASSUME NEW sh \in Shards, Acquire(sh) PROVE \A g \in Gids, c \in Clerks : ack'[g][c] <= clerk[c].ts
  BY <1>3, AcquireTyped DEF AckBelow
<1>4. ASSUME ack' = ack PROVE \A g \in Gids, c \in Clerks : ack'[g][c] <= clerk[c].ts
  BY <1>4 DEF AckBelow
<1>5. \A g \in Gids, c \in Clerks : ack'[g][c] <= clerk[c].ts
  BY <1>2, <1>3, <1>4, GroupStep
<1> QED
  BY <1>1, <1>5 DEF AckBelow

\* What an entry of the store is.
LEMMA StoreTyped ==
  ASSUME Typed, NEW k \in Keys
  PROVE  /\ store[k] \in Seq(Updates) /\ key2shard(k) \in Shards
         /\ \A i \in DOMAIN store[k] : /\ store[k][i][1] \in Clerks /\ store[k][i][2] \in Nat
                                       /\ store[k][i] = <<store[k][i][1], store[k][i][2]>>
<1>1. store[k] \in Seq(Updates)
  BY DEF Typed, GroupsOK
<1>2. \A i \in DOMAIN store[k] : store[k][i] \in Updates
  BY <1>1, Members
<1> QED
  BY <1>1, <1>2 DEF Updates, Shards

\* The shard of a key is handed on with the acknowledgement of all its updates.
LEMMA StoreBelowStep ==
  ASSUME Typed, Stamped, StoreBelow, [Next]_vars
  PROVE  StoreBelow'
<1>1. ASSUME NEW k \in Keys, NEW i \in DOMAIN store'[k], store'[k] = store[k],
             owner'[key2shard(k)].gid = owner[key2shard(k)].gid
      PROVE  /\ owner'[key2shard(k)].gid \in Gids
             /\ store'[k][i][2] <= ack'[owner'[key2shard(k)].gid][store'[k][i][1]]
  <2> DEFINE g == owner[key2shard(k)].gid
             u == store[k][i]
  <2>1. i \in DOMAIN store[k] /\ u[1] \in Clerks /\ u[2] \in Nat
    BY <1>1, StoreTyped
  <2>2. g \in Gids /\ u[2] <= ack[g][u[1]]
    BY <2>1 DEF StoreBelow
  <2>3. ack'[g][u[1]] >= ack[g][u[1]] /\ ack[g][u[1]] \in Nat /\ ack'[g][u[1]] \in Nat
    BY <2>1, <2>2, Monotone
  <2>4. u[2] <= ack'[g][u[1]]
    <3> HIDE DEF u, g
    <3> QED
      BY <2>1, <2>2, <2>3
  <2> QED
    BY <1>1, <2>2, <2>4
<1>2. ASSUME NEW h \in Gids, Apply(h), NEW k \in Keys, NEW i \in DOMAIN store'[k]
      PROVE  /\ owner'[key2shard(k)].gid \in Gids
             /\ store'[k][i][2] <= ack'[owner'[key2shard(k)].gid][store'[k][i][1]]
  <2> DEFINE e == Applied(h)
  <2>1. e \in Entry /\ Logged(e) /\ owner' = owner
    BY <1>2, ApplyEffect
  <2>2. e.key \in Keys /\ e.client \in Clerks /\ e.seq \in Nat /\ e.ts = e.seq /\ <<e.client, e.seq>> \in Updates
    BY <2>1 DEF Entry, Logged, Updates
  <2>3. CASE store'[k] = store[k]
    BY <1>1, <1>2, <2>1, <2>3
  <2>4. CASE /\ owner[key2shard(e.key)].gid = h
             /\ ack' = [ack EXCEPT ![h] = [ack[h] EXCEPT ![e.client] = e.ts]]
             /\ store' = [store EXCEPT ![e.key] = Append(@, <<e.client, e.seq>>)]
             /\ k = e.key
    <3> HIDE DEF e
    <3>1. store \in [Keys -> Seq(Updates)] /\ ack \in [Gids -> [Clerks -> Nat]]
      BY DEF Typed, GroupsOK
    <3>2. store'[k] = Append(store[k], <<e.client, e.seq>>) /\ ack'[h][e.client] = e.seq
      BY <1>2, <2>2, <2>4, <3>1
    <3>3. i \in DOMAIN store[k] \/ i = Len(store[k]) + 1
      BY <1>2, <2>2, <3>1, <3>2, Appended
    <3>4. CASE i \in DOMAIN store[k]
      <4>1. store'[k][i] = store[k][i]
        BY <2>2, <3>1, <3>2, <3>4, Appended
      <4>2. /\ store[k][i][1] \in Clerks /\ store[k][i][2] \in Nat
            /\ store[k][i][2] <= ack[h][store[k][i][1]]
        BY <2>4, <3>4, StoreTyped DEF StoreBelow
      <4>3. /\ ack'[h][store[k][i][1]] >= ack[h][store[k][i][1]]
            /\ ack[h][store[k][i][1]] \in Nat /\ ack'[h][store[k][i][1]] \in Nat
        BY <1>2, <4>2, Monotone
      <4>4. store[k][i][2] <= ack'[h][store[k][i][1]]
        BY <4>2, <4>3
      <4> QED
        BY <1>2, <2>1, <2>4, <4>1, <4>4
    <3>5. CASE i = Len(store[k]) + 1
      <4>1. store'[k][i] = <<e.client, e.seq>>
        BY <2>2, <3>1, <3>2, <3>5, Appended
      <4> QED
        BY <1>2, <2>1, <2>2, <2>4, <3>2, <4>1
    <3> QED
      BY <3>3, <3>4, <3>5
  <2>5. store \in [Keys -> Seq(Updates)]
    BY DEF Typed, GroupsOK
  <2> QED
    BY <1>2, <2>2, <2>3, <2>4, <2>5, ApplyEffect
<1>3. ASSUME NEW sh \in Shards, Acquire(sh), NEW k \in Keys, NEW i \in DOMAIN store'[k]
      PROVE  /\ owner'[key2shard(k)].gid \in Gids
             /\ store'[k][i][2] <= ack'[owner'[key2shard(k)].gid][store'[k][i][1]]
  <2>1. store' = store /\ owner' = [owner EXCEPT ![sh] = [gid |-> Target(sh), serving |-> TRUE]]
    BY <1>3 DEF Acquire
  <2>2. owner \in [Shards -> [gid : Gids \cup {0}, serving : BOOLEAN]]
    BY DEF Typed, GroupsOK
  <2>3. CASE key2shard(k) # sh
    BY <1>1, <1>3, <2>1, <2>2, <2>3, StoreTyped
  <2>4. CASE key2shard(k) = sh
    <3> DEFINE u == store[k][i]
    <3>1. i \in DOMAIN store[k] /\ u[1] \in Clerks /\ u[2] \in Nat
      BY <1>3, <2>1, StoreTyped
    <3>2. owner[sh].gid \in Gids /\ u[2] <= ack[owner[sh].gid][u[1]]
      BY <2>4, <3>1 DEF StoreBelow
    <3>3. Target(sh) \in Gids /\ ack'[Target(sh)][u[1]] >= ack[owner[sh].gid][u[1]]
      BY <1>3, <3>1, <3>2, AcquireTyped
    <3>4. ack[owner[sh].gid][u[1]] \in Nat /\ ack'[Target(sh)][u[1]] \in Nat
      BY <3>1, <3>2, <3>3, Monotone
    <3>5. u[2] <= ack'[Target(sh)][u[1]]
      <4> HIDE DEF u
      <4> QED
        BY <3>1, <3>2, <3>3, <3>4
    <3>6. owner'[sh].gid = Target(sh)
      BY <2>1, <2>2
    <3> QED
      BY <2>1, <2>4, <3>3, <3>5, <3>6
  <2> QED
    BY <2>3, <2>4
<1> QED
  BY <1>1, <1>2, <1>3, GroupStep, StoreTyped DEF StoreBelow

\* A group acknowledges an update when it and those before it are stored.
LEMMA AckStoredStep ==
  ASSUME Typed, Stamped, AckBelow, AckStored, AckedIsStored, [Next]_vars
  PROVE  AckStored'
<1>1. ASSUME NEW c \in Clerks, NEW n \in 1..Len(Script[c])
      PROVE  Script[c][n].key \in Keys /\ n \in Nat
  <2>1. Script[c] \in Seq([op : Commands, key : Keys])
    BY ShardKVClerkAssumption
  <2>2. n \in DOMAIN Script[c] /\ n \in Nat
    BY <2>1
  <2>3. Script[c][n] \in [op : Commands, key : Keys]
    BY <2>1, <2>2, Members
  <2> QED
    BY <2>2, <2>3
<1>2. ASSUME NEW c \in Clerks, NEW n \in 1..Len(Script[c]), Script[c][n].op # "Get",
             <<c, n>> \in Range(store[Script[c][n].key])
      PROVE  <<c, n>> \in Range(store'[Script[c][n].key])
  BY <1>1, <1>2, Monotone
<1>3. ASSUME NEW g \in Gids, Apply(g), NEW h \in Gids, NEW c \in Clerks, NEW n \in 1 .. ack'[h][c],
             n \in 1..Len(Script[c]), Script[c][n].op # "Get"
      PROVE  <<c, n>> \in Range(store'[Script[c][n].key])
  <2> DEFINE e == Applied(g)
  <2>1. e \in Entry /\ Logged(e)
    BY <1>3, ApplyEffect
  <2>2. /\ e.key \in Keys /\ e.client \in Clerks /\ e.seq \in Nat /\ e.ts = e.seq
        /\ <<e.client, e.seq>> \in Updates /\ e.seq <= clerk[e.client].ts
        /\ e.op = Script[e.client][e.seq].op /\ e.key = Script[e.client][e.seq].key
    BY <2>1 DEF Entry, Logged, Updates
  <2>3. CASE ack'[h][c] = ack[h][c]
    BY <1>2, <1>3, <2>3 DEF AckStored
  <2>4. CASE h = g /\ c = e.client /\ ack'[h][c] = e.ts /\ n < e.seq
    <3> HIDE DEF e
    <3>1. n < clerk[c].seq
      <4>1. clerk[c].ts <= clerk[c].seq /\ clerk[c].ts \in Nat /\ clerk[c].seq \in Nat
        BY ClerkNumbers DEF Stamped, ClerkStamped
      <4> QED
        BY <1>1, <1>3, <2>2, <2>4, <4>1
    <3>2. <<c, n>> \in Acked(Script[c][n].key)
      BY <1>3, <3>1, AckedIff
    <3> QED
      BY <1>1, <1>2, <1>3, <3>2 DEF AckedIsStored
  <2>5. CASE /\ c = e.client /\ n = e.seq
             /\ store' = IF e.op = "Get" THEN store ELSE [store EXCEPT ![e.key] = Append(@, <<e.client, e.seq>>)]
    <3> HIDE DEF e
    <3>1. store \in [Keys -> Seq(Updates)]
      BY DEF Typed, GroupsOK
    <3>2. store'[e.key] = Append(store[e.key], <<e.client, e.seq>>)
      BY <1>3, <2>2, <2>5, <3>1
    <3>3. <<e.client, e.seq>> \in Range(store'[e.key])
      <4>1. store[e.key] \in Seq(Updates) /\ <<e.client, e.seq>> \in Updates
        BY <2>2, <3>1
      <4>2. <<e.client, e.seq>> \in Range(Append(store[e.key], <<e.client, e.seq>>))
        BY <4>1, Appended
      <4> QED
        BY <3>2, <4>2
    <3>4. Script[c][n].key = e.key /\ <<c, n>> = <<e.client, e.seq>>
      BY <2>2, <2>5
    <3> QED
      BY <3>3, <3>4
  <2>6. ack \in [Gids -> [Clerks -> Nat]]
    BY DEF Typed, GroupsOK
  <2>7. \/ ack'[h][c] = ack[h][c]
        \/ /\ h = g /\ c = e.client /\ ack'[h][c] = e.ts
           /\ store' = IF e.op = "Get" THEN store ELSE [store EXCEPT ![e.key] = Append(@, <<e.client, e.seq>>)]
    <3>1. CASE /\ ack' = [ack EXCEPT ![g] = [ack[g] EXCEPT ![e.client] = e.ts]]
               /\ store' = IF e.op = "Get" THEN store ELSE [store EXCEPT ![e.key] = Append(@, <<e.client, e.seq>>)]
      <4> HIDE DEF e
      <4>1. ack'[h][c] = ack[h][c] \/ (h = g /\ c = e.client /\ ack'[h][c] = e.ts)
        BY <1>3, <2>2, <2>6, <3>1
      <4> QED
        BY <3>1, <4>1
    <3> QED
      BY <1>3, <3>1, ApplyEffect
  <2>8. ack'[h][c] = e.ts => n < e.seq \/ n = e.seq
    BY <1>1, <1>3, <2>2
  <2> QED
    BY <2>3, <2>4, <2>5, <2>7, <2>8
<1>4. ASSUME NEW h \in Gids, NEW c \in Clerks, NEW n \in 1 .. ack'[h][c], n \in 1..Len(Script[c]),
             Script[c][n].op # "Get", \E g \in Gids : ack'[h][c] = ack[g][c]
      PROVE  <<c, n>> \in Range(store'[Script[c][n].key])
  BY <1>2, <1>4 DEF AckStored
<1>5. ASSUME NEW h \in Gids, NEW c \in Clerks, NEW n \in 1 .. ack'[h][c] PROVE n \in 1..Len(Script[c])
  <2>1. /\ clerk[c].ts \in Nat /\ clerk[c].seq \in Nat /\ Len(Script[c]) \in Nat
        /\ clerk[c].seq <= Len(Script[c]) + 1
    BY ClerkNumbers
  <2>2. clerk[c].pc # "idle" => clerk[c].seq <= Len(Script[c])
    BY DEF Typed, ClerksOK, ClerkOK, InScript
  <2>3. clerk[c].ts <= Len(Script[c])
    BY <2>1, <2>2 DEF Stamped, ClerkStamped
  <2>4. ack'[h][c] <= clerk[c].ts /\ ack'[h][c] \in Nat
    BY AckBelowStep, Monotone
  <2> QED
    BY <2>1, <2>3, <2>4
<1> QED
  BY <1>3, <1>4, <1>5, GroupStep, AcquireTyped DEF AckStored

\* An update is newer than all that its clerk has in the store.
LEMMA OrderStep ==
  ASSUME Typed, Stamped, StoreBelow, UpdatesOnceInOrder, [Next]_vars
  PROVE  UpdatesOnceInOrder'
<1>1. store \in [Keys -> Seq(Updates)]
  BY DEF Typed, GroupsOK
<1>2. ASSUME store' = store PROVE UpdatesOnceInOrder'
  BY <1>2 DEF UpdatesOnceInOrder
<1>3. ASSUME NEW g \in Gids, Apply(g) PROVE UpdatesOnceInOrder'
  <2> DEFINE e == Applied(g)
             x == <<e.client, e.seq>>
  <2>1. e \in Entry /\ Logged(e)
    BY <1>3, ApplyEffect
  <2>2. e.key \in Keys /\ e.client \in Clerks /\ e.seq \in Nat /\ e.ts = e.seq /\ x \in Updates
    BY <2>1 DEF Entry, Logged, Updates
  <2>3. CASE /\ owner[key2shard(e.key)].gid = g /\ e.ts > ack[g][e.client]
             /\ store' = [store EXCEPT ![e.key] = Append(@, x)]
    <3>1. x[1] = e.client /\ x[2] = e.seq
      OBVIOUS
    <3> DEFINE q == store[e.key]
    <3>2. q \in Seq(Updates) /\ store'[e.key] = Append(q, x) /\ \A k \in Keys : k # e.key => store'[k] = store[k]
      BY <1>1, <2>2, <2>3
    <3>3. ASSUME NEW i \in DOMAIN q, q[i][1] = e.client PROVE q[i][2] < e.seq
      <4>1. q[i][2] \in Nat /\ ack[g][e.client] \in Nat
        BY <1>3, <2>2, StoreTyped, Monotone
      <4>2. q[i][2] <= ack[g][e.client]
        BY <2>2, <2>3, <3>3 DEF StoreBelow
      <4> QED
        BY <2>2, <2>3, <4>1, <4>2
    <3>4. \A i, j \in DOMAIN q : i < j /\ q[i][1] = q[j][1] => q[i][2] < q[j][2]
      BY <2>2 DEF UpdatesOnceInOrder
    <3> HIDE DEF e, x, q
    <3> DEFINE p == Append(q, x)
    <3>5. /\ Len(q) \in Nat /\ DOMAIN q = 1..Len(q) /\ p[Len(q) + 1] = x
          /\ \A i \in DOMAIN q : p[i] = q[i]
          /\ \A i \in DOMAIN p : i \in DOMAIN q \/ i = Len(q) + 1
      BY <2>2, <3>2, Appended
    <3> HIDE DEF p
    <3>6. ASSUME NEW i \in DOMAIN p, NEW j \in DOMAIN p, i < j, p[i][1] = p[j][1] PROVE p[i][2] < p[j][2]
      <4>1. CASE j \in DOMAIN q
        <5>1. i \in DOMAIN q
          BY <3>5, <3>6, <4>1
        <5> QED
          BY <3>4, <3>5, <3>6, <4>1, <5>1
      <4>2. CASE j = Len(q) + 1
        <5>1. i \in DOMAIN q
          BY <3>5, <3>6, <4>2
        <5>2. p[i] = q[i] /\ p[j] = x
          BY <3>5, <4>2, <5>1
        <5> QED
          BY <3>1, <3>3, <3>6, <5>1, <5>2
      <4> QED
        BY <3>5, <4>1, <4>2
    <3>7. ASSUME NEW k \in Keys
          PROVE  \A i, j \in DOMAIN store'[k] :
                   i < j /\ store'[k][i][1] = store'[k][j][1] => store'[k][i][2] < store'[k][j][2]
      <4>1. CASE k = e.key
        BY <3>2, <3>6, <4>1 DEF p
      <4>2. CASE k # e.key
        BY <3>2, <4>2 DEF UpdatesOnceInOrder
      <4> QED
        BY <4>1, <4>2
    <3> QED
      BY <3>7 DEF UpdatesOnceInOrder
  <2> QED
    BY <1>2, <1>3, <2>3, ApplyEffect
<1>4. ASSUME NEW sh \in Shards, Acquire(sh) PROVE store' = store
  BY <1>4 DEF Acquire
<1> QED
  BY <1>2, <1>3, <1>4, GroupStep

\* An operation ends when its update is stored.
LEMMA AckedIsStoredStep ==
  ASSUME Typed, Stamped, AckedIsStored, \A c \in Clerks : ReplyRight(c), [Next]_vars
  PROVE  AckedIsStored'
<1> SUFFICES ASSUME NEW k \in Keys, NEW u \in Acked(k)' PROVE u \in Range(store[k])'
  BY DEF AckedIsStored
<1>1. u \in Range(store[k])
  <2>1. CASE u \in Acked(k)
    BY <2>1 DEF AckedIsStored
  <2>2. ASSUME NEW c \in Clerks, Ends(c), u = <<c, clerk[c].seq>>, Op(c).op # "Get", Op(c).key = k
        PROVE  u \in Range(store[k])
    BY <2>2 DEF Ends, ReplyRight
  <2> QED
    BY <2>1, <2>2, AckedStep
<1> QED
  BY <1>1, Monotone

\* The filter of duplicates stays right.
LEMMA FilteredStep ==
  ASSUME Typed, Stamped, Filtered, Answered, [Next]_vars
  PROVE  Filtered'
<1>1. AckBelow' /\ StoreBelow' /\ AckStored'
  BY AckBelowStep, StoreBelowStep, AckStoredStep DEF Filtered
<1>2. UpdatesOnceInOrder' /\ AckedIsStored'
  BY OrderStep, AckedIsStoredStep DEF Filtered, Answered
<1> QED
  BY <1>1, <1>2 DEF Filtered

-----------------------------------------------------------------------------
(* What clerks are told                                                    *)

\* The outcome that a clerk hears is that of its operation: the update is in
\* the store, or the value is all of the store.
LEMMA OutcomeRight ==
  ASSUME Typed, Stamped, Filtered, NEW g \in Gids, Apply(g), [Next]_vars, NEW c \in Clerks, FloorAcked(c),
         clerk[c].pc = "wait", isOpMatched(c, Head(rlog[g])),
         store' = [store EXCEPT ![Head(rlog[g]).key] = ValueAfter(g)], clerk'[c] = Hears(c, Outcome(g))
  PROVE  ReplyRight(c)' /\ SameOp(c) /\ clerk'[c].pc = "reply"
<1> DEFINE e == Head(rlog[g])
<1>1. rlog[g] # <<>> /\ e \in Entry /\ Logged(e)
  BY ApplyEffect, ApplyCases DEF Applied
<1>2. Outcome(g) \in Reply
  BY <1>1, OutcomeTyped
<1>3. /\ clerk'[c].seq = clerk[c].seq /\ clerk'[c].clock = clerk[c].clock
      /\ clerk'[c].ts = clerk[c].ts /\ clerk'[c].floor = clerk[c].floor
      /\ clerk'[c].pc = "reply" /\ clerk'[c].reply = Outcome(g)
  <2>1. \A x \in Reply : /\ Hears(c, x).seq = clerk[c].seq /\ Hears(c, x).clock = clerk[c].clock
                          /\ Hears(c, x).ts = clerk[c].ts /\ Hears(c, x).floor = clerk[c].floor
                          /\ Hears(c, x).pc = "reply" /\ Hears(c, x).reply = x
    BY WaiterFields
  <2> QED
    BY <1>2, <2>1
<1>4. e.client = c /\ e.seq = clerk[c].seq /\ e.ts = e.seq /\ e.op = Op(c).op /\ e.key = Op(c).key
  BY <1>1 DEF isOpMatched, Logged, Stamped, ClerkStamped, Op
<1>5. e.key \in Keys /\ e.seq \in Nat /\ e.seq > 0
  BY <1>1 DEF Entry, Logged
<1>6. store \in [Keys -> Seq(Updates)] /\ ack[g][c] \in Nat
  BY Monotone DEF Typed, GroupsOK
<1>7. Op(c)' = Op(c)
  BY <1>3 DEF Op
<1> HIDE DEF e
<1>8. store'[e.key] = ValueAfter(g)
  BY <1>5, <1>6 DEF e
<1>9. ValueAfter(g) = IF e.ts > ack[g][e.client] /\ e.op # "Get"
                        THEN Append(store[e.key], <<e.client, e.seq>>) ELSE store[e.key]
  BY DEF ValueAfter, e
<1>10. CASE Op(c).op = "Get"
  <2>1. Outcome(g).value = ValueAfter(g)
    BY <1>4, <1>10 DEF Outcome, e
  <2>2. ValueAfter(g) = store[e.key]
    BY <1>4, <1>9, <1>10
  <2>3. clerk[c].floor \subseteq Range(store[e.key])
    BY <1>4, <1>5 DEF FloorAcked, Filtered, AckedIsStored
  <2> QED
    BY <1>3, <1>7, <1>10, <2>1, <2>2, <2>3 DEF ReplyRight, SameOp
<1>11. CASE Op(c).op # "Get"
  <2>1. <<c, e.seq>> \in Range(ValueAfter(g))
    <3>1. CASE e.ts > ack[g][c]
      <4>1. store[e.key] \in Seq(Updates) /\ <<c, e.seq>> \in Updates
        BY <1>5, <1>6 DEF Updates
      <4> QED
        <5>1. ValueAfter(g) = Append(store[e.key], <<c, e.seq>>)
          BY <1>4, <1>9, <1>11, <3>1
        <5> QED
          BY <4>1, <5>1, Appended
    <3>2. CASE ~(e.ts > ack[g][c])
      <4>1. e.seq \in 1 .. ack[g][c]
        BY <1>4, <1>5, <1>6, <3>2
      <4>2. <<c, e.seq>> \in Range(store[Script[c][e.seq].key])
        BY <1>4, <1>11, <4>1 DEF Filtered, AckStored, Op
      <4> QED
        BY <1>4, <1>9, <3>2, <4>2 DEF Op
    <3> QED
      BY <3>1, <3>2
  <2>2. <<c, clerk'[c].seq>> \in Range(store'[Op(c).key])
    BY <1>3, <1>4, <1>8, <2>1
  <2> QED
    BY <1>3, <1>7, <1>11, <2>2 DEF ReplyRight, SameOp
<1> QED
  BY <1>10, <1>11

\* Clerks keep being told the truth.
LEMMA AnsweredStep ==
  ASSUME Typed, Stamped, Filtered, Answered, [Next]_vars
  PROVE  Answered'
<1> SUFFICES ASSUME NEW c \in Clerks PROVE ReplyRight(c)' /\ FloorAcked(c)' /\ GetSaw(c)'
  BY DEF Answered
<1>1. ReplyRight(c) /\ FloorAcked(c) /\ GetSaw(c)
  BY DEF Answered
<1>2. ASSUME SameOp(c) PROVE FloorAcked(c)'
  BY <1>1, <1>2, AckedStep DEF SameOp, FloorAcked, Op
<1>3. CASE WorksOn(c)
  <2>1. SameOp(c) /\ Op(c)' = Op(c)
    BY <1>3 DEF WorksOn, SameOp, Op
  <2>2. ASSUME Succeeds(c)
        PROVE  Op(c).key \in Keys /\ Range(store[Op(c).key]) \subseteq Range(store'[Op(c).key])
    <3>1. clerk[c].seq <= Len(Script[c])
      BY <2>2 DEF Succeeds, Typed, ClerksOK, ClerkOK, InScript
    <3> QED
      BY <3>1, CurrentTyped, Monotone
  <2>3. ReplyRight(c)'
    <3>1. CASE ~Succeeds(c)'
      BY <3>1 DEF ReplyRight
    <3>2. CASE Succeeds(c)'
      <4>1. /\ Succeeds(c) /\ clerk'[c].reply = clerk[c].reply
            /\ clerk'[c].floor = clerk[c].floor /\ clerk'[c].seq = clerk[c].seq
        BY <1>3, <3>2 DEF WorksOn
      <4> QED
        BY <1>1, <2>1, <2>2, <4>1 DEF ReplyRight
    <3> QED
      BY <3>1, <3>2
  <2>4. GetSaw(c)'
    BY <1>1, <1>3 DEF WorksOn, GetSaw
  <2> QED
    BY <1>2, <2>1, <2>3, <2>4
<1>4. CASE Begin(c)
  <2>1. /\ clerk'[c].pc = "query" /\ clerk'[c].seq = clerk[c].seq
        /\ clerk'[c].floor = Acked(Op(c).key)
    BY <1>4, BeginFields
  <2>2. Op(c)' = Op(c)
    BY <2>1 DEF Op
  <2>3. FloorAcked(c)'
    BY <2>1, <2>2, AckedStep DEF FloorAcked
  <2> QED
    BY <2>1, <2>3 DEF ReplyRight, Succeeds, GetSaw
<1>5. CASE Ends(c)
  <2>1. /\ clerk'[c].pc = "idle" /\ clerk'[c].seq = clerk[c].seq + 1
        /\ clerk'[c].floor = clerk[c].floor /\ clerk'[c].reply = clerk[c].reply
    BY <1>5, EndFields
  <2>2. Succeeds(c) /\ clerk'[c].seq - 1 = clerk[c].seq
    BY <1>5, <2>1, ClerkNumbers DEF Ends
  <2>3. GetSaw(c)'
    BY <1>1, <2>1, <2>2 DEF GetSaw, ReplyRight, Op
  <2> QED
    BY <2>1, <2>3 DEF ReplyRight, Succeeds, FloorAcked
<1>6. ASSUME NEW d \in Clerks, d # c, Begin(d) \/ Ends(d) PROVE WorksOn(c)
  <2>1. clerk'[c] = clerk[c]
    BY <1>6, BeginFields, EndFields
  <2> QED
    BY <2>1 DEF WorksOn, Succeeds, Op
<1>7. ASSUME NEW g \in Gids, Apply(g), ~WorksOn(c)
      PROVE  ReplyRight(c)' /\ FloorAcked(c)' /\ GetSaw(c)'
  <2>1. ReplyRight(c)' /\ SameOp(c) /\ clerk'[c].pc = "reply"
    BY <1>1, <1>7, ApplyClerks, OutcomeRight
  <2> QED
    BY <1>2, <2>1 DEF GetSaw
<1> QED
  BY <1>3, <1>4, <1>5, <1>6, <1>7, ClerksStep

-----------------------------------------------------------------------------
(* Theorems                                                                *)

\* Initially nothing is stored, logged or acknowledged, and clerks are idle.
LEMMA InitInv ==
  ASSUME Init
  PROVE  IndInv
<1>1. \A c \in Clerks : Len(Script[c]) \in Nat
  BY ShardKVClerkAssumption
<1>2. \A c \in Clerks : clerk[c] = MakeClerk
  BY DEF Init
<1>3. /\ MakeClerk \in ClerkRecord /\ MakeClerk.pc = "idle" /\ MakeClerk.seq = 1 /\ MakeClerk.clock = 0
      /\ MakeClerk.ts = 0 /\ MakeClerk.config = 0 /\ MakeClerk.floor = {} /\ MakeClerk.reply = Failed
  <2>1. Failed \in Reply
    BY RefusalTyped
  <2>2. MakeClerk \in ClerkRecord
    <3>1. {} \subseteq Updates /\ 0 \in 0..Last
      BY ShardKVClerkAssumption
    <3> QED
      BY <2>1, <3>1 DEF MakeClerk, ClerkRecord
  <2> QED
    BY <2>2 DEF MakeClerk
<1>4. Failed \in Reply
  BY RefusalTyped
<1>5. ClerksOK
  <2>1. clerk \in [Clerks -> ClerkRecord]
    BY <1>3 DEF Init
  <2>2. ASSUME NEW c \in Clerks PROVE ClerkOK(c)
    <3>1. num = 0 /\ 0 \in 0..num /\ 1 \in 1..Len(Script[c]) + 1
      BY <1>1 DEF Init
    <3> QED
      BY <1>2, <1>3, <1>4, <3>1 DEF ClerkOK, InScript, Listed
  <2> QED
    BY <2>1, <2>2 DEF ClerksOK
<1>6. GroupsOK
  BY ShardKVClerkAssumption DEF GroupsOK, Init
<1>7. Stamped
  BY <1>2, <1>3 DEF Stamped, ClerkStamped, Init
<1>8. \A k \in Keys : Acked(k) = {}
  <2>1. ASSUME NEW k \in Keys, NEW u \in Acked(k) PROVE FALSE
    <3>1. PICK c \in Clerks : \E n \in 1..Len(Script[c]) : n < clerk[c].seq
      BY AckedIff
    <3> QED
      BY <1>1, <1>2, <1>3, <3>1
  <2> QED
    BY <2>1
<1>9. AckBelow /\ StoreBelow /\ AckStored
  <2>1. \A g \in Gids, c \in Clerks : ack[g][c] = 0
    BY DEF Init
  <2>2. \A k \in Keys : store[k] = <<>>
    BY DEF Init
  <2> QED
    BY <1>2, <1>3, <2>1, <2>2 DEF AckBelow, StoreBelow, AckStored
<1>10. UpdatesOnceInOrder /\ AckedIsStored
  BY <1>8 DEF UpdatesOnceInOrder, AckedIsStored, Init
<1>11. Answered
  BY <1>2, <1>3 DEF Answered, ReplyRight, Succeeds, FloorAcked, GetSaw
<1> QED
  BY <1>5, <1>6, <1>7, <1>9, <1>10, <1>11 DEF IndInv, Typed, Filtered

\* The invariant of the clerk and its groups holds throughout: stamps number the
\* operations of a clerk, each group acknowledges only what is in the store
\* with all the clerk did before, and the store of a shard never runs ahead of
\* the acknowledgements of the group that has it (client.go:66-130).
THEOREM ClerkInvariance == Spec => []IndInv
<1>1. Init => IndInv
  BY InitInv
<1>2. IndInv /\ [Next]_vars => IndInv'
  BY TypedStep, StampedStep, FilteredStep, AnsweredStep DEF IndInv
<1> QED
  BY <1>1, <1>2, PTL DEF Spec

\* A clerk only calls servers that its cached configuration lists, for any
\* configurations, scripts and number of faults (client.go:78-83).
THEOREM ClerkTypes == Spec => []TypeOK
<1>1. IndInv => TypeOK
  BY TypedIsTypeOK DEF IndInv
<1> QED
  BY <1>1, ClerkInvariance, PTL

\* Retries, losses, timeouts and moves of shards never make a Put or Append
\* take effect twice, or after a later one of its clerk (client.go:106).
THEOREM UpdatesTakeEffectOnce == Spec => []UpdatesOnceInOrder
<1>1. IndInv => UpdatesOnceInOrder
  BY DEF IndInv, Filtered
<1> QED
  BY <1>1, ClerkInvariance, PTL

\* When PutAppend returns, its update has been made (client.go:118-120).
THEOREM AckedStaysStored == Spec => []AckedIsStored
<1>1. IndInv => AckedIsStored
  BY DEF IndInv, Filtered
<1> QED
  BY <1>1, ClerkInvariance, PTL

\* When Get returns, its value has every update that any clerk was told of
\* before the Get was called (client.go:84-86).
THEOREM GetReturnsAcked == Spec => []GetSeesAcked
<1>1. IndInv => GetSeesAcked
  BY DEF IndInv, Answered, GetSaw, GetSeesAcked
<1> QED
  BY <1>1, ClerkInvariance, PTL
====
