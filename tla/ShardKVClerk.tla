----------------------------- MODULE ShardKVClerk -----------------------------
(***************************************************************************)
(* The clerk of the sharded key-value service (src/shardkv/client.go): Get *)
(* and PutAppend over a cached configuration that may be stale, retried    *)
(* over the servers of a group, and over groups as shards move.            *)
(*                                                                         *)
(* The replica groups are external, since their handlers and their applier *)
(* are not in the repository, except for sendToRaftAndWait, which is (src/ *)
(* shardkv/server.go:67-93).  A group is what the clerk relies on: servers *)
(* of which one leads, a log that may lose what it has not applied, an     *)
(* applier that refuses keys of other groups and skips what is not newer   *)
(* than ack[client], and shards handed on together with ack.  The          *)
(* configurations come from the controller, which ShardCtrler models.      *)
(***************************************************************************)
EXTENDS Naturals, Sequences, Functions

CONSTANTS
  Clerks,
  Keys,          \* keys: sequences of bytes
  Gids,          \* ids of the replica groups, all but 0
  Configs,       \* the configurations the controller goes through, from #0
  Last,          \* bound: number of the last configuration
  NShards,       \* shardctrler.NShards
  Script,        \* what each clerk is asked to do
  MaxFaults      \* bound: losses, timeouts, changes of leader, empty replies

VARIABLES
  num,           \* number of the controller's latest configuration
  owner,         \* per shard: the group that has it, and if it serves it
  store,         \* per key: the updates that make up its value
  ack,           \* per group and clerk: kv.ack, stamp of the last operation
  rlog,          \* per group: its Raft log after what is applied
  leader,        \* per group: the server that leads
  clerk,         \* per clerk: where it is in Get or PutAppend
  faults

groupVars == <<owner, store, ack, rlog, leader>>
vars == <<num, groupVars, clerk, faults>>

-----------------------------------------------------------------------------

\* The shard of a key, by its first byte.
key2shard(key) == (IF Len(key) > 0 THEN key[1] ELSE 0) % NShards

Shards == {key2shard(k) : k \in Keys}

\* Names of servers: Config.Groups[gid] lists the servers of gid.
Names == UNION {UNION {Range(Configs[n].Groups[g]) : g \in DOMAIN Configs[n].Groups} : n \in 0..Last}
GroupOf(name) == name[1]

Commands == {"Get", "Put", "Append"}
Updates  == Clerks \X (Nat \ {0})

ASSUME ShardKVClerkAssumption ==
  /\ NShards \in Nat \ {0} /\ Last \in Nat /\ MaxFaults \in Nat
  /\ Gids \subseteq Nat \ {0}
  /\ Keys \subseteq Seq(0..255)
  /\ Script \in [Clerks -> Seq([op : Commands, key : Keys])]
  /\ DOMAIN Configs = 0..Last
  /\ \A n \in 0..Last :
       /\ Configs[n].Shards \in [0..NShards-1 -> Gids \cup {0}]
       /\ DOMAIN Configs[n].Groups \subseteq Gids
       /\ \A g \in DOMAIN Configs[n].Groups : Configs[n].Groups[g] \in Seq(Gids \X Nat)
  /\ Configs[0].Groups = <<>>

Entry  == [op : Commands, key : Keys, client : Clerks, seq : Nat, ts : Nat]
Errs   == {"OK", "ErrNoKey", "ErrWrongGroup", "ErrWrongLeader"}
Reply  == [ok : BOOLEAN, err : Errs \cup {""}, value : Seq(Updates)]

Failed      == [ok |-> FALSE, err |-> "", value |-> <<>>]
Refusal(e)  == [ok |-> TRUE, err |-> e, value |-> <<>>]

\* A Get and an update of PutAppend of a clerk, and the group it is meant for.
Finished(c) == clerk[c].seq > Len(Script[c])
Op(c)       == Script[c][clerk[c].seq]
Config(c)   == Configs[clerk[c].config]
Servers(c)  == Config(c).Groups[Config(c).Shards[key2shard(Op(c).key)]]
Server(c)   == Servers(c)[clerk[c].si]

Serves(g, key) == owner[key2shard(key)] = [gid |-> g, serving |-> TRUE]

Fault == faults < MaxFaults /\ faults' = faults + 1

\* The updates of a key that some clerk was told are done.
Acked(key) ==
  {u \in UNION {{c} \X (1..Len(Script[c])) : c \in Clerks} :
     /\ u[2] < clerk[u[1]].seq
     /\ Script[u[1]][u[2]].op # "Get"
     /\ Script[u[1]][u[2]].key = key}

-----------------------------------------------------------------------------
(* The clerk *)

\* A clerk that has called nobody yet.
MakeClerk == [pc |-> "idle", seq |-> 1, clock |-> 0, ts |-> 0, config |-> 0, si |-> 1,
              index |-> 0, reply |-> Failed, floor |-> {}]

\* The arguments are made, with their time stamp, before the loop; floor
\* remembers what was acknowledged by then.  It is assumed that time.Now() has
\* advanced since the clerk's last operation, which took a round trip at least.
\* Stamps of one clerk are only compared with each other, by order and equality,
\* so that an advance by one stands for any.
Begin(c) ==
  /\ clerk[c].pc = "idle"
  /\ clerk' = [clerk EXCEPT ![c].pc = "query", ![c].clock = @ + 1, ![c].ts = clerk[c].clock + 1,
                            ![c].floor = Acked(Op(c).key), ![c].reply = Failed]
  /\ UNCHANGED <<num, groupVars, faults>>

Get(c)       == ~Finished(c) /\ Op(c).op = "Get" /\ Begin(c)
PutAppend(c) == ~Finished(c) /\ Op(c).op \in {"Put", "Append"} /\ Begin(c)

EnterRestamped(c, n) ==
  LET gid   == Configs[n].Shards[key2shard(Op(c).key)]
      known == gid \in DOMAIN Configs[n].Groups /\ Configs[n].Groups[gid] # <<>>
  IN clerk' = [clerk EXCEPT ![c].config = n, ![c].si = 1, ![c].pc = IF known THEN "call" ELSE "query",
                            ![c].clock = @ + 1, ![c].ts = clerk[c].clock + 1]

\* ck.config = ck.sm.Query(-1), then to the first server of the group of the
\* key if the configuration knows the group.
Enter(c, n) ==
  LET gid   == Configs[n].Shards[key2shard(Op(c).key)]
      known == gid \in DOMAIN Configs[n].Groups /\ Configs[n].Groups[gid] # <<>>
  IN clerk' = [clerk EXCEPT ![c].config = n, ![c].si = 1, ![c].pc = IF known THEN "call" ELSE "query"]

\* The controller answers with its latest configuration or, when a retry of
\* the Query was taken for a duplicate, with a Config that is all zero, as #0.
QueryReturns(c) ==
  /\ clerk[c].pc = "query"
  /\ \/ Enter(c, num) /\ UNCHANGED faults
     \/ num # 0 /\ Enter(c, 0) /\ Fault
  /\ UNCHANGED <<num, groupVars>>

SuccessAnyGet(op)    == IF op = "Get" THEN {"OK", "ErrNoKey", "ErrWrongLeader"} ELSE {"OK"}
SuccessAnyUpdate(op) == IF op = "Get" THEN {"OK", "ErrNoKey"} ELSE {"OK", "ErrWrongLeader"}

\* What Get and PutAppend take for success.
Success(op) == IF op = "Get" THEN {"OK", "ErrNoKey"} ELSE {"OK"}

LastServerPast(c) == clerk[c].si > Len(Servers(c))

\* si++ leaves the loop over the servers of the group.
LastServer(c) == clerk[c].si = Len(Servers(c))

AfterLoopSame == "call"

\* After the loop over the servers: sleep, then ask for the configuration.
AfterLoop == "query"

\* The RPC is answered: done, or a new configuration is needed, or the next
\* server of the group is tried.
Returned(c) ==
  LET r == clerk[c].reply IN
  \/ /\ r.ok /\ r.err \in Success(Op(c).op)
     /\ clerk' = [clerk EXCEPT ![c].pc = "idle", ![c].seq = @ + 1]
  \/ /\ r.ok /\ r.err = "ErrWrongGroup"
     /\ clerk' = [clerk EXCEPT ![c].pc = "query", ![c].reply = Failed]
  \/ /\ ~(r.ok /\ r.err \in Success(Op(c).op) \cup {"ErrWrongGroup"})
     /\ clerk' = [clerk EXCEPT ![c].pc = IF LastServer(c) THEN AfterLoop ELSE "call",
                               ![c].si = IF LastServer(c) THEN @ ELSE @ + 1,
                               ![c].reply = Failed]

CallReturns(c) ==
  /\ clerk[c].pc = "reply"
  /\ Returned(c)
  /\ UNCHANGED <<num, groupVars, faults>>

-----------------------------------------------------------------------------
(* The network and the handlers of a group *)

Answer(c, r) == clerk' = [clerk EXCEPT ![c].pc = "reply", ![c].reply = r, ![c].index = 0]

\* The request or the reply is lost, or the server dies: Call() returns false,
\* whatever becomes of an operation that was submitted.
Lost(c) ==
  /\ \/ clerk[c].pc \in {"call", "wait"}
     \/ clerk[c].pc = "reply" /\ clerk[c].reply.ok
  /\ Answer(c, Failed)
  /\ Fault
  /\ UNCHANGED <<num, groupVars>>

\* isKeyInGroup fails.
WrongGroup(c) ==
  /\ clerk[c].pc = "call"
  /\ ~Serves(GroupOf(Server(c)), Op(c).key)
  /\ Answer(c, Refusal("ErrWrongGroup"))
  /\ UNCHANGED <<num, groupVars, faults>>

\* rf.Start finds that the server does not lead.
WrongLeader(c) ==
  /\ clerk[c].pc = "call"
  /\ leader[GroupOf(Server(c))] # Server(c)
  /\ Answer(c, Refusal("ErrWrongLeader"))
  /\ UNCHANGED <<num, groupVars, faults>>

\* rf.Start appends the operation, and the handler waits on the channel of its
\* index, counted here from the last index applied.
Submit(c) ==
  LET g == GroupOf(Server(c))
      e == [op |-> Op(c).op, key |-> Op(c).key, client |-> c, seq |-> clerk[c].seq,
            ts |-> clerk[c].ts]
  IN
  /\ clerk[c].pc = "call"
  /\ leader[g] = Server(c)
  /\ Serves(g, Op(c).key)
  /\ rlog' = [rlog EXCEPT ![g] = Append(@, e)]
  /\ clerk' = [clerk EXCEPT ![c].pc = "wait", ![c].index = Len(rlog[g]) + 1]
  /\ UNCHANGED <<num, owner, store, ack, leader, faults>>

\* The handler gives up after 500 ms.  That costs nothing when its index is no
\* longer in the log or was applied for another handler, and is a fault when an
\* answer could still come.
Timeout(c) ==
  /\ clerk[c].pc = "wait"
  /\ Answer(c, Refusal("ErrWrongLeader"))
  /\ IF clerk[c].index \in 1..Len(rlog[GroupOf(Server(c))]) THEN Fault ELSE UNCHANGED faults
  /\ UNCHANGED <<num, groupVars>>

\* The operation that came out of Raft at the index is the one submitted.
isOpMatched(c, e) == e.client = c /\ e.ts = clerk[c].ts

\* The handlers of g that wait on the channel of the next index to be applied.
Due(g) == {c \in Clerks : clerk[c].pc = "wait" /\ GroupOf(Server(c)) = g /\ clerk[c].index = 1}

\* The next index of g is applied: on each server one of the handlers that wait
\* on its channel gets the outcome and any other waits until it times out, with
\* index 0; those of later indexes are one index nearer to theirs.
Received(g, e, r) ==
  \E hears \in SUBSET Due(g) :
    /\ \A c \in Due(g) : \E d \in hears : Server(d) = Server(c)
    /\ \A c, d \in hears : Server(c) = Server(d) => c = d
    /\ clerk' = [c \in Clerks |->
         IF c \in hears
           THEN [clerk[c] EXCEPT !.pc = "reply", !.index = 0,
                                 !.reply = IF isOpMatched(c, e) THEN r ELSE Refusal("ErrWrongLeader")]
         ELSE IF clerk[c].pc = "wait" /\ GroupOf(Server(c)) = g /\ clerk[c].index > 0
           THEN [clerk[c] EXCEPT !.index = @ - 1]
         ELSE clerk[c]]

-----------------------------------------------------------------------------
(* External: the applier of a group, its Raft, and the movement of shards *)

Apply(g) ==
  LET e   == Head(rlog[g])
      new == e.ts > ack[g][e.client]
      val == IF new /\ e.op # "Get" THEN Append(store[e.key], <<e.client, e.seq>>) ELSE store[e.key]
  IN
  /\ rlog[g] # <<>>
  /\ rlog' = [rlog EXCEPT ![g] = Tail(@)]
  /\ \/ /\ Serves(g, e.key)
        /\ store' = [store EXCEPT ![e.key] = val]
        /\ ack' = IF new THEN [ack EXCEPT ![g][e.client] = e.ts] ELSE ack
        /\ Received(g, e, IF e.op # "Get" THEN Refusal("OK")
                             ELSE [ok |-> TRUE, err |-> IF val = <<>> THEN "ErrNoKey" ELSE "OK",
                                   value |-> val])
     \/ /\ ~Serves(g, e.key)
        /\ Received(g, e, Refusal("ErrWrongGroup"))
        /\ UNCHANGED <<store, ack>>
  /\ UNCHANGED <<num, owner, leader, faults>>

\* Another server leads; entries that were not applied may be lost with it.
ChangeLeader(g) ==
  /\ Fault
  /\ \E s \in Names \ {leader[g]} :
       GroupOf(s) = g /\ leader' = [leader EXCEPT ![g] = s]
  /\ \E k \in 0..Len(rlog[g]) : rlog' = [rlog EXCEPT ![g] = SubSeq(@, 1, k)]
  /\ UNCHANGED <<num, owner, store, ack, clerk>>

\* The controller makes its next configuration.
NextConfig ==
  /\ num < Last
  /\ num' = num + 1
  /\ UNCHANGED <<groupVars, clerk, faults>>

Target(sh) == Configs[num].Shards[sh]

\* A group stops serving a shard that is another group's by now.
Release(sh) ==
  /\ owner[sh].serving /\ Target(sh) \notin {0, owner[sh].gid}
  /\ owner' = [owner EXCEPT ![sh].serving = FALSE]
  /\ UNCHANGED <<num, store, ack, rlog, leader, clerk, faults>>

\* The next group has fetched the shard, with ack, from the one before.
Acquire(sh) ==
  LET g == Target(sh) IN
  /\ ~owner[sh].serving /\ g # 0
  /\ owner' = [owner EXCEPT ![sh] = [gid |-> g, serving |-> TRUE]]
  /\ ack' = IF owner[sh].gid = 0 THEN ack
            ELSE [ack EXCEPT ![g] = [c \in Clerks |->
                   IF ack[owner[sh].gid][c] > @[c] THEN ack[owner[sh].gid][c] ELSE @[c]]]
  /\ UNCHANGED <<num, store, rlog, leader, clerk, faults>>

-----------------------------------------------------------------------------

Init ==
  /\ num = 0
  /\ owner = [sh \in Shards |-> [gid |-> 0, serving |-> FALSE]]
  /\ store = [k \in Keys |-> <<>>]
  /\ ack = [g \in Gids |-> [c \in Clerks |-> 0]]
  /\ rlog = [g \in Gids |-> <<>>]
  /\ leader \in [Gids -> Names] /\ \A g \in Gids : GroupOf(leader[g]) = g
  /\ clerk = [c \in Clerks |-> MakeClerk]
  /\ faults = 0

ClerkNext(c) ==
  Get(c) \/ PutAppend(c) \/ QueryReturns(c) \/ CallReturns(c)

HandlerNext(c) == WrongGroup(c) \/ WrongLeader(c) \/ Submit(c) \/ Timeout(c)

Next ==
  \/ \E c \in Clerks : ClerkNext(c) \/ HandlerNext(c) \/ Lost(c)
  \/ \E g \in Gids : Apply(g) \/ ChangeLeader(g)
  \/ \E sh \in Shards : Release(sh) \/ Acquire(sh)
  \/ NextConfig

Spec == Init /\ [][Next]_vars

\* Clerks run, RPCs are answered and handlers time out, groups apply what they
\* log and hand on their shards; faults and new configurations need not happen.
Fairness ==
  /\ \A c \in Clerks : WF_vars(ClerkNext(c)) /\ WF_vars(HandlerNext(c))
  /\ \A g \in Gids : WF_vars(Apply(g))
  /\ \A sh \in Shards : WF_vars(Release(sh)) /\ WF_vars(Acquire(sh))

FairSpec == Spec /\ Fairness

-----------------------------------------------------------------------------

\* Every variable keeps its type, a clerk calls only servers that its cached
\* configuration lists (client.go:78-83).
TypeOK ==
  /\ num \in 0..Last
  /\ owner \in [Shards -> [gid : Gids \cup {0}, serving : BOOLEAN]]
  /\ store \in [Keys -> Seq(Updates)]
  /\ ack \in [Gids -> [Clerks -> Nat]]
  /\ rlog \in [Gids -> Seq(Entry)]
  /\ leader \in [Gids -> Names]
  /\ \A c \in Clerks :
       /\ clerk[c].seq \in 1..Len(Script[c]) + 1
       /\ clerk[c].config \in 0..num
       /\ clerk[c].reply \in Reply
       /\ clerk[c].pc \in {"idle", "query", "call", "wait", "reply"}
       /\ clerk[c].pc \in {"call", "wait", "reply"} => clerk[c].si \in DOMAIN Servers(c)
  /\ faults \in 0..MaxFaults

\* Put and Append take effect at most once and in the order the clerk was asked
\* for them, whatever is lost, times out, is logged twice or moves to another
\* group: a late copy never overtakes (client.go:106, one stamp per operation).
UpdatesOnceInOrder ==
  \A k \in Keys : \A i, j \in DOMAIN store[k] :
    i < j /\ store[k][i][1] = store[k][j][1] => store[k][i][2] < store[k][j][2]

\* PutAppend returns only when the update has been made (client.go:118-120):
\* neither a refusal nor the answer to another clerk's operation is taken for it.
AckedIsStored == \A k \in Keys : Acked(k) \subseteq Range(store[k])

\* Get returns a value with every update of the key, by any clerk, that was
\* acknowledged before it was called (client.go:84-86), whatever configuration
\* it started from.
GetSeesAcked ==
  \A c \in Clerks :
    clerk[c].pc = "idle" /\ clerk[c].seq > 1 /\ Script[c][clerk[c].seq - 1].op = "Get"
      => clerk[c].floor \subseteq Range(clerk[c].reply.value)

\* A clerk "keeps trying forever in the face of all other errors"
\* (client.go:65) and gets through, if from some point on the controller has
\* every shard assigned: stale and empty configurations do not trap it.
OperationsReturn ==
  <>[](\A sh \in Shards : Target(sh) # 0) => \A c \in Clerks : <>Finished(c)
====
