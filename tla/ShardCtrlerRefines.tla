--------------------------- MODULE ShardCtrlerRefines ---------------------------
(* The replicated shard controller implements ConfigService.               *)
EXTENDS ShardCtrler

\* Entry i of log takes effect: it is an Op, newer than every earlier one of
\* its client, which is what the cache tells a replica that has come to it.
TakesEffect(log, i) ==
  /\ log[i].op # NoOp
  /\ \A j \in 1 .. (i - 1) :
       log[j].op # NoOp /\ log[j].op.client = log[i].op.client => log[j].op.ts < log[i].op.ts

\* The places in log of the entries that take effect.
Effects(log) == {i \in DOMAIN log : TakesEffect(log, i)}

\* How many of the places are not after i.
Rank(places, i) == Cardinality({j \in places : j <= i})

\* What a replica that applies log hands to handleJoin, handleLeave, handleMove
\* and handleQuery.
Effective(log) ==
  LET places == Effects(log) IN
  [k \in 1 .. Cardinality(places) |-> log[CHOOSE i \in places : Rank(places, i) = k].op]

\* An Op without its time stamp.
Unstamped(op) == [client |-> op.client, seq |-> op.seq, cmd |-> op.cmd]

Unanswered == -2

History == LET ops == Effective(committed) IN [k \in DOMAIN ops |-> Unstamped(ops[k])]
SeqOf   == [c \in Clerks |-> clerk[c].seq]
AnswerOf ==
  [c \in Clerks |-> IF clerk[c].call # 0 /\ rpc[RPC(c)].pc = "ok"
                      THEN rpc[RPC(c)].reply ELSE Unanswered]

Service == INSTANCE ConfigService WITH
  history <- History, seq <- SeqOf, answer <- AnswerOf

\* Replicas, retries, lost messages, elections and restarts together behave
\* like one sequence of operations (server.go:40-65, 134-176; client.go:37-110):
\* an operation takes effect when its entry is committed.
ImplementsService == Service!ServiceSpec

\* What a replica has handled is what its prefix of the log calls for, also
\* after a restart that made it start over (server.go:145-162).
HandledIsEffective ==
  \A s \in Servers : handled[s] = Effective(SubSeq(committed, 1, lastApplied[s]))
====
