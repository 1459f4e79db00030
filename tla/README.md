# A TLA+ model of dist-kv-raft

The repository builds a sharded key-value store in layers: a simulated network
(`src/labrpc`), Raft (`src/raft`), a replicated shard controller
(`src/shardctrler`), sharded key-value groups (`src/shardkv`), and, apart from
these, a MapReduce coordinator with its workers (`src/mr`). It is a stripped
copy: the bodies of Raft, of the key-value server and of some controller
functions read `// Code hidden`. This project models what is there, checks it
with TLC on small instances, and proves part of it with TLAPS for all instances.

## Inventory

| Part | State | Operations | What makes it hard |
|---|---|---|---|
| controller clerk, `shardctrler/client.go` | clientID, server list | Query, Join, Leave, Move: retry until done | retries of what was already done; time stamps as identity |
| controller server, `shardctrler/server.go` | configs, cache, indexChan | `sendToRaftAndWait`, `runShardCtrler`, StartServer | a timeout racing the applier; a blocking send under a lock; indexes given out twice; replay after a restart |
| network, `labrpc/labrpc.go` | ends, enabled, connections, servers, done | Call, processReq, and the calls that rearrange the network | a server replaced while its handler runs; lost requests and replies |
| persister, `raft/persister.go` | raftstate, snapshot | Save, Copy, reads | an old instance that goes on saving |
| raft harness, `raft/config.go` | saved, endnames, connected, rafts, logs, lastApplied | crash1, start1, connect, disconnect; applier, applierSnap, one, nCommitted | kill and restart against handlers and appliers of instances that run on |
| MapReduce coordinator, `mr/coordinator.go` | counters, completion flags, worker_book | six RPC handlers, two kinds of monitor | tests made before the lock is taken; slow workers taken for dead |
| MapReduce worker, `mr/worker.go` | files | the worker loop, map_exec, reduce_exec, redo RPCs | two executions of a task on the same files |
| Raft, `raft/raft.go` | hidden | hidden | appears as external actions of `ShardCtrler` and `RaftHarness` |
| key-value clerk, `shardkv/client.go` | cached config | Get, PutAppend: retry over servers, groups and configurations | a stale configuration; copies of an update left in the log of another group |
| key-value server, `shardkv/server.go` | mostly hidden | `sendToRaftAndWait`; the rest is hidden | appears as external actions of `ShardKVClerk` |
| labgob, `labgob/labgob.go` | checked, errorCount | the checks before Encode, Decode, Register | goroutines that meet in types which refer to each other |

`PROJECT.json` lists the hazards line by line, with the properties that cover
them.

## Modules

| Module | Models | Checked by |
|---|---|---|
| `ShardCtrler` | clerks, RPC handlers, applier, restarts, an external Raft | `ctrler_*` |
| `ConfigService` | what the controller promises: one sequence of operations | `ctrler_live` |
| `ShardCtrlerRefines` | the mapping from `ShardCtrler` to `ConfigService` | `ctrler_two`, `ctrler_live` |
| `LabRPC` | the network and the life of one `Call()` | `rpc` |
| `RemoteCall` | what `Call()` promises | `rpc` |
| `LabRPCRefines` | the mapping from `LabRPC` to `RemoteCall` | `rpc` |
| `LabGob` | checkType and checkDefault | `rpc` |
| `CrashRestart` | `LabRPC` composed with persisters and crash1/start1 | `restart` |
| `Connectivity` | which ends the harness enables for which instance | `raft_harness` |
| `RaftHarness` | `Connectivity` composed with appliers, snapshots and one() | `raft_*` |
| `MapReduce` | coordinator, monitors, workers, files | `mr_*` |
| `ShardKVClerk` | key-value clerks over external groups and controller | `kv_clerk` |
| `MC*` | values of the constants for TLC | |
| `*Proofs` | theorems: `ShardCtrlerProofs`, `-ReplayProofs` and `-ServiceProofs`, each on top of the one before; `LabRPCProofs` (and `CrashRestart`), `LabGobProofs`, `RaftHarnessProofs` (and `Connectivity`), `MapReduceProofs`, `ShardKVClerkProofs` | tlapm |

### ShardCtrler

State and code correspond as follows. `clerk[c]` is a Clerk with the local
variables of the method it is in. `rpc[h]` is one handler goroutine inside
`sendToRaftAndWait`; its `pc` says where: `sent` (before `Start()`), `started`
(index known, channel not looked up), `waiting` (in the select), then `ok`,
`wrongLeader` or `dead`. `indexChan[s]` is the map of channels, each of which
holds one Op or is empty. `cache[s]` and `lastApplied[s]` are as in the code.
`handled[s]` is the sequence of Ops given to the hidden handleX functions; it
determines `configs`, so replicas agree on configurations when they agree on it.

Actions: `Query`, `Join`, `Leave`, `Move` are one turn of a clerk's loop up to
`Call()`; `CallReturns` is the rest of the turn. `RequestLost`, `ReplyLost` and
`ServerDead` are the ways a `Call()` returns false. `Start`, `Register`,
`Receive`, `Timeout` are the steps of a handler between its lock boundaries.
`Apply` is one iteration of `runShardCtrler`, all under `sc.mu`. `Restart` is
ShutdownServer followed by StartServer.

Join and Leave call `time.Now()` inside the loop, Query and Move before it; the
model keeps that difference. `ClockSteps` says how far the clock moves between
two readings. A time stamp loses its monotonic part when it is encoded, so what
the servers compare is the wall clock. The runs take a clock that advances between
two readings; were it to stand still, the second of two operations would be taken
for a duplicate, and `AckedIsHandled` would not hold.

Hidden code is modelled from its uses and marked external in the map:
`isOpMatched` compares client and time stamp, because the caller wants to know
whether its own Op came out; the RPC methods set WrongLeader when
`sendToRaftAndWait` returns false, which is what the clerk tests; each change
appends one configuration and `handleQuery` fills ReplyQuery.

The external Raft keeps a log per server. A leader of an old term may go on
accepting Ops until it hears of the new one. `Elect` needs every committed entry
in the winner's log and begins the term with an entry that is not an Op (the
repository's README describes it, and `server.go:139-143` skips it). `Replicate`
overwrites another log. Only the leader of the latest term commits. Each
incarnation of a server is delivered the committed entries in order from the
first. Snapshots are left out; the controller takes none.

`ConfigService` is the controller as its clerks may think of it: operations take
effect one after the other, each between the beginning and the end of its method,
by which it has taken effect. Move and Query take effect once, Join and Leave at least
once, and a Query is answered with the configuration at its place in the sequence
or, after a retry, with none. Under the mapping of `ShardCtrlerRefines` an
operation takes effect when an entry that carries it is committed and is newer
than every committed entry of its client; the answer is what the clerk's handler
holds. The clerk's later copies, elections, restarts and appliers map to
stuttering.

### LabRPC, LabGob and CrashRestart

`call[k]` is `Call()` together with its `processReq` goroutine, `handler[k]` the
goroutine that runs `server.dispatch`. `readEndnameInfo` is one look at the
network under its lock; everything after it uses what it returned, while other
actions rearrange the network. `isServerDead` compares Server objects, not
names. Delays are interleavings: a long reordering leaves a call `answered`
before it is delivered.

`RemoteCall` has two variables, what the caller has and how far the handler is.
It says that a call is executed at most once, begins to be executed only while
the caller waits, and is over when `Call()` returns true; false means nothing.
`LabRPCRefines` maps every state of `Call()` and processReq before the return to
`pending`. Rearranging the network is a stuttering step.

`LabGob` has one stack of checkType calls per goroutine. A test and set of
`checked` is a step, and so is each turn of the loop over fields or element
types: what lies between two lock operations touches no shared state. A value is
a tree of structs, pointers and basic values that are zero or not. What
checkDefault1 will report is counted when Decode begins, since the value belongs
to the caller, and reported leaf by leaf; the three depths at which checkDefault1
looks at anything are written out (`checkDefault1`, `AtDepth2`, `AtDepth3`). `asked` and `decoded` are history.

`CrashRestart` extends it with persister objects that have identity. The
harness goes through crash1 (disconnect, DeleteServer, Copy, Kill, the two reads,
Save into a new persister) and start1 (Copy, Make, AddServer), then connect. A
handler of an update changes the memory of its instance and saves to the
persister that instance was given, also after the instance was killed. Peer
ends are disabled by `disconnect`, the ends of clerks are not: for them only
DeleteServer protects. An update is identified with the call that carries it, and
each part of a persister is the set of updates it covers together with the number of
the Save that wrote it. Raft saves as the excerpts in `src/README.md` show.
`persist()` writes a new Raft state beside the snapshot that is there
(`HandlerSaves`). `Snapshot()` makes two Saves, a new snapshot beside the old Raft
state and then the truncated log (`SnapshotSaves`, `SnapshotPersists`), and the
harness may copy the persister between them. `SavedInSync` is therefore about
Saves: what is handed on was written by one of them. That such a pair covers
everything that was acknowledged is `AckedSurvives`.

### MapReduce

A thread is the loop of a worker, or the redo a monitor asked for, named by its
task. Steps follow the locking: the tests of `GiveMapTask`, `GiveReduceTask` and
`CheckLast*Done` are steps of their own, because they are made without `c.mu`.
An index out of range is `coord = "panic"` (net/rpc does not recover panics of
its handlers); `log.Fatal` in the coordinator is `"fatal"`. The intermediate
files `mr-i-*` of a map task are one variable: absent, being written by the
thread that truncated them last, or whole. `out[i]` also records whether the
lines written came from whole inputs.

Abstractions: copies of a map task write the same bytes (mapf is
deterministic); `read_intermediates` reads all its files in one step, and a file
in the middle of being written may or may not lack pairs of the bucket; a worker
that dies while the coordinator handles its RPC has that RPC completed. When the
coordinator is gone, a worker ends at its next dial.

`patient`, chosen at the start from `Patience`, is the assumption under which the
design works: no live execution outlasts the 10 s of its monitor, so a redo is
asked for only when the work was lost. `CountExact`,
`PatientReduceAfterAllMaps`, `OutputCorrect` and `NeverHangs` are about patient
jobs; the others hold without it, and `mr_early_reduce` shows what does not.

### Connectivity and RaftHarness

An end `<<i, k, j>>` belongs to instance k of server i and leads to server j;
`endnames[i]` is therefore `instance[i]`. `enabled` keeps the ends of all
instances, since MakeEnd is never undone.

In `RaftHarness`, `app[<<i, k>>]` is the applier goroutine of instance k. An
iteration of `applier` touches shared state in one critical section and is one
step; `applierSnap` reads `lastApplied` outside the lock and takes the lock twice, so it
is split into `ReceiveCommand`, `CheckSnap`, `SetLastApplied` and `TakeSnapshot`.
`logs` and `lastApplied` are per server, not per instance: appliers of a killed
instance share them with its successor. `saved` is the snapshot in the persister;
an instance reaches it only while it is the newest and not killed (`CrashRestart`
looks at that in detail). The test's goroutine is in `one()`, whose nCommitted
looks at one server per step, or rearranges servers.

Raft is external, and `kind` says what is assumed of it. A sound Raft agrees on one
sequence, and each instance delivers it in order from the snapshot it starts
with; a snapshot it receives is one that another server saved. An unsound Raft
delivers any command at any index, and in tests with snapshots any snapshot: none,
bytes that do not decode, one that is not the announced one, or any log; start1 may
find any of them saved. `ingestSnap` ends the test in the first two cases and reports
an error in the third; otherwise the log of the snapshot replaces that of the server,
compared with nothing. So `LogsAgree` says that logs have no gaps for every
Raft, but that they agree only for a Raft without snapshots or a sound one. Start()
may name any index. `Quiet` says that with snapshots a killed instance delivers
nothing more and has handled its last message when its successor is started;
`raft_stale` drops it.

### ShardKVClerk

`clerk[c]` is a Clerk with the locals of Get or PutAppend: `query` is before
`ck.sm.Query(-1)` returns (the sleep before it is a delay), `call` before the
request reaches `servers[si]`, `wait` while its handler is in the select of
`sendToRaftAndWait`, `reply` when `Call()` is about to return. `Returned` is the
body of the loop after `Call()`. Unlike Join and Leave of the controller's clerk,
Get and PutAppend read the clock once, before their loop. It is assumed to have
advanced since the clerk's last operation; stamps are only compared with each other,
so the model lets it advance by one.

The groups are external. A group has a leader, a log from which a change of
leader may drop what was not applied, and an applier that refuses keys it does not
serve, re-reads for every Get, and skips an update not newer than `ack[client]`
(the fields `data` and `ack` of ShardKV, `Ack` of TransferShardReply and
`shardkv/note.txt` are what is known of it). That a Get is answered with what is
stored when it is applied is an assumption about this applier; what `GetSeesAcked`
adds is that the clerk takes no other answer. An index counts from what is applied.
Handlers of one server that wait at one index share a channel: one of them hears the
outcome, the others time out (`Due`, `Received`).
A shard is released by one group, then acquired by the next together with `ack`.
The value of a key is the sequence of updates that made it. The controller's
answer is its latest configuration or, as `ctrler_query_empty` shows it can be, an
empty one.

## Runs

Passing runs (`tlc -config <run>.cfg <module>`):

| Run | Instance | Shows |
|---|---|---|
| `ctrler_one` | 2 servers, 1 clerk: Join, Leave, Query; 2 faults, 2 terms | `TypeOK`; a late copy never takes effect after a later operation (`OldNeverAfterNew`); what is acknowledged is in force (`AckedIsHandled`); `opCh <- op` never blocks (`ApplierNeverBlocks`); replicas go through the same configurations over restarts (`ReplicasAgree`) |
| `ctrler_two` | 2 servers, 2 clerks: Move beside Query; 1 fault, 2 terms | a Query sees every change acknowledged before it began (`QueryReflectsAcked`); operations with a fixed stamp take effect at most once (`FixedStampOnce`); a replica has handled exactly what its part of the log calls for (`HandledIsEffective`) |
| `ctrler_live` | 1 clerk: Move, Query; 1 fault, 2 terms | the clerk gets through (`ClerksFinish`); the controller implements `ConfigService` (`ImplementsService`) |
| `mr_job` | 2 workers, 2 maps, 2 reduces; patient with 1 crash and 3 redos, or slow with 1 redo | tasks given once (`GivenOnce`), unfinished tasks watched (`UnfinishedIsWatched`), completions counted (`CountNotBehind`) with executions of any length; for patient jobs exact counters (`CountExact`), reduces after all maps (`PatientReduceAfterAllMaps`), correct output (`OutputCorrect`), no hang (`NeverHangs`) |
| `kv_clerk` | 2 clerks: Put, Append beside Get of one key; 2 groups, 4 configurations, 1 fault | updates once and in order (`UpdatesOnceInOrder`), made when their method returns (`AckedIsStored`), seen by later Gets (`GetSeesAcked`); operations return (`OperationsReturn`) |
| `rpc` | 2 calls, 1 end, 1 name, 2 server objects; 2 goroutines that check 7 types | true from `Call()` means executed (`TrueMeansExecuted`); `Call()` keeps the contract of `RemoteCall` (`ImplementsContract`) and returns unless its handler runs on, on a live server (`CallReturns`). No two calls of checkType walk a type at the same time, nested in one goroutine or in two (`WalkedOnce`), each defect counts once (`ComplainedOnce`), and checks end (`ChecksEnd`) |
| `restart` | 2 calls, 2 instances, a peer end and a clerk end | acknowledged updates survive, also a kill between the two Saves of a snapshot (`AckedSurvives`); the parts handed on are those of one Save (`SavedInSync`); no old instance overwrites what the newest saved (`NewestOwnsSaved`) |
| `raft_harness` | 2 servers, 2 instances of each, 2 commands, 2 indexes, a snapshot after every command | ends follow `connected` (`EndsMatchConnected`), old instances stay cut off (`OldEndsSilent`); the checks blame no sound Raft (`NoFalseAlarm`), and logs that pass them have no gaps and, where they are compared, agree (`LogsAgree`); what one() returns is agreed on (`OneIsAgreed`); snapshots are complete (`SnapshotsComplete`) |

Runs that end in a counterexample show where the code differs from what the
repository says of it:

| Run | Property | What happens |
|---|---|---|
| `ctrler_join_twice` | `AtMostOnce` (README.md:307) | the reply of a Join is lost, the retry has a new time stamp, and the Join is handled twice |
| `ctrler_query_empty` | `QueryHasReply` (common.go:14) | the retry of an applied Query is skipped as a duplicate and answered without a configuration |
| `mr_early_reduce` | `ReduceAfterAllMaps` (coordinator.go:157) | a slow worker and its redo count one map twice; a reduce starts early |
| `raft_stale` | `NoFalseAlarm` (raft/config.go:277-279) | the applier of a killed instance sets `lastApplied` back after start1 reset it; the next delivery of a sound Raft is called out of order |

### Bounds

`MaxCalls` handlers per clerk, `MaxStamp` for the clock, `MaxLog`, `MaxTerm`,
`MaxFaults`, `MaxRedo`, `MaxCrashes`, `MaxInstances`, `MaxIndex`, `MaxOps`, `Last`
are the bounds; each appears in a guard. Two servers are enough for a stale leader beside a new one, for an
entry that is overwritten, and for a replica that lags. Two terms allow one
change of leader. Two faults let an answer
be lost and the server restart. A fault is a lost request or reply, a timeout of a
handler that could still be answered, or a restart; a timeout of a handler whose
answer cannot come any more is free. Since the log is bounded, safety runs may
stop where the program would go on, so they do not check deadlock; `ctrler_live`
has a log long enough for every attempt its faults allow. In `MapReduce` the
program stops by itself once the coordinator and the workers have ended.
`CrashRestart` stops after its last restart, `ShardKVClerk` when the scripts are
done. There, one fault leaves a copy of an update in a log; the shard moves away
and back (`Last` = 3), so that the copy meets the group it was meant for again. Two
handlers that wait at one index of one server need two changes of leader, one more
than the fault allows; that case is left to the theorems. `LabRPC` is
unbounded; some call that rearranges the network is always possible, so it cannot
deadlock. `LabGob` stops after `MaxOps` operations of each goroutine.

In `mr_job` a patient job may ask for three redos, one more than a crash can cause,
and a slow one for a single redo and no crash: two executions of a task that overlap
are what it adds. In `raft_harness` each server is started twice, which gives an
old and a new instance with their appliers, and one() is called once. A
`SnapShotInterval` of 1 instead of 10 makes every command a snapshot, so that two
indexes are enough for an instance that starts from one, for one that is sent a
snapshot, and for a delivery after it. An unsound Raft with snapshots delivers one
command only (`Delivered`) and one() is not called in its tests (`Calling`): for gaps
the value of a command makes no difference, and the properties say nothing else of
these tests. In `restart` two calls are enough for an update in the log beside one in the
snapshot, and Saves are bounded by the updates there are to save. In `rpc` the network and labgob share no
state: a behaviour is one of either, not of their product.

Symmetry is used for workers (`mr_early_reduce`), calls (`restart`) and commands
(`raft_harness`, `raft_stale`), never in a run with a temporal property.

### Fairness

`ctrler_live`: goroutines run and timers fire (weak fairness of every clerk and
handler step and of the applier); Raft is live: a cluster without a leader of
the latest term elects one, and that leader replicates and commits. A premature
timeout, a loss and a restart are never fair. `mr_job`: goroutines run, the
monitors' sleeps end, main polls `Done()`; crashes are not fair. `rpc`: weak
fairness of processReq, nothing is assumed of handlers; goroutines in labgob are
scheduled. `kv_clerk`: clerks,
handlers, appliers and the movement of shards go on; new configurations and faults
need not happen.

## Proofs

`ShardCtrlerProofs` proves, for any servers, any finite set of clerks, any
scripts and any value of the bounds:

- `TypeCorrect`: `Spec => []TypeOK`. `TypeOK` includes that a clerk's position
  stays within its list of servers and its stamps within the clock.
- `ApplierProgress`: `Spec => []ApplierNeverBlocks`. The applier sends on a
  channel of capacity 1 while it holds `sc.mu`; a full channel would stop the
  server for good.
- `Invariance`: `Spec => []IndInv`, from which both follow.

Neither is inductive alone. A channel is filled only by the applier, at the
index it has just reached, so a channel that holds something belongs to an index
it is past (`ChannelsPast`); the next index is therefore free, whoever timed out,
shares an index or registers late. A restart resets the applier and the map of
channels together, which is what keeps this true. `TypeOK` of a reply needs that
a waiting handler has a channel in its server's map (`WaitersHaveChannels`), and
that a handler under way has a server and an Op (`RpcShape`). There is one lemma
per action or group of actions (`StepSend`, `StepClerk`, `StepStart`,
`StepRegister`, `StepReceive`, `StepTimeout`, `StepApply`, `StepRestart`,
`StepRaft`), and small ones for the records they update. The proofs use
`ConstantsAssumption` only.

It also proves, if the clock of a clerk does not go back
(`ClockSteps \subseteq Nat`), `NoneOutOfOrder` (`OldNeverAfterNew`) and `FixedOnce`
(`FixedStampOnce`), both from `OrderInvariance`. The invariant speaks of every Op
that is with a handler, in a log or handled (`Issued`): its clerk made it in its
current operation or an earlier one (`Traced`), and of two Ops of a clerk the one with
the smaller stamp is not of a later operation (`InOrder`). Only sending an RPC makes
an Op; every other step moves Ops that exist (`StepMoves`). On a server the cache
holds the greatest stamp handled for a client (`CacheTop`), so the stamps of a client
increase along what is handled (`Increasing`).

Last it proves, if the clock advances (`ClockSteps \subseteq Nat \ {0}`),
`AckedIsDone` (`AckedIsHandled`): the filter never drops an operation that was
acknowledged. The argument goes from the clerk back to the log and down to the
server. A stamp belongs to one operation (`Distinct`), so a handler that says OK has
seen the clerk's own operation committed (`Answers`, `OkCommitted`, `Heard`). A
clerk begins an operation when all earlier ones are committed, so operations first
appear in the log in the order of the script (`AckedCommitted`, `OneByOne`). If the
filter refuses an Op, the stamp in the cache is of an Op that was handled
(`CacheHeld`) of the same operation or a later one; in the second case a copy of the
refused one lies before it in the log, and was handled by induction (`OldIsDone`,
`NoneSkipped`).

`ShardCtrlerReplayProofs` proves, with no assumption on the clocks,
`HandledIsCalledFor` (`HandledIsEffective`) and `ReplicasAlwaysAgree`
(`ReplicasAgree`): what a replica has handled is a function of its part of the
committed log, so two replicas can differ only in how far they are. `Effective(log)`
is defined without recursion, by ranking the entries that take effect, so that what
one more entry does to it can be proved by counting: it is unchanged or it is one Op longer.
The invariant adds that the cache of a server holds exactly the greatest stamp of
each client in what it has applied (`CacheExact`), which makes the filter's test the
test of `TakesEffect`. `ReplayInvariance` is inductive over Apply, Commit and Restart;
a restart empties both sides. The rest of the module is about what the whole
committed log calls for (`Effected`), and about what one step can do to handlers,
clerks and channels.

`ShardCtrlerServiceProofs` proves, if the clock advances, that the controller is one
service: `ControllerImplementsService` (`Spec => ImplementsService`, all of
`ConfigService` under the mapping of `ShardCtrlerRefines`) and `QuerySeesAcked`
(`QueryReflectsAcked`), both from `ServiceInvariance`:

- a clerk hears only of its latest RPC (`HeardLatest`), and what is left of an
  operation that is over is no newer than what is committed for its clerk
  (`AckedTop`), so that nothing takes effect after its method has returned;
- a number in a channel or in a reply counts the changes before the place at which
  that Query took effect (`Replies`), and keeps doing so as the log grows, since
  committed entries stay where they are;
- what was acknowledged when an operation began lies before its place in the sequence
  (`FloorBelow`).

In the refinement a step that commits an entry which takes effect is `Effect`, a
handler that comes to hold OK is `Answer`, answers that a clerk will not hear are
lost (`Lose`), `CallReturns` with an OK is `Finish`, and everything else stutters. For the answer the invariant supplies that
the number is the one `ConfigService` asks for; for the end, that the operation has
taken effect.

`LabRPCProofs` proves, for any sets of ends, names, servers and calls,
`RPCTypeCorrect`, `RPCSafety` (`TrueMeansExecuted`) and `RPCRefinement`:
`RPCSpec => ImplementsContract`. The invariant is local to a call (`Fine`): before
the dispatch no handler runs and nothing is decided; once a reply was seen, answered
or delivered, the handler has returned. Rearranging the network cannot touch it.
For the refinement, `OneResult` shows that a step of a call changes the mapped
state of no other call, and `ProcessRefines` and `CallRefines` take the steps of
processReq and of `Call()` one by one: `Dispatch` is `Execute`, `Deliver` is
`Succeed` or `Fail`, for which `Fine` supplies that the handler has returned.

For `CrashRestart` and any number of calls, ends and restarts it proves
`CrashTypeCorrect`, `AckedAlwaysSurvives` (`AckedSurvives`), `SavedByOneSave`
(`SavedInSync`) and `SavedIsNewest` (`NewestOwnsSaved`), all from one invariant:

- the parts of every persister are of one Save, and only the newest instance has
  the one that is saved; between crash1's first copy and Make() no instance has it
  (`PersistersFine`), which is why the two reads of crash1 agree;
- outside of that stretch, Raft state and snapshot saved cover together what the
  newest instance knows, after each of the two Saves of `Snapshot()` too;
- the network knows the newest instance, or none, and only from AddServer to
  DeleteServer (`ServersFine`);
- a handler returns only after its update is in the memory of its instance
  (`CallsKnown`).

A positive answer passes `isServerDead`, so it comes from the newest instance
while that one owns what is saved: its update is there, and every later copy
keeps it (`AckedKept`). The assumptions used are `LabRPCAssumption` and
`CrashRestartAssumption`.

`MapReduceProofs` proves, for any workers, numbers of tasks and bounds,
`MRTypeCorrect`, `MRGivenOnce` (`GivenOnce`), `MRWatched` (`UnfinishedIsWatched`)
and `MRCounted` (`CountNotBehind`). The tests of the coordinator are made without
its lock, so the invariant bounds how far they can be overtaken (`Overshoot`: once
all reduce tasks are given out, each worker that passed the test is given one too
many). It says that the task a loop was given has been counted (`JobsCounted`) and
that a task which was not given out has no monitor yet (`NotGivenYet`).

It adds, for patient jobs, `MRCountExact` (`CountExact`) and
`MRReduceAfterAllMaps` (`PatientReduceAfterAllMaps`). The argument is that there
is at most one execution of a task at a time (`Solo`), also while a monitor dials
(`DialAlone`); so the thread that is about to mark a task finds it unmarked
(`MarkFirst`), the counter is the number of marked tasks less those about to be
counted (`Exact`), and a reduce is given only when all maps are marked
(`ReduceLast`).

On top of it `MROutputCorrect` shows `OutputCorrect`: when a patient job reports that
it is done, every output file is whole and right, through any crashes and redos. The
invariant `FilesInv` follows a task through its files. A thread that got as far as its
report has written its files whole (`Wrote`); while it writes, nobody else is at the
task (`Solo`), so a file that it truncated is still its own when it closes it, and
lines of others do not get in between. A task that is complete has whole files and is
given to nobody again, neither by a counter nor by a monitor (`TaskRight`). A reduce
task is told of all map files (`AllFiles`), since the first is given out when all maps
are complete, and so reads whole files only. `Done()` is true only when every reduce task is
complete (`ExitLast`), again because the counters are exact. The proofs use
`MapReduceAssumption` only.

`RaftHarnessProofs` first proves `NetSafety` for `Connectivity` and any number of
servers and instances, and `HarnessUsesNet`: every step of `RaftHarness` is a step of
`Connectivity` or leaves its state alone. `HarnessEndsMatch`
(`EndsMatchConnected`) and `HarnessOldEndsSilent` (`OldEndsSilent`) follow for the
whole harness. connect enables the right ends because `cfg.endnames` holds the
newest ones, and start1 leaves no end of the old instance enabled because crash1
disabled them all.

Then it proves what the checks of the harness are worth, for any number of servers,
instances, commands and indexes and any `SnapShotInterval`: `SoundRaftPasses`
(`NoFalseAlarm`), `CheckedLogsAgree` (`LogsAgree`), `OneReturnsAgreed`
(`OneIsAgreed`) and `SnapshotsAreComplete` (`SnapshotsComplete`). They assume
`TestsFine`: in a test with snapshots, a killed instance of a sound Raft is quiet.
Without quiet instances `NoFalseAlarm` does not hold, as `raft_stale` shows. The invariant
`HarnessInv` has two parts. For a sound Raft (`SoundInv`) every log and every saved
snapshot is a part of what was chosen, without gaps, and an applier of the newest
instance is in step with `lastApplied` and the log at each of its lock boundaries
(`InStep`). For any Raft, a snapshot replaces a log by one without gaps and a command
that checkLogs accepts adds none (`NoNewGaps`); one that it does not accept may, but
then an applier has objected, and goes on to end the test whatever the others do
(`ErrorStays`). Without snapshots, logs that passed checkLogs agree, and what
nCommitted has counted so far is held by as many servers (`Counted`), since nothing is
ever taken out of a log.

`ShardKVClerkProofs` proves, for any clerks, scripts, keys, groups, sequence of
configurations and number of faults, `ClerkTypes` (`TypeOK`), `UpdatesTakeEffectOnce`
(`UpdatesOnceInOrder`), `AckedStaysStored` (`AckedIsStored`) and `GetReturnsAcked`
(`GetSeesAcked`), from `ClerkInvariance`. `TypeOK` includes that `servers[si]` is never
out of range and that a clerk calls only a group its configuration lists. One reading
of the clock per operation makes the stamp of an operation its place in the script
(`ClerkStamped`), and whatever is in a log was begun with that stamp (`Logged`). The
group that has a shard has acknowledged all that is stored in it (`StoreBelow`), and all
it has acknowledged is stored (`AckStored`); both travel with the shard. A clerk
goes on only with a reply to the operation it is in (`ReplyRight`), so when it begins
the next one the last is stored. The assumption used is `ShardKVClerkAssumption`.

`LabGobProofs` proves, for any types, however they refer to each other, any values
and any number of goroutines, `TypesWalkedOnce` (`WalkedOnce`), `TypesAllChecked`
(`AllChecked`: when nobody is at work, the types looked at are exactly those that were sent, with all
they are made of) and `FaultsComplainedOnce` (`ComplainedOnce`). A goroutine that
meets a marked type returns at once, also when another one is still at it, so the
invariant `WalkInv` says where the rest of the work is: each part of a marked type is
marked, or a call for it has been made (`Awaited`), or the one call that walks the
type has yet to come to the part (`Walking`, `Kept`); and only what types that were
sent are made of is looked at (`Sought`). When all stacks are empty the marked types
are therefore closed under parts, and the least such set is `Reachable(asked)`. The
counting (`CountInv`) sets the complaints made and the ones owed against the
lower-case fields that were come to and the leaves of the values decoded into; every
step changes both sides alike. `FaultsComplainedOnce` has the hypothesis
`CountsLeaves`, that checkDefault1 comes to each non-zero leaf of one value once: it
adds up over the fields of a struct, and what a fold computes for every sequence
needs an induction the prover cannot do. The other two assume `LabGobAssumption` only.

Every invariant and every safety refinement that a passing run checks is proved. Only
model-checked are liveness (`ClerksFinish`, `CallReturns`, `NeverHangs`,
`OperationsReturn`, `ChecksEnd`), which is beyond the prover, and `CountsLeaves`, which
`rpc` shows for the values it decodes into, as part of `ComplainedOnce`.

## Not modelled

Raft and the key-value server, whose code is hidden; rebalancing of shards
(hidden); `shardkv/config.go`, which only starts and stops what is hidden, apart
from the kill and restart it shares with `CrashRestart`; `partition` of the
controller's harness, which no test calls; the checks of the Raft harness that only
ask Raft for its state (`checkOneLeader`, `checkTerms`, `checkNoLeader`, `wait`);
the panic of labgob on a lower-case field of the value it decodes into; sizes and
counters; the bytes of arguments and replies.
