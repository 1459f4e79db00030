------------------------------ MODULE CrashRestart -----------------------------
(***************************************************************************)
(* How the harness kills and restarts one server (crash1 and start1 of     *)
(* src/raft/config.go; ShutdownServer and StartServer of the shardctrler   *)
(* and shardkv harnesses do the same without the second save), composed    *)
(* with the network of LabRPC and with Persister objects.  A killed        *)
(* instance cannot really be stopped: its handlers run on and keep saving  *)
(* to the persister they were given.                                       *)
(*                                                                         *)
(* An update is identified with the call that carries it.  Both parts of a *)
(* persister, Raft state and snapshot, are the sets of updates they cover, *)
(* with the number of the Save that wrote them.  Raft saves as the excerpts *)
(* in src/README.md show: persist() writes a new Raft state beside the     *)
(* snapshot that is there, Snapshot() a new snapshot beside the Raft state *)
(* that is there, and then calls persist() with the log truncated.         *)
(***************************************************************************)
EXTENDS LabRPC

CONSTANTS
  Server,        \* the name of the server that is killed and restarted
  PeerEnds,      \* the ends that disconnect() disables: those of the peers,
                 \*   not those of clerks
  MaxInstances   \* bound: instances of the server

ASSUME CrashRestartAssumption ==
  /\ MaxInstances \in Nat \ {0}
  /\ Server \in Names
  /\ PeerEnds \subseteq Ends
  /\ Objects = 1 .. MaxInstances

VARIABLES
  hpc,           \* where the harness is in crash1 / start1
  saved,         \* cfg.saved[i]: the persister the next instance is given
  disk,          \* the contents of every persister made so far
  read,          \* what crash1 has read from cfg.saved[i]
  instance,      \* the newest instance; its Server object has this number
  persister,     \* the persister each instance was given
  memory,        \* the updates each instance knows of
  persisted,     \* the calls whose handler has done its Save
  saves,         \* Saves that instances have made, which numbers them
  snapping       \* the instances between the two Saves of Snapshot()

raftVars    == <<memory, persisted, saves, snapping>>
harnessVars == <<hpc, saved, disk, read, instance, persister, raftVars>>
vars        == <<rpcVars, harnessVars>>

\* A part of a persister: what it covers and which Save wrote it.
Part(u, n) == [covers |-> u, save |-> n]
NoUpdates  == [raftstate |-> Part({}, 0), snapshot |-> Part({}, 0)]

\* What an instance that is given contents d will know of.
Covered(d) == d.raftstate.covers \cup d.snapshot.covers

\* One to start with, and three for every restart: the copy and the second
\* save of crash1 and the copy of start1.
Persisters == 0 .. (3 * (MaxInstances - 1))

-----------------------------------------------------------------------------
(* Persister objects                                                       *)

FreshReused == saved

\* The identity of the next new Persister: they are made in order.
Fresh == saved + 1

\* Save() replaces both parts at once.
Save(p, r, s) == disk' = [disk EXCEPT ![p] = [raftstate |-> r, snapshot |-> s]]

\* saved = saved.Copy()
Copy == saved' = Fresh /\ Save(Fresh, disk[saved].raftstate, disk[saved].snapshot)

-----------------------------------------------------------------------------
(* The harness                                                             *)

Step(from, to) == hpc = from /\ hpc' = to

\* cfg.disconnect(i)
Disconnect ==
  /\ Step("up", "delete")
  /\ instance < MaxInstances
  /\ enabled' = enabled \ PeerEnds
  /\ UNCHANGED <<reliable, ends, connections, servers, done, callVars>>
  /\ UNCHANGED <<saved, disk, read, instance, persister, raftVars>>

Delete ==
  /\ Step("delete", "copy")
  /\ DeleteServer(Server)
  /\ UNCHANGED <<saved, disk, read, instance, persister, raftVars>>

CopySkipped ==
  /\ Step("copy", "readState")
  /\ UNCHANGED <<rpcVars, saved, disk, read, instance, persister, raftVars>>

\* A first copy, which the instance that is about to be killed cannot touch.
CopySaved ==
  /\ Step("copy", "readState")
  /\ Copy
  /\ UNCHANGED <<rpcVars, read, instance, persister, raftVars>>

\* After Kill(): the two parts are read separately and saved in a new one.
ReadRaftState ==
  /\ Step("readState", "readSnapshot")
  /\ read' = [read EXCEPT !.raftstate = disk[saved].raftstate]
  /\ UNCHANGED <<rpcVars, saved, disk, instance, persister, raftVars>>

ReadSnapshot ==
  /\ Step("readSnapshot", "save")
  /\ read' = [read EXCEPT !.snapshot = disk[saved].snapshot]
  /\ UNCHANGED <<rpcVars, saved, disk, instance, persister, raftVars>>

SaveAgain ==
  /\ Step("save", "make")
  /\ saved' = Fresh
  /\ Save(Fresh, read.raftstate, read.snapshot)
  /\ UNCHANGED <<rpcVars, read, instance, persister, raftVars>>

crash1 == Disconnect \/ Delete \/ CopySaved \/ ReadRaftState \/ ReadSnapshot \/ SaveAgain

\* The rest of start1: another copy, from which Make() reads the state.
Make ==
  /\ Step("make", "add")
  /\ Copy
  /\ instance' = instance + 1
  /\ persister' = [persister EXCEPT ![instance + 1] = Fresh]
  /\ memory' = [memory EXCEPT ![instance + 1] = Covered(disk[saved])]
  /\ UNCHANGED <<rpcVars, read, persisted, saves, snapping>>

Add ==
  /\ Step("add", "connect")
  /\ AddServer(Server, instance)
  /\ UNCHANGED <<saved, disk, read, instance, persister, raftVars>>

\* The test calls connect(i).
Reconnect ==
  /\ Step("connect", "up")
  /\ enabled' = enabled \cup PeerEnds
  /\ UNCHANGED <<reliable, ends, connections, servers, done, callVars>>
  /\ UNCHANGED <<saved, disk, read, instance, persister, raftVars>>

start1 == Make \/ Add \/ Reconnect

-----------------------------------------------------------------------------
(* Instances                                                               *)

\* A Save of instance o, the next in number.
SaveNew(o, r, t) ==
  /\ saves' = saves + 1
  /\ Save(persister[o], Part(r, saves + 1), Part(t, saves + 1))

\* persist(): the log of an instance holds what it knows of and its snapshot
\* does not cover; the snapshot is the one that is there.
persist(o, m) ==
  LET t == disk[persister[o]].snapshot.covers IN SaveNew(o, m \ t, t)

\* The handler of an update: the instance takes it in and persists, with rf.mu
\* held.
HandlerSaves(k) ==
  LET o == call[k].server
      m == memory[o] \cup {k}
  IN
  /\ handler[k] = "running" /\ k \notin persisted
  /\ o \notin snapping
  /\ memory' = [memory EXCEPT ![o] = m]
  /\ persist(o, m)
  /\ persisted' = persisted \cup {k}
  /\ UNCHANGED <<rpcVars, hpc, saved, read, instance, persister, snapping>>

\* Snapshot(): the service hands down a snapshot that covers more than the last
\* one.  It is saved beside the Raft state that is there ...
SnapshotSaves(o) ==
  LET d == disk[persister[o]] IN
  /\ o \notin snapping
  /\ \E t \in SUBSET memory[o] :
       /\ d.snapshot.covers \subseteq t /\ d.snapshot.covers # t
       /\ SaveNew(o, d.raftstate.covers, t)
  /\ snapping' = snapping \cup {o}
  /\ UNCHANGED <<rpcVars, hpc, saved, read, instance, persister, memory, persisted>>

\* ... and then the truncated log is, still with rf.mu held.
SnapshotPersists(o) ==
  /\ o \in snapping
  /\ persist(o, memory[o])
  /\ snapping' = snapping \ {o}
  /\ UNCHANGED <<rpcVars, hpc, saved, read, instance, persister, memory, persisted>>

HandlerEnds(k) ==
  /\ k \in persisted
  /\ HandlerReturns(k)
  /\ UNCHANGED harnessVars

-----------------------------------------------------------------------------

\* The first instance is up and every end is connected to it and enabled.
Init ==
  /\ reliable = TRUE
  /\ ends = Ends
  /\ enabled = Ends
  /\ connections = [e \in Ends |-> Server]
  /\ servers = [n \in Names |-> IF n = Server THEN 1 ELSE Nil]
  /\ done = FALSE
  /\ call = [k \in Calls |-> NoCall]
  /\ handler = [k \in Calls |-> "idle"]
  /\ hpc = "up"
  /\ saved = 0
  /\ disk = [p \in Persisters |-> NoUpdates]
  /\ read = NoUpdates
  /\ instance = 1
  /\ persister = [o \in Objects |-> 0]
  /\ memory = [o \in Objects |-> {}]
  /\ persisted = {}
  /\ saves = 0
  /\ snapping = {}

Next ==
  \/ crash1 \/ start1
  \/ \E k \in Calls : HandlerSaves(k) \/ HandlerEnds(k)
  \/ \E o \in 1 .. instance : SnapshotSaves(o) \/ SnapshotPersists(o)
  \/ \E k \in Calls : /\ processReq(k) \/ \E e \in Ends : Call(k, e)
                      /\ UNCHANGED harnessVars

Spec == Init /\ [][Next]_vars

Parts    == [covers : SUBSET Calls, save : Nat]
Contents == [raftstate : Parts, snapshot : Parts]

TypeOK ==
  /\ RPCTypeOK
  /\ hpc \in {"up", "delete", "copy", "readState", "readSnapshot", "save", "make", "add", "connect"}
  /\ saved \in Persisters
  /\ disk \in [Persisters -> Contents]
  /\ read \in Contents
  /\ instance \in Objects
  /\ persister \in [Objects -> Persisters]
  /\ memory \in [Objects -> SUBSET Calls]
  /\ persisted \subseteq Calls
  /\ saves \in Nat
  /\ snapping \subseteq Objects

\* A call that got a positive reply left its update in the persister that the
\* next instance will be given, never only in a superseded one
\* (labrpc.go:264-270, shardctrler/config.go:234-240): in its Raft state or in
\* its snapshot, also when the server is killed between the two Saves of
\* Snapshot().
AckedSurvives ==
  \A k \in Calls : call[k].pc = "returned" /\ call[k].ok => k \in Covered(disk[saved])

\* The Raft state and the snapshot that will be handed on were written by one
\* and the same Save of an instance (persister.go:51-58, config.go:120-141):
\* crash1, which reads them in two steps while the old instance goes on saving,
\* never pairs the parts of two Saves.
SavedInSync == disk[saved].raftstate.save = disk[saved].snapshot.save

\* From Make() to the next kill, what is saved covers what its newest instance
\* knows of and nothing else: no older instance overwrites it, and none of the
\* Saves of the newest drops an update (config.go:301-306).
NewestOwnsSaved ==
  hpc \in {"add", "connect", "up", "delete", "copy"} => Covered(disk[saved]) = memory[instance]
====
