------------------------------- MODULE RaftHarness ------------------------------
(***************************************************************************)
(* The checks of the Raft test harness (src/raft/config.go): one applier   *)
(* goroutine for every instance of every server, which compares what its   *)
(* Raft delivers with the logs of all servers; applierSnap, which also     *)
(* takes snapshots; crash1 and start1, which replace an instance; and      *)
(* one(), which submits a command and polls nCommitted().                  *)
(*                                                                         *)
(* Raft is external.  A sound Raft delivers one sequence of commands, each *)
(* instance in order from the snapshot it starts with; an unsound one      *)
(* delivers any commands and, where the test takes snapshots, any snapshot,*)
(* and has saved any when it is restarted.  Entry 0 of a log, always nil,  *)
(* is left out, and so is maxIndex, which is only printed.                 *)
(***************************************************************************)
EXTENDS Connectivity, Sequences, FiniteSets

CONSTANTS
  Values,            \* commands
  Kinds,             \* the kinds of test: with snapshots or not, with a
                     \*   sound Raft or not
  Quiet,             \* TRUE: with snapshots, start1 comes after the killed
                     \*   instance has delivered its last message
  SnapShotInterval,
  Nil,               \* no command
  MaxIndex,          \* bound: log indexes
  Calling,           \* bound: the kinds of test that call one()
  Delivered          \* bound: the commands of an unsound Raft, by kind of test

ASSUME RaftHarnessAssumption ==
  /\ Kinds \subseteq [snapshot : BOOLEAN, sound : BOOLEAN]
  /\ Quiet \in BOOLEAN
  /\ SnapShotInterval \in Nat \ {0} /\ MaxIndex \in Nat
  /\ Nil \notin Values
  /\ \A k \in Kinds : Delivered[k] \subseteq Values

Indexes  == 1 .. MaxIndex
Appliers == Servers \X Instances

VARIABLES
  kind,              \* the test: make_config's snapshot, and what Raft does
  chosen,            \* a sound Raft: the commands it has agreed on
  next,              \* Raft: the index each instance delivers next
  saved,             \* a sound Raft: the snapshot in cfg.saved[i], or <<>>
  app,               \* the applier of each instance
  logs,              \* cfg.logs
  lastApplied,       \* cfg.lastApplied
  one,               \* the test's goroutine, in one() or between two calls
  failed             \* what ended the test: log.Fatalf or t.Fatalf

raftVars    == <<kind, chosen, next, saved>>
checkVars   == <<app, logs, lastApplied>>
vars        == <<netVars, raftVars, checkVars, one, failed>>

Running == failed = "no"

Put(log, x, v) == [y \in DOMAIN log \cup {x} |-> IF y = x THEN v ELSE log[y]]

-----------------------------------------------------------------------------
(* Raft                                                                    *)

\* The cluster agrees on one more command.
Agree(v) ==
  /\ Running /\ kind.sound /\ Len(chosen) < MaxIndex
  /\ chosen' = Append(chosen, v)
  /\ UNCHANGED <<netVars, kind, next, saved, checkVars, one, failed>>

\* A killed instance runs on, and may deliver what it has.
Delivers(a) == a[2] = instance[a[1]] \/ ~(kind.snapshot /\ Quiet)

\* The commands instance a may send to its applyCh now.
Messages(a) ==
  IF ~kind.sound THEN [index : Indexes, cmd : Delivered[kind]]
  ELSE {[index |-> next[a], cmd |-> chosen[x]] : x \in {next[a]} \cap DOMAIN chosen}

\* cfg.saved[i] is the persister of the newest instance, until crash1 copies it.
OwnsSaved(i, k) == k = instance[i] /\ i \in rafts

\* Snapshots as bytes: none at all, bytes that do not decode, or an encoded
\* lastIncludedIndex and log.
NoBytes == [bytes |-> "none", last |-> 0, xlog |-> <<>>]
Garbled == [bytes |-> "garbled", last |-> 0, xlog |-> <<>>]

\* The bytes that applierSnap makes of a log (config.go:252-259).
Encoded(s) == IF s = <<>> THEN NoBytes ELSE [bytes |-> "whole", last |-> Len(s), xlog |-> s]

Logs       == UNION {[1 .. x -> Delivered[kind]] : x \in 0 .. MaxIndex}
AnyBytes   == {NoBytes, Garbled} \cup [bytes : {"whole"}, last : 0 .. MaxIndex, xlog : Logs]

\* The index of a snapshot that is not to be compared.
NoIndex == -1

\* The snapshots instance a may send to its applyCh now: a sound Raft sends one
\* that another server has.
Snapshots(a) ==
  IF ~kind.sound THEN [snapshot : AnyBytes, index : {NoIndex} \cup 0 .. MaxIndex]
  ELSE {[snapshot |-> Encoded(saved[j]), index |-> Len(saved[j])] :
          j \in {j \in Servers \ {a[1]} : Len(saved[j]) >= next[a]}}

\* What start1 may find in cfg.saved[i].  A Raft that is not given snapshots has
\* none to save.
Persisted(i) == IF kind.snapshot /\ ~kind.sound THEN AnyBytes ELSE {Encoded(saved[i])}

-----------------------------------------------------------------------------
(* The appliers                                                            *)

OwnConflict(i, x, v) == x \in DOMAIN logs[i] /\ logs[i][x] # v

\* Some server has already committed a different value for this entry.
Conflict(i, x, v) == \E j \in Servers : x \in DOMAIN logs[j] /\ logs[j][x] # v

NoMessage == [index |-> 0, cmd |-> Nil]

prevok(i, x) == x - 1 \in DOMAIN logs[i]

\* checkLogs, and the test of what it returns.
checkLogs(i, x, v) == logs' = [logs EXCEPT ![i] = Put(@, x, v)]
CheckFails(i, x, v) == Conflict(i, x, v) \/ (x > 1 /\ ~prevok(i, x))

\* The loop's last statement: log.Fatalf, or the next message.
AfterMessage(a, err) ==
  IF err THEN [app[a] EXCEPT !.pc = "fail"]
  ELSE [app[a] EXCEPT !.pc = "recv", !.m = NoMessage]

\* One iteration of applier.
applier(a) ==
  /\ Running /\ ~kind.snapshot
  /\ app[a].pc = "recv" /\ Delivers(a)
  /\ \E m \in Messages(a) :
       /\ checkLogs(a[1], m.index, m.cmd)
       /\ app' = [app EXCEPT ![a] = AfterMessage(a, CheckFails(a[1], m.index, m.cmd))]
       /\ next' = [next EXCEPT ![a] = IF kind.sound THEN @ + 1 ELSE @]
  /\ UNCHANGED <<netVars, kind, chosen, saved, lastApplied, one, failed>>

\* applierSnap begins: it reads cfg.rafts[i], and returns if that is nil.
BeginSnap(a) ==
  /\ Running /\ app[a].pc = "begin"
  /\ app' = [app EXCEPT ![a] = IF a[1] \in rafts
                                 THEN [@ EXCEPT !.pc = "recv", !.rf = instance[a[1]]]
                                 ELSE [@ EXCEPT !.pc = "done"]]
  /\ UNCHANGED <<netVars, raftVars, logs, lastApplied, one, failed>>

\* The snapshot is not the one that was announced.
Mismatch(s, index) == s.bytes = "whole" /\ index # NoIndex /\ index # s.last

ingestNothing(i, s, index) ==
  /\ lastApplied' = [lastApplied EXCEPT ![i] = s.last]
  /\ UNCHANGED <<logs, failed>>

\* log.Fatalf without a snapshot or if it does not decode, an error for the
\* caller if it is another one, or else the log becomes that of the snapshot,
\* which is compared with nothing.
ingestSnap(i, s, index) ==
  \/ /\ s.bytes # "whole"
     /\ failed' = "apply"
     /\ UNCHANGED <<logs, lastApplied>>
  \/ /\ Mismatch(s, index)
     /\ UNCHANGED <<logs, lastApplied, failed>>
  \/ /\ s.bytes = "whole" /\ ~Mismatch(s, index)
     /\ logs' = [logs EXCEPT ![i] = s.xlog]
     /\ lastApplied' = [lastApplied EXCEPT ![i] = s.last]
     /\ UNCHANGED failed

\* applierSnap takes a snapshot from applyCh, which Raft has persisted.
ReceiveSnapshot(a) ==
  /\ Running /\ app[a].pc = "recv" /\ kind.snapshot /\ Delivers(a)
  /\ \E m \in Snapshots(a) :
       /\ ingestSnap(a[1], m.snapshot, m.index)
       /\ app' = [app EXCEPT ![a] = AfterMessage(a, Mismatch(m.snapshot, m.index))]
       /\ next' = [next EXCEPT ![a] = IF kind.sound THEN m.index + 1 ELSE @]
       /\ saved' = [saved EXCEPT ![a[1]] = IF kind.sound /\ OwnsSaved(a[1], a[2])
                                             THEN m.snapshot.xlog ELSE @]
  /\ UNCHANGED <<netVars, kind, chosen, one>>

\* applierSnap takes a command, and reads cfg.lastApplied[i] without the lock.
ReceiveCommand(a) ==
  /\ Running /\ app[a].pc = "recv" /\ kind.snapshot /\ Delivers(a)
  /\ \E m \in Messages(a) :
       LET err == m.index # lastApplied[a[1]] + 1 IN
       app' = [app EXCEPT ![a].m = m, ![a].err = err, ![a].pc = IF err THEN "set" ELSE "check"]
  /\ next' = [next EXCEPT ![a] = IF kind.sound THEN @ + 1 ELSE @]
  /\ UNCHANGED <<netVars, kind, chosen, saved, logs, lastApplied, one, failed>>

CheckSnap(a) ==
  LET m == app[a].m IN
  /\ Running /\ app[a].pc = "check"
  /\ checkLogs(a[1], m.index, m.cmd)
  /\ app' = [app EXCEPT ![a].pc = "set", ![a].err = CheckFails(a[1], m.index, m.cmd)]
  /\ UNCHANGED <<netVars, raftVars, lastApplied, one, failed>>

\* An error does not keep lastApplied and the snapshot from being made.
SetLastApplied(a) ==
  LET x == app[a].m.index IN
  /\ Running /\ app[a].pc = "set"
  /\ lastApplied' = [lastApplied EXCEPT ![a[1]] = x]
  /\ app' = [app EXCEPT ![a] = IF (x + 1) % SnapShotInterval = 0
                                 THEN [@ EXCEPT !.pc = "snap"] ELSE AfterMessage(a, @.err)]
  /\ UNCHANGED <<netVars, raftVars, logs, one, failed>>

\* The snapshot is made of cfg.logs[i], read without the lock, and given to
\* rf, which ignores it if it has a newer one.
TakeSnapshot(a) ==
  LET i == a[1]
      s == [x \in 1 .. app[a].m.index |-> IF x \in DOMAIN logs[i] THEN logs[i][x] ELSE Nil]
  IN
  /\ Running /\ app[a].pc = "snap"
  /\ saved' = [saved EXCEPT ![i] = IF kind.sound /\ OwnsSaved(i, app[a].rf) /\ Len(s) > Len(@)
                                     THEN s ELSE @]
  /\ app' = [app EXCEPT ![a] = AfterMessage(a, @.err)]
  /\ UNCHANGED <<netVars, kind, chosen, next, logs, lastApplied, one, failed>>

\* log.Fatalf: nothing after it is reached.
ApplyError(a) ==
  /\ Running /\ app[a].pc = "fail"
  /\ failed' = "apply"
  /\ UNCHANGED <<netVars, raftVars, checkVars, one>>

applierSnap(a) ==
  \/ BeginSnap(a) \/ ReceiveCommand(a) \/ ReceiveSnapshot(a)
  \/ CheckSnap(a) \/ SetLastApplied(a) \/ TakeSnapshot(a)

-----------------------------------------------------------------------------
(* The test's goroutine                                                    *)

\* The test rearranges the network and its servers between calls of one().
Between == Running /\ one.pc \in {"idle", "returned"}

\* Tests connect a server that runs and is not on the net.
Connect(i) ==
  /\ Between /\ i \in rafts \ connected
  /\ connect(i)
  /\ UNCHANGED <<raftVars, checkVars, one, failed>>

Disconnect(i) ==
  /\ Between /\ disconnect(i)
  /\ UNCHANGED <<raftVars, checkVars, one, failed>>

\* The persister is copied, so the old instance cannot change it any more.
Crash(i) ==
  /\ Between /\ crash1(i)
  /\ UNCHANGED <<raftVars, checkVars, one, failed>>

NoApplier == [pc |-> "none", rf |-> 0, m |-> NoMessage, err |-> FALSE]

NewApplier == [NoApplier EXCEPT !.pc = IF kind.snapshot THEN "begin" ELSE "recv"]

ResetForgotten(i, s) == UNCHANGED <<logs, lastApplied, failed>>

\* start1 sets lastApplied to 0 and processes the snapshot, if there is one.
Reset(i, s) ==
  IF s.bytes # "none" THEN ingestSnap(i, s, NoIndex)
  ELSE lastApplied' = [lastApplied EXCEPT ![i] = 0] /\ UNCHANGED <<logs, failed>>

\* The rest of start1: a new instance, which delivers what follows its
\* snapshot, and its applier.
Start(i) ==
  LET a == <<i, instance[i] + 1>> IN
  /\ Between /\ start1(i)
  /\ kind.snapshot /\ Quiet => app[<<i, instance[i]>>].pc \in {"recv", "done"}
  /\ \E s \in Persisted(i) : Reset(i, s)
  /\ next' = [next EXCEPT ![a] = Len(saved[i]) + 1]
  /\ app' = [app EXCEPT ![a] = NewApplier]
  /\ UNCHANGED <<kind, chosen, saved, one>>

NoCall == [pc |-> "idle", cmd |-> Nil, expected |-> 0,
           index |-> 0, at |-> 0, nd |-> 0, cmd1 |-> Nil]

Submit(v, e) == [NoCall EXCEPT !.pc = "start", !.cmd = v, !.expected = e]

\* one(cmd, expectedServers, retry) is called.
One(v, e) ==
  /\ Running /\ one.pc = "idle" /\ kind \in Calling
  /\ one' = Submit(v, e)
  /\ UNCHANGED <<netVars, raftVars, checkVars, failed>>

Count(x) == [one EXCEPT !.pc = "count", !.index = x, !.at = 0, !.nd = 0, !.cmd1 = Nil]

\* Some server on the net takes the command, and names the index it will have
\* if it is committed.
StartAccepted(x) ==
  /\ Running /\ one.pc = "start"
  /\ connected \cap rafts # {}
  /\ one' = Count(x)
  /\ UNCHANGED <<netVars, raftVars, checkVars, failed>>

\* One turn of nCommitted's loop: the lock is held for one server at a time.
nCommitted ==
  LET i   == one.at
      has == one.index \in DOMAIN logs[i]
  IN
  /\ Running /\ one.pc = "count" /\ one.at < n
  /\ \/ /\ has /\ one.nd > 0 /\ logs[i][one.index] # one.cmd1
        /\ failed' = "mismatch" /\ UNCHANGED one
     \/ /\ has /\ (one.nd > 0 => logs[i][one.index] = one.cmd1)
        /\ one' = [one EXCEPT !.at = @ + 1, !.nd = @ + 1, !.cmd1 = logs[i][one.index]]
        /\ UNCHANGED failed
     \/ /\ ~has
        /\ one' = [one EXCEPT !.at = @ + 1]
        /\ UNCHANGED failed
  /\ UNCHANGED <<netVars, raftVars, checkVars>>

CommittedAny == one.nd > 0 /\ one.nd >= one.expected

\* Enough servers committed the command we submitted.
Committed == one.nd > 0 /\ one.nd >= one.expected /\ one.cmd1 = one.cmd

\* nCommitted has returned: one() returns, polls again, or, two seconds after
\* Start(), submits the command again (retry == true) or gives up.
Decide ==
  /\ Running /\ one.pc = "count" /\ one.at = n
  /\ \/ Committed /\ one' = [one EXCEPT !.pc = "returned"] /\ UNCHANGED failed
     \/ ~Committed /\ one' = Count(one.index) /\ UNCHANGED failed
     \/ ~Committed /\ one' = Submit(one.cmd, one.expected) /\ UNCHANGED failed
     \/ ~Committed /\ failed' = "agreement" /\ UNCHANGED one
  /\ UNCHANGED <<netVars, raftVars, checkVars>>

\* Ten seconds have passed.
GiveUp ==
  /\ Running /\ one.pc = "start"
  /\ failed' = "agreement"
  /\ UNCHANGED <<netVars, raftVars, checkVars, one>>

-----------------------------------------------------------------------------

Init ==
  /\ NetInit
  /\ kind \in Kinds
  /\ chosen = <<>>
  /\ next = [a \in Appliers |-> 1]
  /\ saved = [i \in Servers |-> <<>>]
  /\ app = [a \in Appliers |-> IF a[2] = 1 THEN NewApplier ELSE NoApplier]
  /\ logs = [i \in Servers |-> <<>>]
  /\ lastApplied = [i \in Servers |-> 0]
  /\ one = NoCall
  /\ failed = "no"

Test ==
  \/ \E i \in Servers : Connect(i) \/ Disconnect(i) \/ Crash(i) \/ Start(i)
  \/ \E v \in Values, e \in 1 .. n : One(v, e)
  \/ \E x \in Indexes : StartAccepted(x)
  \/ nCommitted \/ Decide \/ GiveUp

Next ==
  \/ \E v \in Values : Agree(v)
  \/ \E a \in Appliers : applier(a) \/ applierSnap(a) \/ ApplyError(a)
  \/ Test

Spec == Init /\ [][Next]_vars

-----------------------------------------------------------------------------

\* An applier has found an error and is about to end the test.
Failing == \E a \in Appliers : app[a].err \/ app[a].pc = "fail"

\* The checks do not blame a sound Raft, whatever the test does to its servers
\* (config.go:144-185, 218-273, 496-519).
NoFalseAlarm == kind.sound => ~Failing /\ failed \in {"no", "agreement"}

\* As long as no applier has objected, every log is free of gaps, whatever its
\* Raft delivers and however instances are replaced (config.go:144-161, 177,
\* 195-211, 239-246).  In a test without snapshots no two servers differ at an
\* index either; with snapshots that holds for a sound Raft only, because the log
\* of a snapshot replaces the server's without being compared (206-210).
LogsAgree ==
  Running /\ ~Failing =>
    /\ \A i \in Servers : \A x \in DOMAIN logs[i] : \A y \in 1 .. x : y \in DOMAIN logs[i]
    /\ (kind.snapshot => kind.sound) =>
         \A i, j \in Servers : \A x \in DOMAIN logs[i] \cap DOMAIN logs[j] : logs[i][x] = logs[j][x]

\* Servers whose log has the command that one() was called with.
Holders == {i \in Servers : one.index \in DOMAIN logs[i] /\ logs[i][one.index] = one.cmd}

\* The index one() returned is where the command is, at expectedServers of the
\* servers or more, and stays so, although nCommitted looks at one server after
\* the other (config.go:496-519, 591-600).  With snapshots a restarted server
\* may have to learn it again, but what was agreed on does not change.
OneIsAgreed ==
  one.pc = "returned" /\ Running /\ ~Failing =>
    /\ ~kind.snapshot => Cardinality(Holders) >= one.expected
    /\ kind.sound => one.index <= Len(chosen) /\ chosen[one.index] = one.cmd

\* A snapshot that Raft was given is what was agreed on up to its index, with
\* no entry missing (config.go:251-263), and so is what an instance starts with.
SnapshotsComplete ==
  kind.sound => \A i \in Servers : saved[i] = SubSeq(chosen, 1, Len(saved[i]))
====
