---------------------------- MODULE RaftHarnessProofs ----------------------------
(***************************************************************************)
(* The Raft test harness, for any number of servers, restarts, commands    *)
(* and any interval of snapshots.  First its network: the ends and         *)
(* cfg.connected agree, and nothing enables an end of a superseded         *)
(* instance.  The two are inductive together: connect enables the right    *)
(* ends because cfg.endnames holds the newest ones, and start1 leaves no   *)
(* end of the old instance enabled because crash1 disabled them all.  Then *)
(* its checks: they accept what a sound Raft delivers, and nothing that    *)
(* leaves a gap or, as long as no snapshots are delivered, a disagreement. *)
(***************************************************************************)
EXTENDS RaftHarness, FiniteSetTheorems, TLAPS

\* Zenon is quicker on most steps; what needs arithmetic is left to the solver.
USE ZenonT(10), SMTT(20)

NetInv == NetTypeOK /\ EndsMatchConnected /\ OldEndsSilent

\* An end is its instance's server, its instance and where it leads.
LEMMA EndFacts ==
  ASSUME NEW e \in Ends
  PROVE  e[1] \in Servers /\ e[2] \in Instances /\ e[3] \in Servers /\ e = <<e[1], e[2], e[3]>>
BY DEF Ends

\* In a state that satisfies the invariant, the enabled ends are determined by
\* cfg.connected and cfg.endnames.
LEMMA EnabledEnds ==
  ASSUME NetTypeOK
  PROVE  EndsMatchConnected /\ OldEndsSilent
           <=> enabled = {e \in Ends : e[2] = instance[e[1]] /\ e[1] \in connected /\ e[3] \in connected}
<1> DEFINE E == {e \in Ends : e[2] = instance[e[1]] /\ e[1] \in connected /\ e[3] \in connected}
<1>1. ASSUME EndsMatchConnected, OldEndsSilent PROVE enabled = E
  <2>1. ASSUME NEW e \in Ends PROVE e \in enabled <=> e \in E
    <3>1. /\ e[1] \in Servers /\ e[3] \in Servers /\ e = <<e[1], e[2], e[3]>>
      BY EndFacts
    <3>2. CASE e[2] = instance[e[1]]
      <4>1. <<e[1], instance[e[1]], e[3]>> \in enabled <=> e[1] \in connected /\ e[3] \in connected
        BY <1>1, <3>1 DEF EndsMatchConnected
      <4> QED
        BY <3>1, <3>2, <4>1
    <3>3. CASE e[2] # instance[e[1]]
      BY <1>1, <3>3 DEF OldEndsSilent
    <3> QED
      BY <3>2, <3>3
  <2> QED
    BY <2>1 DEF NetTypeOK
<1>2. ASSUME enabled = E PROVE EndsMatchConnected /\ OldEndsSilent
  <2>1. OldEndsSilent
    BY <1>2 DEF OldEndsSilent
  <2>2. ASSUME NEW i \in Servers, NEW j \in Servers
        PROVE  <<i, instance[i], j>> \in E <=> i \in connected /\ j \in connected
    <3>1. <<i, instance[i], j>> \in Ends
      BY DEF NetTypeOK, Ends
    <3> QED
      BY <3>1
  <2> QED
    BY <1>2, <2>1, <2>2 DEF EndsMatchConnected
<1> QED
  BY <1>1, <1>2

\* Detaching a server leaves the ends between the others (config.go:387-410).
LEMMA DetachedEnds ==
  ASSUME NetInv, NEW i \in Servers
  PROVE  /\ Detached(i) \subseteq Ends
         /\ \A e \in Ends : e \in Detached(i) <=>
              e[2] = instance[e[1]] /\ e[1] \in connected \ {i} /\ e[3] \in connected \ {i}
<1>1. enabled = {e \in Ends : e[2] = instance[e[1]] /\ e[1] \in connected /\ e[3] \in connected}
  BY EnabledEnds DEF NetInv
<1>2. ASSUME NEW e \in Ends, e[2] = instance[e[1]]
      PROVE  e \in Outgoing(i, Servers) \cup Incoming(i, Servers) <=> e[1] = i \/ e[3] = i
  BY <1>2, EndFacts DEF Outgoing, Incoming
<1> QED
  BY <1>1, <1>2 DEF Detached

\* Each operation of the harness on its network keeps the invariant
\* (config.go:113-141, 280-338, 364-410).
LEMMA NetStep == NetInv /\ [NetNext]_netVars => NetInv'
<1> SUFFICES ASSUME NetInv, [NetNext]_netVars PROVE NetInv'
  OBVIOUS
<1>0. /\ NetTypeOK
      /\ enabled = {e \in Ends : e[2] = instance[e[1]] /\ e[1] \in connected /\ e[3] \in connected}
  BY EnabledEnds DEF NetInv
<1> DEFINE E == {e \in Ends : e[2] = instance[e[1]] /\ e[1] \in connected /\ e[3] \in connected}
<1>1. CASE UNCHANGED netVars
  BY <1>1 DEF netVars, NetInv, NetTypeOK, EndsMatchConnected, OldEndsSilent
<1>2. ASSUME NEW i \in Servers, connect(i) PROVE NetTypeOK' /\ enabled' = E'
  <2>1. connected' \subseteq Servers /\ i \in connected' /\ connected' = connected \cup {i}
        /\ instance' = instance /\ rafts' = rafts
    BY <1>0, <1>2 DEF connect, NetTypeOK
  <2>2. Outgoing(i, connected') \subseteq Ends /\ Incoming(i, connected') \subseteq Ends
    BY <1>0, <1>2, <2>1 DEF Outgoing, Incoming, Ends, NetTypeOK
  <2>3. ASSUME NEW e \in Ends
        PROVE  e \in Outgoing(i, connected') \cup Incoming(i, connected') <=>
                 /\ e[2] = instance[e[1]]
                 /\ (e[1] = i /\ e[3] \in connected') \/ (e[3] = i /\ e[1] \in connected')
    BY EndFacts DEF Outgoing, Incoming
  <2>4. enabled' = enabled \cup Outgoing(i, connected') \cup Incoming(i, connected')
    BY <1>2 DEF connect
  <2>5. ASSUME NEW e \in Ends PROVE e \in enabled' <=> e \in E'
    <3>1. e \in enabled' <=> e \in enabled \/ e \in Outgoing(i, connected') \cup Incoming(i, connected')
      BY <2>4
    <3>2. e \in E' <=> e[2] = instance[e[1]] /\ e[1] \in connected' /\ e[3] \in connected'
      BY <2>1
    <3>3. e \in enabled <=> e[2] = instance[e[1]] /\ e[1] \in connected /\ e[3] \in connected
      BY <1>0
    <3> QED
      BY <2>1, <2>3, <3>1, <3>2, <3>3
  <2>6. enabled' \subseteq Ends
    BY <1>0, <2>2, <2>4
  <2> QED
    BY <1>0, <2>1, <2>5, <2>6 DEF NetTypeOK
<1>3. ASSUME NEW i \in Servers, disconnect(i) \/ crash1(i) PROVE NetTypeOK' /\ enabled' = E'
  BY <1>0, <1>3, DetachedEnds DEF disconnect, crash1, NetTypeOK
<1>4. ASSUME NEW i \in Servers, start1(i) PROVE NetTypeOK' /\ enabled' = E'
  <2>1. instance' \in [Servers -> Instances]
    BY <1>0, <1>4, ConnectivityAssumption DEF start1, NetTypeOK, Instances
  <2>2. \A j \in Servers \ {i} : instance'[j] = instance[j]
    BY <1>0, <1>4 DEF start1, NetTypeOK
  <2>3. ASSUME NEW e \in Ends PROVE e \in enabled' <=> e \in E'
    BY <1>4, <2>2, EndFacts, DetachedEnds DEF start1
  <2> QED
    BY <1>0, <1>4, <2>1, <2>3, DetachedEnds DEF start1, NetTypeOK
<1>5. NetTypeOK' /\ enabled' = E' => NetInv'
  <2>1. NetTypeOK' => (EndsMatchConnected /\ OldEndsSilent <=> enabled = E)'
    BY EnabledEnds, PTL
  <2> QED
    BY <2>1 DEF NetInv
<1> QED
  BY <1>1, <1>2, <1>3, <1>4, <1>5 DEF NetNext

\* make_config starts and connects every server (config.go:97-107).
LEMMA NetInitially == NetInit => NetInv
<1> SUFFICES ASSUME NetInit PROVE NetInv
  OBVIOUS
<1>1. NetTypeOK
  BY ConnectivityAssumption DEF NetInit, NetTypeOK, Instances, Ends
<1>2. EndsMatchConnected /\ OldEndsSilent
  BY DEF NetInit, EndsMatchConnected, OldEndsSilent
<1> QED
  BY <1>1, <1>2 DEF NetInv

\* However servers are connected, disconnected, crashed and restarted, two can
\* talk exactly when both are on the net, and no end of a superseded instance
\* is enabled (config.go:283-284, 364-410).
THEOREM NetSafety == NetSpec => [](NetTypeOK /\ EndsMatchConnected /\ OldEndsSilent)
<1>1. NetInv => NetTypeOK /\ EndsMatchConnected /\ OldEndsSilent
  BY DEF NetInv
<1> QED
  BY <1>1, NetInitially, NetStep, PTL DEF NetSpec

-----------------------------------------------------------------------------
(* The harness                                                             *)

\* Every step of the test, its appliers and Raft is an operation on the
\* network or leaves it alone.
LEMMA HarnessStep == [Next]_vars => [NetNext]_netVars
<1> SUFFICES ASSUME [Next]_vars PROVE [NetNext]_netVars
  OBVIOUS
<1>1. ASSUME NEW i \in Servers, Connect(i) \/ Disconnect(i) \/ Crash(i) \/ Start(i) PROVE NetNext
  BY <1>1 DEF Connect, Disconnect, Crash, Start, NetNext
<1>2. ASSUME NEW a \in Appliers, applier(a) \/ applierSnap(a) \/ ApplyError(a)
      PROVE  UNCHANGED netVars
  BY <1>2 DEF applier, applierSnap, ApplyError, BeginSnap, ReceiveCommand, ReceiveSnapshot,
              CheckSnap, SetLastApplied, TakeSnapshot
<1>3. ASSUME (\E v \in Values : Agree(v)) \/ (\E v \in Values, e \in 1 .. n : One(v, e))
             \/ (\E x \in Indexes : StartAccepted(x)) \/ nCommitted \/ Decide \/ GiveUp
      PROVE  UNCHANGED netVars
  BY <1>3 DEF Agree, One, StartAccepted, nCommitted, Decide, GiveUp
<1>4. CASE UNCHANGED vars
  BY <1>4 DEF vars
<1> QED
  BY <1>1, <1>2, <1>3, <1>4 DEF Next, Test

\* In any test, with any Raft, the network of the harness behaves as that of
\* Connectivity.
THEOREM HarnessUsesNet == Spec => NetSpec
<1>1. Init => NetInit
  BY DEF Init
<1> QED
  BY <1>1, HarnessStep, PTL DEF Spec, NetSpec

\* In any test two servers can talk exactly when both are on the net
\* (config.go:364-410).
THEOREM HarnessEndsMatch == Spec => []EndsMatchConnected
BY HarnessUsesNet, NetSafety, PTL

\* In any test "old crashed instance's ClientEnds can't send" (config.go:284).
THEOREM HarnessOldEndsSilent == Spec => []OldEndsSilent
BY HarnessUsesNet, NetSafety, PTL

-----------------------------------------------------------------------------
(* The invariant of appliers and logs                                      *)

Command == Values \cup {Nil}

\* Logs may have gaps when Raft is not sound.
PartialLogs == UNION {[D -> Command] : D \in SUBSET (Nat \ {0})}

Message == [index : Nat, cmd : Command]

ApplierRecord ==
  [pc : {"none", "begin", "recv", "check", "set", "snap", "done", "fail"},
   rf : Nat, m : Message, err : BOOLEAN]

OneRecord ==
  [pc : {"idle", "start", "count", "returned"}, cmd : Command, expected : Nat,
   index : Nat, at : 0 .. n, nd : Nat, cmd1 : Command]

\* checkLogs is called with an entry, whose index is not 0.
Checking == \A a \in Appliers : app[a].pc = "check" => app[a].m.index # 0

HarnessTyped ==
  /\ kind \in Kinds /\ chosen \in Seq(Values)
  /\ next \in [Appliers -> Nat \ {0}] /\ saved \in [Servers -> Seq(Command)]
  /\ app \in [Appliers -> ApplierRecord] /\ logs \in [Servers -> PartialLogs]
  /\ lastApplied \in [Servers -> Nat] /\ one \in OneRecord
  /\ failed \in {"no", "agreement", "apply", "mismatch"}
  /\ Checking

\* An instance that was not started has no applier; without snapshots an
\* applier is between two iterations or has failed; with snapshots one that was
\* superseded was done with its last message, if Raft is sound; and an applier
\* that has found an error does not go back to receiving.
ApplierFine(a) ==
  /\ a[2] > instance[a[1]] => app[a].pc = "none" /\ ~app[a].err
  /\ ~kind.snapshot => app[a].pc \in {"none", "recv", "fail"} /\ ~app[a].err
  /\ kind.snapshot /\ kind.sound /\ a[2] < instance[a[1]] => app[a].pc \in {"recv", "done"}
  /\ app[a].err => app[a].pc \in {"set", "snap", "fail"}

\* Without snapshots nothing is saved.
NothingSaved == ~kind.snapshot => \A i \in Servers : saved[i] = <<>>

AppliersFine == NothingSaved /\ \A a \in Appliers : ApplierFine(a)

-----------------------------------------------------------------------------
(* A sound Raft                                                            *)

LogRight(i) ==
  \A x \in DOMAIN logs[i] :
    /\ x <= Len(chosen) /\ logs[i][x] = chosen[x]
    /\ \A y \in 1 .. x : y \in DOMAIN logs[i]

SavedRight(i) ==
  Len(saved[i]) <= Len(chosen) /\ \A x \in 1 .. Len(saved[i]) : saved[i][x] = chosen[x]

\* The log of server i has everything up to x.
Has(i, x) == \A y \in 1 .. x : y \in DOMAIN logs[i]

\* The newest instance of a server and its applier.
InStep(a) ==
  LET i == a[1]  x == app[a].m.index IN
  /\ app[a].pc \in {"begin", "recv"} => lastApplied[i] = next[a] - 1 /\ Has(i, next[a] - 1)
  /\ app[a].pc = "check" => /\ x = next[a] - 1 /\ x = lastApplied[i] + 1
                            /\ app[a].m.cmd = chosen[x] /\ Has(i, x - 1)
  /\ app[a].pc \in {"set", "snap"} => x = next[a] - 1 /\ Has(i, x)
  /\ app[a].pc = "snap" => lastApplied[i] = x

ApplierRight(a) ==
  /\ next[a] <= Len(chosen) + 1
  /\ ~app[a].err /\ app[a].pc # "fail"
  /\ ~kind.snapshot => Has(a[1], next[a] - 1)
  /\ kind.snapshot /\ a[2] = instance[a[1]] => InStep(a)

OneRight ==
  /\ one.pc \in {"count", "returned"} /\ one.nd > 0 =>
       one.index \in 1 .. Len(chosen) /\ one.cmd1 = chosen[one.index]
  /\ failed \in {"no", "agreement"}

SoundInv ==
  kind.sound =>
    /\ \A i \in Servers : LogRight(i) /\ SavedRight(i)
    /\ \A a \in Appliers : ApplierRight(a)
    /\ OneRight

-----------------------------------------------------------------------------
(* Any Raft                                                                *)

Agreeing == {i \in Servers : i < one.at /\ one.index \in DOMAIN logs[i] /\ logs[i][one.index] = one.cmd1}

Counted ==
  /\ ~kind.snapshot /\ Running /\ ~Failing /\ one.pc \in {"count", "returned"} /\ one.nd > 0
       => one.nd <= Cardinality(Agreeing)
  /\ one.pc = "returned" => one.nd > 0 /\ one.nd >= one.expected /\ one.cmd1 = one.cmd

HarnessInv == NetTypeOK /\ HarnessTyped /\ AppliersFine /\ SoundInv /\ LogsAgree /\ Counted

\* In a test with snapshots, a killed instance of a sound Raft is quiet.
TestsFine == \A k \in Kinds : k.snapshot /\ k.sound => Quiet

-----------------------------------------------------------------------------
(* Types                                                                   *)

\* Appliers.
LEMMA ApplierFacts ==
  ASSUME NEW a \in Appliers
  PROVE  a[1] \in Servers /\ a[2] \in Instances /\ a = <<a[1], a[2]>>
BY DEF Appliers

\* Entries of a log.
LEMMA LogFacts ==
  ASSUME NEW l \in PartialLogs
  PROVE  DOMAIN l \subseteq Nat \ {0} /\ \A x \in DOMAIN l : l[x] \in Command
BY DEF PartialLogs

\* A snapshot is a log without gaps.
LEMMA SnapshotIsLog ==
  ASSUME NEW s \in Seq(Command)
  PROVE  s \in PartialLogs /\ DOMAIN s = 1 .. Len(s) /\ Len(s) \in Nat
<1>1. s \in [1 .. Len(s) -> Command] /\ Len(s) \in Nat
  OBVIOUS
<1>2. 1 .. Len(s) \in SUBSET (Nat \ {0})
  BY <1>1
<1> QED
  BY <1>1, <1>2 DEF PartialLogs

\* checkLogs sets one entry.
LEMMA PutFacts ==
  ASSUME NEW l \in PartialLogs, NEW x \in Nat \ {0}, NEW v \in Command
  PROVE  /\ Put(l, x, v) \in PartialLogs /\ DOMAIN Put(l, x, v) = DOMAIN l \cup {x}
         /\ Put(l, x, v)[x] = v /\ \A y \in DOMAIN l : y # x => Put(l, x, v)[y] = l[y]
<1>1. DOMAIN l \subseteq Nat \ {0} /\ \A y \in DOMAIN l : l[y] \in Command
  BY LogFacts
<1>2. DOMAIN l \cup {x} \in SUBSET (Nat \ {0})
  BY <1>1
<1>3. Put(l, x, v) \in [DOMAIN l \cup {x} -> Command]
  BY <1>1 DEF Put
<1>4. Put(l, x, v) \in PartialLogs
  BY <1>2, <1>3 DEF PartialLogs
<1> QED
  BY <1>4 DEF Put

\* What Raft delivers.
LEMMA MessageFacts ==
  ASSUME HarnessTyped, NEW a \in Appliers, NEW m \in Messages(a)
  PROVE  /\ m \in Message /\ m.index \in Nat \ {0} /\ m.cmd \in Command
         /\ kind.sound => m.index = next[a] /\ m.index <= Len(chosen) /\ m.cmd = chosen[m.index]
<1>1. chosen \in Seq(Values) /\ next[a] \in Nat \ {0}
  BY DEF HarnessTyped
<1>2. Len(chosen) \in Nat /\ DOMAIN chosen = 1 .. Len(chosen) /\ \A x \in DOMAIN chosen : chosen[x] \in Values
  BY <1>1
<1>3. CASE kind.sound
  <2>1. next[a] \in DOMAIN chosen /\ m = [index |-> next[a], cmd |-> chosen[next[a]]]
    BY <1>3 DEF Messages
  <2> QED
    BY <1>1, <1>2, <2>1 DEF Message, Command
<1>4. CASE ~kind.sound
  <2>1. m \in [index : Indexes, cmd : Values]
    <3>1. m \in [index : Indexes, cmd : Delivered[kind]]
      BY <1>4 DEF Messages
    <3>2. Delivered[kind] \subseteq Values
      BY RaftHarnessAssumption DEF HarnessTyped
    <3> QED
      BY <3>1, <3>2
  <2>2. \A x \in Indexes : x \in Nat \ {0}
    BY RaftHarnessAssumption DEF Indexes
  <2> QED
    BY <1>4, <2>1, <2>2 DEF Message, Command
<1> QED
  BY <1>3, <1>4

\* The kind of a test.
LEMMA KindFacts ==
  ASSUME TestsFine, HarnessTyped
  PROVE  kind.snapshot \in BOOLEAN /\ kind.sound \in BOOLEAN /\ (kind.snapshot /\ kind.sound => Quiet)
<1>1. kind \in Kinds
  BY DEF HarnessTyped
<1>2. kind \in [snapshot : BOOLEAN, sound : BOOLEAN]
  BY <1>1, RaftHarnessAssumption
<1> QED
  BY <1>1, <1>2 DEF TestsFine

\* What is left of a message that was handled.
LEMMA AfterTyped ==
  ASSUME HarnessTyped, NEW a \in Appliers, NEW e \in BOOLEAN
  PROVE  /\ AfterMessage(a, e) \in ApplierRecord
         /\ AfterMessage(a, e).pc = IF e THEN "fail" ELSE "recv"
         /\ AfterMessage(a, e).err = app[a].err
<1>1. app[a] \in ApplierRecord
  BY DEF HarnessTyped
<1>2. NoMessage \in Message
  BY DEF NoMessage, Message, Command
<1>3. CASE e
  BY <1>1, <1>3 DEF AfterMessage, ApplierRecord
<1>4. CASE ~e
  <2>1. AfterMessage(a, e) = [app[a] EXCEPT !.pc = "recv", !.m = NoMessage]
    BY <1>4 DEF AfterMessage
  <2> QED
    BY <1>1, <1>2, <1>4, <2>1 DEF ApplierRecord
<1> QED
  BY <1>3, <1>4

\* applier keeps the types.
LEMMA TypedApplier ==
  ASSUME HarnessTyped, NEW a \in Appliers, applier(a)
  PROVE  HarnessTyped'
<1>1. PICK m \in Messages(a) :
        /\ checkLogs(a[1], m.index, m.cmd)
        /\ app' = [app EXCEPT ![a] = AfterMessage(a, CheckFails(a[1], m.index, m.cmd))]
        /\ next' = [next EXCEPT ![a] = IF kind.sound THEN @ + 1 ELSE @]
  BY DEF applier
<1>2. m.index \in Nat \ {0} /\ m.cmd \in Command
  BY MessageFacts
<1>3. logs \in [Servers -> PartialLogs] /\ app \in [Appliers -> ApplierRecord] /\ next \in [Appliers -> Nat \ {0}]
  BY DEF HarnessTyped
<1>4. Put(logs[a[1]], m.index, m.cmd) \in PartialLogs
  BY <1>2, <1>3, ApplierFacts, PutFacts
<1>5. logs' \in [Servers -> PartialLogs]
  BY <1>1, <1>3, <1>4 DEF checkLogs
<1>6. CheckFails(a[1], m.index, m.cmd) \in BOOLEAN
  BY DEF CheckFails, Conflict
<1>7. app' \in [Appliers -> ApplierRecord]
  BY <1>1, <1>3, <1>6, AfterTyped
<1>70. Checking'
  <2>1. app'[a].pc # "check" /\ \A b \in Appliers \ {a} : app'[b] = app[b]
    BY <1>1, <1>3, <1>6, AfterTyped
  <2> QED
    BY <2>1 DEF HarnessTyped, Checking
<1>8. next' \in [Appliers -> Nat \ {0}]
  BY <1>1, <1>3
<1> QED
  BY <1>5, <1>7, <1>70, <1>8 DEF applier, HarnessTyped

\* The steps of applierSnap, field by field.
LEMMA BeginFields ==
  ASSUME NetTypeOK, HarnessTyped, NEW a \in Appliers, BeginSnap(a)
  PROVE  /\ app' \in [Appliers -> ApplierRecord] /\ \A b \in Appliers \ {a} : app'[b] = app[b]
         /\ app'[a].pc \in {"recv", "done"} /\ app'[a].err = app[a].err
<1>1. app \in [Appliers -> ApplierRecord] /\ instance[a[1]] \in Nat
  BY ApplierFacts DEF HarnessTyped, NetTypeOK, Instances
<1>2. CASE a[1] \in rafts
  <2>1. app' = [app EXCEPT ![a] = [app[a] EXCEPT !.pc = "recv", !.rf = instance[a[1]]]]
    BY <1>1, <1>2 DEF BeginSnap
  <2>2. [app[a] EXCEPT !.pc = "recv", !.rf = instance[a[1]]] \in ApplierRecord
    BY <1>1 DEF ApplierRecord
  <2> QED
    BY <1>1, <2>1, <2>2 DEF ApplierRecord
<1>3. CASE a[1] \notin rafts
  <2>1. app' = [app EXCEPT ![a] = [app[a] EXCEPT !.pc = "done"]]
    BY <1>1, <1>3 DEF BeginSnap
  <2> QED
    BY <1>1, <2>1 DEF ApplierRecord
<1> QED
  BY <1>2, <1>3

\* It takes a command.
LEMMA CommandFields ==
  ASSUME HarnessTyped, NEW a \in Appliers, ReceiveCommand(a)
  PROVE  \E m \in Messages(a) :
         /\ app' \in [Appliers -> ApplierRecord] /\ \A b \in Appliers \ {a} : app'[b] = app[b]
         /\ app'[a].m = m /\ (app'[a].err <=> m.index # lastApplied[a[1]] + 1)
         /\ app'[a].pc = IF m.index # lastApplied[a[1]] + 1 THEN "set" ELSE "check"
<1>1. app \in [Appliers -> ApplierRecord]
  BY DEF HarnessTyped
<1>2. PICK m \in Messages(a) :
        app' = [app EXCEPT ![a].m = m, ![a].err = (m.index # lastApplied[a[1]] + 1),
                           ![a].pc = IF m.index # lastApplied[a[1]] + 1 THEN "set" ELSE "check"]
  BY DEF ReceiveCommand
<1>3. m \in Message
  BY MessageFacts
<1> DEFINE e == m.index # lastApplied[a[1]] + 1
           r == [app[a] EXCEPT !.m = m, !.err = e, !.pc = IF e THEN "set" ELSE "check"]
<1>4. app' = [app EXCEPT ![a] = r]
  BY <1>1, <1>2
<1>5. e \in BOOLEAN
  OBVIOUS
<1> HIDE DEF e
<1>6. r \in ApplierRecord /\ r.m = m /\ r.err = e /\ r.pc = IF e THEN "set" ELSE "check"
  BY <1>1, <1>3, <1>5 DEF ApplierRecord
<1> HIDE DEF r
<1> QED
  BY <1>1, <1>4, <1>6 DEF e

\* It calls checkLogs.
LEMMA CheckFields ==
  ASSUME HarnessTyped, NEW a \in Appliers, CheckSnap(a)
  PROVE  /\ app' \in [Appliers -> ApplierRecord] /\ \A b \in Appliers \ {a} : app'[b] = app[b]
         /\ app'[a].m = app[a].m /\ app'[a].pc = "set"
         /\ app'[a].err <=> CheckFails(a[1], app[a].m.index, app[a].m.cmd)
<1>1. app \in [Appliers -> ApplierRecord]
  BY DEF HarnessTyped
<1> DEFINE e == CheckFails(a[1], app[a].m.index, app[a].m.cmd)
           r == [app[a] EXCEPT !.pc = "set", !.err = e]
<1>2. app' = [app EXCEPT ![a] = r]
  BY <1>1 DEF CheckSnap
<1>3. e \in BOOLEAN
  BY DEF CheckFails, Conflict
<1> HIDE DEF e
<1>4. r \in ApplierRecord /\ r.m = app[a].m /\ r.err = e /\ r.pc = "set"
  BY <1>1, <1>3 DEF ApplierRecord
<1> HIDE DEF r
<1> QED
  BY <1>1, <1>2, <1>4 DEF e

\* It sets lastApplied.
LEMMA SetFields ==
  ASSUME HarnessTyped, NEW a \in Appliers, SetLastApplied(a)
  PROVE  /\ app' \in [Appliers -> ApplierRecord] /\ \A b \in Appliers \ {a} : app'[b] = app[b]
         /\ app'[a].err = app[a].err
         /\ \/ app'[a].pc = "snap" /\ app'[a].m = app[a].m
            \/ app'[a].pc = IF app[a].err THEN "fail" ELSE "recv"
<1>1. app \in [Appliers -> ApplierRecord] /\ app[a].err \in BOOLEAN
  BY DEF HarnessTyped, ApplierRecord
<1>2. \/ app' = [app EXCEPT ![a] = [app[a] EXCEPT !.pc = "snap"]]
      \/ app' = [app EXCEPT ![a] = AfterMessage(a, app[a].err)]
  BY <1>1 DEF SetLastApplied
<1>3. CASE app' = [app EXCEPT ![a] = [app[a] EXCEPT !.pc = "snap"]]
  BY <1>1, <1>3 DEF ApplierRecord
<1>4. CASE app' = [app EXCEPT ![a] = AfterMessage(a, app[a].err)]
  BY <1>1, <1>4, AfterTyped
<1> QED
  BY <1>2, <1>3, <1>4

\* It takes a snapshot.
LEMMA SnapFields ==
  ASSUME HarnessTyped, NEW a \in Appliers, TakeSnapshot(a)
  PROVE  /\ app' \in [Appliers -> ApplierRecord] /\ \A b \in Appliers \ {a} : app'[b] = app[b]
         /\ app'[a].err = app[a].err /\ app'[a].pc = IF app[a].err THEN "fail" ELSE "recv"
<1>1. app \in [Appliers -> ApplierRecord] /\ app[a].err \in BOOLEAN
  BY DEF HarnessTyped, ApplierRecord
<1>2. app' = [app EXCEPT ![a] = AfterMessage(a, app[a].err)]
  BY <1>1 DEF TakeSnapshot
<1> QED
  BY <1>1, <1>2, AfterTyped

\* The snapshot that an applier makes of its server's log.
SnapshotOf(i, k) == [x \in 1 .. k |-> IF x \in DOMAIN logs[i] THEN logs[i][x] ELSE Nil]

\* It has no gaps.
LEMMA SnapshotTyped ==
  ASSUME HarnessTyped, NEW i \in Servers, NEW k \in Nat
  PROVE  /\ SnapshotOf(i, k) \in Seq(Command) /\ Len(SnapshotOf(i, k)) = k
         /\ \A x \in 1 .. k : x \in DOMAIN logs[i] => SnapshotOf(i, k)[x] = logs[i][x]
<1>1. logs[i] \in PartialLogs
  BY DEF HarnessTyped
<1>2. \A x \in DOMAIN logs[i] : logs[i][x] \in Command
  BY <1>1, LogFacts
<1>3. SnapshotOf(i, k) \in [1 .. k -> Command]
  BY <1>2 DEF SnapshotOf, Command
<1>4. SnapshotOf(i, k) \in Seq(Command) /\ Len(SnapshotOf(i, k)) = k
  BY <1>3
<1> QED
  BY <1>4 DEF SnapshotOf

\* Taking a snapshot keeps what is saved or replaces it.
LEMMA SavedFields ==
  ASSUME HarnessTyped, NEW a \in Appliers, TakeSnapshot(a)
  PROVE  /\ saved' \in [Servers -> Seq(Command)]
         /\ \A i \in Servers : saved'[i] = saved[i] \/ (i = a[1] /\ saved'[i] = SnapshotOf(i, app[a].m.index))
<1>1. saved \in [Servers -> Seq(Command)] /\ a[1] \in Servers /\ app[a].m.index \in Nat
  BY ApplierFacts DEF HarnessTyped, ApplierRecord, Message
<1>2. \/ saved' = [saved EXCEPT ![a[1]] = SnapshotOf(a[1], app[a].m.index)]
      \/ saved' = [saved EXCEPT ![a[1]] = saved[a[1]]]
  BY <1>1 DEF TakeSnapshot, SnapshotOf
<1> QED
  BY <1>1, <1>2, SnapshotTyped

\* A snapshot as bytes.
Bytes == [bytes : {"none", "garbled", "whole"}, last : Nat, xlog : Seq(Command)]

\* What applierSnap encodes is decoded as it was.
LEMMA EncodedFacts ==
  ASSUME NEW s \in Seq(Command)
  PROVE  /\ Encoded(s) \in Bytes /\ (s = <<>> => Encoded(s).bytes = "none")
         /\ s # <<>> => /\ Encoded(s).bytes = "whole" /\ Encoded(s).xlog = s
                        /\ Encoded(s).last = Len(s)
<1>1. Len(s) \in Nat /\ <<>> \in Seq(Command)
  OBVIOUS
<1> QED
  BY <1>1 DEF Encoded, NoBytes, Bytes

\* Any bytes at all.
LEMMA AnyBytesFacts ==
  ASSUME HarnessTyped, NEW s \in AnyBytes
  PROVE  s \in Bytes
<1>1. CASE s \in {NoBytes, Garbled}
  <2>1. <<>> \in Seq(Command)
    OBVIOUS
  <2>2. NoBytes \in Bytes
    BY <2>1 DEF NoBytes, Bytes
  <2>3. Garbled \in Bytes
    BY <2>1 DEF Garbled, Bytes
  <2> QED
    BY <1>1, <2>2, <2>3
<1>2. CASE s \in [bytes : {"whole"}, last : 0 .. MaxIndex, xlog : Logs]
  <2>1. MaxIndex \in Nat /\ Delivered[kind] \subseteq Command
    BY RaftHarnessAssumption DEF HarnessTyped, Command
  <2>2. ASSUME NEW l \in Logs PROVE l \in Seq(Command)
    <3>1. PICK x \in 0 .. MaxIndex : l \in [1 .. x -> Delivered[kind]]
      BY DEF Logs
    <3>2. x \in Nat /\ l \in [1 .. x -> Command]
      BY <2>1, <3>1
    <3> QED
      BY <3>2
  <2>3. 0 .. MaxIndex \subseteq Nat
    BY <2>1
  <2>4. s.bytes = "whole" /\ s.last \in Nat /\ s.xlog \in Seq(Command)
    BY <1>2, <2>2, <2>3
  <2>5. s = [bytes |-> s.bytes, last |-> s.last, xlog |-> s.xlog]
    BY <1>2
  <2> QED
    BY <2>4, <2>5 DEF Bytes
<1> QED
  BY <1>1, <1>2 DEF AnyBytes

\* What Raft delivers as snapshots.
LEMMA SnapshotFacts ==
  ASSUME HarnessTyped, NEW a \in Appliers, NEW m \in Snapshots(a)
  PROVE  /\ m.snapshot \in Bytes
         /\ kind.sound => \E j \in Servers :
              /\ m.index = Len(saved[j]) /\ m.snapshot.bytes = "whole"
              /\ m.snapshot.xlog = saved[j] /\ m.snapshot.last = Len(saved[j])
<1>1. CASE kind.sound
  <2>1. PICK j \in Servers : /\ Len(saved[j]) >= next[a]
                             /\ m = [snapshot |-> Encoded(saved[j]), index |-> Len(saved[j])]
    BY <1>1 DEF Snapshots
  <2>2. PICK s \in Seq(Command) : s = saved[j]
    BY DEF HarnessTyped
  <2>3. s # <<>>
    <3>1. next[a] \in Nat \ {0}
      BY DEF HarnessTyped
    <3>2. s = <<>> => Len(s) = 0
      OBVIOUS
    <3>3. Len(s) >= next[a]
      BY <2>1, <2>2
    <3> QED
      BY <3>1, <3>2, <3>3
  <2>4. m.snapshot = Encoded(s) /\ m.index = Len(s)
    BY <2>1, <2>2
  <2> QED
    BY <2>2, <2>3, <2>4, EncodedFacts
<1>2. CASE ~kind.sound
  <2>1. m.snapshot \in AnyBytes
    BY <1>2 DEF Snapshots
  <2> QED
    BY <1>2, <2>1, AnyBytesFacts
<1> QED
  BY <1>1, <1>2

\* ingestSnap replaces one log by one without gaps, or leaves the logs alone.
LEMMA IngestFields ==
  ASSUME HarnessTyped, NEW i \in Servers, NEW s \in Bytes, NEW x, ingestSnap(i, s, x)
  PROVE  /\ logs' \in [Servers -> PartialLogs] /\ lastApplied' \in [Servers -> Nat]
         /\ failed' = failed \/ failed' = "apply"
         /\ logs' = logs \/ logs' = [logs EXCEPT ![i] = s.xlog]
         /\ \A j \in Servers \ {i} : logs'[j] = logs[j] /\ lastApplied'[j] = lastApplied[j]
         /\ s.bytes = "whole" /\ ~Mismatch(s, x) =>
              /\ logs' = [logs EXCEPT ![i] = s.xlog] /\ lastApplied' = [lastApplied EXCEPT ![i] = s.last]
              /\ failed' = failed
<1>1. logs \in [Servers -> PartialLogs] /\ lastApplied \in [Servers -> Nat]
  BY DEF HarnessTyped
<1>2. s.last \in Nat /\ s.xlog \in PartialLogs
  BY SnapshotIsLog DEF Bytes
<1>3. CASE s.bytes # "whole" /\ failed' = "apply" /\ UNCHANGED <<logs, lastApplied>>
  BY <1>1, <1>3
<1>4. CASE Mismatch(s, x) /\ UNCHANGED <<logs, lastApplied, failed>>
  BY <1>1, <1>4
<1>5. CASE /\ logs' = [logs EXCEPT ![i] = s.xlog] /\ lastApplied' = [lastApplied EXCEPT ![i] = s.last]
           /\ UNCHANGED failed
  BY <1>1, <1>2, <1>5
<1> QED
  BY <1>3, <1>4, <1>5 DEF ingestSnap

\* applierSnap takes a snapshot: of a sound Raft, one that another server saved.
LEMMA SnapshotFields ==
  ASSUME HarnessTyped, NEW a \in Appliers, ReceiveSnapshot(a)
  PROVE  /\ logs' \in [Servers -> PartialLogs] /\ lastApplied' \in [Servers -> Nat]
         /\ next' \in [Appliers -> Nat \ {0}] /\ saved' \in [Servers -> Seq(Command)]
         /\ app' \in [Appliers -> ApplierRecord]
         /\ failed' = failed \/ failed' = "apply"
         /\ logs' = logs \/ \E s \in Seq(Command) : logs' = [logs EXCEPT ![a[1]] = s]
         /\ \A b \in Appliers \ {a} : app'[b] = app[b] /\ next'[b] = next[b]
         /\ \A j \in Servers \ {a[1]} : logs'[j] = logs[j] /\ saved'[j] = saved[j] /\ lastApplied'[j] = lastApplied[j]
         /\ app'[a].pc \in {"recv", "fail"} /\ app'[a].err = app[a].err
         /\ kind.sound => \E j \in Servers :
              /\ logs'[a[1]] = saved[j] /\ lastApplied'[a[1]] = Len(saved[j]) /\ next'[a] = Len(saved[j]) + 1
              /\ saved'[a[1]] = saved[j] \/ saved'[a[1]] = saved[a[1]]
              /\ app'[a].pc = "recv" /\ failed' = failed
<1>1. PICK m \in Snapshots(a) :
       /\ ingestSnap(a[1], m.snapshot, m.index)
       /\ app' = [app EXCEPT ![a] = AfterMessage(a, Mismatch(m.snapshot, m.index))]
       /\ next' = [next EXCEPT ![a] = IF kind.sound THEN m.index + 1 ELSE @]
       /\ saved' = [saved EXCEPT ![a[1]] = IF kind.sound /\ OwnsSaved(a[1], a[2])
                                             THEN m.snapshot.xlog ELSE @]
  BY DEF ReceiveSnapshot
<1>2. PICK t \in Bytes : t = m.snapshot
  BY SnapshotFacts
<1>3. PICK e \in BOOLEAN : e = Mismatch(t, m.index)
  BY DEF Mismatch
<1>4. /\ logs \in [Servers -> PartialLogs] /\ app \in [Appliers -> ApplierRecord]
      /\ next \in [Appliers -> Nat \ {0}] /\ saved \in [Servers -> Seq(Command)]
      /\ lastApplied \in [Servers -> Nat] /\ a[1] \in Servers
  BY ApplierFacts DEF HarnessTyped
<1>5. ingestSnap(a[1], t, m.index) /\ app' = [app EXCEPT ![a] = AfterMessage(a, e)]
  BY <1>1, <1>2, <1>3
<1>6. /\ app' \in [Appliers -> ApplierRecord] /\ \A b \in Appliers \ {a} : app'[b] = app[b]
      /\ app'[a].pc = (IF e THEN "fail" ELSE "recv") /\ app'[a].err = app[a].err
  BY <1>4, <1>5, AfterTyped
<1>7. /\ logs' \in [Servers -> PartialLogs] /\ lastApplied' \in [Servers -> Nat]
      /\ failed' = failed \/ failed' = "apply"
      /\ logs' = logs \/ logs' = [logs EXCEPT ![a[1]] = t.xlog]
      /\ \A j \in Servers \ {a[1]} : logs'[j] = logs[j] /\ lastApplied'[j] = lastApplied[j]
      /\ t.bytes = "whole" /\ ~e =>
              /\ logs' = [logs EXCEPT ![a[1]] = t.xlog] /\ lastApplied' = [lastApplied EXCEPT ![a[1]] = t.last]
              /\ failed' = failed
  BY <1>3, <1>4, <1>5, IngestFields
<1>8. t.xlog \in Seq(Command)
  BY DEF Bytes
<1>9. \A j \in Servers \ {a[1]} : saved'[j] = saved[j]
  BY <1>1, <1>4
<1>10. saved' \in [Servers -> Seq(Command)] /\ (saved'[a[1]] = t.xlog \/ saved'[a[1]] = saved[a[1]])
  BY <1>1, <1>2, <1>4, <1>8
<1>11. \A b \in Appliers \ {a} : next'[b] = next[b]
  BY <1>1, <1>4
<1>12. logs' = logs \/ \E s \in Seq(Command) : logs' = [logs EXCEPT ![a[1]] = s]
  BY <1>7, <1>8
<1>13. CASE kind.sound
  <2>1. PICK j \in Servers : /\ m.index = Len(saved[j]) /\ t.bytes = "whole"
                             /\ t.xlog = saved[j] /\ t.last = Len(saved[j])
    BY <1>2, <1>13, SnapshotFacts
  <2>2. ~e
    BY <1>3, <2>1 DEF Mismatch
  <2>3. Len(saved[j]) \in Nat
    <3>1. saved[j] \in Seq(Command)
      BY <1>4
    <3> QED
      BY <3>1, SnapshotIsLog
  <2>4. next' \in [Appliers -> Nat \ {0}] /\ next'[a] = Len(saved[j]) + 1
    <3>1. Len(saved[j]) + 1 \in Nat \ {0}
      BY <2>3
    <3> QED
      BY <1>1, <1>4, <1>13, <2>1, <3>1
  <2>5. logs'[a[1]] = saved[j] /\ lastApplied'[a[1]] = Len(saved[j]) /\ failed' = failed
    BY <1>4, <1>7, <2>1, <2>2
  <2>6. saved'[a[1]] = saved[j] \/ saved'[a[1]] = saved[a[1]]
    BY <1>10, <2>1
  <2> QED
    BY <1>6, <1>7, <1>9, <1>10, <1>11, <1>12, <2>2, <2>4, <2>5, <2>6
<1>14. CASE ~kind.sound
  <2>1. next' \in [Appliers -> Nat \ {0}]
    BY <1>1, <1>4, <1>14
  <2> QED
    BY <1>6, <1>7, <1>9, <1>10, <1>11, <1>12, <1>14, <2>1
<1> QED
  BY <1>13, <1>14

\* applierSnap keeps the types.
LEMMA TypedSnap ==
  ASSUME NetTypeOK, HarnessTyped, NEW a \in Appliers, applierSnap(a) \/ ApplyError(a)
  PROVE  HarnessTyped'
<1>1. a[1] \in Servers /\ app[a].m \in Message /\ app[a].m.index \in Nat
  BY ApplierFacts DEF HarnessTyped, ApplierRecord, Message
<1>2. /\ logs \in [Servers -> PartialLogs] /\ next \in [Appliers -> Nat \ {0}]
      /\ saved \in [Servers -> Seq(Command)] /\ lastApplied \in [Servers -> Nat]
  BY DEF HarnessTyped
<1>20. ASSUME \A b \in Appliers \ {a} : app'[b] = app[b], app'[a].pc # "check" \/ app'[a].m.index # 0
       PROVE  Checking'
  BY <1>20 DEF HarnessTyped, Checking
<1>3. CASE BeginSnap(a)
  BY <1>3, <1>20, BeginFields DEF BeginSnap, HarnessTyped, raftVars
<1>4. CASE ReceiveCommand(a)
  <2>1. next' \in [Appliers -> Nat \ {0}]
    BY <1>2, <1>4 DEF ReceiveCommand
  <2>2. PICK m \in Messages(a) : /\ app' \in [Appliers -> ApplierRecord]
                                 /\ \A b \in Appliers \ {a} : app'[b] = app[b]
                                 /\ app'[a].m = m
    BY <1>4, CommandFields
  <2>3. Checking'
    BY <1>20, <2>2, MessageFacts
  <2> QED
    BY <1>4, <2>1, <2>2, <2>3 DEF ReceiveCommand, HarnessTyped
<1>5. CASE ReceiveSnapshot(a)
  <2>1. Checking'
    BY <1>5, <1>20, SnapshotFields
  <2>2. failed' \in {"no", "agreement", "apply", "mismatch"}
    BY <1>5, SnapshotFields DEF HarnessTyped
  <2> QED
    BY <1>5, <2>1, <2>2, SnapshotFields DEF ReceiveSnapshot, HarnessTyped
<1>6. CASE CheckSnap(a)
  <2>1. app[a].m.index # 0
    BY <1>6 DEF CheckSnap, HarnessTyped, Checking
  <2>2. Put(logs[a[1]], app[a].m.index, app[a].m.cmd) \in PartialLogs
    BY <1>1, <1>2, <2>1, PutFacts DEF Message
  <2>3. logs' \in [Servers -> PartialLogs]
    BY <1>2, <1>6, <2>2 DEF CheckSnap, checkLogs
  <2> QED
    BY <1>6, <1>20, <2>3, CheckFields DEF CheckSnap, HarnessTyped, raftVars
<1>7. CASE SetLastApplied(a)
  <2>1. lastApplied' \in [Servers -> Nat]
    BY <1>1, <1>2, <1>7 DEF SetLastApplied
  <2>2. /\ app' \in [Appliers -> ApplierRecord] /\ \A b \in Appliers \ {a} : app'[b] = app[b]
        /\ app'[a].pc # "check"
    BY <1>7, SetFields
  <2>3. Checking'
    BY <1>20, <2>2
  <2> QED
    BY <1>7, <2>1, <2>2, <2>3 DEF SetLastApplied, HarnessTyped, raftVars
<1>8. CASE TakeSnapshot(a)
  BY <1>8, <1>20, SnapFields, SavedFields DEF TakeSnapshot, HarnessTyped
<1>9. CASE ApplyError(a)
  BY <1>9 DEF ApplyError, HarnessTyped, Checking, raftVars, checkVars
<1> QED
  BY <1>3, <1>4, <1>5, <1>6, <1>7, <1>8, <1>9 DEF applierSnap

\* A new applier.
LEMMA NewTyped ==
  /\ NewApplier \in ApplierRecord /\ ~NewApplier.err
  /\ NewApplier.pc = IF kind.snapshot THEN "begin" ELSE "recv"
<1>1. NoMessage \in Message
  BY DEF NoMessage, Message, Command
<1>2. NoApplier \in ApplierRecord /\ NoApplier.err = FALSE
  BY <1>1 DEF NoApplier, ApplierRecord
<1>3. /\ [NoApplier EXCEPT !.pc = "begin"] \in ApplierRecord /\ [NoApplier EXCEPT !.pc = "begin"].err = FALSE
      /\ [NoApplier EXCEPT !.pc = "begin"].pc = "begin"
  BY <1>2 DEF ApplierRecord
<1>4. /\ [NoApplier EXCEPT !.pc = "recv"] \in ApplierRecord /\ [NoApplier EXCEPT !.pc = "recv"].err = FALSE
      /\ [NoApplier EXCEPT !.pc = "recv"].pc = "recv"
  BY <1>2 DEF ApplierRecord
<1> QED
  BY <1>3, <1>4 DEF NewApplier

\* start1 and its new instance.
LEMMA StartFields ==
  ASSUME NetTypeOK, HarnessTyped, NEW i \in Servers, Start(i), NEW a, a = <<i, instance[i] + 1>>
  PROVE  /\ a \in Appliers /\ instance' = [instance EXCEPT ![i] = @ + 1]
         /\ instance[i] \in Nat /\ instance'[i] = instance[i] + 1
         /\ app' = [app EXCEPT ![a] = NewApplier] /\ next' = [next EXCEPT ![a] = Len(saved[i]) + 1]
         /\ UNCHANGED <<kind, chosen, saved, one>> /\ (failed' = failed \/ failed' = "apply")
         /\ logs' \in [Servers -> PartialLogs] /\ lastApplied' \in [Servers -> Nat]
         /\ logs' = logs \/ \E s \in Seq(Command) : logs' = [logs EXCEPT ![i] = s]
         /\ (kind.snapshot => kind.sound) =>
              /\ failed' = failed
              /\ \/ saved[i] = <<>> /\ logs' = logs /\ lastApplied' = [lastApplied EXCEPT ![i] = 0]
                 \/ /\ saved[i] # <<>> /\ logs' = [logs EXCEPT ![i] = saved[i]]
                    /\ lastApplied' = [lastApplied EXCEPT ![i] = Len(saved[i])]
<1>1. instance \in [Servers -> Instances] /\ instance[i] \in 1 .. MaxInstances /\ MaxInstances \in Nat
  BY ConnectivityAssumption DEF NetTypeOK, Instances
<1>2. instance[i] < MaxInstances /\ instance' = [instance EXCEPT ![i] = @ + 1]
  BY DEF Start, start1
<1>3. a \in Appliers
  BY <1>1, <1>2 DEF Appliers, Instances
<1>4. PICK s \in Persisted(i) : Reset(i, s)
  BY DEF Start
<1>5. /\ logs \in [Servers -> PartialLogs] /\ lastApplied \in [Servers -> Nat]
      /\ saved[i] \in Seq(Command)
  BY DEF HarnessTyped
<1>6. s \in Bytes /\ ((kind.snapshot => kind.sound) => s = Encoded(saved[i]))
  <2>1. Encoded(saved[i]) \in Bytes
    BY <1>5, EncodedFacts
  <2> QED
    BY <1>4, <2>1, AnyBytesFacts DEF Persisted
<1>7. s.xlog \in Seq(Command)
  BY <1>6 DEF Bytes
<1>10. /\ instance[i] \in Nat /\ instance'[i] = instance[i] + 1
       /\ app' = [app EXCEPT ![a] = NewApplier] /\ next' = [next EXCEPT ![a] = Len(saved[i]) + 1]
       /\ UNCHANGED <<kind, chosen, saved, one>>
  BY <1>1, <1>2 DEF Start
<1>8. CASE s.bytes = "none"
  <2>1. lastApplied' = [lastApplied EXCEPT ![i] = 0] /\ UNCHANGED <<logs, failed>>
    BY <1>4, <1>8 DEF Reset
  <2>2. (kind.snapshot => kind.sound) => saved[i] = <<>>
    BY <1>5, <1>6, <1>8, EncodedFacts
  <2>3. lastApplied' \in [Servers -> Nat]
    BY <1>5, <2>1
  <2> QED
    BY <1>1, <1>2, <1>3, <1>5, <1>10, <2>1, <2>2, <2>3
<1>9. CASE s.bytes # "none"
  <2>1. ingestSnap(i, s, NoIndex)
    BY <1>4, <1>9 DEF Reset
  <2>2. /\ logs' \in [Servers -> PartialLogs] /\ lastApplied' \in [Servers -> Nat]
        /\ failed' = failed \/ failed' = "apply"
        /\ logs' = logs \/ logs' = [logs EXCEPT ![i] = s.xlog]
        /\ s.bytes = "whole" /\ ~Mismatch(s, NoIndex) =>
              /\ logs' = [logs EXCEPT ![i] = s.xlog] /\ lastApplied' = [lastApplied EXCEPT ![i] = s.last]
              /\ failed' = failed
    BY <1>6, <2>1, IngestFields
  <2>3. ~Mismatch(s, NoIndex)
    BY DEF Mismatch
  <2>4. (kind.snapshot => kind.sound) =>
          saved[i] # <<>> /\ s.bytes = "whole" /\ s.xlog = saved[i] /\ s.last = Len(saved[i])
    BY <1>5, <1>6, <1>9, EncodedFacts
  <2>5. logs' = logs \/ \E t \in Seq(Command) : logs' = [logs EXCEPT ![i] = t]
    BY <1>7, <2>2
  <2>6. (kind.snapshot => kind.sound) =>
          /\ failed' = failed /\ logs' = [logs EXCEPT ![i] = saved[i]]
          /\ lastApplied' = [lastApplied EXCEPT ![i] = Len(saved[i])]
    BY <2>2, <2>3, <2>4
  <2> QED
    BY <1>1, <1>2, <1>3, <1>10, <2>2, <2>4, <2>5, <2>6
<1> QED
  BY <1>8, <1>9

\* The records of one().
LEMMA OneFields ==
  ASSUME HarnessTyped, NEW v \in Command, NEW e \in Nat, NEW x \in Nat
  PROVE  /\ Submit(v, e) \in OneRecord /\ Submit(v, e).pc = "start"
         /\ Count(x) \in OneRecord /\ Count(x).pc = "count" /\ Count(x).nd = 0
<1>1. one \in OneRecord /\ 0 \in 0 .. n /\ Nil \in Command
  BY ConnectivityAssumption DEF HarnessTyped, Command
<1>2. NoCall \in OneRecord
  BY <1>1 DEF NoCall, OneRecord
<1>3. Submit(v, e) \in OneRecord /\ Submit(v, e).pc = "start"
  BY <1>2 DEF Submit, OneRecord
<1>4. Count(x) \in OneRecord /\ Count(x).pc = "count" /\ Count(x).nd = 0
  BY <1>1 DEF Count, OneRecord
<1> QED
  BY <1>3, <1>4

\* nCommitted looks at one server.
LEMMA LookFields ==
  ASSUME HarnessTyped, nCommitted
  PROVE  /\ one.at \in Servers
         /\ \/ /\ one.index \in DOMAIN logs[one.at] /\ one.nd > 0 /\ logs[one.at][one.index] # one.cmd1
               /\ failed' = "mismatch" /\ UNCHANGED one
            \/ /\ one.index \in DOMAIN logs[one.at] /\ (one.nd > 0 => logs[one.at][one.index] = one.cmd1)
               /\ one' \in OneRecord /\ one'.pc = "count" /\ one'.cmd = one.cmd /\ one'.expected = one.expected
               /\ one'.index = one.index /\ one'.at = one.at + 1 /\ one'.nd = one.nd + 1
               /\ one'.cmd1 = logs[one.at][one.index] /\ failed' = failed
            \/ /\ one' \in OneRecord /\ one'.pc = "count" /\ one'.cmd = one.cmd /\ one'.expected = one.expected
               /\ one'.index = one.index /\ one'.at = one.at + 1 /\ one'.nd = one.nd
               /\ one'.cmd1 = one.cmd1 /\ failed' = failed
<1>1. one \in OneRecord /\ one.at \in 0 .. n /\ one.nd \in Nat /\ n \in Nat /\ one.at < n /\ one.pc = "count"
  BY ConnectivityAssumption DEF HarnessTyped, OneRecord, nCommitted
<1>2. one.at \in Servers /\ one.at + 1 \in 0 .. n /\ one.nd + 1 \in Nat
  BY <1>1 DEF Servers
<1>3. logs[one.at] \in PartialLogs
  BY <1>2 DEF HarnessTyped
<1>4. one.index \in DOMAIN logs[one.at] => logs[one.at][one.index] \in Command
  BY <1>3, LogFacts
<1>5. CASE /\ one.index \in DOMAIN logs[one.at] /\ (one.nd > 0 => logs[one.at][one.index] = one.cmd1)
           /\ one' = [one EXCEPT !.at = @ + 1, !.nd = @ + 1, !.cmd1 = logs[one.at][one.index]] /\ failed' = failed
  BY <1>1, <1>2, <1>4, <1>5 DEF OneRecord
<1>6. CASE one' = [one EXCEPT !.at = @ + 1] /\ failed' = failed
  BY <1>1, <1>2, <1>6 DEF OneRecord
<1> QED
  BY <1>2, <1>5, <1>6 DEF nCommitted

\* one() decides.
LEMMA DecideFields ==
  ASSUME HarnessTyped, Decide
  PROVE  \/ /\ Committed /\ failed' = failed
            /\ one' \in OneRecord /\ one'.pc = "returned" /\ one'.cmd = one.cmd /\ one'.expected = one.expected
            /\ one'.index = one.index /\ one'.at = one.at /\ one'.nd = one.nd /\ one'.cmd1 = one.cmd1
         \/ one' \in OneRecord /\ one'.pc = "count" /\ one'.nd = 0 /\ failed' = failed
         \/ one' \in OneRecord /\ one'.pc = "start" /\ failed' = failed
         \/ one' = one /\ failed' = "agreement"
<1>1. one \in OneRecord /\ one.cmd \in Command /\ one.expected \in Nat /\ one.index \in Nat
  BY DEF HarnessTyped, OneRecord
<1>2. CASE Committed /\ one' = [one EXCEPT !.pc = "returned"] /\ failed' = failed
  BY <1>1, <1>2 DEF OneRecord
<1>3. CASE (one' = Count(one.index) \/ one' = Submit(one.cmd, one.expected)) /\ failed' = failed
  BY <1>1, <1>3, OneFields
<1> QED
  BY <1>2, <1>3 DEF Decide

\* Every step keeps the types.
LEMMA TypedStep ==
  ASSUME NetTypeOK, HarnessTyped, [Next]_vars
  PROVE  HarnessTyped'
<1>1. ASSUME NEW v \in Values, Agree(v) PROVE HarnessTyped'
  BY <1>1 DEF Agree, HarnessTyped, Checking, checkVars
<1>2. ASSUME NEW a \in Appliers, applier(a) \/ applierSnap(a) \/ ApplyError(a) PROVE HarnessTyped'
  BY <1>2, TypedApplier, TypedSnap
<1>3. CASE UNCHANGED <<raftVars, checkVars, one, failed>>
  BY <1>3 DEF HarnessTyped, Checking, raftVars, checkVars
<1>4. ASSUME NEW i \in Servers, Connect(i) \/ Disconnect(i) \/ Crash(i) PROVE HarnessTyped'
  BY <1>3, <1>4 DEF Connect, Disconnect, Crash
<1>5. ASSUME NEW i \in Servers, Start(i) PROVE HarnessTyped'
  <2> DEFINE a == <<i, instance[i] + 1>>
  <2>1. /\ a \in Appliers /\ app' = [app EXCEPT ![a] = NewApplier]
        /\ next' = [next EXCEPT ![a] = Len(saved[i]) + 1]
        /\ UNCHANGED <<kind, chosen, saved, one>> /\ (failed' = failed \/ failed' = "apply")
        /\ logs' \in [Servers -> PartialLogs] /\ lastApplied' \in [Servers -> Nat]
    BY <1>5, StartFields
  <2> HIDE DEF a
  <2>2. saved[i] \in PartialLogs /\ Len(saved[i]) \in Nat /\ Len(saved[i]) + 1 \in Nat \ {0}
    <3>1. saved[i] \in Seq(Command)
      BY DEF HarnessTyped
    <3> QED
      BY <3>1, SnapshotIsLog
  <2>3. next' \in [Appliers -> Nat \ {0}]
    BY <2>1, <2>2 DEF HarnessTyped
  <2>4. app' \in [Appliers -> ApplierRecord] /\ app'[a].pc # "check" /\ \A b \in Appliers \ {a} : app'[b] = app[b]
    BY <2>1, NewTyped DEF HarnessTyped
  <2>5. Checking'
    BY <2>4 DEF HarnessTyped, Checking
  <2> QED
    BY <2>1, <2>3, <2>4, <2>5 DEF HarnessTyped
<1>6. ASSUME one' \in OneRecord, failed' \in {"no", "agreement", "apply", "mismatch"}, UNCHANGED <<raftVars, checkVars>>
      PROVE  HarnessTyped'
  BY <1>6 DEF HarnessTyped, Checking, raftVars, checkVars
<1>7. ASSUME NEW v \in Values, NEW e \in 1 .. n, One(v, e) PROVE HarnessTyped'
  <2>1. v \in Command /\ e \in Nat /\ 0 \in Nat
    BY DEF Command
  <2>2. one' \in OneRecord
    BY <1>7, <2>1, OneFields DEF One
  <2> QED
    BY <1>6, <1>7, <2>2 DEF One, HarnessTyped
<1>8. ASSUME NEW x \in Indexes, StartAccepted(x) PROVE HarnessTyped'
  <2>1. x \in Nat /\ Nil \in Command
    BY RaftHarnessAssumption DEF Indexes, Command
  <2>2. one' \in OneRecord
    BY <1>8, <2>1, OneFields DEF StartAccepted
  <2> QED
    BY <1>6, <1>8, <2>2 DEF StartAccepted, HarnessTyped
<1>9. CASE nCommitted
  <2>1. one' \in OneRecord /\ (failed' = "mismatch" \/ failed' = failed)
    BY <1>9, LookFields DEF HarnessTyped
  <2> QED
    BY <1>6, <1>9, <2>1 DEF nCommitted, HarnessTyped
<1>10. CASE Decide
  <2>1. one' \in OneRecord /\ (failed' = "agreement" \/ failed' = failed)
    BY <1>10, DecideFields DEF HarnessTyped
  <2> QED
    BY <1>6, <1>10, <2>1 DEF Decide, HarnessTyped
<1>11. CASE GiveUp
  BY <1>6, <1>11 DEF GiveUp, HarnessTyped
<1>12. CASE UNCHANGED vars
  BY <1>3, <1>12 DEF vars
<1> QED
  BY <1>1, <1>2, <1>4, <1>5, <1>7, <1>8, <1>9, <1>10, <1>11, <1>12 DEF Next, Test

-----------------------------------------------------------------------------
(* Superseded instances                                                    *)

\* Only instances that were started run applierSnap, and with a sound Raft only
\* the newest one of a server.
LEMMA SnapActs ==
  ASSUME TestsFine, NetTypeOK, HarnessTyped, AppliersFine, NEW a \in Appliers, applierSnap(a)
  PROVE  /\ kind.snapshot /\ ~(a[2] > instance[a[1]])
         /\ kind.sound => a[2] = instance[a[1]]
<1>1. a[1] \in Servers /\ a[2] \in Nat /\ instance[a[1]] \in Nat
  BY ApplierFacts DEF NetTypeOK, Instances
<1>2. ApplierFine(a)
  BY DEF AppliersFine
<1>3. /\ app[a].pc \in {"begin", "recv", "check", "set", "snap"}
      /\ app[a].pc = "recv" => kind.snapshot /\ Delivers(a)
  BY DEF applierSnap, BeginSnap, ReceiveCommand, ReceiveSnapshot, CheckSnap, SetLastApplied, TakeSnapshot
<1>4. kind.snapshot
  BY <1>2, <1>3 DEF ApplierFine
<1>5. kind.sound => Quiet
  BY <1>4, KindFacts
<1>6. ~(a[2] > instance[a[1]])
  BY <1>2, <1>3 DEF ApplierFine
<1>7. kind.sound => ~(a[2] < instance[a[1]])
  BY <1>1, <1>2, <1>3, <1>4, <1>5 DEF ApplierFine, Delivers
<1> QED
  BY <1>1, <1>4, <1>6, <1>7

\* What a step of applierSnap leaves alone.
LEMMA SnapFrame ==
  ASSUME NetTypeOK, HarnessTyped, NEW a \in Appliers, applierSnap(a)
  PROVE  /\ UNCHANGED <<instance, rafts, kind, chosen, one>> /\ (kind.sound => failed' = failed)
         /\ \A b \in Appliers \ {a} : app'[b] = app[b] /\ next'[b] = next[b]
         /\ \A j \in Servers \ {a[1]} : logs'[j] = logs[j] /\ saved'[j] = saved[j] /\ lastApplied'[j] = lastApplied[j]
<1>1. /\ next \in [Appliers -> Nat \ {0}] /\ saved \in [Servers -> Seq(Command)]
      /\ logs \in [Servers -> PartialLogs] /\ lastApplied \in [Servers -> Nat] /\ app \in [Appliers -> ApplierRecord]
  BY DEF HarnessTyped
<1>2. CASE BeginSnap(a)
  BY <1>2, BeginFields DEF BeginSnap, raftVars, netVars
<1>3. CASE ReceiveCommand(a)
  BY <1>1, <1>3, CommandFields DEF ReceiveCommand, netVars
<1>4. CASE ReceiveSnapshot(a)
  <2>1. UNCHANGED <<instance, rafts, kind, chosen, one>>
    BY <1>4 DEF ReceiveSnapshot, netVars
  <2> QED
    BY <1>4, <2>1, SnapshotFields
<1>5. CASE CheckSnap(a)
  BY <1>1, <1>5, CheckFields DEF CheckSnap, checkLogs, raftVars, netVars
<1>6. CASE SetLastApplied(a)
  BY <1>1, <1>6, SetFields DEF SetLastApplied, raftVars, netVars
<1>7. CASE TakeSnapshot(a)
  BY <1>1, <1>7, SnapFields, SavedFields DEF TakeSnapshot, netVars
<1> QED
  BY <1>2, <1>3, <1>4, <1>5, <1>6, <1>7 DEF applierSnap

\* An applier that has found an error goes on to log.Fatalf.
LEMMA ErrorStays ==
  ASSUME NetTypeOK, HarnessTyped, NEW a \in Appliers, ApplierFine(a), applierSnap(a)
  PROVE  app'[a].err => app'[a].pc \in {"set", "snap", "fail"}
<1>1. app[a].err => app[a].pc \in {"set", "snap", "fail"}
  BY DEF ApplierFine
<1>2. CASE BeginSnap(a)
  BY <1>1, <1>2, BeginFields DEF BeginSnap
<1>3. CASE ReceiveCommand(a)
  BY <1>3, CommandFields
<1>4. CASE ReceiveSnapshot(a)
  BY <1>1, <1>4, SnapshotFields DEF ReceiveSnapshot
<1>5. CASE CheckSnap(a)
  BY <1>5, CheckFields
<1>6. CASE SetLastApplied(a)
  BY <1>6, SetFields
<1>7. CASE TakeSnapshot(a)
  BY <1>7, SnapFields
<1> QED
  BY <1>2, <1>3, <1>4, <1>5, <1>6, <1>7 DEF applierSnap

\* What a step of applier leaves alone.
LEMMA ApplierFrame ==
  ASSUME HarnessTyped, NEW a \in Appliers, applier(a)
  PROVE  \E m \in Messages(a) :
         /\ UNCHANGED <<instance, rafts, kind, chosen, saved, lastApplied, one, failed>>
         /\ \A b \in Appliers \ {a} : app'[b] = app[b] /\ next'[b] = next[b]
         /\ \A j \in Servers \ {a[1]} : logs'[j] = logs[j]
         /\ logs'[a[1]] = Put(logs[a[1]], m.index, m.cmd)
         /\ app'[a].pc = (IF CheckFails(a[1], m.index, m.cmd) THEN "fail" ELSE "recv") /\ app'[a].err = app[a].err
         /\ next'[a] = IF kind.sound THEN next[a] + 1 ELSE next[a]
<1>1. PICK m \in Messages(a) :
        /\ checkLogs(a[1], m.index, m.cmd)
        /\ app' = [app EXCEPT ![a] = AfterMessage(a, CheckFails(a[1], m.index, m.cmd))]
        /\ next' = [next EXCEPT ![a] = IF kind.sound THEN @ + 1 ELSE @]
  BY DEF applier
<1>2. /\ logs \in [Servers -> PartialLogs] /\ app \in [Appliers -> ApplierRecord] /\ next \in [Appliers -> Nat \ {0}]
      /\ a[1] \in Servers
  BY ApplierFacts DEF HarnessTyped
<1>3. CheckFails(a[1], m.index, m.cmd) \in BOOLEAN
  BY DEF CheckFails, Conflict
<1>4. /\ \A b \in Appliers \ {a} : app'[b] = app[b]
      /\ app'[a].pc = (IF CheckFails(a[1], m.index, m.cmd) THEN "fail" ELSE "recv") /\ app'[a].err = app[a].err
  BY <1>1, <1>2, <1>3, AfterTyped
<1>5. /\ \A j \in Servers \ {a[1]} : logs'[j] = logs[j]
      /\ logs'[a[1]] = Put(logs[a[1]], m.index, m.cmd)
  BY <1>1, <1>2 DEF checkLogs
<1>6. /\ \A b \in Appliers \ {a} : next'[b] = next[b]
      /\ next'[a] = IF kind.sound THEN next[a] + 1 ELSE next[a]
  BY <1>1, <1>2
<1>7. UNCHANGED <<instance, rafts, kind, chosen, saved, lastApplied, one, failed>>
  BY DEF applier, netVars
<1> QED
  BY <1>4, <1>5, <1>6, <1>7

\* Every step keeps what is known of appliers.
LEMMA FineStep ==
  ASSUME TestsFine, NetTypeOK, HarnessTyped, AppliersFine, [Next]_vars
  PROVE  AppliersFine'
<1>1. ASSUME UNCHANGED <<instance, kind, app, saved>> PROVE AppliersFine'
  BY <1>1 DEF AppliersFine, NothingSaved, ApplierFine
<1>2. ASSUME NEW a \in Appliers, applier(a) PROVE AppliersFine'
  <2>1. /\ UNCHANGED <<instance, kind, saved>> /\ \A b \in Appliers \ {a} : app'[b] = app[b]
        /\ app'[a].pc \in {"recv", "fail"} /\ app'[a].err = app[a].err
    BY <1>2, ApplierFrame
  <2>2. app[a].pc = "recv" /\ ~kind.snapshot
    BY <1>2 DEF applier
  <2> QED
    BY <2>1, <2>2 DEF AppliersFine, NothingSaved, ApplierFine
<1>3. ASSUME NEW a \in Appliers, applierSnap(a) PROVE AppliersFine'
  <2>1. UNCHANGED <<instance, kind>> /\ \A b \in Appliers \ {a} : app'[b] = app[b]
    BY <1>3, SnapFrame
  <2>2. /\ kind.snapshot /\ ~(a[2] > instance[a[1]]) /\ (kind.sound => a[2] = instance[a[1]])
        /\ instance[a[1]] \in Nat
    BY <1>3, SnapActs, ApplierFacts DEF NetTypeOK, Instances
  <2>3. app'[a].err => app'[a].pc \in {"set", "snap", "fail"}
    BY <1>3, ErrorStays DEF AppliersFine
  <2>4. ApplierFine(a)'
    BY <2>1, <2>2, <2>3 DEF ApplierFine
  <2> QED
    BY <2>1, <2>2, <2>4 DEF AppliersFine, NothingSaved, ApplierFine
<1>4. ASSUME NEW i \in Servers, Start(i) PROVE AppliersFine'
  <2> DEFINE a == <<i, instance[i] + 1>>
  <2>1. /\ a \in Appliers /\ app' = [app EXCEPT ![a] = NewApplier] /\ instance[i] \in Nat
        /\ instance' = [instance EXCEPT ![i] = @ + 1] /\ UNCHANGED <<kind, saved>>
    BY <1>4, StartFields
  <2>2. /\ app \in [Appliers -> ApplierRecord] /\ instance \in [Servers -> Instances]
        /\ kind.snapshot /\ kind.sound => app[<<i, instance[i]>>].pc \in {"recv", "done"}
    BY <1>4, KindFacts DEF Start, HarnessTyped, NetTypeOK
  <2>3. ASSUME NEW b \in Appliers PROVE ApplierFine(b)'
    <3>1. b[1] \in Servers /\ b[2] \in Nat /\ b = <<b[1], b[2]>> /\ ApplierFine(b)
          /\ kind.snapshot \in BOOLEAN /\ kind.sound \in BOOLEAN
      BY ApplierFacts, KindFacts DEF AppliersFine, Instances
    <3>2. CASE b = a
      <4>1. app'[b] = NewApplier /\ b[2] = instance'[b[1]] /\ instance'[b[1]] \in Nat
        BY <2>1, <2>2, <3>2
      <4> QED
        BY <2>1, <3>1, <4>1, NewTyped DEF ApplierFine
    <3>3. CASE b # a /\ b[1] = i
      <4>1. app'[b] = app[b] /\ instance'[i] = instance[i] + 1 /\ b[2] # instance[i] + 1
        BY <2>1, <2>2, <3>1, <3>3
      <4>2. b[2] = instance[i] /\ kind.snapshot /\ kind.sound => app[b].pc \in {"recv", "done"}
        BY <2>2, <3>1, <3>3
      <4> QED
        BY <2>1, <3>1, <3>3, <4>1, <4>2 DEF ApplierFine
    <3>4. CASE b # a /\ b[1] # i
      <4>1. app'[b] = app[b] /\ instance'[b[1]] = instance[b[1]]
        BY <2>1, <2>2, <3>1, <3>4
      <4> QED
        BY <2>1, <3>1, <4>1 DEF ApplierFine
    <3> QED
      BY <3>2, <3>3, <3>4
  <2> QED
    BY <2>1, <2>3 DEF AppliersFine, NothingSaved
<1>5. ASSUME NEW i \in Servers, Connect(i) \/ Disconnect(i) \/ Crash(i) PROVE AppliersFine'
  BY <1>1, <1>5 DEF Connect, Disconnect, Crash, connect, disconnect, crash1, raftVars, checkVars
<1>6. ASSUME NEW a \in Appliers, ApplyError(a) PROVE AppliersFine'
  BY <1>1, <1>6 DEF ApplyError, netVars, raftVars, checkVars
<1>7. ASSUME (\E v \in Values : Agree(v)) \/ (\E v \in Values, e \in 1 .. n : One(v, e))
             \/ (\E x \in Indexes : StartAccepted(x)) \/ nCommitted \/ Decide \/ GiveUp
      PROVE  AppliersFine'
  BY <1>1, <1>7 DEF Agree, One, StartAccepted, nCommitted, Decide, GiveUp, netVars, raftVars, checkVars
<1>8. CASE UNCHANGED vars
  BY <1>1, <1>8 DEF vars, netVars, raftVars, checkVars
<1> QED
  BY <1>2, <1>3, <1>4, <1>5, <1>6, <1>7, <1>8 DEF Next, Test

-----------------------------------------------------------------------------
(* A sound Raft                                                            *)

\* What concerns one server.
ServerRight(i) == LogRight(i) /\ SavedRight(i) /\ \A a \in Appliers : a[1] = i => ApplierRight(a)

\* A server that a step does not touch.
LEMMA ServerFrame ==
  ASSUME NEW i \in Servers, ServerRight(i), UNCHANGED <<kind, chosen>>,
         logs'[i] = logs[i], saved'[i] = saved[i], lastApplied'[i] = lastApplied[i], instance'[i] = instance[i],
         \A a \in Appliers : a[1] = i => next'[a] = next[a] /\ app'[a] = app[a]
  PROVE  ServerRight(i)'
<1>1. LogRight(i)'
  BY DEF ServerRight, LogRight
<1>2. SavedRight(i)'
  BY DEF ServerRight, SavedRight
<1>3. ASSUME NEW a \in Appliers, a[1] = i PROVE ApplierRight(a)'
  <2>1. ApplierRight(a) /\ next'[a] = next[a] /\ app'[a] = app[a]
    BY <1>3 DEF ServerRight
  <2>2. \A x : Has(i, x)' = Has(i, x)
    BY DEF Has
  <2>3. InStep(a) => InStep(a)'
    BY <1>3, <2>1, <2>2 DEF InStep
  <2> QED
    BY <1>3, <2>1, <2>2, <2>3 DEF ApplierRight
<1> QED
  BY <1>1, <1>2, <1>3 DEF ServerRight

\* Another applier of the server that a step touches: no log loses entries
\* without snapshots, and with snapshots it is superseded.
LEMMA OtherApplier ==
  ASSUME NEW b \in Appliers, ApplierRight(b), UNCHANGED <<kind, chosen>>,
         next'[b] = next[b], app'[b] = app[b],
         ~kind.snapshot => DOMAIN logs[b[1]] \subseteq DOMAIN logs'[b[1]],
         kind.snapshot => b[2] # instance'[b[1]]
  PROVE  ApplierRight(b)'
<1>1. ~kind.snapshot => Has(b[1], next[b] - 1)'
  BY DEF ApplierRight, Has
<1> QED
  BY <1>1 DEF ApplierRight

\* checkLogs extends a right log by the entry that follows, and finds nothing
\* wrong with it.
LEMMA CheckRight ==
  ASSUME HarnessTyped, NEW i \in Servers, \A j \in Servers : LogRight(j),
         NEW x \in 1 .. Len(chosen), Has(i, x - 1), UNCHANGED chosen, logs'[i] = Put(logs[i], x, chosen[x])
  PROVE  /\ ~CheckFails(i, x, chosen[x]) /\ LogRight(i)' /\ Has(i, x)'
         /\ DOMAIN logs[i] \subseteq DOMAIN logs'[i]
<1>1. /\ chosen \in Seq(Values) /\ Len(chosen) \in Nat /\ x \in Nat \ {0} /\ chosen[x] \in Command
      /\ logs[i] \in PartialLogs
  BY DEF HarnessTyped, Command
<1>2. /\ DOMAIN logs'[i] = DOMAIN logs[i] \cup {x} /\ logs'[i][x] = chosen[x]
      /\ \A y \in DOMAIN logs[i] : y # x => logs'[i][y] = logs[i][y]
  <2> DEFINE l == logs[i]
             v == chosen[x]
  <2>1. l \in PartialLogs /\ v \in Command /\ logs'[i] = Put(l, x, v)
    BY <1>1
  <2> HIDE DEF l, v
  <2>2. /\ DOMAIN Put(l, x, v) = DOMAIN l \cup {x} /\ Put(l, x, v)[x] = v
        /\ \A y \in DOMAIN l : y # x => Put(l, x, v)[y] = l[y]
    BY DEF Put
  <2> QED
    BY <2>1, <2>2 DEF l, v
<1>3. DOMAIN logs[i] \subseteq Nat \ {0}
  BY <1>1, LogFacts
<1>4. \A y \in 1 .. x : y = x \/ y \in 1 .. x - 1
  BY <1>1
<1>5. \A y \in 1 .. x : y \in DOMAIN logs'[i]
  BY <1>2, <1>4 DEF Has
<1>6. ASSUME NEW y \in DOMAIN logs'[i]
      PROVE  /\ y <= Len(chosen) /\ logs'[i][y] = chosen[y]
             /\ \A z \in 1 .. y : z \in DOMAIN logs'[i]
  <2>1. CASE y = x
    BY <1>1, <1>2, <1>5, <2>1
  <2>2. CASE y # x
    BY <1>2, <1>6, <2>2 DEF LogRight
  <2> QED
    BY <2>1, <2>2
<1>7. LogRight(i)'
  BY <1>6 DEF LogRight
<1>8. ~Conflict(i, x, chosen[x])
  BY DEF Conflict, LogRight
<1>9. x > 1 => prevok(i, x)
  <2>1. x > 1 => x - 1 \in 1 .. x - 1
    BY <1>1
  <2> QED
    BY <2>1 DEF prevok, Has
<1> QED
  BY <1>2, <1>5, <1>7, <1>8, <1>9 DEF CheckFails, Has

\* The iteration of an applier that serves a sound Raft.
LEMMA SoundApplier ==
  ASSUME NetTypeOK, HarnessTyped, kind.sound, \A i \in Servers : ServerRight(i), NEW a \in Appliers, applier(a)
  PROVE  \A i \in Servers : ServerRight(i)'
<1>1. PICK m \in Messages(a) :
         /\ UNCHANGED <<instance, rafts, kind, chosen, saved, lastApplied, one, failed>>
         /\ \A b \in Appliers \ {a} : app'[b] = app[b] /\ next'[b] = next[b]
         /\ \A j \in Servers \ {a[1]} : logs'[j] = logs[j]
         /\ logs'[a[1]] = Put(logs[a[1]], m.index, m.cmd)
         /\ app'[a].pc = (IF CheckFails(a[1], m.index, m.cmd) THEN "fail" ELSE "recv") /\ app'[a].err = app[a].err
         /\ next'[a] = IF kind.sound THEN next[a] + 1 ELSE next[a]
  BY ApplierFrame
<1> DEFINE k == a[1]
<1>2. k \in Servers /\ ~kind.snapshot /\ ApplierRight(a) /\ Len(chosen) \in Nat
  BY ApplierFacts DEF applier, ServerRight, HarnessTyped
<1>3. PICK x \in 1 .. Len(chosen) : x = next[a] /\ m.index = x /\ m.cmd = chosen[x]
  BY <1>2, MessageFacts
<1>4. Has(k, x - 1)
  BY <1>2, <1>3 DEF ApplierRight
<1>5. /\ ~CheckFails(k, x, chosen[x]) /\ LogRight(k)' /\ Has(k, x)'
      /\ DOMAIN logs[k] \subseteq DOMAIN logs'[k]
  <2>1. \A j \in Servers : LogRight(j)
    BY DEF ServerRight
  <2>2. logs'[k] = Put(logs[k], x, chosen[x]) /\ UNCHANGED chosen
    BY <1>1, <1>3
  <2>3. k \in Servers /\ x \in 1 .. Len(chosen) /\ Has(k, x - 1)
    BY <1>2, <1>3, <1>4
  <2> HIDE DEF k
  <2> QED
    BY <2>1, <2>2, <2>3, CheckRight
<1>6. ApplierRight(a)'
  <2>1. app'[a].pc = "recv" /\ app'[a].err = app[a].err /\ next'[a] = x + 1
    BY <1>1, <1>3, <1>5
  <2>2. x + 1 <= Len(chosen) + 1 /\ x + 1 - 1 = x
    BY <1>2, <1>3
  <2> QED
    BY <1>1, <1>2, <1>5, <2>1, <2>2 DEF ApplierRight
<1>7. ASSUME NEW b \in Appliers, b[1] = k PROVE ApplierRight(b)'
  <2>1. CASE b = a
    BY <1>6, <2>1
  <2>2. CASE b # a
    <3>1. ApplierRight(b)
      BY <1>2, <1>7 DEF ServerRight
    <3> QED
      BY <1>1, <1>2, <1>5, <1>7, <2>2, <3>1, OtherApplier
  <2> QED
    BY <2>1, <2>2
<1>8. SavedRight(k)'
  BY <1>1, <1>2 DEF ServerRight, SavedRight
<1>9. ServerRight(k)'
  BY <1>5, <1>7, <1>8 DEF ServerRight
<1>10. ASSUME NEW j \in Servers, j # k PROVE ServerRight(j)'
  BY <1>1, <1>10, ServerFrame
<1> QED
  BY <1>9, <1>10

\* A step of applierSnap concerns the log, the snapshot and the newest applier
\* of its server.
LEMMA SnapRest ==
  ASSUME TestsFine, NetTypeOK, HarnessTyped, AppliersFine, kind.sound, \A i \in Servers : ServerRight(i),
         NEW a \in Appliers, applierSnap(a), LogRight(a[1])', SavedRight(a[1])', ApplierRight(a)'
  PROVE  \A i \in Servers : ServerRight(i)'
<1>1. /\ UNCHANGED <<instance, kind, chosen>>
      /\ \A b \in Appliers \ {a} : app'[b] = app[b] /\ next'[b] = next[b]
      /\ \A j \in Servers \ {a[1]} : logs'[j] = logs[j] /\ saved'[j] = saved[j] /\ lastApplied'[j] = lastApplied[j]
  BY SnapFrame
<1>2. a[1] \in Servers /\ kind.snapshot /\ a[2] = instance[a[1]] /\ \A b \in Appliers : b = <<b[1], b[2]>>
  BY SnapActs, ApplierFacts
<1>3. ASSUME NEW b \in Appliers, b[1] = a[1] PROVE ApplierRight(b)'
  <2>1. CASE b = a
    BY <2>1
  <2>2. CASE b # a
    <3>1. ApplierRight(b) /\ b[2] # a[2]
      BY <1>2, <1>3, <2>2 DEF ServerRight
    <3> QED
      BY <1>1, <1>2, <1>3, <2>2, <3>1, OtherApplier
  <2> QED
    BY <2>1, <2>2
<1>4. ServerRight(a[1])'
  BY <1>3 DEF ServerRight
<1>5. ASSUME NEW j \in Servers, j # a[1] PROVE ServerRight(j)'
  BY <1>1, <1>5, ServerFrame
<1> QED
  BY <1>4, <1>5

\* The steps of applierSnap for a sound Raft.
LEMMA SoundSnap ==
  ASSUME TestsFine, NetTypeOK, HarnessTyped, AppliersFine, kind.sound, \A i \in Servers : ServerRight(i),
         NEW a \in Appliers, applierSnap(a)
  PROVE  \A i \in Servers : ServerRight(i)'
<1> DEFINE k == a[1]
<1>1. /\ k \in Servers /\ kind.snapshot /\ kind.sound /\ a[2] = instance[k]
      /\ UNCHANGED <<instance, kind, chosen>>
  BY SnapActs, SnapFrame, ApplierFacts
<1>2. /\ LogRight(k) /\ SavedRight(k) /\ ApplierRight(a)
      /\ next[a] \in Nat \ {0} /\ next[a] <= Len(chosen) + 1 /\ Len(chosen) \in Nat
      /\ ~app[a].err /\ app[a].pc # "fail" /\ InStep(a)
      /\ app[a].m.index \in Nat /\ lastApplied[k] \in Nat
      /\ app \in [Appliers -> ApplierRecord] /\ next \in [Appliers -> Nat \ {0}]
      /\ logs \in [Servers -> PartialLogs] /\ lastApplied \in [Servers -> Nat]
      /\ saved \in [Servers -> Seq(Command)]
  BY <1>1 DEF ServerRight, ApplierRight, HarnessTyped, ApplierRecord, Message
<1>3. ASSUME next'[a] <= Len(chosen) + 1, ~app'[a].err, app'[a].pc # "fail", InStep(a)'
      PROVE  ApplierRight(a)'
  BY <1>1, <1>3 DEF ApplierRight
<1>4. ASSUME logs' = logs PROVE LogRight(k)' /\ \A x : Has(k, x)' = Has(k, x)
  BY <1>1, <1>2, <1>4 DEF LogRight, Has
<1>5. ASSUME saved' = saved PROVE SavedRight(k)'
  BY <1>1, <1>2, <1>5 DEF SavedRight
<1>6. CASE BeginSnap(a)
  <2>1. /\ app'[a].pc \in {"recv", "done"} /\ app'[a].err = app[a].err
        /\ UNCHANGED <<logs, saved, next, lastApplied>> /\ app[a].pc = "begin"
    BY <1>6, BeginFields DEF BeginSnap, raftVars
  <2>2. InStep(a)'
    BY <1>2, <1>4, <2>1 DEF InStep
  <2> QED
    BY <1>2, <1>3, <1>4, <1>5, <2>1, <2>2, SnapRest
<1>7. CASE ReceiveCommand(a)
  <2>1. PICK m \in Messages(a) :
         /\ app'[a].m = m /\ (app'[a].err <=> m.index # lastApplied[a[1]] + 1)
         /\ app'[a].pc = IF m.index # lastApplied[a[1]] + 1 THEN "set" ELSE "check"
    BY <1>7, CommandFields
  <2>2. UNCHANGED <<logs, saved, lastApplied>> /\ app[a].pc = "recv" /\ next'[a] = next[a] + 1
    BY <1>2, <1>7 DEF ReceiveCommand
  <2>3. PICK x \in 1 .. Len(chosen) : x = next[a] /\ m.index = x /\ m.cmd = chosen[x]
    BY <1>1, <1>2, MessageFacts
  <2>4. lastApplied[k] = x - 1 /\ Has(k, x - 1)
    BY <1>2, <2>2, <2>3 DEF InStep
  <2>5. x = lastApplied[k] + 1
    BY <1>2, <2>4
  <2>6. app'[a].pc = "check" /\ ~app'[a].err /\ app'[a].m.index = x /\ app'[a].m.cmd = chosen[x]
    BY <2>1, <2>3, <2>5
  <2>7. next'[a] - 1 = x /\ next'[a] <= Len(chosen) + 1
    BY <1>2, <2>2, <2>3
  <2>8. Has(k, x - 1)'
    BY <1>4, <2>2, <2>4
  <2>9. InStep(a)'
    BY <1>1, <2>2, <2>3, <2>5, <2>6, <2>7, <2>8 DEF InStep
  <2> QED
    BY <1>3, <1>4, <1>5, <2>2, <2>6, <2>7, <2>9, SnapRest
<1>8. CASE ReceiveSnapshot(a)
  <2>9. PICK j \in Servers :
              /\ logs'[k] = saved[j] /\ lastApplied'[k] = Len(saved[j]) /\ next'[a] = Len(saved[j]) + 1
              /\ saved'[k] = saved[j] \/ saved'[k] = saved[k]
              /\ app'[a].pc = "recv"
    BY <1>1, <1>8, SnapshotFields
  <2>1. PICK s \in Seq(Command) : s = saved[j]
    BY <1>2
  <2>2. /\ logs'[k] = s /\ lastApplied'[k] = Len(s) /\ next'[a] = Len(s) + 1 /\ (saved'[k] = s \/ saved'[k] = saved[k])
        /\ app'[a].pc = "recv" /\ app'[a].err = app[a].err
    BY <1>8, <2>1, <2>9, SnapshotFields
  <2>3. Len(s) \in Nat /\ DOMAIN s = 1 .. Len(s) /\ Len(s) <= Len(chosen) /\ \A x \in 1 .. Len(s) : s[x] = chosen[x]
    BY <2>1, SnapshotIsLog DEF ServerRight, SavedRight
  <2>0. Len(chosen) \in Nat /\ chosen' = chosen
    BY <1>1, <1>2
  <2>4. LogRight(k)'
    <3>1. ASSUME NEW x \in 1 .. Len(s)
          PROVE  x <= Len(chosen) /\ \A y \in 1 .. x : y \in 1 .. Len(s)
      BY <2>0, <2>3
    <3> QED
      BY <2>0, <2>2, <2>3, <3>1 DEF LogRight
  <2>5. SavedRight(k)'
    BY <1>1, <1>2, <2>2, <2>3 DEF SavedRight
  <2>6. next'[a] - 1 = Len(s) /\ next'[a] <= Len(chosen) + 1
    BY <2>0, <2>2, <2>3
  <2>7. InStep(a)'
    BY <2>2, <2>3, <2>6 DEF InStep, Has
  <2> QED
    BY <1>2, <1>3, <2>2, <2>4, <2>5, <2>6, <2>7, SnapRest
<1>9. CASE CheckSnap(a)
  <2>1. PICK x \in 1 .. Len(chosen) : /\ x = app[a].m.index /\ x = next[a] - 1 /\ x = lastApplied[k] + 1
                                      /\ app[a].m.cmd = chosen[x] /\ Has(k, x - 1)
    <3>1. app[a].pc = "check"
      BY <1>9 DEF CheckSnap
    <3>2. /\ app[a].m.index = next[a] - 1 /\ app[a].m.index = lastApplied[k] + 1
          /\ app[a].m.cmd = chosen[app[a].m.index] /\ Has(k, app[a].m.index - 1)
      BY <1>2, <3>1 DEF InStep
    <3>3. app[a].m.index \in 1 .. Len(chosen)
      BY <1>2, <3>2
    <3> QED
      BY <3>2, <3>3
  <2>2. logs'[k] = Put(logs[k], x, chosen[x]) /\ UNCHANGED <<saved, next, lastApplied>>
    BY <1>1, <1>2, <1>9, <2>1 DEF CheckSnap, checkLogs, raftVars
  <2>3. ~CheckFails(k, x, chosen[x]) /\ LogRight(k)' /\ Has(k, x)'
    <3>1. \A j \in Servers : LogRight(j)
      BY DEF ServerRight
    <3> HIDE DEF k
    <3> QED
      BY <1>1, <2>1, <2>2, <3>1, CheckRight
  <2>4. app'[a].m.index = x /\ app'[a].pc = "set" /\ ~app'[a].err
    BY <1>9, <2>1, <2>3, CheckFields
  <2>5. InStep(a)'
    BY <2>1, <2>2, <2>3, <2>4 DEF InStep
  <2> QED
    BY <1>2, <1>3, <1>5, <2>2, <2>3, <2>4, <2>5, SnapRest
<1>10. CASE SetLastApplied(a)
  <2>1. /\ app[a].pc = "set" /\ lastApplied'[k] = app[a].m.index /\ UNCHANGED <<logs, saved, next>>
    BY <1>1, <1>2, <1>10 DEF SetLastApplied, raftVars
  <2>2. app[a].m.index = next[a] - 1 /\ Has(k, app[a].m.index)
    BY <1>2, <2>1 DEF InStep
  <2>3. ~app'[a].err /\ ((app'[a].pc = "snap" /\ app'[a].m = app[a].m) \/ app'[a].pc = "recv")
    BY <1>2, <1>10, SetFields
  <2>4. InStep(a)'
    BY <1>4, <2>1, <2>2, <2>3 DEF InStep
  <2> QED
    BY <1>2, <1>3, <1>4, <1>5, <2>1, <2>3, <2>4, SnapRest
<1>11. CASE TakeSnapshot(a)
  <2>1. /\ app[a].pc = "snap" /\ UNCHANGED <<logs, lastApplied, next>> /\ ~app'[a].err /\ app'[a].pc = "recv"
    BY <1>2, <1>11, SnapFields DEF TakeSnapshot
  <2>2. PICK x \in Nat : x = app[a].m.index
    BY <1>2
  <2>3. x = next[a] - 1 /\ Has(k, x) /\ lastApplied[k] = x
    BY <1>2, <2>1, <2>2 DEF InStep
  <2>4. SavedRight(k)'
    <3>1. PICK s : s = SnapshotOf(k, x)
      OBVIOUS
    <3>2. Len(s) = x /\ \A y \in 1 .. x : y \in DOMAIN logs[k] => s[y] = logs[k][y]
      BY <1>1, <3>1, SnapshotTyped
    <3>3. Len(s) <= Len(chosen) /\ \A y \in 1 .. Len(s) : s[y] = chosen[y]
      <4>1. Len(chosen) \in Nat /\ LogRight(k)
        BY <1>2
      <4>2. \A y \in 1 .. x : y \in DOMAIN logs[k] /\ y <= Len(chosen) /\ logs[k][y] = chosen[y]
        BY <2>3, <4>1 DEF Has, LogRight
      <4>3. x <= Len(chosen)
        BY <2>2, <4>1, <4>2
      <4> QED
        BY <3>2, <4>2, <4>3
    <3>4. saved'[k] = saved[k] \/ saved'[k] = s
      BY <1>1, <1>11, <2>2, <3>1, SavedFields
    <3> QED
      BY <1>1, <1>2, <3>3, <3>4 DEF SavedRight
  <2>5. InStep(a)'
    BY <1>4, <2>1, <2>3 DEF InStep
  <2> QED
    BY <1>2, <1>3, <1>4, <2>1, <2>4, <2>5, SnapRest
<1> QED
  BY <1>6, <1>7, <1>8, <1>9, <1>10, <1>11 DEF applierSnap

\* One more command is agreed on.
LEMMA SoundAgree ==
  ASSUME HarnessTyped, \A i \in Servers : ServerRight(i), NEW v \in Values, Agree(v)
  PROVE  \A i \in Servers : ServerRight(i)'
<1>1. /\ chosen \in Seq(Values) /\ chosen' = Append(chosen, v)
      /\ UNCHANGED <<instance, kind, next, saved, app, logs, lastApplied>>
  BY DEF Agree, HarnessTyped, netVars, checkVars
<1>2. /\ Len(chosen) \in Nat /\ Len(chosen') = Len(chosen) + 1
      /\ \A x \in 1 .. Len(chosen) : chosen'[x] = chosen[x]
  BY <1>1
<1> SUFFICES ASSUME NEW i \in Servers PROVE ServerRight(i)'
  OBVIOUS
<1>3. logs[i] \in PartialLogs /\ DOMAIN logs[i] \subseteq Nat \ {0} /\ Len(saved[i]) \in Nat
  <2>1. logs[i] \in PartialLogs /\ saved[i] \in Seq(Command)
    BY DEF HarnessTyped
  <2> QED
    BY <2>1, LogFacts, SnapshotIsLog
<1>4. LogRight(i)'
  <2>1. \A x \in DOMAIN logs[i] : x \in 1 .. Len(chosen) /\ x <= Len(chosen')
    BY <1>2, <1>3 DEF ServerRight, LogRight
  <2> QED
    BY <1>1, <1>2, <2>1 DEF ServerRight, LogRight
<1>5. SavedRight(i)'
  BY <1>1, <1>2, <1>3 DEF ServerRight, SavedRight
<1>6. ASSUME NEW a \in Appliers, a[1] = i PROVE ApplierRight(a)'
  <2>1. ApplierRight(a) /\ next[a] \in Nat \ {0} /\ app[a].m.index \in Nat /\ \A x : Has(i, x)' = Has(i, x)
    BY <1>1, <1>6 DEF ServerRight, HarnessTyped, ApplierRecord, Message, Has
  <2>2. next[a] <= Len(chosen) + 1 /\ next[a] <= Len(chosen') + 1
    BY <1>2, <2>1 DEF ApplierRight
  <2>3. ASSUME InStep(a) PROVE InStep(a)'
    <3>1. app[a].pc = "check" => app[a].m.index \in 1 .. Len(chosen)
      <4>1. CASE app[a].pc = "check"
        <5>1. app[a].m.index = next[a] - 1 /\ app[a].m.index = lastApplied[i] + 1 /\ lastApplied[i] \in Nat
          BY <1>6, <2>3, <4>1 DEF InStep, HarnessTyped
        <5> QED
          BY <1>2, <2>1, <2>2, <5>1
      <4> QED
        BY <4>1
    <3> QED
      BY <1>1, <1>2, <1>6, <2>1, <2>3, <3>1 DEF InStep
  <2> QED
    BY <1>1, <1>6, <2>1, <2>2, <2>3 DEF ApplierRight
<1> QED
  BY <1>4, <1>5, <1>6 DEF ServerRight

\* A new instance starts from its snapshot, and so does its server's log.
LEMMA SoundStart ==
  ASSUME NetTypeOK, HarnessTyped, AppliersFine, kind.sound, \A i \in Servers : ServerRight(i),
         NEW i \in Servers, Start(i)
  PROVE  \A j \in Servers : ServerRight(j)'
<1>1. PICK a \in Appliers : a = <<i, instance[i] + 1>>
  BY StartFields
<1>2. /\ instance' = [instance EXCEPT ![i] = @ + 1] /\ instance[i] \in Nat /\ instance'[i] = instance[i] + 1
      /\ app' = [app EXCEPT ![a] = NewApplier] /\ next' = [next EXCEPT ![a] = Len(saved[i]) + 1]
      /\ UNCHANGED <<kind, chosen, saved, one, failed>>
      /\ \/ saved[i] = <<>> /\ logs' = logs /\ lastApplied' = [lastApplied EXCEPT ![i] = 0]
         \/ /\ saved[i] # <<>> /\ logs' = [logs EXCEPT ![i] = saved[i]]
            /\ lastApplied' = [lastApplied EXCEPT ![i] = Len(saved[i])]
  BY <1>1, StartFields
<1>3. /\ app \in [Appliers -> ApplierRecord] /\ next \in [Appliers -> Nat \ {0}] /\ instance \in [Servers -> Instances]
      /\ logs \in [Servers -> PartialLogs] /\ lastApplied \in [Servers -> Nat]
  BY DEF HarnessTyped, NetTypeOK
<1>4. PICK s \in Seq(Command) : s = saved[i]
  BY DEF HarnessTyped
<1>5. Len(s) \in Nat /\ DOMAIN s = 1 .. Len(s) /\ Len(s) <= Len(chosen) /\ \A x \in 1 .. Len(s) : s[x] = chosen[x]
  BY <1>4, SnapshotIsLog DEF ServerRight, SavedRight
<1>6. LogRight(i)' /\ SavedRight(i)'
  <2>1. SavedRight(i)'
    BY <1>2 DEF ServerRight, SavedRight
  <2>2. CASE logs' = logs
    BY <1>2, <2>1, <2>2 DEF ServerRight, LogRight
  <2>3. CASE logs'[i] = s
    BY <1>2, <1>5, <2>1, <2>3 DEF LogRight
  <2> QED
    BY <1>2, <1>3, <1>4, <2>2, <2>3
<1>7. Has(i, Len(s))' /\ lastApplied'[i] = Len(s)
  <2>1. CASE s = <<>> /\ lastApplied' = [lastApplied EXCEPT ![i] = 0]
    <3>1. Len(s) = 0 /\ 1 .. Len(s) = {}
      BY <2>1
    <3> QED
      BY <1>3, <2>1, <3>1 DEF Has
  <2>2. CASE logs' = [logs EXCEPT ![i] = s] /\ lastApplied' = [lastApplied EXCEPT ![i] = Len(s)]
    BY <1>3, <1>5, <2>2 DEF Has
  <2> QED
    BY <1>2, <1>4, <2>1, <2>2
<1>8. ApplierRight(a)'
  <2>1. /\ a[1] = i /\ app'[a] = NewApplier /\ next'[a] = Len(s) + 1 /\ next'[a] - 1 = Len(s)
        /\ next'[a] <= Len(chosen) + 1
    <3>1. a[1] = i /\ app'[a] = NewApplier /\ next'[a] = Len(s) + 1 /\ Len(chosen) \in Nat
      BY <1>1, <1>2, <1>3, <1>4 DEF HarnessTyped
    <3> QED
      BY <1>5, <3>1
  <2>2. ~app'[a].err /\ app'[a].pc \in {"begin", "recv"}
    BY <2>1, NewTyped
  <2>3. InStep(a)'
    BY <1>7, <2>1, <2>2 DEF InStep
  <2> QED
    BY <1>2, <1>7, <2>1, <2>2, <2>3 DEF ApplierRight
<1>9. ASSUME NEW b \in Appliers, b[1] = i PROVE ApplierRight(b)'
  <2>1. CASE b = a
    BY <1>8, <2>1
  <2>2. CASE b # a
    <3>1. ApplierRight(b) /\ b[2] # instance'[i] /\ app'[b] = app[b] /\ next'[b] = next[b]
      BY <1>1, <1>2, <1>3, <1>9, <2>2, ApplierFacts DEF ServerRight
    <3>2. ~kind.snapshot => logs' = logs
      BY <1>2 DEF AppliersFine, NothingSaved
    <3> QED
      BY <1>2, <1>9, <3>1, <3>2, OtherApplier
  <2> QED
    BY <2>1, <2>2
<1>10. ServerRight(i)'
  BY <1>6, <1>9 DEF ServerRight
<1>11. ASSUME NEW j \in Servers, j # i PROVE ServerRight(j)'
  <2>1. logs'[j] = logs[j] /\ lastApplied'[j] = lastApplied[j] /\ instance'[j] = instance[j] /\ saved'[j] = saved[j]
    BY <1>2, <1>3, <1>11
  <2>2. \A b \in Appliers : b[1] = j => next'[b] = next[b] /\ app'[b] = app[b]
    BY <1>1, <1>2, <1>3, <1>11
  <2> QED
    BY <1>2, <2>1, <2>2, ServerFrame
<1> QED
  BY <1>10, <1>11

\* What nCommitted counts was agreed on.
LEMMA SoundOne ==
  ASSUME TestsFine, NetTypeOK, HarnessTyped, AppliersFine, kind.sound, \A i \in Servers : ServerRight(i), OneRight, [Next]_vars
  PROVE  OneRight'
<1>1. /\ Len(chosen) \in Nat /\ one \in OneRecord /\ chosen \in Seq(Values)
  BY DEF HarnessTyped
<1>2. ASSUME UNCHANGED <<one, failed, chosen>> PROVE OneRight'
  BY <1>2 DEF OneRight
<1>3. ASSUME NEW v \in Values, Agree(v) PROVE OneRight'
  <2>1. chosen' = Append(chosen, v) /\ UNCHANGED <<one, failed>>
    BY <1>3 DEF Agree
  <2>2. Len(chosen') = Len(chosen) + 1 /\ \A x \in 1 .. Len(chosen) : chosen'[x] = chosen[x]
    BY <1>1, <2>1
  <2> QED
    BY <1>1, <2>1, <2>2 DEF OneRight
<1>4. ASSUME NEW a \in Appliers, applier(a) \/ applierSnap(a) PROVE OneRight'
  BY <1>2, <1>4, ApplierFrame, SnapFrame
<1>5. ASSUME NEW a \in Appliers PROVE ~ApplyError(a)
  BY ApplierFacts DEF ServerRight, ApplierRight, ApplyError
<1>6. ASSUME NEW i \in Servers, Connect(i) \/ Disconnect(i) \/ Crash(i) \/ Start(i) PROVE OneRight'
  <2>1. CASE Start(i)
    BY <1>2, <2>1, StartFields
  <2> QED
    BY <1>2, <1>6, <2>1 DEF Connect, Disconnect, Crash, raftVars
<1>7. ASSUME NEW v \in Values, NEW e \in 1 .. n, One(v, e) PROVE OneRight'
  <2>1. one'.pc = "start" /\ failed' = failed
    BY <1>7, OneFields DEF One, Command
  <2> QED
    BY <2>1 DEF OneRight
<1>8. ASSUME NEW x \in Indexes, StartAccepted(x) PROVE OneRight'
  <2>1. x \in Nat /\ Nil \in Command
    BY RaftHarnessAssumption DEF Indexes, Command
  <2>2. one'.nd = 0 /\ failed' = failed
    BY <1>8, <2>1, OneFields DEF StartAccepted
  <2> QED
    BY <2>2 DEF OneRight
<1>9. CASE nCommitted
  <2>1. one.at \in Servers /\ one.index \in Nat /\ one.nd \in Nat /\ chosen' = chosen /\ one.pc = "count"
    BY <1>1, <1>9, LookFields DEF nCommitted, raftVars, OneRecord
  <2>2. ASSUME one.index \in DOMAIN logs[one.at]
        PROVE  one.index \in 1 .. Len(chosen) /\ logs[one.at][one.index] = chosen[one.index]
    <3>1. logs[one.at] \in PartialLogs /\ LogRight(one.at)
      BY <2>1 DEF HarnessTyped, ServerRight
    <3> QED
      BY <1>1, <2>2, <3>1, LogFacts DEF LogRight
  <2>3. CASE /\ one.index \in DOMAIN logs[one.at] /\ one.nd > 0 /\ logs[one.at][one.index] # one.cmd1
    BY <2>1, <2>2, <2>3 DEF OneRight
  <2>4. CASE /\ one.index \in DOMAIN logs[one.at] /\ one'.pc = "count"
             /\ one'.index = one.index /\ one'.cmd1 = logs[one.at][one.index] /\ failed' = failed
    BY <2>1, <2>2, <2>4 DEF OneRight
  <2>5. CASE /\ one'.pc = "count" /\ one'.index = one.index /\ one'.nd = one.nd
             /\ one'.cmd1 = one.cmd1 /\ failed' = failed
    BY <2>1, <2>5 DEF OneRight
  <2> QED
    BY <1>9, <2>3, <2>4, <2>5, LookFields
<1>10. CASE Decide
  <2>1. chosen' = chosen /\ one.pc = "count"
    BY <1>10 DEF Decide, raftVars
  <2>2. CASE one'.pc = "returned" /\ one'.index = one.index /\ one'.nd = one.nd /\ one'.cmd1 = one.cmd1 /\ failed' = failed
    BY <2>1, <2>2 DEF OneRight
  <2>3. CASE (one'.nd = 0 \/ one'.pc = "start") /\ failed' = failed
    BY <2>3 DEF OneRight
  <2>4. CASE one' = one /\ failed' = "agreement"
    BY <2>1, <2>4 DEF OneRight
  <2> QED
    BY <1>10, <2>2, <2>3, <2>4, DecideFields
<1>11. CASE GiveUp
  BY <1>11 DEF GiveUp, raftVars, OneRight
<1>12. CASE UNCHANGED vars
  BY <1>2, <1>12 DEF vars, raftVars
<1> QED
  BY <1>3, <1>4, <1>5, <1>6, <1>7, <1>8, <1>9, <1>10, <1>11, <1>12 DEF Next, Test

\* The kind of a test does not change.
LEMMA KindStays == [Next]_vars => kind' = kind
BY DEF Next, Test, vars, raftVars, Agree, applier, applierSnap, BeginSnap, ReceiveCommand, ReceiveSnapshot, CheckSnap,
       SetLastApplied, TakeSnapshot, ApplyError, Connect, Disconnect, Crash, Start, One, StartAccepted, nCommitted,
       Decide, GiveUp

\* Every step keeps what holds with a sound Raft.
LEMMA SoundStep ==
  ASSUME TestsFine, NetTypeOK, HarnessTyped, AppliersFine, SoundInv, [Next]_vars
  PROVE  SoundInv'
<1> SUFFICES ASSUME kind.sound PROVE (\A i \in Servers : ServerRight(i)') /\ OneRight'
  <2>1. \A a \in Appliers : a[1] \in Servers
    BY ApplierFacts
  <2> QED
    BY <2>1, KindStays DEF SoundInv, ServerRight
<1>1. (\A i \in Servers : ServerRight(i)) /\ OneRight
  BY DEF SoundInv, ServerRight
<1> DEFINE Right == \A i \in Servers : ServerRight(i)'
<1>2. OneRight'
  BY <1>1, SoundOne
<1>3. ASSUME UNCHANGED <<kind, chosen, logs, saved, lastApplied, instance, next, app>>
      PROVE  Right
  BY <1>1, <1>3, ServerFrame
<1>4. ASSUME NEW v \in Values, Agree(v) PROVE Right
  BY <1>1, <1>4, SoundAgree
<1>5. ASSUME NEW a \in Appliers, applier(a) \/ applierSnap(a) PROVE Right
  BY <1>1, <1>5, SoundApplier, SoundSnap
<1>6. ASSUME NEW i \in Servers, Start(i) PROVE Right
  BY <1>1, <1>6, SoundStart
<1>7. ASSUME NEW i \in Servers, Connect(i) \/ Disconnect(i) \/ Crash(i) PROVE Right
  BY <1>3, <1>7 DEF Connect, Disconnect, Crash, connect, disconnect, crash1, raftVars, checkVars
<1>8. ASSUME (\E a \in Appliers : ApplyError(a)) \/ (\E v \in Values, e \in 1 .. n : One(v, e))
             \/ (\E x \in Indexes : StartAccepted(x)) \/ nCommitted \/ Decide \/ GiveUp
      PROVE  Right
  BY <1>3, <1>8 DEF ApplyError, One, StartAccepted, nCommitted, Decide, GiveUp, netVars, raftVars, checkVars
<1>9. ASSUME UNCHANGED vars PROVE Right
  BY <1>3, <1>9 DEF vars, netVars, raftVars, checkVars
<1> HIDE DEF Right
<1>10. Right
  BY <1>4, <1>5, <1>6, <1>7, <1>8, <1>9 DEF Next, Test
<1> QED
  BY <1>2, <1>10 DEF Right

-----------------------------------------------------------------------------
(* Any Raft                                                                *)

\* A log has been extended by checkLogs, without an objection.
Extended ==
  \E a \in Appliers, x \in Nat \ {0}, v \in Command :
    /\ ~CheckFails(a[1], x, v) /\ logs' = [logs EXCEPT ![a[1]] = Put(@, x, v)]

\* A log has become that of a snapshot.
Replaced == \E i \in Servers, s \in Seq(Command) : logs' = [logs EXCEPT ![i] = s]

\* A test that goes on without an objection did so before, and its logs have
\* only changed in these ways.
LEMMA FailingStays ==
  ASSUME HarnessTyped, NetTypeOK, AppliersFine, [Next]_vars, Running', ~Failing'
  PROVE  /\ Running /\ ~Failing /\ (logs' = logs \/ Extended \/ Replaced)
         /\ ~kind.snapshot => logs' = logs \/ (Extended /\ one' = one)
<1>1. /\ app \in [Appliers -> ApplierRecord] /\ \A a \in Appliers : ApplierFine(a)
      /\ ~kind.snapshot => \A i \in Servers : saved[i] = <<>>
  BY DEF HarnessTyped, AppliersFine, NothingSaved
<1>2. Running
  BY DEF Next, Test, vars, Running, Agree, applier, applierSnap, BeginSnap, ReceiveCommand, ReceiveSnapshot, CheckSnap,
       SetLastApplied, TakeSnapshot, ApplyError, Connect, Disconnect, Crash, Start, One, StartAccepted, nCommitted,
       Decide, GiveUp, Between
<1>3. ASSUME UNCHANGED checkVars PROVE ~Failing /\ logs' = logs
  BY <1>3 DEF checkVars, Failing
<1>4. ASSUME NEW a \in Appliers, applier(a) PROVE ~Failing /\ Extended /\ one' = one
  <2>1. PICK m \in Messages(a) :
         /\ checkLogs(a[1], m.index, m.cmd)
         /\ app' = [app EXCEPT ![a] = AfterMessage(a, CheckFails(a[1], m.index, m.cmd))]
    BY <1>4 DEF applier
  <2>2. CheckFails(a[1], m.index, m.cmd) \in BOOLEAN /\ m.index \in Nat \ {0} /\ m.cmd \in Command
    BY MessageFacts DEF CheckFails, Conflict
  <2>3. /\ \A b \in Appliers \ {a} : app'[b] = app[b]
        /\ app'[a].pc = (IF CheckFails(a[1], m.index, m.cmd) THEN "fail" ELSE "recv") /\ app'[a].err = app[a].err
    BY <1>1, <2>1, <2>2, AfterTyped
  <2>4. ~CheckFails(a[1], m.index, m.cmd)
    BY <2>3 DEF Failing
  <2>5. Extended
    BY <2>1, <2>2, <2>4 DEF Extended, checkLogs
  <2>6. app[a].pc = "recv" /\ one' = one
    BY <1>4 DEF applier
  <2> QED
    BY <2>3, <2>5, <2>6 DEF Failing
<1>5. ASSUME NEW a \in Appliers, applierSnap(a)
      PROVE  kind.snapshot /\ ~Failing /\ (logs' = logs \/ Extended \/ Replaced)
  <2>1. kind.snapshot
    BY <1>1, <1>5 DEF ApplierFine, applierSnap, BeginSnap, ReceiveCommand, ReceiveSnapshot, CheckSnap, SetLastApplied,
                      TakeSnapshot
  <2>2. ASSUME ~app[a].err, app[a].pc # "fail", \A b \in Appliers \ {a} : app'[b] = app[b] PROVE ~Failing
    BY <2>2 DEF Failing
  <2>3. app[a].pc \in {"begin", "recv", "check"} => ~app[a].err
    BY <1>1 DEF ApplierFine
  <2>4. CASE BeginSnap(a)
    BY <2>1, <2>2, <2>3, <2>4, BeginFields DEF BeginSnap
  <2>5. CASE ReceiveCommand(a)
    BY <2>1, <2>2, <2>3, <2>5, CommandFields DEF ReceiveCommand
  <2>6. CASE ReceiveSnapshot(a)
    <3>1. logs' = logs \/ Replaced
      BY <2>6, SnapshotFields, ApplierFacts DEF Replaced
    <3> QED
      BY <2>1, <2>2, <2>3, <2>6, <3>1, SnapshotFields DEF ReceiveSnapshot
  <2>7. CASE CheckSnap(a)
    <3>1. app[a].pc = "check" /\ app[a].m.index \in Nat \ {0} /\ app[a].m.cmd \in Command
      BY <1>1, <2>7 DEF CheckSnap, HarnessTyped, Checking, ApplierRecord, Message
    <3>2. ~CheckFails(a[1], app[a].m.index, app[a].m.cmd)
      BY <2>7, CheckFields DEF Failing
    <3>3. Extended
      BY <2>7, <3>1, <3>2 DEF Extended, CheckSnap, checkLogs
    <3> QED
      BY <2>1, <2>2, <2>3, <2>7, <3>1, <3>3, CheckFields
  <2>8. CASE SetLastApplied(a)
    <3>1. ~app[a].err
      BY <2>8, SetFields DEF Failing
    <3> QED
      BY <2>1, <2>2, <2>8, <3>1, SetFields DEF SetLastApplied
  <2>9. CASE TakeSnapshot(a)
    <3>1. ~app[a].err
      BY <2>9, SnapFields DEF Failing
    <3> QED
      BY <2>1, <2>2, <2>9, <3>1, SnapFields DEF TakeSnapshot
  <2> QED
    BY <1>5, <2>4, <2>5, <2>6, <2>7, <2>8, <2>9 DEF applierSnap
<1>6. ASSUME NEW i \in Servers, Start(i)
      PROVE  ~Failing /\ (logs' = logs \/ Replaced) /\ (~kind.snapshot => logs' = logs)
  <2>1. PICK a \in Appliers : a = <<i, instance[i] + 1>>
    BY <1>6, StartFields
  <2>2. /\ app' = [app EXCEPT ![a] = NewApplier] /\ instance[i] \in Nat /\ (~kind.snapshot => logs' = logs)
        /\ logs' = logs \/ \E s \in Seq(Command) : logs' = [logs EXCEPT ![i] = s]
    BY <1>1, <1>6, <2>1, StartFields
  <2>3. a[2] > instance[a[1]]
    BY <2>1, <2>2
  <2>4. app[a].pc = "none" /\ ~app[a].err
    BY <1>1, <2>3 DEF ApplierFine
  <2>5. ~Failing
    BY <1>1, <2>2, <2>4 DEF Failing
  <2> QED
    BY <2>2, <2>5 DEF Replaced
<1>7. ASSUME NEW i \in Servers, Connect(i) \/ Disconnect(i) \/ Crash(i) PROVE UNCHANGED checkVars
  BY <1>7 DEF Connect, Disconnect, Crash
<1>8. ASSUME (\E a \in Appliers : ApplyError(a)) \/ (\E v \in Values, e \in 1 .. n : One(v, e))
             \/ (\E x \in Indexes : StartAccepted(x)) \/ nCommitted \/ Decide \/ GiveUp
             \/ (\E v \in Values : Agree(v)) \/ UNCHANGED vars
      PROVE  UNCHANGED checkVars
  BY <1>8 DEF ApplyError, One, StartAccepted, nCommitted, Decide, GiveUp, Agree, vars
<1> QED
  BY <1>2, <1>3, <1>4, <1>5, <1>6, <1>7, <1>8 DEF Next, Test

\* No log has a gap.
NoGaps == \A i \in Servers : \A x \in DOMAIN logs[i] : \A y \in 1 .. x : y \in DOMAIN logs[i]

\* Neither a snapshot nor a command that checkLogs accepts makes a gap.
LEMMA NoNewGaps ==
  ASSUME HarnessTyped, NoGaps, logs' = logs \/ Extended \/ Replaced
  PROVE  NoGaps'
<1>1. logs \in [Servers -> PartialLogs]
  BY DEF HarnessTyped
<1>2. CASE logs' = logs
  BY <1>2 DEF NoGaps
<1>3. CASE Extended
  <2>1. PICK a \in Appliers, x \in Nat \ {0}, v \in Command :
          ~CheckFails(a[1], x, v) /\ logs' = [logs EXCEPT ![a[1]] = Put(@, x, v)]
    BY <1>3 DEF Extended
  <2>2. PICK k \in Servers : k = a[1]
    BY ApplierFacts
  <2>3. PICK l : l = logs'[k]
    OBVIOUS
  <2>4. l = Put(logs[k], x, v) /\ \A j \in Servers \ {k} : logs'[j] = logs[j]
    BY <1>1, <2>1, <2>2, <2>3
  <2>5. DOMAIN l = DOMAIN logs[k] \cup {x}
    BY <2>4 DEF Put
  <2>6. x > 1 => x - 1 \in DOMAIN logs[k]
    BY <2>1, <2>2 DEF CheckFails, prevok
  <2>7. \A y \in 1 .. x : y \in DOMAIN l
    <3>1. \A y \in 1 .. x : y = x \/ (x > 1 /\ y \in 1 .. x - 1)
      OBVIOUS
    <3> QED
      BY <2>5, <2>6, <3>1 DEF NoGaps
  <2>8. ASSUME NEW i \in Servers, NEW y \in DOMAIN logs'[i], NEW z \in 1 .. y PROVE z \in DOMAIN logs'[i]
    <3>1. CASE i = k
      BY <2>3, <2>5, <2>7, <2>8, <3>1 DEF NoGaps
    <3>2. CASE i # k
      BY <2>4, <2>8, <3>2 DEF NoGaps
    <3> QED
      BY <3>1, <3>2
  <2> QED
    BY <2>8 DEF NoGaps
<1>4. CASE Replaced
  <2>1. PICK k \in Servers, s \in Seq(Command) : logs' = [logs EXCEPT ![k] = s]
    BY <1>4 DEF Replaced
  <2>2. logs'[k] = s /\ \A j \in Servers \ {k} : logs'[j] = logs[j]
    BY <1>1, <2>1
  <2>3. DOMAIN s = 1 .. Len(s) /\ Len(s) \in Nat
    BY SnapshotIsLog
  <2>4. \A x \in DOMAIN s : \A y \in 1 .. x : y \in DOMAIN s
    BY <2>3
  <2> QED
    BY <2>2, <2>4 DEF NoGaps
<1> QED
  BY <1>2, <1>3, <1>4

\* As long as no applier objects the logs have no gaps and, except with an
\* unsound Raft that delivers snapshots, agree.
LEMMA LogsStep ==
  ASSUME TestsFine, NetTypeOK, HarnessTyped, HarnessTyped', AppliersFine, SoundInv', LogsAgree, [Next]_vars
  PROVE  LogsAgree'
<1>1. CASE kind.sound
  <2>1. kind'.sound
    BY <1>1, KindStays
  <2>2. \A i \in Servers : LogRight(i)'
    BY <2>1 DEF SoundInv
  <2> QED
    BY <2>2 DEF LogsAgree, LogRight
<1>2. CASE ~kind.sound
  <2> SUFFICES ASSUME Running', ~Failing'
               PROVE  /\ NoGaps'
                      /\ (kind'.snapshot => kind'.sound) =>
                           \A i, j \in Servers : \A x \in DOMAIN logs'[i] \cap DOMAIN logs'[j] : logs'[i][x] = logs'[j][x]
    BY DEF LogsAgree, NoGaps
  <2>1. Running /\ ~Failing /\ (logs' = logs \/ Extended \/ Replaced)
    BY FailingStays
  <2>2. NoGaps'
    BY <2>1, NoNewGaps DEF LogsAgree, NoGaps
  <2> SUFFICES ASSUME ~kind.snapshot
               PROVE  \A i, j \in Servers : \A x \in DOMAIN logs'[i] \cap DOMAIN logs'[j] : logs'[i][x] = logs'[j][x]
    BY <1>2, <2>2, KindStays
  <2>0. logs' = logs \/ Extended
    BY FailingStays
  <2>3. \A i, j \in Servers : \A x \in DOMAIN logs[i] \cap DOMAIN logs[j] : logs[i][x] = logs[j][x]
    BY <2>1 DEF LogsAgree
  <2>4. CASE logs' = logs
    BY <2>3, <2>4
  <2>5. CASE Extended
    <3>1. PICK a \in Appliers, x \in Nat \ {0}, v \in Command :
            ~CheckFails(a[1], x, v) /\ logs' = [logs EXCEPT ![a[1]] = Put(@, x, v)]
      BY <2>5 DEF Extended
    <3> DEFINE k == a[1]
    <3>2. k \in Servers /\ logs \in [Servers -> PartialLogs]
      BY ApplierFacts DEF HarnessTyped
    <3>3. PICK l : l = logs'[k]
      OBVIOUS
    <3>4. l = Put(logs[k], x, v) /\ \A j \in Servers \ {k} : logs'[j] = logs[j]
      BY <3>1, <3>2, <3>3
    <3>5. DOMAIN l = DOMAIN logs[k] \cup {x} /\ l[x] = v /\ \A y \in DOMAIN logs[k] : y # x => l[y] = logs[k][y]
      BY <3>4 DEF Put
    <3>6. \A j \in Servers : x \in DOMAIN logs[j] => logs[j][x] = v
      BY <3>1, <3>2 DEF CheckFails, Conflict
    <3>9. ASSUME NEW j \in Servers, j # k, NEW y \in DOMAIN l \cap DOMAIN logs[j] PROVE l[y] = logs[j][y]
      <4>1. CASE y = x
        BY <3>5, <3>6, <3>9, <4>1
      <4>2. CASE y # x
        BY <2>3, <3>2, <3>5, <3>9, <4>2
      <4> QED
        BY <4>1, <4>2
    <3>10. ASSUME NEW i \in Servers, NEW j \in Servers, NEW y \in DOMAIN logs'[i] \cap DOMAIN logs'[j]
           PROVE  logs'[i][y] = logs'[j][y]
      <4>1. CASE i # k /\ j # k
        BY <2>3, <3>4, <3>10, <4>1
      <4>2. CASE i = k /\ j # k
        <5>1. logs'[i] = l /\ logs'[j] = logs[j]
          BY <3>3, <3>4, <4>2
        <5> HIDE DEF k
        <5> QED
          BY <3>9, <3>10, <4>2, <5>1
      <4>3. CASE i # k /\ j = k
        <5>1. logs'[j] = l /\ logs'[i] = logs[i]
          BY <3>3, <3>4, <4>3
        <5> HIDE DEF k
        <5> QED
          BY <3>9, <3>10, <4>3, <5>1
      <4> QED
        BY <4>1, <4>2, <4>3
    <3> QED
      BY <3>10
  <2> QED
    BY <2>0, <2>4, <2>5
<1> QED
  BY <1>1, <1>2

\* Servers, and sets of them, are finite.
LEMMA ServersFinite == IsFiniteSet(Servers) /\ \A S \in SUBSET Servers : IsFiniteSet(S) /\ Cardinality(S) \in Nat
<1>1. IsFiniteSet(0 .. n - 1)
  BY ConnectivityAssumption, FS_Interval
<1>2. IsFiniteSet(Servers)
  BY <1>1 DEF Servers
<1> QED
  BY <1>2, FS_Subset, FS_CardinalityType

\* While no applier objects, the servers that nCommitted has counted keep the
\* command it counted them for.
LEMMA AgreeingStays ==
  ASSUME HarnessTyped, one' = one, logs' = logs \/ Extended
  PROVE  Agreeing \subseteq Agreeing'
<1>1. CASE logs' = logs
  BY <1>1 DEF Agreeing
<1>2. CASE Extended
  <2>1. PICK a \in Appliers, x \in Nat \ {0}, v \in Command :
          ~CheckFails(a[1], x, v) /\ logs' = [logs EXCEPT ![a[1]] = Put(@, x, v)]
    BY <1>2 DEF Extended
  <2>2. a[1] \in Servers /\ logs \in [Servers -> PartialLogs]
    BY ApplierFacts DEF HarnessTyped
  <2>3. x \in DOMAIN logs[a[1]] => logs[a[1]][x] = v
    BY <2>1, <2>2 DEF CheckFails, Conflict
  <2>4. ASSUME NEW i \in Servers, NEW y \in DOMAIN logs[i] PROVE y \in DOMAIN logs'[i] /\ logs'[i][y] = logs[i][y]
    <3>1. CASE i # a[1]
      BY <2>1, <2>2, <2>4, <3>1
    <3>2. CASE i = a[1]
      <4>1. logs'[i] = Put(logs[i], x, v)
        BY <2>1, <2>2, <3>2
      <4> QED
        BY <2>3, <2>4, <3>2, <4>1 DEF Put
    <3> QED
      BY <3>1, <3>2
  <2> QED
    BY <2>4 DEF Agreeing
<1> QED
  BY <1>1, <1>2

\* nCommitted counts no server twice and none that does not hold the command.
LEMMA CountedStep ==
  ASSUME TestsFine, NetTypeOK, HarnessTyped, HarnessTyped', AppliersFine, Counted, [Next]_vars
  PROVE  Counted'
<1>1. one \in OneRecord /\ one.nd \in Nat /\ one.at \in Nat
  BY DEF HarnessTyped, OneRecord
<1> DEFINE Enough == ~kind.snapshot /\ Running /\ ~Failing /\ one.pc \in {"count", "returned"} /\ one.nd > 0
                       => one.nd <= Cardinality(Agreeing)
           Right == one.pc = "returned" => one.nd > 0 /\ one.nd >= one.expected /\ one.cmd1 = one.cmd
<1>2. Enough /\ Right
  BY DEF Counted
<1>3. ASSUME Enough', Right' PROVE Counted'
  BY <1>3 DEF Counted
<1>4. ASSUME NEW S \in SUBSET Servers, NEW T \in SUBSET Servers, S \subseteq T
      PROVE  Cardinality(S) <= Cardinality(T) /\ Cardinality(S) \in Nat /\ Cardinality(T) \in Nat
  BY <1>4, ServersFinite, FS_Subset
<1>5. Agreeing \in SUBSET Servers /\ Agreeing' \in SUBSET Servers
  BY DEF Agreeing
<1>6. ASSUME ~kind'.snapshot, Running', ~Failing' PROVE ~kind.snapshot /\ Running /\ ~Failing
  BY <1>6, KindStays, FailingStays
<1>7. ASSUME one' = one PROVE Counted'
  <2>1. ASSUME ~kind'.snapshot, Running', ~Failing' PROVE Agreeing \subseteq Agreeing'
    BY <1>6, <1>7, <2>1, FailingStays, AgreeingStays
  <2>2. Enough'
    BY <1>1, <1>2, <1>4, <1>5, <1>6, <1>7, <2>1
  <2> QED
    BY <1>2, <1>3, <1>7, <2>2
<1>8. ASSUME one'.pc = "start" \/ (one'.pc = "count" /\ one'.nd = 0) PROVE Counted'
  BY <1>3, <1>8
<1>9. CASE nCommitted
  <2>1. one.at \in Servers /\ UNCHANGED <<logs, kind>> /\ one.pc = "count"
    BY <1>9, LookFields DEF nCommitted, checkVars, raftVars
  <2>2. CASE /\ one.index \in DOMAIN logs[one.at] /\ (one.nd > 0 => logs[one.at][one.index] = one.cmd1)
             /\ one'.pc = "count" /\ one'.index = one.index /\ one'.at = one.at + 1 /\ one'.nd = one.nd + 1
             /\ one'.cmd1 = logs[one.at][one.index]
    <3>1. PICK s \in Servers : s = one.at
      BY <2>1
    <3>2. s \in Agreeing' /\ s \notin Agreeing
      BY <1>1, <2>1, <2>2, <3>1 DEF Agreeing
    <3>3. one.nd > 0 => Agreeing \cup {s} \subseteq Agreeing'
      BY <1>1, <2>1, <2>2, <3>2 DEF Agreeing, Servers
    <3>4. Cardinality({s}) = 1 /\ {s} \subseteq Agreeing'
      BY <3>2, FS_Singleton
    <3>5. Cardinality(Agreeing \cup {s}) = Cardinality(Agreeing) + 1
      BY <1>5, <3>2, ServersFinite, FS_AddElement
    <3>6. CASE one.nd > 0
      <4>1. Cardinality(Agreeing) + 1 <= Cardinality(Agreeing')
        <5>1. Agreeing \cup {s} \in SUBSET Servers /\ Agreeing \cup {s} \subseteq Agreeing'
          BY <1>5, <3>3, <3>6
        <5> QED
          BY <1>4, <1>5, <3>5, <5>1
      <4>2. Enough'
        BY <1>1, <1>2, <1>4, <1>5, <1>6, <2>1, <2>2, <3>6, <4>1
      <4> QED
        BY <1>3, <2>2, <4>2
    <3>7. CASE one.nd = 0
      <4>1. 1 <= Cardinality(Agreeing')
        BY <1>4, <1>5, <3>4
      <4> QED
        BY <1>3, <2>2, <3>7, <4>1
    <3> QED
      BY <1>1, <3>6, <3>7
  <2>3. CASE /\ one'.pc = "count" /\ one'.index = one.index /\ one'.at = one.at + 1 /\ one'.nd = one.nd
             /\ one'.cmd1 = one.cmd1
    <3>1. Agreeing \subseteq Agreeing'
      BY <1>1, <2>1, <2>3 DEF Agreeing, Servers
    <3>2. Cardinality(Agreeing) <= Cardinality(Agreeing') /\ Cardinality(Agreeing) \in Nat /\ Cardinality(Agreeing') \in Nat
      BY <1>4, <1>5, <3>1
    <3>3. Enough'
      BY <1>1, <1>2, <1>6, <2>1, <2>3, <3>2
    <3> QED
      BY <1>3, <2>3, <3>3
  <2> QED
    BY <1>7, <1>9, <2>2, <2>3, LookFields
<1>10. CASE Decide
  <2>1. UNCHANGED <<logs, kind>> /\ one.pc = "count"
    BY <1>10 DEF Decide, checkVars, raftVars
  <2>2. CASE /\ Committed /\ one'.pc = "returned" /\ one'.cmd = one.cmd /\ one'.expected = one.expected
             /\ one'.index = one.index /\ one'.at = one.at /\ one'.nd = one.nd /\ one'.cmd1 = one.cmd1
    <3>1. Agreeing' = Agreeing
      BY <2>1, <2>2 DEF Agreeing
    <3>2. Enough'
      BY <1>2, <1>6, <2>1, <2>2, <3>1
    <3>3. Right'
      BY <2>2 DEF Committed
    <3> QED
      BY <1>3, <3>2, <3>3
  <2> QED
    BY <1>7, <1>8, <1>10, <2>2, DecideFields
<1>11. ASSUME NEW v \in Values, NEW e \in 1 .. n, One(v, e) PROVE Counted'
  BY <1>8, <1>11, OneFields DEF One, Command
<1>12. ASSUME NEW x \in Indexes, StartAccepted(x) PROVE Counted'
  <2>1. x \in Nat /\ Nil \in Command
    BY RaftHarnessAssumption DEF Indexes, Command
  <2> QED
    BY <1>8, <1>12, <2>1, OneFields DEF StartAccepted
<1>13. ASSUME NEW a \in Appliers, applier(a) \/ applierSnap(a) \/ ApplyError(a) PROVE one' = one
  BY <1>13, ApplierFrame, SnapFrame DEF ApplyError
<1>14. ASSUME NEW i \in Servers, Connect(i) \/ Disconnect(i) \/ Crash(i) \/ Start(i) PROVE one' = one
  BY <1>14 DEF Connect, Disconnect, Crash, Start
<1>15. ASSUME (\E v \in Values : Agree(v)) \/ GiveUp \/ UNCHANGED vars PROVE one' = one
  BY <1>15 DEF Agree, GiveUp, vars
<1> HIDE DEF Enough, Right
<1> QED
  BY <1>7, <1>9, <1>10, <1>11, <1>12, <1>13, <1>14, <1>15 DEF Next, Test

-----------------------------------------------------------------------------
(* The checks                                                              *)

\* make_config.
LEMMA HarnessInitially == Init => HarnessInv
<1> SUFFICES ASSUME Init PROVE HarnessInv
  OBVIOUS
<1>1. NetTypeOK /\ \A a \in Appliers : instance[a[1]] = 1 /\ a[2] \in Nat
  BY NetInitially, ApplierFacts DEF Init, NetInit, NetInv, Instances
<1>2. /\ NoApplier \in ApplierRecord /\ NoApplier.pc = "none" /\ NoApplier.err = FALSE
      /\ NoCall \in OneRecord /\ NoCall.pc = "idle" /\ <<>> \in Seq(Command)
  BY ConnectivityAssumption
     DEF NoApplier, ApplierRecord, NoMessage, Message, Command, NoCall, OneRecord
<1>3. <<>> \in PartialLogs /\ Len(<<>>) = 0 /\ DOMAIN <<>> = {}
  <2>1. PICK s \in Seq(Command) : s = <<>>
    BY <1>2
  <2>2. s \in PartialLogs /\ DOMAIN s = 1 .. Len(s)
    BY SnapshotIsLog
  <2>3. Len(s) = 0
    BY <2>1
  <2> QED
    BY <2>1, <2>2, <2>3
<1>4. HarnessTyped
  <2>1. app \in [Appliers -> ApplierRecord] /\ Checking
    BY <1>2, NewTyped DEF Init, Checking
  <2>2. logs \in [Servers -> PartialLogs] /\ saved \in [Servers -> Seq(Command)]
    BY <1>2, <1>3 DEF Init
  <2> QED
    BY <1>2, <2>1, <2>2 DEF Init, HarnessTyped
<1>5. kind.snapshot \in BOOLEAN
  BY RaftHarnessAssumption DEF Init
<1>6. \A a \in Appliers : app[a].pc \in {"none", IF kind.snapshot THEN "begin" ELSE "recv"} /\ ~app[a].err
  BY <1>2, NewTyped DEF Init
<1>7. AppliersFine
  <2>1. ASSUME NEW a \in Appliers PROVE ApplierFine(a)
    <3>1. ~(a[2] < instance[a[1]])
      BY <1>1, ApplierFacts DEF Instances
    <3>2. a[2] > instance[a[1]] => app[a] = NoApplier
      BY <1>1 DEF Init
    <3> QED
      BY <1>2, <1>5, <1>6, <3>1, <3>2 DEF ApplierFine
  <2> QED
    BY <2>1 DEF AppliersFine, NothingSaved, Init
<1>8. SoundInv
  <2>1. ASSUME NEW i \in Servers PROVE LogRight(i) /\ SavedRight(i) /\ Has(i, 0)
    BY <1>3 DEF Init, LogRight, SavedRight, Has
  <2>2. ASSUME NEW a \in Appliers PROVE ApplierRight(a)
    <3>1. next[a] = 1 /\ lastApplied[a[1]] = 0 /\ Len(chosen) = 0 /\ Has(a[1], 0)
      BY <1>3, <2>1, ApplierFacts DEF Init
    <3>2. InStep(a)
      BY <1>6, <3>1 DEF InStep
    <3> QED
      BY <1>6, <3>1, <3>2 DEF ApplierRight
  <2>3. OneRight
    BY <1>2 DEF Init, OneRight
  <2> QED
    BY <2>1, <2>2, <2>3 DEF SoundInv
<1>9. LogsAgree
  BY <1>3 DEF Init, LogsAgree
<1>10. Counted
  BY <1>2 DEF Init, Counted
<1> QED
  BY <1>1, <1>4, <1>7, <1>8, <1>9, <1>10 DEF HarnessInv

\* What the harness keeps true, in any test.
THEOREM HarnessInvariance ==
  ASSUME TestsFine
  PROVE  Spec => []HarnessInv
<1>1. HarnessInv /\ NetInv /\ [Next]_vars => HarnessInv' /\ NetInv'
  <2> SUFFICES ASSUME HarnessInv, NetInv, [Next]_vars PROVE HarnessInv' /\ NetInv'
    OBVIOUS
  <2>1. NetInv' /\ NetTypeOK'
    BY HarnessStep, NetStep DEF NetInv
  <2>2. HarnessTyped'
    BY TypedStep DEF HarnessInv
  <2>3. AppliersFine'
    BY FineStep DEF HarnessInv
  <2>4. SoundInv'
    BY SoundStep DEF HarnessInv
  <2>5. LogsAgree'
    BY <2>2, <2>4, LogsStep DEF HarnessInv
  <2>6. Counted'
    BY <2>2, CountedStep DEF HarnessInv
  <2> QED
    BY <2>1, <2>2, <2>3, <2>4, <2>5, <2>6 DEF HarnessInv
<1>2. Init => NetInv
  BY NetInitially DEF Init
<1> QED
  BY <1>1, <1>2, HarnessInitially, PTL DEF Spec

\* The harness never blames a sound Raft: no applier finds an apply error and
\* nCommitted finds no mismatch (config.go:144-185, 218-273, 496-519).
THEOREM SoundRaftPasses ==
  ASSUME TestsFine
  PROVE  Spec => []NoFalseAlarm
<1>1. HarnessInv => NoFalseAlarm
  BY DEF HarnessInv, SoundInv, ApplierRight, OneRight, NoFalseAlarm, Failing
<1> QED
  BY <1>1, HarnessInvariance, PTL

\* Logs that no applier has objected to have no gaps, whatever commands and
\* snapshots a Raft delivers.  They agree too, for any Raft in a test without
\* snapshots and for a sound one in a test with them; an unsound Raft's snapshots
\* replace logs without being compared (config.go:144-161, 177, 195-211, 239-246).
THEOREM CheckedLogsAgree ==
  ASSUME TestsFine
  PROVE  Spec => []LogsAgree
<1>1. HarnessInv => LogsAgree
  BY DEF HarnessInv
<1> QED
  BY <1>1, HarnessInvariance, PTL

\* one() returns an index at which its command is held by as many servers as
\* were expected, and stays so (config.go:496-519, 591-600).
THEOREM OneReturnsAgreed ==
  ASSUME TestsFine
  PROVE  Spec => []OneIsAgreed
<1>1. HarnessInv => OneIsAgreed
  <2> SUFFICES ASSUME HarnessInv, one.pc = "returned", Running, ~Failing
               PROVE  /\ ~kind.snapshot => Cardinality(Holders) >= one.expected
                      /\ kind.sound => one.index <= Len(chosen) /\ chosen[one.index] = one.cmd
    BY DEF OneIsAgreed
  <2>1. one.nd \in Nat /\ one.expected \in Nat /\ Len(chosen) \in Nat
    BY DEF HarnessInv, HarnessTyped, OneRecord
  <2>2. one.nd > 0 /\ one.nd >= one.expected /\ one.cmd1 = one.cmd
    BY DEF HarnessInv, Counted
  <2>3. ASSUME ~kind.snapshot PROVE Cardinality(Holders) >= one.expected
    <3>1. one.nd <= Cardinality(Agreeing)
      BY <2>2, <2>3 DEF HarnessInv, Counted
    <3>2. Agreeing \subseteq Holders /\ Agreeing \in SUBSET Servers /\ Holders \in SUBSET Servers
      BY <2>2 DEF Agreeing, Holders
    <3>3. /\ Cardinality(Agreeing) <= Cardinality(Holders)
          /\ Cardinality(Agreeing) \in Nat /\ Cardinality(Holders) \in Nat
      BY <3>2, ServersFinite, FS_Subset
    <3> QED
      BY <2>1, <2>2, <3>1, <3>3
  <2>4. ASSUME kind.sound PROVE one.index <= Len(chosen) /\ chosen[one.index] = one.cmd
    BY <2>1, <2>2, <2>4 DEF HarnessInv, SoundInv, OneRight
  <2> QED
    BY <2>3, <2>4
<1> QED
  BY <1>1, HarnessInvariance, PTL

\* Every snapshot that a sound Raft was given is what was agreed on up to its
\* index (config.go:251-263).
THEOREM SnapshotsAreComplete ==
  ASSUME TestsFine
  PROVE  Spec => []SnapshotsComplete
<1>1. HarnessInv => SnapshotsComplete
  <2> SUFFICES ASSUME HarnessInv, kind.sound, NEW i \in Servers
               PROVE  saved[i] = SubSeq(chosen, 1, Len(saved[i]))
    BY DEF SnapshotsComplete
  <2>1. saved[i] \in Seq(Command) /\ chosen \in Seq(Command) /\ Len(chosen) \in Nat
    <3>1. saved[i] \in Seq(Command) /\ chosen \in Seq(Values)
      BY DEF HarnessInv, HarnessTyped
    <3> QED
      BY <3>1 DEF Command
  <2>2. Len(saved[i]) <= Len(chosen) /\ \A x \in 1 .. Len(saved[i]) : saved[i][x] = chosen[x]
    BY DEF HarnessInv, SoundInv, SavedRight
  <2> DEFINE s == saved[i]
             t == SubSeq(chosen, 1, Len(s))
  <2>3. s \in Seq(Command) /\ Len(s) \in Nat /\ Len(s) <= Len(chosen)
    BY <2>1, <2>2
  <2>4. t \in Seq(Command) /\ Len(t) = Len(s) /\ \A x \in 1 .. Len(s) : t[x] = chosen[x]
    BY <2>1, <2>3
  <2>5. \A x \in 1 .. Len(s) : t[x] = s[x]
    BY <2>2, <2>4
  <2> HIDE DEF s, t
  <2>6. s = t
    BY <2>3, <2>4, <2>5
  <2> QED
    BY <2>6 DEF s, t
<1> QED
  BY <1>1, HarnessInvariance, PTL
====
