------------------------------ MODULE Connectivity ------------------------------
(***************************************************************************)
(* How the Raft test harness (src/raft/config.go) attaches servers to the  *)
(* simulated network and detaches them.  Every start of server i makes a   *)
(* fresh set of ClientEnd names, one for each server; connect and          *)
(* disconnect enable and disable names of the sets in cfg.endnames, which  *)
(* are the newest ones.  The ends of an older instance exist as long as    *)
(* the network does, and so does the instance: it cannot really be killed. *)
(***************************************************************************)
EXTENDS Integers

CONSTANTS
  n,             \* cfg.n, the number of servers
  MaxInstances   \* bound: instances of each server

ASSUME ConnectivityAssumption == n \in Nat /\ MaxInstances \in Nat \ {0}

Servers   == 0 .. (n - 1)
Instances == 1 .. MaxInstances

\* End <<i, k, j>> belongs to instance k of server i and leads to server j.
Ends == Servers \X Instances \X Servers

VARIABLES
  instance,      \* the newest instance of each server: cfg.endnames[i] is its set
  connected,     \* cfg.connected: the servers that are on the net
  enabled,       \* Network.enabled
  rafts          \* the servers with cfg.rafts[i] # nil

netVars == <<instance, connected, enabled, rafts>>

Outgoing(i, to)   == {<<i, instance[i], j>> : j \in to}
Incoming(i, from) == {<<j, instance[j], i>> : j \in from}

connectAll(i) ==
  /\ connected' = connected \cup {i}
  /\ enabled' = enabled \cup Outgoing(i, Servers) \cup Incoming(i, Servers)
  /\ UNCHANGED <<instance, rafts>>

\* attach server i to the net.
connect(i) ==
  /\ connected' = connected \cup {i}
  /\ enabled' = enabled \cup Outgoing(i, connected') \cup Incoming(i, connected')
  /\ UNCHANGED <<instance, rafts>>

\* What detaching server i leaves enabled.
Detached(i) == enabled \ (Outgoing(i, Servers) \cup Incoming(i, Servers))

\* detach server i from the net.
disconnect(i) ==
  /\ connected' = connected \ {i}
  /\ enabled' = Detached(i)
  /\ UNCHANGED <<instance, rafts>>

\* shut down a Raft server but save its persistent state.
crash1(i) ==
  /\ connected' = connected \ {i}
  /\ enabled' = Detached(i)
  /\ rafts' = rafts \ {i}
  /\ UNCHANGED instance

startOver(i) ==
  /\ instance[i] < MaxInstances
  /\ instance' = [instance EXCEPT ![i] = @ + 1]
  /\ connected' = connected \ {i}
  /\ rafts' = rafts \cup {i}
  /\ UNCHANGED enabled

\* start or re-start a Raft: crash1(i), then fresh ends, which are disabled.
start1(i) ==
  /\ instance[i] < MaxInstances
  /\ instance' = [instance EXCEPT ![i] = @ + 1]
  /\ connected' = connected \ {i}
  /\ enabled' = Detached(i)
  /\ rafts' = rafts \cup {i}

\* make_config has started every server and connected everyone.
NetInit ==
  /\ instance = [i \in Servers |-> 1]
  /\ connected = Servers
  /\ enabled = Servers \X {1} \X Servers
  /\ rafts = Servers

NetNext == \E i \in Servers : connect(i) \/ disconnect(i) \/ crash1(i) \/ start1(i)

NetSpec == NetInit /\ [][NetNext]_netVars

NetTypeOK ==
  /\ instance \in [Servers -> Instances]
  /\ connected \subseteq Servers
  /\ enabled \subseteq Ends
  /\ rafts \subseteq Servers

\* Whatever the test does, two servers can talk, in both directions, exactly
\* when both are on the net (config.go:364-407).
EndsMatchConnected ==
  \A i, j \in Servers :
    <<i, instance[i], j>> \in enabled <=> i \in connected /\ j \in connected

\* "so that old crashed instance's ClientEnds can't send" (config.go:283-284):
\* no end of a superseded instance is enabled, now or ever again.
OldEndsSilent == \A e \in enabled : e[2] = instance[e[1]]
====
