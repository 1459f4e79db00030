----------------------------- MODULE ConfigService ------------------------------
(***************************************************************************)
(* What the shard controller (src/shardctrler) promises its clerks, with   *)
(* replicas, Raft, retries and lost messages left out: one sequence of     *)
(* operations that took effect.  An operation takes effect between the     *)
(* beginning and the end of the clerk's method, and has taken effect when  *)
(* the method ends.  Move and Query take effect once; Join and Leave, which*)
(* a retry stamps anew, at least once.                                     *)
(***************************************************************************)
EXTENDS Integers, Sequences, FiniteSets

CONSTANTS
  Clerks,        \* the clients
  Script,        \* Script[c]: the commands clerk c issues, one after the other
  NoReply,       \* an answer without a configuration
  Unanswered     \* no answer yet

VARIABLES
  history,       \* the operations that took effect: [client, seq, cmd]
  seq,           \* the operation each clerk is in
  answer         \* the answer that waits for the clerk: a configuration number

serviceVars == <<history, seq, answer>>

Operation(c) == [client |-> c, seq |-> seq[c], cmd |-> Script[c][seq[c]]]

TookEffect(o) == \E i \in DOMAIN history : history[i] = o

\* The newest configuration when the operation at position i took effect.
NumAt(i) == Cardinality({j \in 1 .. (i - 1) : history[j].cmd # "Query"})

Active(c) == seq[c] <= Len(Script[c])

Effect(c) ==
  /\ Active(c)
  /\ UNCHANGED <<seq, answer>>
  /\ history' = Append(history, Operation(c))
  /\ Operation(c).cmd \in {"Move", "Query"} => ~TookEffect(Operation(c))

\* A Query is answered with the configuration it found, or with none: the
\* answer to a retry is empty (server.go:149-168).
Answers(c) ==
  IF Operation(c).cmd = "Query"
    THEN {NumAt(i) : i \in {j \in DOMAIN history : history[j] = Operation(c)}} \cup {NoReply}
    ELSE {NoReply}

Answer(c) ==
  /\ Active(c) /\ TookEffect(Operation(c))
  /\ answer[c] = Unanswered
  /\ \E r \in Answers(c) : answer' = [answer EXCEPT ![c] = r]
  /\ UNCHANGED <<history, seq>>

\* Answers are lost, several at once when a server is restarted; the clerks
\* ask again.
Lose(cs) ==
  /\ answer' = [c \in Clerks |-> IF c \in cs THEN Unanswered ELSE answer[c]]
  /\ UNCHANGED <<seq, history>>

\* The clerk's method returns.
Finish(c) ==
  /\ answer[c] # Unanswered
  /\ seq' = [seq EXCEPT ![c] = @ + 1]
  /\ answer' = [answer EXCEPT ![c] = Unanswered]
  /\ UNCHANGED history

ServiceInit ==
  /\ history = <<>>
  /\ seq = [c \in Clerks |-> 1]
  /\ answer = [c \in Clerks |-> Unanswered]

ServiceNext ==
  \/ \E cs \in SUBSET Clerks : Lose(cs)
  \/ \E c \in Clerks : Effect(c) \/ Finish(c) \/ Answer(c)

ServiceSpec == ServiceInit /\ [][ServiceNext]_serviceVars
====
