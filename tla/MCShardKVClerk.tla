---------------------------- MODULE MCShardKVClerk ----------------------------
(* Instances of ShardKVClerk for TLC.                                      *)
EXTENDS ShardKVClerk, TLC

CONSTANTS c1, c2

\* A key of shard 7.
A == <<97>>

\* Group 1 has two servers, group 2 has one.
ServersOf(g) == IF g = 1 THEN <<<<1, 1>>, <<1, 2>>>> ELSE <<<<2, 1>>>>

\* No groups; group 1 joins; group 2 joins and gets shard 7; shard 7 goes back.
Joined(gids, seven) ==
  [Shards |-> [sh \in 0..9 |-> IF sh = 7 THEN seven ELSE 1],
   Groups |-> [g \in gids |-> ServersOf(g)]]

ThereAndBack ==
  [n \in 0..3 |->
     CASE n = 0 -> [Shards |-> [sh \in 0..9 |-> 0], Groups |-> <<>>]
       [] n = 1 -> Joined({1}, 1)
       [] n = 2 -> Joined({1, 2}, 2)
       [] n = 3 -> Joined({1, 2}, 1)]

\* One clerk updates a key twice while another reads it.
WriterAndReader ==
  (c1 :> <<[op |-> "Put", key |-> A], [op |-> "Append", key |-> A]>>) @@
  (c2 :> <<[op |-> "Get", key |-> A]>>)

OneKey == {A}
====
