----------------------------- MODULE MCShardCtrler -----------------------------
(* Instances of ShardCtrler for TLC: two servers, one or two clerks.       *)
EXTENDS ShardCtrlerRefines, TLC

CONSTANTS s1, s2, c1, c2

TwoServers == {s1, s2}

\* Clerk c1 tries s1 first, clerk c2 tries s2 first.
Order == (c1 :> <<s1, s2>>) @@ (c2 :> <<s2, s1>>)
HandlesOfClerks == [c \in Clerks |-> Order[c]]

\* The clock advances between two readings.
Advancing == {1}

MoveThenQuery  == (c1 :> <<"Move", "Query">>)
JoinLeaveQuery == (c1 :> <<"Join", "Leave", "Query">>)
MoveBesideQuery == (c1 :> <<"Move">>) @@ (c2 :> <<"Query">>)
OneJoin  == (c1 :> <<"Join">>)
OneQuery == (c1 :> <<"Query">>)
====
