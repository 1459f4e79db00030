------------------------ MODULE ShardCtrlerReplayProofs -------------------------
(***************************************************************************)
(* What a log calls for (Effective), and that the replicas of the shard    *)
(* controller do just that, for any number of servers and clerks, any      *)
(* scripts and any value of the bounds.  Then the facts about what has     *)
(* taken effect, and about single steps, on which the proof that the       *)
(* controller implements ConfigService rests (ShardCtrlerServiceProofs).   *)
(***************************************************************************)
EXTENDS ShardCtrlerRefines, ShardCtrlerProofs

\* Zenon is quicker on most steps; what needs arithmetic is left to the solver.
USE ZenonT(10), SMTT(20)

-----------------------------------------------------------------------------
(* What a log calls for                                                    *)

\* The members of a finite set of numbers are its first, its second, ...
LEMMA Ranked ==
  ASSUME NEW n \in Nat, NEW E \in SUBSET (1 .. n)
  PROVE  /\ IsFiniteSet(E) /\ Cardinality(E) \in Nat
         /\ \A i \in Nat : Cardinality({j \in E : j <= i}) \in 0 .. Cardinality(E)
         /\ \A i \in E : Cardinality({j \in E : j <= i}) \in 1 .. Cardinality(E)
         /\ \A i, k \in E : i < k =>
              Cardinality({j \in E : j <= i}) < Cardinality({j \in E : j <= k})
         /\ \A k \in 1 .. Cardinality(E) : \E i \in E : Cardinality({j \in E : j <= i}) = k
<1> DEFINE Upto(i) == {j \in E : j <= i}
           R(i) == Cardinality(Upto(i))
<1>0. \A i \in E : i \in Nat
  OBVIOUS
<1>1. IsFiniteSet(E) /\ Cardinality(E) \in Nat
  <2>1. IsFiniteSet(1 .. n)
    BY FS_Interval
  <2>2. IsFiniteSet(E)
    BY <2>1, FS_Subset
  <2> QED
    BY <2>2, FS_CardinalityType
<1>2. ASSUME NEW i \in Nat PROVE IsFiniteSet(Upto(i)) /\ R(i) \in 0 .. Cardinality(E)
  <2>1. Upto(i) \in SUBSET E
    OBVIOUS
  <2>2. IsFiniteSet(Upto(i)) /\ R(i) <= Cardinality(E)
    BY <1>1, <2>1, FS_Subset
  <2>3. R(i) \in Nat
    BY <2>2, FS_CardinalityType
  <2> QED
    BY <1>1, <2>2, <2>3
<1>3. ASSUME NEW i \in E, NEW k \in E, i < k PROVE R(i) < R(k)
  <2>0. i \in Nat /\ k \in Nat
    BY <1>0
  <2>1. Upto(i) \in SUBSET Upto(k) /\ k \in Upto(k) /\ k \notin Upto(i)
    <3>1. \A j \in E : j <= i => j <= k
      BY <1>0, <1>3, <2>0
    <3>2. k <= k /\ ~(k <= i)
      BY <1>3, <2>0
    <3> QED
      BY <3>1, <3>2
  <2>2. IsFiniteSet(Upto(k)) /\ R(i) \in Nat /\ R(k) \in Nat
    BY <1>2, <2>0
  <2> HIDE DEF Upto
  <2>3. R(i) <= R(k) /\ (R(k) = R(i) => Upto(k) = Upto(i))
    BY <2>1, <2>2, FS_Subset
  <2> QED
    BY <2>1, <2>2, <2>3
<1>4. ASSUME NEW i \in E PROVE R(i) \in 1 .. Cardinality(E)
  <2>1. i \in Nat /\ i \in Upto(i)
    OBVIOUS
  <2>2. IsFiniteSet(Upto(i)) /\ R(i) \in 0 .. Cardinality(E)
    BY <1>2, <2>1
  <2> HIDE DEF Upto
  <2>3. R(i) # 0
    BY <2>1, <2>2, FS_EmptySet
  <2> QED
    BY <1>1, <2>2, <2>3
<1>5. \A k \in 1 .. Cardinality(E) : \E i \in E : R(i) = k
  <2> DEFINE f == [i \in E |-> R(i)]
             T == 1 .. Cardinality(E)
  <2> HIDE DEF R
  <2>1. f \in [E -> T]
    BY <1>4
  <2>2. ASSUME NEW i \in E, NEW k \in E, f[i] = f[k] PROVE i = k
    <3>1. i \in Nat /\ k \in Nat /\ R(i) = R(k)
      BY <1>0, <2>2
    <3>2. R(i) \in Nat /\ R(k) \in Nat
      BY <1>2, <3>1 DEF R
    <3> QED
      BY <1>3, <3>1, <3>2
  <2>3. f \in Injection(E, T)
    BY <2>1, <2>2 DEF Injection, IsInjective
  <2>4. IsFiniteSet(T) /\ Cardinality(T) = Cardinality(E)
    BY <1>1, FS_Interval
  <2> HIDE DEF T, f
  <2>5. f \in Surjection(E, T)
    BY <2>3, <2>4, FS_Injection
  <2> QED
    BY <2>5 DEF Surjection, T, f
<1> QED
  BY <1>1, <1>2, <1>3, <1>4, <1>5

\* Effective lists the entries that take effect, in the order of the log.
LEMMA EffectiveAt ==
  ASSUME NEW log \in Seq(Entry)
  PROVE  /\ Effective(log) \in Seq(Op) /\ Len(Effective(log)) = Cardinality(Effects(log))
         /\ \A i \in Effects(log) : /\ Rank(Effects(log), i) \in DOMAIN Effective(log)
                                    /\ Effective(log)[Rank(Effects(log), i)] = log[i].op
         /\ \A k \in DOMAIN Effective(log) : \E i \in Effects(log) :
              Rank(Effects(log), i) = k /\ Effective(log)[k] = log[i].op
         /\ \A i, j \in Effects(log) : i < j => Rank(Effects(log), i) < Rank(Effects(log), j)
<1> DEFINE E == Effects(log)
           n == Len(log)
           N == Cardinality(E)
<1>1. n \in Nat /\ DOMAIN log = 1 .. n /\ E \in SUBSET (1 .. n) /\ \A i \in E : i \in Nat
  BY DEF Effects
<1>2. /\ N \in Nat
      /\ \A i \in E : Rank(Effects(log), i) \in 1 .. N
      /\ \A i, j \in E : i < j => Rank(Effects(log), i) < Rank(Effects(log), j)
      /\ \A k \in 1 .. N : \E i \in E : Rank(Effects(log), i) = k
  BY <1>1, Ranked DEF Rank
<1>3. \A i \in E : log[i].op \in Op
  <2>1. \A i \in E : log[i] \in Entry /\ log[i].op # NoOp
    BY DEF Effects, TakesEffect
  <2> QED
    BY <2>1 DEF Entry
<1>4. Effective(log) = [k \in 1 .. N |-> log[CHOOSE i \in E : Rank(Effects(log), i) = k].op]
  BY DEF Effective
<1> HIDE DEF E, N, n
<1>5. ASSUME NEW k \in 1 .. N, NEW i \in E, Rank(Effects(log), i) = k
      PROVE  Effective(log)[k] = log[i].op
  <2> DEFINE x == CHOOSE y \in E : Rank(Effects(log), y) = k
  <2>1. x \in E /\ Rank(Effects(log), x) = k
    BY <1>5
  <2> HIDE DEF x
  <2>2. x \in Nat /\ i \in Nat /\ k \in Nat
    BY <1>1, <1>2, <2>1
  <2>3. x = i
    BY <1>2, <1>5, <2>1, <2>2
  <2> QED
    BY <1>4, <2>3 DEF x
<1>6. DOMAIN Effective(log) = 1 .. N
  BY <1>4
<1>7. \A k \in 1 .. N : Effective(log)[k] \in Op
  BY <1>2, <1>3, <1>5
<1>8. Effective(log) \in Seq(Op) /\ Len(Effective(log)) = N
  <2>1. Effective(log) \in [1 .. N -> Op]
    BY <1>4, <1>6, <1>7
  <2> QED
    BY <1>2, <2>1
<1> QED
  BY <1>2, <1>5, <1>6, <1>8 DEF E, N

\* Whether an entry takes effect depends on nothing behind it.
LEMMA EffectsPrefix ==
  ASSUME NEW p \in Seq(Entry), NEW q \in Seq(Entry), Continues(q, p)
  PROVE  /\ \A i \in DOMAIN p : i \in DOMAIN q /\ q[i] = p[i] /\ (i \in Effects(q) <=> i \in Effects(p))
         /\ \A i \in DOMAIN p : Rank(Effects(q), i) = Rank(Effects(p), i)
<1>1. /\ Len(p) \in Nat /\ Len(q) \in Nat /\ Len(p) <= Len(q)
      /\ DOMAIN p = 1 .. Len(p) /\ DOMAIN q = 1 .. Len(q)
      /\ \A i \in DOMAIN p : q[i] = p[i]
  BY DEF Continues
<1>2. ASSUME NEW i \in DOMAIN p PROVE i \in DOMAIN q /\ (TakesEffect(q, i) <=> TakesEffect(p, i))
  <2>1. i \in DOMAIN q /\ q[i] = p[i] /\ \A j \in 1 .. (i - 1) : j \in DOMAIN p /\ q[j] = p[j]
    BY <1>1
  <2> QED
    BY <2>1 DEF TakesEffect
<1>3. ASSUME NEW i \in DOMAIN p PROVE Rank(Effects(q), i) = Rank(Effects(p), i)
  <2>1. ASSUME NEW j, j \in Effects(p) \/ j \in Effects(q), j <= i
        PROVE  j \in Effects(q) <=> j \in Effects(p)
    <3>1. j \in DOMAIN p
      BY <1>1, <2>1 DEF Effects
    <3> QED
      BY <1>2, <3>1 DEF Effects
  <2>2. {j \in Effects(q) : j <= i} = {j \in Effects(p) : j <= i}
    BY <2>1
  <2> QED
    BY <2>2 DEF Rank
<1> QED
  BY <1>1, <1>2, <1>3 DEF Effects

\* A longer log calls for what the shorter one called for, and then more.
LEMMA EffectivePrefix ==
  ASSUME NEW p \in Seq(Entry), NEW q \in Seq(Entry), Continues(q, p)
  PROVE  Continues(Effective(q), Effective(p))
<1>1. /\ Effective(p) \in Seq(Op) /\ Effective(q) \in Seq(Op)
      /\ Len(Effective(p)) = Cardinality(Effects(p)) /\ Len(Effective(q)) = Cardinality(Effects(q))
  BY EffectiveAt
<1>2. ASSUME NEW k \in DOMAIN Effective(p)
      PROVE  k \in DOMAIN Effective(q) /\ Effective(q)[k] = Effective(p)[k]
  <2>1. PICK i \in Effects(p) : Rank(Effects(p), i) = k /\ Effective(p)[k] = p[i].op
    BY EffectiveAt
  <2>2. i \in DOMAIN p
    BY DEF Effects
  <2>3. i \in Effects(q) /\ Rank(Effects(q), i) = k /\ q[i] = p[i]
    BY <2>1, <2>2, EffectsPrefix
  <2>4. Rank(Effects(q), i) \in DOMAIN Effective(q) /\ Effective(q)[Rank(Effects(q), i)] = q[i].op
    BY <2>3, EffectiveAt
  <2> QED
    BY <2>1, <2>3, <2>4
<1>3. Len(Effective(p)) <= Len(Effective(q))
  <2>1. /\ Len(Effective(p)) \in Nat /\ Len(Effective(q)) \in Nat
        /\ DOMAIN Effective(p) = 1 .. Len(Effective(p))
        /\ DOMAIN Effective(q) = 1 .. Len(Effective(q))
    BY <1>1
  <2> QED
    BY <1>2, <2>1
<1> QED
  BY <1>2, <1>3 DEF Continues

\* One entry more is one Op more if it takes effect, and none if it does not.
LEMMA EffectiveAppend ==
  ASSUME NEW log \in Seq(Entry), NEW e \in Entry
  PROVE  LET q == Append(log, e) IN
         /\ TakesEffect(q, Len(log) + 1) => Effective(q) = Append(Effective(log), e.op)
         /\ ~TakesEffect(q, Len(log) + 1) => Effective(q) = Effective(log)
<1> DEFINE q == Append(log, e)
           n == Len(log)
<1>1. /\ q \in Seq(Entry) /\ n \in Nat /\ Len(q) = n + 1
      /\ DOMAIN log = 1 .. n /\ DOMAIN q = 1 .. (n + 1) /\ q[n + 1] = e
      /\ \A i \in 1 .. n : q[i] = log[i]
  OBVIOUS
<1> HIDE DEF q, n
<1>2. Continues(q, log)
  BY <1>1 DEF Continues, n
<1>3. /\ Effective(log) \in Seq(Op) /\ Effective(q) \in Seq(Op)
      /\ Len(Effective(log)) = Cardinality(Effects(log))
      /\ Len(Effective(q)) = Cardinality(Effects(q))
      /\ Continues(Effective(q), Effective(log))
  BY <1>1, <1>2, EffectiveAt, EffectivePrefix
<1>4. IsFiniteSet(Effects(log)) /\ Effects(log) \in SUBSET (1 .. n) /\ n + 1 \notin Effects(log)
  <2>1. Effects(log) \in SUBSET (1 .. n)
    BY <1>1 DEF Effects
  <2>2. IsFiniteSet(Effects(log))
    BY <1>1, <2>1, Ranked
  <2> QED
    BY <1>1, <2>1, <2>2
<1>5. \A i \in 1 .. n : i \in Effects(q) <=> i \in Effects(log)
  BY <1>1, <1>2, EffectsPrefix
<1>6. CASE TakesEffect(q, n + 1)
  <2>1. Effects(q) = Effects(log) \cup {n + 1}
    <3>1. Effects(q) \subseteq 1 .. (n + 1) /\ n + 1 \in Effects(q)
      BY <1>1, <1>6 DEF Effects
    <3> QED
      BY <1>1, <1>4, <1>5, <3>1
  <2>2. Cardinality(Effects(q)) = Cardinality(Effects(log)) + 1
    BY <1>4, <2>1, FS_AddElement
  <2>3. n + 1 \in Effects(q) /\ Rank(Effects(q), n + 1) = Cardinality(Effects(q))
    <3>1. {j \in Effects(q) : j <= n + 1} = Effects(q)
      BY <1>1 DEF Effects
    <3> QED
      BY <2>1, <3>1 DEF Rank
  <2>4. Effective(q)[Len(Effective(log)) + 1] = e.op
    BY <1>1, <1>3, <2>2, <2>3, EffectiveAt
  <2>5. e.op \in Op
    <3>1. Len(Effective(log)) + 1 \in DOMAIN Effective(q)
      BY <1>3, <2>2
    <3> QED
      BY <1>3, <2>4, <3>1
  <2> DEFINE a == Effective(log)
             b == Effective(q)
             x == e.op
  <2>6. /\ a \in Seq(Op) /\ b \in Seq(Op) /\ x \in Op /\ Len(b) = Len(a) + 1
        /\ b[Len(a) + 1] = x /\ \A k \in 1 .. Len(a) : b[k] = a[k]
    BY <1>3, <2>2, <2>4, <2>5 DEF Continues
  <2> HIDE DEF a, b, x
  <2>7. b = Append(a, x)
    BY <2>6
  <2> QED
    BY <1>6, <2>7 DEF a, b, x, q, n
<1>7. CASE ~TakesEffect(q, n + 1)
  <2>1. Effects(q) = Effects(log)
    <3>1. Effects(q) \subseteq 1 .. (n + 1) /\ n + 1 \notin Effects(q)
      BY <1>1, <1>7 DEF Effects
    <3> QED
      BY <1>1, <1>4, <1>5, <3>1
  <2> DEFINE a == Effective(log)
             b == Effective(q)
  <2>2. /\ a \in Seq(Op) /\ b \in Seq(Op) /\ Len(b) = Len(a) /\ \A k \in 1 .. Len(a) : b[k] = a[k]
    BY <1>3, <2>1 DEF Continues
  <2> HIDE DEF a, b
  <2>3. a = b
    BY <2>2
  <2> QED
    BY <1>7, <2>3 DEF a, b, q, n
<1> QED
  BY <1>6, <1>7 DEF q, n

-----------------------------------------------------------------------------
(* Replicas do what their part of the log calls for                        *)

\* Entry j of the committed log is an Op of clerk c.
From(j, c) == committed[j].op # NoOp /\ committed[j].op.client = c

\* The cache of a server is the greatest stamp of each client in what it has
\* applied.
CacheExact ==
  \A s \in Servers, c \in Clerks :
    /\ \A j \in 1 .. lastApplied[s] : From(j, c) => committed[j].op.ts <= cache[s][c]
    /\ cache[s][c] # 0 =>
         \E j \in 1 .. lastApplied[s] : From(j, c) /\ committed[j].op.ts = cache[s][c]

AppliedIsCommitted == \A s \in Servers : lastApplied[s] <= Len(committed)

ReplayInv == AppliedIsCommitted /\ CacheExact /\ HandledIsEffective

\* The first n entries of a log.
LEMMA Prefix ==
  ASSUME NEW log \in Seq(Entry), NEW n \in Nat, n <= Len(log)
  PROVE  LET p == SubSeq(log, 1, n) IN
         p \in Seq(Entry) /\ Len(p) = n /\ Continues(log, p) /\ \A i \in 1 .. n : p[i] = log[i]
<1> DEFINE p == SubSeq(log, 1, n)
<1>1. p \in Seq(Entry) /\ Len(p) = n /\ \A i \in 1 .. n : p[i] = log[i]
  OBVIOUS
<1> HIDE DEF p
<1>2. Continues(log, p)
  BY <1>1 DEF Continues
<1> QED
  BY <1>1, <1>2 DEF p

\* A server that has applied nothing has handled nothing.
LEMMA NothingEffective ==
  ASSUME NEW log \in Seq(Entry)
  PROVE  Effective(SubSeq(log, 1, 0)) = <<>>
<1> DEFINE p == SubSeq(log, 1, 0)
<1>1. p \in Seq(Entry) /\ Len(p) = 0
  BY Prefix
<1> HIDE DEF p
<1>2. Effects(p) = {}
  BY <1>1 DEF Effects
<1>3. Effective(p) \in Seq(Op) /\ Len(Effective(p)) = 0
  BY <1>1, <1>2, EffectiveAt, FS_EmptySet
<1>4. Effective(p) = <<>>
  BY <1>3
<1> QED
  BY <1>4 DEF p

\* The first n + 1 entries are the first n and one more.
LEMMA PrefixGrows ==
  ASSUME NEW log \in Seq(Entry), NEW n \in Nat, n < Len(log)
  PROVE  SubSeq(log, 1, n + 1) = Append(SubSeq(log, 1, n), log[n + 1])
<1> DEFINE p == SubSeq(log, 1, n)
           q == SubSeq(log, 1, n + 1)
           e == log[n + 1]
<1>1. e \in Entry
  OBVIOUS
<1>2. p \in Seq(Entry) /\ Len(p) = n /\ \A i \in 1 .. n : p[i] = log[i]
  BY Prefix
<1>3. q \in Seq(Entry) /\ Len(q) = n + 1 /\ \A i \in 1 .. (n + 1) : q[i] = log[i]
  BY Prefix
<1> HIDE DEF p, q
<1>4. /\ \A i \in 1 .. n : q[i] = p[i]
      /\ q[n + 1] = e
  BY <1>2, <1>3
<1> HIDE DEF e
<1>5. q = Append(p, e)
  BY <1>1, <1>2, <1>3, <1>4
<1> QED
  BY <1>5 DEF p, q, e

\* What is true of the entries a log begins with is true of a longer log.
LEMMA PrefixKept ==
  ASSUME IndInv, Grows, committed' \in Seq(Entry), NEW n \in Nat, n <= Len(committed)
  PROVE  n <= Len(committed') /\ SubSeq(committed', 1, n) = SubSeq(committed, 1, n)
<1>1. committed \in Seq(Entry) /\ Len(committed) \in Nat /\ DOMAIN committed = 1 .. Len(committed)
  BY DEF IndInv, TypeOK
<1>2. Len(committed') \in Nat /\ DOMAIN committed' = 1 .. Len(committed')
  OBVIOUS
<1>3. Len(committed) <= Len(committed')
  BY <1>1, <1>2 DEF Grows
<1>4. \A i \in 1 .. n : committed'[i] = committed[i]
  BY <1>1 DEF Grows
<1>5. n <= Len(committed')
  BY <1>1, <1>2, <1>3
<1> DEFINE p == SubSeq(committed, 1, n)
           q == SubSeq(committed', 1, n)
<1>6. p \in Seq(Entry) /\ Len(p) = n /\ \A i \in 1 .. n : p[i] = committed[i]
  BY <1>1, Prefix
<1>7. q \in Seq(Entry) /\ Len(q) = n /\ \A i \in 1 .. n : q[i] = committed'[i]
  BY <1>5, Prefix
<1> HIDE DEF p, q
<1>8. p = q
  BY <1>4, <1>6, <1>7
<1> QED
  BY <1>5, <1>8 DEF p, q

\* The cache tells the applier whether the entry it comes to takes effect: the
\* time stamp test is right (server.go:149).
LEMMA FilterIsEffect ==
  ASSUME IndInv, CacheExact, NEW s \in Servers, lastApplied[s] + 1 \in DOMAIN committed,
         committed[lastApplied[s] + 1].op # NoOp
  PROVE  IsNew(s, committed[lastApplied[s] + 1].op) <=> TakesEffect(committed, lastApplied[s] + 1)
<1> DEFINE n == lastApplied[s]
           o == committed[n + 1].op
           c == o.client
<1>1. /\ committed \in Seq(Entry) /\ n \in Nat /\ n + 1 \in 1 .. Len(committed)
      /\ \A j \in 1 .. (n + 1) : committed[j] \in Entry
      /\ cache[s] \in [Clerks -> Nat]
  BY DEF IndInv, TypeOK
<1>2. \A j \in 1 .. (n + 1) : committed[j].op # NoOp =>
        committed[j].op \in Op /\ committed[j].op.ts \in Nat \ {0} /\ committed[j].op.client \in Clerks
  BY <1>1 DEF Entry, Op, Stamps
<1>3. o \in Op /\ o.ts \in Nat \ {0} /\ c \in Clerks /\ cache[s][c] \in Nat
  BY <1>1, <1>2
<1>4. /\ \A j \in 1 .. n : From(j, c) => committed[j].op.ts <= cache[s][c]
      /\ cache[s][c] # 0 => \E j \in 1 .. n : From(j, c) /\ committed[j].op.ts = cache[s][c]
  BY <1>3 DEF CacheExact
<1>5. TakesEffect(committed, n + 1) <=> \A j \in 1 .. n : From(j, c) => committed[j].op.ts < o.ts
  <2>1. 1 .. ((n + 1) - 1) = 1 .. n
    BY <1>1
  <2> QED
    BY <2>1 DEF TakesEffect, From
<1>6. IsNew(s, o) <=> (cache[s][c] = 0 \/ o.ts > cache[s][c])
  BY DEF IsNew
<1>7. \A j \in 1 .. n : From(j, c) => committed[j].op.ts \in Nat \ {0}
  BY <1>1, <1>2 DEF From
<1> HIDE DEF n, o, c
<1>8. ASSUME IsNew(s, o), NEW j \in 1 .. n, From(j, c) PROVE committed[j].op.ts < o.ts
  BY <1>3, <1>4, <1>6, <1>7, <1>8
<1>9. ASSUME \A j \in 1 .. n : From(j, c) => committed[j].op.ts < o.ts PROVE IsNew(s, o)
  BY <1>3, <1>4, <1>6, <1>9
<1>10. IsNew(s, o) <=> TakesEffect(committed, n + 1)
  BY <1>5, <1>8, <1>9
<1> QED
  BY <1>10 DEF n, o

\* A step that leaves the servers alone, while the log may grow.
LEMMA ReplayKept ==
  ASSUME IndInv, ReplayInv, Grows, committed' \in Seq(Entry), UNCHANGED <<lastApplied, cache, handled>>
  PROVE  ReplayInv'
<1>1. ASSUME NEW s \in Servers
      PROVE  /\ lastApplied[s] \in Nat /\ lastApplied[s] <= Len(committed')
             /\ SubSeq(committed', 1, lastApplied[s]) = SubSeq(committed, 1, lastApplied[s])
             /\ \A j \in 1 .. lastApplied[s] : committed'[j] = committed[j]
  <2>1. lastApplied[s] \in Nat /\ lastApplied[s] <= Len(committed)
    BY DEF IndInv, TypeOK, ReplayInv, AppliedIsCommitted
  <2>2. \A j \in 1 .. lastApplied[s] : j \in DOMAIN committed
    BY <2>1 DEF IndInv, TypeOK
  <2> QED
    BY <2>1, <2>2, PrefixKept DEF Grows
<1>2. AppliedIsCommitted' /\ HandledIsEffective'
  BY <1>1 DEF ReplayInv, AppliedIsCommitted, HandledIsEffective
<1>3. CacheExact'
  <2> SUFFICES ASSUME NEW s \in Servers, NEW c \in Clerks
               PROVE  /\ \A j \in 1 .. lastApplied[s] : From(j, c)' => committed'[j].op.ts <= cache[s][c]
                      /\ cache[s][c] # 0 => \E j \in 1 .. lastApplied[s] :
                           From(j, c)' /\ committed'[j].op.ts = cache[s][c]
    BY DEF CacheExact
  <2>1. \A j \in 1 .. lastApplied[s] : committed'[j] = committed[j] /\ (From(j, c)' <=> From(j, c))
    BY <1>1 DEF From
  <2> QED
    BY <2>1 DEF ReplayInv, CacheExact
<1> QED
  BY <1>2, <1>3 DEF ReplayInv

\* A server that starts again starts with an empty part of the log.
LEMMA ReplayRestarts ==
  ASSUME IndInv, ReplayInv, NEW s \in Servers, Restart(s)
  PROVE  ReplayInv'
<1>1. UNCHANGED committed /\ lastApplied' = [lastApplied EXCEPT ![s] = 0]
  BY DEF Restart, NewServer
<1>2. lastApplied \in [Servers -> Nat] /\ committed \in Seq(Entry) /\ Len(committed) \in Nat
  BY DEF IndInv, TypeOK
<1>3. lastApplied'[s] = 0 /\ \A f \in Servers \ {s} : lastApplied'[f] = lastApplied[f]
  BY <1>1, <1>2
<1>4. /\ handled'[s] = <<>> /\ cache'[s] = [c \in Clerks |-> 0]
      /\ \A f \in Servers \ {s} : handled'[f] = handled[f] /\ cache'[f] = cache[f]
  BY RestartForgets
<1>5. Effective(SubSeq(committed, 1, 0)) = <<>>
  BY <1>2, NothingEffective
<1>6. HandledIsEffective'
  <2> SUFFICES ASSUME NEW f \in Servers
               PROVE  handled'[f] = Effective(SubSeq(committed, 1, lastApplied'[f]))
    BY <1>1 DEF HandledIsEffective
  <2>1. CASE f = s
    BY <1>3, <1>4, <1>5, <2>1
  <2>2. CASE f # s
    BY <1>3, <1>4, <2>2 DEF ReplayInv, HandledIsEffective
  <2> QED
    BY <2>1, <2>2
<1>7. AppliedIsCommitted'
  BY <1>1, <1>2, <1>3 DEF ReplayInv, AppliedIsCommitted
<1>8. CacheExact'
  BY <1>1, <1>3, <1>4 DEF ReplayInv, CacheExact, From
<1> QED
  BY <1>6, <1>7, <1>8 DEF ReplayInv

\* The applier goes one entry further.
LEMMA ReplayApplies ==
  ASSUME IndInv, ReplayInv, NEW s \in Servers, Apply(s)
  PROVE  ReplayInv'
<1> DEFINE n == lastApplied[s]
           o == committed[n + 1].op
<1>1. /\ committed \in Seq(Entry) /\ lastApplied \in [Servers -> Nat] /\ n \in Nat
      /\ Len(committed) \in Nat /\ DOMAIN committed = 1 .. Len(committed)
      /\ handled \in [Servers -> Seq(Op)] /\ cache \in [Servers -> [Clerks -> Nat]]
  BY DEF IndInv, TypeOK
<1>2. /\ n + 1 \in DOMAIN committed /\ UNCHANGED committed
      /\ lastApplied' = [lastApplied EXCEPT ![s] = n + 1]
  BY DEF Apply, Deliverable, raftVars
<1>3. lastApplied'[s] = n + 1 /\ \A f \in Servers \ {s} : lastApplied'[f] = lastApplied[f]
  BY <1>1, <1>2
<1>4. n < Len(committed) /\ n <= Len(committed) /\ n + 1 <= Len(committed) /\ committed[n + 1] \in Entry
  BY <1>1, <1>2
<1>5. o # NoOp => o \in Op /\ o.ts \in Nat \ {0} /\ o.client \in Clerks
  BY <1>4 DEF Entry, Op, Stamps
<1>6. \/ /\ o # NoOp /\ IsNew(s, o)
         /\ cache' = [cache EXCEPT ![s][o.client] = o.ts]
         /\ handled' = [handled EXCEPT ![s] = Append(handled[s], o)]
      \/ (o = NoOp \/ ~IsNew(s, o)) /\ UNCHANGED <<cache, handled>>
  BY DEF Apply
<1>7. o # NoOp => (IsNew(s, o) <=> TakesEffect(committed, n + 1))
  BY <1>2, FilterIsEffect DEF ReplayInv
<1>8. TakesEffect(committed, n + 1) => o # NoOp
  BY DEF TakesEffect
<1> DEFINE p == SubSeq(committed, 1, n)
           q == SubSeq(committed, 1, n + 1)
           e == committed[n + 1]
<1>9. /\ p \in Seq(Entry) /\ Len(p) = n /\ q \in Seq(Entry) /\ Len(q) = n + 1
      /\ Continues(committed, q) /\ q = Append(p, e) /\ e \in Entry /\ e.op = o
  <2>1. p \in Seq(Entry) /\ Len(p) = n
    BY <1>1, <1>4, Prefix
  <2>2. n + 1 \in Nat
    BY <1>1
  <2>3. q \in Seq(Entry) /\ Len(q) = n + 1 /\ Continues(committed, q)
    BY <1>1, <1>4, <2>2, Prefix
  <2>4. q = Append(p, e)
    BY <1>1, <1>4, PrefixGrows
  <2> QED
    BY <1>4, <2>1, <2>3, <2>4
<1> HIDE DEF p, q, e
<1>10. TakesEffect(q, n + 1) <=> TakesEffect(committed, n + 1)
  <2>1. n + 1 \in DOMAIN q
    BY <1>1, <1>9
  <2>2. \A i \in DOMAIN q : i \in Effects(committed) <=> i \in Effects(q)
    BY <1>1, <1>9, EffectsPrefix
  <2> QED
    BY <1>2, <2>1, <2>2 DEF Effects
<1>11. /\ TakesEffect(committed, n + 1) => Effective(q) = Append(Effective(p), o)
       /\ ~TakesEffect(committed, n + 1) => Effective(q) = Effective(p)
  BY <1>9, <1>10, EffectiveAppend
<1>12. handled[s] = Effective(p)
  BY DEF ReplayInv, HandledIsEffective, p
<1>13. /\ handled'[s] = Effective(q)
       /\ \A f \in Servers \ {s} : handled'[f] = handled[f]
  BY <1>1, <1>6, <1>7, <1>8, <1>11, <1>12
<1>14. HandledIsEffective'
  <2> SUFFICES ASSUME NEW f \in Servers
               PROVE  handled'[f] = Effective(SubSeq(committed, 1, lastApplied'[f]))
    BY <1>2 DEF HandledIsEffective
  <2>1. CASE f = s
    BY <1>3, <1>13, <2>1 DEF q
  <2>2. CASE f # s
    BY <1>3, <1>13, <2>2 DEF ReplayInv, HandledIsEffective
  <2> QED
    BY <2>1, <2>2
<1>15. AppliedIsCommitted'
  BY <1>2, <1>3, <1>4 DEF ReplayInv, AppliedIsCommitted
<1>16. ASSUME NEW c \in Clerks
       PROVE  /\ \A j \in 1 .. (n + 1) : From(j, c) => committed[j].op.ts <= cache'[s][c]
              /\ cache'[s][c] # 0 => \E j \in 1 .. (n + 1) : From(j, c) /\ committed[j].op.ts = cache'[s][c]
  <2>1. /\ \A j \in 1 .. n : From(j, c) => committed[j].op.ts <= cache[s][c]
        /\ cache[s][c] # 0 => \E j \in 1 .. n : From(j, c) /\ committed[j].op.ts = cache[s][c]
        /\ cache[s][c] \in Nat
    BY <1>1 DEF ReplayInv, CacheExact
  <2>2. From(n + 1, c) <=> o # NoOp /\ o.client = c
    BY DEF From
  <2>3. \A j \in 1 .. n : From(j, c) => committed[j].op.ts \in Nat
    <3>1. \A j \in 1 .. n : committed[j] \in Entry
      BY <1>1, <1>4
    <3> QED
      BY <3>1 DEF From, Entry, Op, Stamps
  <2>4. CASE o # NoOp /\ IsNew(s, o) /\ o.client = c
    <3>1. cache'[s][c] = o.ts
      BY <1>1, <1>5, <1>6, <2>4
    <3>2. cache[s][c] = 0 \/ o.ts > cache[s][c]
      BY <2>4 DEF IsNew
    <3>3. From(n + 1, c) /\ o.ts \in Nat
      BY <1>5, <2>2, <2>4
    <3> HIDE DEF o, n
    <3>4. ASSUME NEW j \in 1 .. (n + 1), From(j, c) PROVE committed[j].op.ts <= o.ts
      <4>1. CASE j = n + 1
        BY <3>3, <4>1 DEF o
      <4>2. CASE j # n + 1
        <5>1. j \in 1 .. n
          BY <1>1, <4>2
        <5>2. committed[j].op.ts <= cache[s][c] /\ committed[j].op.ts \in Nat
          BY <2>1, <2>3, <3>4, <5>1
        <5> QED
          BY <2>1, <3>2, <3>3, <5>2
      <4> QED
        BY <4>1, <4>2
    <3>5. n + 1 \in 1 .. (n + 1)
      BY <1>1
    <3>6. committed[n + 1].op.ts = o.ts
      BY DEF o
    <3> QED
      BY <3>1, <3>3, <3>4, <3>5, <3>6
  <2>5. CASE ~(o # NoOp /\ IsNew(s, o) /\ o.client = c)
    <3>1. cache'[s][c] = cache[s][c]
      BY <1>1, <1>5, <1>6, <2>5
    <3>2. From(n + 1, c) => committed[n + 1].op.ts <= cache[s][c]
      BY <1>5, <2>1, <2>2, <2>5 DEF IsNew
    <3> HIDE DEF o, n
    <3>3. \A j \in 1 .. (n + 1) : j \in 1 .. n \/ j = n + 1
      BY <1>1
    <3>4. \A j \in 1 .. n : j \in 1 .. (n + 1)
      BY <1>1
    <3> QED
      BY <2>1, <3>1, <3>2, <3>3, <3>4
  <2> QED
    BY <2>4, <2>5
<1>17. CacheExact'
  <2> SUFFICES ASSUME NEW f \in Servers, NEW c \in Clerks
               PROVE  /\ \A j \in 1 .. lastApplied'[f] : From(j, c)' => committed'[j].op.ts <= cache'[f][c]
                      /\ cache'[f][c] # 0 => \E j \in 1 .. lastApplied'[f] :
                           From(j, c)' /\ committed'[j].op.ts = cache'[f][c]
    BY DEF CacheExact
  <2>1. \A j : From(j, c)' <=> From(j, c)
    BY <1>2 DEF From
  <2>2. CASE f = s
    BY <1>2, <1>3, <1>16, <2>1, <2>2
  <2>3. CASE f # s
    <3>1. lastApplied'[f] = lastApplied[f] /\ cache'[f] = cache[f]
      BY <1>1, <1>3, <1>6, <2>3
    <3> QED
      BY <1>2, <2>1, <3>1 DEF ReplayInv, CacheExact
  <2> QED
    BY <2>2, <2>3
<1> QED
  BY <1>14, <1>15, <1>17 DEF ReplayInv

\* Only Commit adds to the committed log.
LEMMA CommittedStep ==
  ASSUME [Next]_vars
  PROVE  committed' = committed \/ \E s \in Servers : Commit(s)
<1>1. ASSUME NEW c \in Clerks, ClerkNext(c) \/ NetworkNext(c) PROVE UNCHANGED committed
  BY <1>1 DEF ClerkNext, NetworkNext, Query, Join, Leave, Move, Send, CallReturns,
              RequestLost, ReplyLost, ServerDead, raftVars
<1>2. ASSUME NEW h \in Calls, HandlerNext(h) PROVE UNCHANGED committed
  BY <1>2 DEF HandlerNext, Start, Register, Receive, Timeout, raftVars
<1>3. ASSUME NEW s \in Servers, Apply(s) \/ Restart(s) \/ RaftNext(s)
      PROVE  UNCHANGED committed \/ Commit(s)
  BY <1>3 DEF Apply, Restart, RaftNext, Elect, Replicate, raftVars
<1>4. CASE UNCHANGED vars
  BY <1>4 DEF vars, raftVars
<1> QED
  BY <1>1, <1>2, <1>3, <1>4 DEF Next

\* No step takes anything out of the committed log.
LEMMA CommittedGrows ==
  ASSUME IndInv, [Next]_vars
  PROVE  Grows
<1>1. CASE committed' = committed
  BY <1>1 DEF Grows
<1>2. ASSUME NEW s \in Servers, Commit(s) PROVE Grows
  <2> DEFINE e == rlog[s][Len(committed) + 1]
  <2>1. committed' = Append(committed, e) /\ committed \in Seq(Entry) /\ e \in Entry
    BY <1>2 DEF Commit, IndInv, TypeOK
  <2> HIDE DEF e
  <2>2. \A j \in 1 .. Len(committed) : j \in DOMAIN committed' /\ committed'[j] = committed[j]
    BY <2>1
  <2> QED
    BY <2>1, <2>2 DEF Grows
<1> QED
  BY <1>1, <1>2, CommittedStep

\* Only applying and starting again change what a server has made of the log.
LEMMA ReplayMoves ==
  ASSUME [Next]_vars
  PROVE  \/ UNCHANGED <<lastApplied, cache, handled>>
         \/ \E s \in Servers : Apply(s) \/ Restart(s)
<1>1. ASSUME NEW c \in Clerks, ClerkNext(c) \/ NetworkNext(c)
      PROVE  UNCHANGED <<lastApplied, cache, handled>>
  BY <1>1 DEF ClerkNext, NetworkNext, Query, Join, Leave, Move, Send, CallReturns,
              RequestLost, ReplyLost, ServerDead, serverVars
<1>2. ASSUME NEW h \in Calls, HandlerNext(h) PROVE UNCHANGED <<lastApplied, cache, handled>>
  BY <1>2 DEF HandlerNext, Start, Register, Receive, Timeout, serverVars
<1>3. ASSUME NEW s \in Servers, RaftNext(s) PROVE UNCHANGED <<lastApplied, cache, handled>>
  BY <1>3 DEF RaftNext, Elect, Commit, Replicate, serverVars
<1>4. CASE UNCHANGED vars
  BY <1>4 DEF vars, serverVars
<1> QED
  BY <1>1, <1>2, <1>3, <1>4 DEF Next

\* Cache and configurations of every server follow from its part of the log.
THEOREM ReplayInvariance == Spec => [](IndInv /\ ReplayInv)
<1>1. Init => ReplayInv
  <2> SUFFICES ASSUME Init PROVE ReplayInv
    OBVIOUS
  <2>1. committed = <<>> /\ committed \in Seq(Entry) /\ Len(committed) = 0
    BY DEF Init
  <2>6. HandledIsEffective
    BY <2>1, NothingEffective DEF Init, HandledIsEffective
  <2> QED
    BY <2>1, <2>6 DEF Init, ReplayInv, AppliedIsCommitted, CacheExact
<1>2. IndInv /\ IndInv' /\ ReplayInv /\ [Next]_vars => ReplayInv'
  <2> SUFFICES ASSUME IndInv, IndInv', ReplayInv, [Next]_vars PROVE ReplayInv'
    OBVIOUS
  <2>1. committed' \in Seq(Entry)
    BY DEF IndInv, TypeOK
  <2> QED
    BY <2>1, CommittedGrows, ReplayMoves, ReplayKept, ReplayApplies, ReplayRestarts
<1> QED
  BY <1>1, <1>2, Invariance, PTL DEF Spec

\* What a replica has handled is what its part of the committed log calls for,
\* also when it has started over (server.go:145-162).
THEOREM HandledIsCalledFor == Spec => []HandledIsEffective
<1>1. ReplayInv => HandledIsEffective
  BY DEF ReplayInv
<1> QED
  BY <1>1, ReplayInvariance, PTL

\* Replicas go through the same configurations, whatever Raft loses and whoever
\* restarts, with no assumption on the clocks (server.go:148-162).
THEOREM ReplicasAlwaysAgree == Spec => []ReplicasAgree
<1>1. IndInv /\ ReplayInv => ReplicasAgree
  <2> SUFFICES ASSUME IndInv, ReplayInv, NEW s \in Servers, NEW t \in Servers
               PROVE  Continues(handled[t], handled[s]) \/ Continues(handled[s], handled[t])
    BY DEF ReplicasAgree
  <2>1. /\ committed \in Seq(Entry) /\ lastApplied[s] \in Nat /\ lastApplied[t] \in Nat
        /\ lastApplied[s] <= Len(committed) /\ lastApplied[t] <= Len(committed)
    BY DEF IndInv, TypeOK, ReplayInv, AppliedIsCommitted
  <2> DEFINE p == SubSeq(committed, 1, lastApplied[s])
             q == SubSeq(committed, 1, lastApplied[t])
  <2>2. /\ p \in Seq(Entry) /\ Len(p) = lastApplied[s]
        /\ \A i \in 1 .. lastApplied[s] : p[i] = committed[i]
    BY <2>1, Prefix
  <2>3. /\ q \in Seq(Entry) /\ Len(q) = lastApplied[t]
        /\ \A i \in 1 .. lastApplied[t] : q[i] = committed[i]
    BY <2>1, Prefix
  <2>4. handled[s] = Effective(p) /\ handled[t] = Effective(q)
    BY DEF ReplayInv, HandledIsEffective
  <2> HIDE DEF p, q
  <2>5. Continues(q, p) \/ Continues(p, q)
    <3>1. DOMAIN p = 1 .. lastApplied[s] /\ DOMAIN q = 1 .. lastApplied[t]
      BY <2>2, <2>3
    <3>2. CASE lastApplied[s] <= lastApplied[t]
      <4>1. \A i \in DOMAIN p : q[i] = p[i]
        BY <2>1, <2>2, <2>3, <3>1, <3>2
      <4> QED
        BY <2>2, <2>3, <3>2, <4>1 DEF Continues
    <3>3. CASE lastApplied[t] <= lastApplied[s]
      <4>1. \A i \in DOMAIN q : p[i] = q[i]
        BY <2>1, <2>2, <2>3, <3>1, <3>3
      <4> QED
        BY <2>2, <2>3, <3>3, <4>1 DEF Continues
    <3> QED
      BY <2>1, <3>2, <3>3
  <2> QED
    BY <2>2, <2>3, <2>4, <2>5, EffectivePrefix
<1> QED
  BY <1>1, ReplayInvariance, PTL

-----------------------------------------------------------------------------
(* Counting changes                                                        *)

\* The Ops that took effect: what the whole committed log calls for.
Effected == Effective(committed)

\* Configuration changes among the first k - 1 Ops of h.
ChangesBefore(h, k) == Cardinality({j \in 1 .. (k - 1) : h[j].cmd # "Query"})

\* A clerk that waits for an RPC sent it with its latest stamp.
HeardLatest ==
  /\ \A c \in Clerks : clerk[c].call # 0 => clerk[c].phase = "retry"
  /\ \A h \in Calls : rpc[h].pc # "free" /\ Listening(h) => rpc[h].op.ts = clerk[h[1]].ts

\* An Op belongs to the script of its clerk.
Scripted == \A o \in Op : Issued(o) => o.seq <= Len(Script[o.client])

\* What is left of an operation that is over is no newer than what is committed.
AckedTop ==
  \A o \in Op : Issued(o) /\ o.seq < clerk[o.client].seq =>
    \E j \in DOMAIN committed : From(j, o.client) /\ o.ts <= committed[j].op.ts

\* Number r is what the Query of client c with stamp t found.
Found(r, c, t) ==
  \E k \in DOMAIN Effected :
    /\ Effected[k].client = c /\ Effected[k].ts = t /\ Effected[k].cmd = "Query"
    /\ r = ChangesBefore(Effected, k)

\* A number in a channel, or in the reply of a handler, is what a Query found.
ChannelReplies ==
  \A s \in Servers : \A i \in DOMAIN indexChan[s] :
    indexChan[s][i] # Empty /\ indexChan[s][i].reply # NoReply =>
      Found(indexChan[s][i].reply, indexChan[s][i].op.client, indexChan[s][i].op.ts)

OkReplies ==
  \A h \in Calls : rpc[h].pc = "ok" /\ rpc[h].reply # NoReply =>
    Found(rpc[h].reply, rpc[h].op.client, rpc[h].op.ts)

\* What was acknowledged when an operation began took effect before it.
FloorBelow ==
  \A c \in Clerks : clerk[c].phase = "retry" =>
    /\ clerk[c].floor <= ConfigNum(Effected)
    /\ \A k \in DOMAIN Effected :
         Effected[k].client = c /\ Effected[k].seq = clerk[c].seq
           => clerk[c].floor <= ChangesBefore(Effected, k)

Replies    == ChannelReplies /\ OkReplies
ServiceInv == HeardLatest /\ Scripted /\ AckedTop /\ Replies /\ FloorBelow

\* Changes are counted by a number that only a longer list can exceed.
LEMMA Counted ==
  ASSUME NEW h \in Seq(Op), NEW k \in Nat
  PROVE  /\ ChangesBefore(h, k) \in Nat
         /\ IsFiniteSet({j \in 1 .. (k - 1) : h[j].cmd # "Query"})
<1>1. IsFiniteSet(1 .. (k - 1))
  BY FS_Interval
<1>2. IsFiniteSet({j \in 1 .. (k - 1) : h[j].cmd # "Query"})
  BY <1>1, FS_Subset
<1> QED
  BY <1>2, FS_CardinalityType DEF ChangesBefore

\* The newest configuration counts all of the list.
LEMMA CountedAll ==
  ASSUME NEW h \in Seq(Op)
  PROVE  ConfigNum(h) = ChangesBefore(h, Len(h) + 1)
<1>1. DOMAIN h = 1 .. ((Len(h) + 1) - 1)
  OBVIOUS
<1> QED
  BY <1>1 DEF ConfigNum, ChangesBefore

\* A longer list counts the same before the same place, and no less in all.
LEMMA CountedKept ==
  ASSUME NEW p \in Seq(Op), NEW q \in Seq(Op), Continues(q, p)
  PROVE  /\ \A k \in 1 .. (Len(p) + 1) : ChangesBefore(q, k) = ChangesBefore(p, k)
         /\ \A k \in Nat : k > Len(p) => ConfigNum(p) <= ChangesBefore(q, k)
         /\ ConfigNum(p) <= ConfigNum(q)
<1>1. /\ Len(p) \in Nat /\ Len(q) \in Nat /\ Len(p) <= Len(q) /\ DOMAIN p = 1 .. Len(p)
      /\ \A j \in 1 .. Len(p) : q[j] = p[j]
  BY DEF Continues
<1>2. ASSUME NEW k \in 1 .. (Len(p) + 1) PROVE ChangesBefore(q, k) = ChangesBefore(p, k)
  <2>1. \A j \in 1 .. (k - 1) : q[j] = p[j]
    BY <1>1
  <2>2. {j \in 1 .. (k - 1) : q[j].cmd # "Query"} = {j \in 1 .. (k - 1) : p[j].cmd # "Query"}
    BY <2>1
  <2> QED
    BY <2>2 DEF ChangesBefore
<1>3. ASSUME NEW k \in Nat, k > Len(p) PROVE ConfigNum(p) <= ChangesBefore(q, k)
  <2> DEFINE S == {j \in 1 .. (k - 1) : q[j].cmd # "Query"}
             T == {j \in DOMAIN p : p[j].cmd # "Query"}
  <2>1. \A j \in 1 .. Len(p) : j \in 1 .. (k - 1)
    BY <1>1, <1>3
  <2>2. T \in SUBSET S
    BY <1>1, <2>1
  <2>3. IsFiniteSet(S)
    BY Counted
  <2> HIDE DEF S, T
  <2>4. Cardinality(T) <= Cardinality(S)
    BY <2>2, <2>3, FS_Subset
  <2> QED
    BY <2>4 DEF S, T, ConfigNum, ChangesBefore
<1>4. ConfigNum(p) <= ConfigNum(q)
  <2>1. Len(q) + 1 \in Nat /\ Len(q) + 1 > Len(p)
    BY <1>1
  <2>2. ConfigNum(p) <= ChangesBefore(q, Len(q) + 1)
    BY <1>3, <2>1
  <2> QED
    BY <2>2, CountedAll
<1> QED
  BY <1>2, <1>3, <1>4

-----------------------------------------------------------------------------
(* What has taken effect                                                   *)

\* What took effect was committed.
LEMMA EffectedCommitted ==
  ASSUME IndInv
  PROVE  /\ Effected \in Seq(Op)
         /\ \A k \in DOMAIN Effected : /\ Effected[k] \in Op /\ Issued(Effected[k])
                                       /\ \E i \in Effects(committed) : Effected[k] = committed[i].op
<1>1. committed \in Seq(Entry)
  BY DEF IndInv, TypeOK
<1>2. Effected \in Seq(Op)
  BY <1>1, EffectiveAt DEF Effected
<1>3. ASSUME NEW k \in DOMAIN Effected
      PROVE  \E i \in Effects(committed) : Effected[k] = committed[i].op
  BY <1>1, EffectiveAt DEF Effected
<1>4. ASSUME NEW k \in DOMAIN Effected PROVE Effected[k] \in Op /\ Issued(Effected[k])
  BY <1>2, <1>3 DEF Issued, Effects
<1> QED
  BY <1>2, <1>3, <1>4

\* What took effect stays so.
LEMMA EffectedGrows ==
  ASSUME IndInv, IndInv', [Next]_vars
  PROVE  Effected \in Seq(Op) /\ Effected' \in Seq(Op) /\ Continues(Effected', Effected)
<1>1. committed \in Seq(Entry) /\ committed' \in Seq(Entry)
  BY DEF IndInv, TypeOK
<1>2. Grows
  BY CommittedGrows
<1>3. Continues(committed', committed)
  <2>1. /\ Len(committed) \in Nat /\ DOMAIN committed = 1 .. Len(committed)
        /\ Len(committed') \in Nat /\ DOMAIN committed' = 1 .. Len(committed')
    BY <1>1
  <2>2. Len(committed) <= Len(committed')
    BY <1>2, <2>1 DEF Grows
  <2> QED
    BY <1>2, <2>2 DEF Grows, Continues
<1> QED
  BY <1>1, <1>3, EffectiveAt, EffectivePrefix DEF Effected

\* A non-empty set of numbers has a least one.
LEMMA Least ==
  ASSUME NEW T, T \subseteq Nat, T # {}
  PROVE  \E x \in T : \A y \in T : x <= y
<1> DEFINE R == {ss \in Nat \X Nat : ss[1] < ss[2]}
<1>1. IsWellFoundedOn(R, Nat)
  BY NatLessThanWellFounded DEF OpToRel
<1>2. \E x \in T : \A y \in T : ~(<<y, x>> \in R)
  BY <1>1, WFMin
<1>3. PICK x \in T : \A y \in T : ~(<<y, x>> \in R)
  BY <1>2
<1>4. ASSUME NEW y \in T PROVE x <= y
  <2>1. <<y, x>> \in Nat \X Nat
    OBVIOUS
  <2>2. ~(<<y, x>>[1] < <<y, x>>[2])
    BY <1>3, <2>1
  <2> QED
    BY <2>2
<1> QED
  BY <1>4

\* The first copy of an operation that is committed takes effect: nothing its
\* clerk did later can be committed before it.
LEMMA CommittedTook ==
  ASSUME IndInv, OrderInv, Distinct, OneByOne, NEW c \in Clerks, NEW n \in Nat,
         NEW i \in DOMAIN committed, Carries(i, c, n)
  PROVE  \E k \in DOMAIN Effected : Effected[k].client = c /\ Effected[k].seq = n
<1> DEFINE T == {j \in DOMAIN committed : Carries(j, c, n)}
<1>1. committed \in Seq(Entry) /\ DOMAIN committed = 1 .. Len(committed) /\ Len(committed) \in Nat
  BY DEF IndInv, TypeOK
<1>2. T \subseteq Nat /\ T # {}
  BY <1>1
<1>3. PICK j \in T : \A l \in T : j <= l
  BY <1>2, Least
<1> DEFINE o == committed[j].op
<1>4. /\ j \in DOMAIN committed /\ j \in Nat
      /\ o \in Op /\ o.client = c /\ o.seq = n /\ Issued(o) /\ o.ts \in Nat /\ o # NoOp
  <2>1. Carries(j, c, n) /\ j \in DOMAIN committed
    OBVIOUS
  <2>2. o \in Op /\ o.client = c /\ o.seq = n
    BY <2>1 DEF Carries
  <2>3. o # NoOp
    BY <2>2, ConstantsAssumption DEF NoOp
  <2> QED
    BY <1>1, <2>1, <2>2, <2>3 DEF Issued, Op, Stamps
<1>5. ASSUME NEW l \in 1 .. (j - 1), committed[l].op # NoOp, committed[l].op.client = c
      PROVE  committed[l].op.ts < o.ts
  <2> DEFINE p == committed[l].op
  <2>1. l \in DOMAIN committed /\ l < j /\ l \in Nat /\ l \notin T
    BY <1>1, <1>3, <1>4
  <2>2. p \in Op /\ p.client = c /\ Issued(p) /\ p.ts \in Nat /\ p.seq \in Nat
    <3>1. committed[l] \in Entry
      BY <1>1, <2>1
    <3>2. p \in Op
      BY <1>5, <3>1 DEF Entry
    <3> QED
      BY <1>5, <2>1, <3>2 DEF Issued, Op, Stamps
  <2>3. p.seq # n
    BY <2>1, <2>2 DEF Carries
  <2>4. SUFFICES ASSUME ~(p.ts < o.ts) PROVE FALSE
    OBVIOUS
  <2>5. n < p.seq
    <3>1. CASE p.ts = o.ts
      BY <1>4, <2>2, <2>3, <3>1 DEF Distinct
    <3>2. CASE o.ts < p.ts
      <4>1. o.seq <= p.seq
        BY <1>4, <2>2, <3>2 DEF OrderInv, Stamped, AllInOrder, InOrder
      <4> QED
        BY <1>4, <2>2, <2>3, <4>1
    <3> QED
      BY <1>4, <2>2, <2>4, <3>1, <3>2
  <2>6. n \in 1 .. (p.seq - 1)
    <3>1. n > 0
      BY <1>4 DEF OrderInv, Stamped, AllTraced, Traced
    <3> QED
      BY <2>2, <2>5, <3>1
  <2>7. PICK m \in DOMAIN committed : m < l /\ Carries(m, p.client, n)
    BY <2>1, <2>2, <2>6 DEF OneByOne
  <2> QED
    BY <1>1, <1>3, <1>4, <2>1, <2>2, <2>7
<1>6. j \in Effects(committed)
  BY <1>4, <1>5 DEF Effects, TakesEffect
<1>7. Rank(Effects(committed), j) \in DOMAIN Effected /\ Effected[Rank(Effects(committed), j)] = o
  BY <1>1, <1>6, EffectiveAt DEF Effected
<1> QED
  BY <1>4, <1>7

\* What clerks were told is done has taken effect: each acknowledged change is one
\* of the changes in force.
LEMMA AckedBelow ==
  ASSUME IndInv, OrderInv, Distinct, OneByOne, AckedCommitted
  PROVE  AckedChanges <= ConfigNum(Effected)
<1> DEFINE X == {x \in UNION {{c} \X (1 .. (clerk[c].seq - 1)) : c \in Clerks} :
                   Script[x[1]][x[2]] # "Query"}
           Y == {k \in DOMAIN Effected : Effected[k].cmd # "Query"}
           At(x, k) == Effected[k].client = x[1] /\ Effected[k].seq = x[2]
           f == [x \in X |-> CHOOSE k \in DOMAIN Effected : At(x, k)]
<1>1. ASSUME NEW x \in X
      PROVE  x[1] \in Clerks /\ x[2] \in Nat /\ x = <<x[1], x[2]>> /\ \E k \in DOMAIN Effected : At(x, k)
  <2>1. PICK c \in Clerks : x \in {c} \X (1 .. (clerk[c].seq - 1))
    OBVIOUS
  <2>2. x[1] = c /\ x[2] \in 1 .. (clerk[c].seq - 1) /\ x = <<x[1], x[2]>> /\ clerk[c].seq \in Nat
    BY <2>1 DEF IndInv, TypeOK, Clerk
  <2>3. PICK j \in DOMAIN committed : Carries(j, c, x[2])
    BY <2>2 DEF AckedCommitted
  <2>4. x[2] \in Nat
    BY <2>2
  <2> QED
    BY <2>2, <2>3, <2>4, CommittedTook
<1>2. ASSUME NEW x \in X PROVE f[x] \in DOMAIN Effected /\ At(x, f[x])
  BY <1>1
<1>3. ASSUME NEW x \in X PROVE f[x] \in Y
  <2>1. f[x] \in DOMAIN Effected /\ At(x, f[x])
    BY <1>2
  <2> HIDE DEF f
  <2>2. Effected[f[x]] \in Op /\ Issued(Effected[f[x]])
    BY <2>1, EffectedCommitted
  <2>3. Effected[f[x]].cmd = Script[x[1]][x[2]]
    BY <2>1, <2>2 DEF OrderInv, Stamped, AllTraced, Traced
  <2> QED
    BY <2>1, <2>3
<1>4. ASSUME NEW x \in X, NEW y \in X, f[x] = f[y] PROVE x = y
  <2>1. At(x, f[x]) /\ At(y, f[y]) /\ x = <<x[1], x[2]>> /\ y = <<y[1], y[2]>>
    BY <1>1, <1>2
  <2> HIDE DEF f, X
  <2>2. x[1] = y[1] /\ x[2] = y[2]
    BY <1>4, <2>1
  <2> QED
    BY <2>1, <2>2
<1>5. f \in Injection(X, Y)
  <2>1. f \in [X -> Y] /\ DOMAIN f = X
    BY <1>3
  <2> QED
    BY <1>4, <2>1 DEF Injection, IsInjective
<1>6. IsFiniteSet(Y)
  <2>1. Effected \in Seq(Op)
    BY EffectedCommitted
  <2>2. IsFiniteSet(DOMAIN Effected)
    BY <2>1, FS_Interval
  <2> QED
    BY <2>2, FS_Subset
<1> HIDE DEF X, Y, f
<1>7. Cardinality(X) <= Cardinality(Y)
  BY <1>5, <1>6, FS_Injection
<1> QED
  BY <1>7 DEF X, Y, AckedChanges, ConfigNum

\* What a Query found stays what it found.
LEMMA FoundKept ==
  ASSUME IndInv, IndInv', [Next]_vars, NEW r, NEW c, NEW t, Found(r, c, t)
  PROVE  Found(r, c, t)'
<1>1. Effected \in Seq(Op) /\ Effected' \in Seq(Op) /\ Continues(Effected', Effected)
  BY EffectedGrows
<1>2. PICK k \in DOMAIN Effected :
        /\ Effected[k].client = c /\ Effected[k].ts = t /\ Effected[k].cmd = "Query"
        /\ r = ChangesBefore(Effected, k)
  BY DEF Found
<1>3. k \in 1 .. (Len(Effected) + 1)
  BY <1>1
<1>4. ChangesBefore(Effected', k) = ChangesBefore(Effected, k)
  BY <1>1, <1>3, CountedKept
<1>5. k \in DOMAIN Effected' /\ Effected'[k] = Effected[k]
  BY <1>1 DEF Continues
<1> QED
  BY <1>2, <1>4, <1>5 DEF Found

\* The number handleQuery puts into ReplyQuery is the number of changes before the
\* Query in the committed log (server.go:148-162).
LEMMA QueryFinds ==
  ASSUME IndInv, ReplayInv, NEW s \in Servers, Deliverable(s),
         committed[lastApplied[s] + 1].op # NoOp, IsNew(s, committed[lastApplied[s] + 1].op),
         committed[lastApplied[s] + 1].op.cmd = "Query"
  PROVE  LET o == committed[lastApplied[s] + 1].op IN Found(ConfigNum(handled[s]), o.client, o.ts)
<1> DEFINE n == lastApplied[s]
           o == committed[n + 1].op
           e == committed[n + 1]
           p == SubSeq(committed, 1, n)
           q == SubSeq(committed, 1, n + 1)
<1>1. committed \in Seq(Entry) /\ n \in Nat /\ n + 1 \in DOMAIN committed
  BY DEF IndInv, TypeOK, Deliverable
<1>2. n + 1 \in Nat /\ n + 1 <= Len(committed) /\ n < Len(committed) /\ n <= Len(committed) /\ e \in Entry
  BY <1>1
<1>3. p \in Seq(Entry) /\ Len(p) = n
  BY <1>1, <1>2, Prefix
<1>4. q \in Seq(Entry) /\ Len(q) = n + 1 /\ Continues(committed, q)
  BY <1>1, <1>2, Prefix
<1>5. q = Append(p, e)
  BY <1>1, <1>2, PrefixGrows
<1>6. TakesEffect(committed, n + 1)
  BY <1>1, FilterIsEffect DEF ReplayInv
<1>7. handled[s] = Effective(p)
  BY DEF ReplayInv, HandledIsEffective
<1> HIDE DEF p, q, e
<1>8. TakesEffect(q, n + 1)
  <2>1. n + 1 \in DOMAIN q
    BY <1>1, <1>4
  <2>2. \A i \in DOMAIN q : i \in Effects(committed) <=> i \in Effects(q)
    BY <1>1, <1>4, EffectsPrefix
  <2> QED
    BY <1>1, <1>6, <2>1, <2>2 DEF Effects
<1>9. Effective(q) = Append(handled[s], o)
  BY <1>2, <1>3, <1>5, <1>7, <1>8, EffectiveAppend DEF e
<1>10. Continues(Effected, Effective(q)) /\ Effective(q) \in Seq(Op) /\ Effected \in Seq(Op)
  BY <1>1, <1>4, EffectivePrefix, EffectiveAt DEF Effected
<1>11. handled[s] \in Seq(Op) /\ o \in Op
  <2>1. o \in Op
    BY <1>2 DEF Entry, e
  <2> QED
    BY <2>1 DEF IndInv, TypeOK
<1> DEFINE k == Len(handled[s]) + 1
           a == handled[s]
           b == Effective(q)
<1> HIDE DEF o, n, a, b
<1>12. /\ k \in DOMAIN b /\ b[k] = o /\ Len(b) = k /\ \A j \in 1 .. Len(a) : b[j] = a[j]
       /\ k \in Nat /\ k = Len(a) + 1 /\ Len(a) \in Nat /\ Len(a) <= Len(b) /\ DOMAIN a = 1 .. Len(a)
  BY <1>9, <1>10, <1>11 DEF a, b
<1>13. Continues(b, a)
  BY <1>12 DEF Continues
<1>14. ChangesBefore(b, k) = ConfigNum(a)
  <2>1. k \in 1 .. (Len(a) + 1)
    BY <1>12
  <2>2. ChangesBefore(b, k) = ChangesBefore(a, k)
    BY <1>10, <1>11, <1>13, <2>1, CountedKept DEF a, b
  <2> QED
    BY <1>11, <1>12, <2>2, CountedAll DEF a
<1>15. ChangesBefore(Effected, k) = ChangesBefore(b, k)
  <2>1. k \in 1 .. (Len(b) + 1)
    BY <1>12
  <2> QED
    BY <1>10, <2>1, CountedKept DEF b
<1>16. k \in DOMAIN Effected /\ Effected[k] = o
  BY <1>10, <1>12 DEF Continues, b
<1>17. Found(ConfigNum(a), o.client, o.ts)
  BY <1>14, <1>15, <1>16 DEF Found, o, n
<1> QED
  BY <1>17 DEF a, o, n

-----------------------------------------------------------------------------
(* What a step does to handlers, clerks and channels                       *)

\* Some clerk sends an RPC.
Sends == \E c \in Clerks : Query(c) \/ Join(c) \/ Leave(c) \/ Move(c)

\* Handler h takes from its channel the Op it waits for.
Matched(h) ==
  /\ Receive(h)
  /\ isOpMatched(rpc[h].op, indexChan[rpc[h].srv][rpc[h].index].op)
  /\ rpc'[h].reply = indexChan[rpc[h].srv][rpc[h].index].reply

\* Handler h goes on with its Op, or ends; it comes to say OK only for a match.
HandlerStep(h) ==
  /\ rpc'[h].pc # "free" => rpc[h].pc # "free" /\ rpc'[h].op = rpc[h].op
  /\ rpc'[h].pc = "ok" => rpc'[h] = rpc[h] \/ Matched(h)

\* The end of a Call() is the end of its handler's record.
LEMMA HandlerEnds ==
  ASSUME IndInv, NEW c \in Clerks, CallReturns(c) \/ NetworkNext(c)
  PROVE  \A h \in Calls : HandlerStep(h)
<1>1. rpc \in [Calls -> Handler]
  BY DEF IndInv, TypeOK
<1>2. rpc' = [rpc EXCEPT ![RPC(c)] = Idle] \/ rpc' = rpc
  <2>1. CASE ReplyLost(c)
    BY <1>1, <2>1 DEF ReplyLost
  <2> QED
    BY <2>1 DEF CallReturns, NetworkNext, RequestLost, ServerDead
<1>3. \A h \in Calls : rpc'[h] = rpc[h] \/ rpc'[h] = Idle
  BY <1>1, <1>2
<1> QED
  BY <1>3 DEF HandlerStep, Idle

\* sendToRaftAndWait, step by step (server.go:40-65).
LEMMA HandlerRuns ==
  ASSUME IndInv, NEW h \in Calls, HandlerNext(h)
  PROVE  \A g \in Calls : HandlerStep(g)
<1>1. rpc \in [Calls -> Handler] /\ rpc[h] \in Handler /\ rpc[h].pc \in {"sent", "started", "waiting"}
  BY DEF IndInv, TypeOK, HandlerNext, Start, Register, Timeout, Receive
<1>2. CASE rpc' = [rpc EXCEPT ![h] = Return(h, [rpc[h] EXCEPT !.pc = "wrongLeader"])]
  <2> DEFINE r == [rpc[h] EXCEPT !.pc = "wrongLeader"]
  <2>1. r.op = rpc[h].op /\ r.pc = "wrongLeader" /\ rpc' = [rpc EXCEPT ![h] = Return(h, r)]
    BY <1>1, <1>2 DEF Handler
  <2> HIDE DEF r
  <2>2. /\ RpcKept /\ \A g \in Calls \ {h} : rpc'[g] = rpc[g]
        /\ rpc'[h].pc = "ok" => r.pc = "ok"
    BY <1>1, <2>1, ReturnKept
  <2> QED
    BY <2>1, <2>2 DEF RpcKept, HandlerStep
<1>3. CASE rpc' = [rpc EXCEPT ![h].pc = "started", ![h].index = Len(rlog[rpc[h].srv]) + 1]
  BY <1>1, <1>3 DEF HandlerStep, Handler
<1>4. CASE rpc' = [rpc EXCEPT ![h].pc = "waiting"]
  BY <1>1, <1>4 DEF HandlerStep, Handler
<1>5. CASE Receive(h)
  <2> DEFINE m == indexChan[rpc[h].srv][rpc[h].index]
             q == IF isOpMatched(rpc[h].op, m.op) THEN "ok" ELSE "wrongLeader"
             r == [rpc[h] EXCEPT !.pc = q, !.reply = m.reply]
  <2>1. r.op = rpc[h].op /\ r.pc = q /\ r.reply = m.reply
    BY <1>1 DEF Handler
  <2>2. rpc' = [rpc EXCEPT ![h] = Return(h, r)]
    BY <1>1, <1>5 DEF Receive
  <2>3. rpc'[h] = r \/ rpc'[h] = Idle
    BY <1>1, <2>2 DEF Return
  <2> HIDE DEF r, m
  <2>4. RpcKept /\ \A g \in Calls \ {h} : rpc'[g] = rpc[g]
    BY <1>1, <2>1, <2>2, ReturnKept
  <2>5. rpc'[h].pc = "ok" => isOpMatched(rpc[h].op, m.op) /\ rpc'[h].reply = m.reply
    BY <2>1, <2>3 DEF Idle
  <2>6. rpc'[h].pc = "ok" => Matched(h)
    BY <1>5, <2>5 DEF Matched, m
  <2> QED
    BY <2>4, <2>6 DEF RpcKept, HandlerStep
<1> QED
  BY <1>1, <1>2, <1>3, <1>4, <1>5 DEF HandlerNext, Start, Register, Timeout

\* A restart ends the handlers of the server, without an answer.
LEMMA HandlerDies ==
  ASSUME IndInv, NEW s \in Servers, Restart(s)
  PROVE  \A h \in Calls : HandlerStep(h)
<1> SUFFICES ASSUME NEW h \in Calls PROVE HandlerStep(h)
  OBVIOUS
<1> DEFINE r == [rpc[h] EXCEPT !.pc = "dead"]
<1>1. r.op = rpc[h].op /\ r.pc = "dead"
  BY DEF IndInv, TypeOK, Handler
<1>2. rpc'[h] = rpc[h] \/ (rpc[h].pc # "free" /\ rpc'[h] = Return(h, r))
  BY DEF Restart
<1> HIDE DEF r
<1> QED
  BY <1>1, <1>2 DEF Return, Idle, HandlerStep

\* Nothing else touches a handler.
LEMMA HandlersStep ==
  ASSUME IndInv, [Next]_vars, ~Sends
  PROVE  \A h \in Calls : HandlerStep(h)
<1>1. CASE UNCHANGED rpc
  BY <1>1 DEF HandlerStep
<1>2. ASSUME NEW c \in Clerks, ClerkNext(c) \/ NetworkNext(c) PROVE \A h \in Calls : HandlerStep(h)
  BY <1>2, HandlerEnds DEF ClerkNext, Sends
<1>3. ASSUME NEW s \in Servers, Apply(s) \/ RaftNext(s) PROVE UNCHANGED rpc
  BY <1>3 DEF Apply, RaftNext, Elect, Commit, Replicate
<1>4. UNCHANGED vars => UNCHANGED rpc
  BY DEF vars
<1> QED
  BY <1>1, <1>2, <1>3, <1>4, HandlerRuns, HandlerDies DEF Next

\* A clerk whose Call() was answered OK.
Told(c) == CallReturns(c) /\ rpc[RPC(c)].pc = "ok"

\* Clerk c stays as it is, goes on to the next server or to its next operation.
ClerkStep(c) ==
  \/ clerk'[c] = clerk[c]
  \/ clerk'[c] = NextServer(c)
  \/ clerk'[c] = NextOperation(c) /\ Told(c)

\* The loops of client.go.
LEMMA ClerksStep ==
  ASSUME IndInv, [Next]_vars, ~Sends
  PROVE  \A c \in Clerks : ClerkStep(c)
<1>1. clerk \in [Clerks -> Clerk]
  BY DEF IndInv, TypeOK
<1>2. CASE UNCHANGED clerk
  BY <1>2 DEF ClerkStep
<1>3. ASSUME NEW c \in Clerks, ClerkNext(c) \/ NetworkNext(c) PROVE \A d \in Clerks : ClerkStep(d)
  <2>1. CallReturns(c) \/ NetworkNext(c)
    BY <1>3 DEF ClerkNext, Sends
  <2>2. \/ clerk' = [clerk EXCEPT ![c] = NextServer(c)]
        \/ clerk' = [clerk EXCEPT ![c] = NextOperation(c)] /\ Told(c)
    BY <2>1 DEF CallReturns, NetworkNext, RequestLost, ReplyLost, ServerDead, Told
  <2> QED
    BY <1>1, <2>2 DEF ClerkStep
<1>4. ASSUME NEW h \in Calls, HandlerNext(h) PROVE UNCHANGED clerk
  BY <1>4 DEF HandlerNext, Start, Register, Receive, Timeout
<1>5. ASSUME NEW s \in Servers, Apply(s) \/ Restart(s) \/ RaftNext(s) PROVE UNCHANGED clerk
  BY <1>5 DEF Apply, Restart, RaftNext, Elect, Commit, Replicate
<1>6. UNCHANGED vars => UNCHANGED clerk
  BY DEF vars
<1> QED
  BY <1>2, <1>3, <1>4, <1>5, <1>6 DEF Next

\* What these do to the record of the clerk.
LEMMA ClerkFieldsMore ==
  ASSUME IndInv, NEW c \in Clerks
  PROVE  /\ NextServer(c).floor = clerk[c].floor /\ NextServer(c).call = 0
         /\ NextOperation(c).call = 0
<1>1. clerk[c] \in Clerk
  BY DEF IndInv, TypeOK
<1> QED
  BY <1>1 DEF NextServer, NextOperation, Clerk

\* What is in a channel was there before, or the applier has just put it there.
ChannelStep(s, i) ==
  indexChan'[s][i] # Empty =>
    \/ i \in DOMAIN indexChan[s] /\ indexChan'[s][i] = indexChan[s][i]
    \/ LET o == committed[lastApplied[s] + 1].op IN
       /\ Deliverable(s) /\ o # NoOp
       /\ indexChan'[s][i] =
            [op |-> o, reply |-> IF IsNew(s, o) /\ o.cmd = "Query" THEN ConfigNum(handled[s]) ELSE NoReply]

\* Putting a value into one channel leaves the others alone.
LEMMA PutAt ==
  ASSUME NEW m, NEW i, NEW v
  PROVE  \A k \in DOMAIN Put(m, i, v) :
           \/ k \in DOMAIN m /\ Put(m, i, v)[k] = m[k]
           \/ k = i /\ Put(m, i, v)[k] = v
BY DEF Put

\* Handlers make channels and empty them, the applier fills them.
LEMMA ChannelsStep ==
  ASSUME IndInv, [Next]_vars
  PROVE  \A s \in Servers : \A i \in DOMAIN indexChan'[s] : ChannelStep(s, i)
<1>0. DOMAIN indexChan = Servers
  BY DEF IndInv, TypeOK
<1>1. CASE UNCHANGED indexChan
  BY <1>1 DEF ChannelStep
<1>2. ASSUME NEW c \in Clerks, ClerkNext(c) \/ NetworkNext(c) PROVE UNCHANGED indexChan
  BY <1>2 DEF ClerkNext, NetworkNext, Query, Join, Leave, Move, Send, CallReturns,
              RequestLost, ReplyLost, ServerDead, serverVars
<1>3. ASSUME NEW h \in Calls, Start(h) \/ Timeout(h) PROVE UNCHANGED indexChan
  BY <1>3 DEF Start, Timeout, serverVars
<1>4. ASSUME NEW h \in Calls, Register(h) \/ Receive(h)
      PROVE  \A s \in Servers : \A i \in DOMAIN indexChan'[s] : ChannelStep(s, i)
  <2> DEFINE f == rpc[h].srv
             k == rpc[h].index
  <2> HIDE DEF k
  <2>1. f \in Servers
    BY <1>4, HandlerShaped DEF Register, Receive
  <2>2. CASE indexChan' = [indexChan EXCEPT ![f] = Put(indexChan[f], k, Empty)]
    <3>1. \A s \in Servers : \A i \in DOMAIN indexChan'[s] :
            \/ i \in DOMAIN indexChan[s] /\ indexChan'[s][i] = indexChan[s][i]
            \/ s = f /\ i = k /\ indexChan'[s][i] = Empty
      <4>1. /\ indexChan'[f] = Put(indexChan[f], k, Empty)
            /\ \A s \in Servers \ {f} : indexChan'[s] = indexChan[s]
        BY <1>0, <2>1, <2>2
      <4>2. \A i \in DOMAIN indexChan'[f] :
              \/ i \in DOMAIN indexChan[f] /\ indexChan'[f][i] = indexChan[f][i]
              \/ i = k /\ indexChan'[f][i] = Empty
        BY <4>1, PutAt
      <4> QED
        BY <2>1, <4>1, <4>2
    <3> QED
      BY <3>1 DEF ChannelStep
  <2>3. CASE \A s \in Servers : indexChan'[s] = indexChan[s]
    BY <2>3 DEF ChannelStep
  <2>4. Receive(h) => indexChan' = [indexChan EXCEPT ![f] = Put(indexChan[f], k, Empty)]
    BY <1>0, <2>1 DEF Receive, k
  <2>5. Register(h) => indexChan' = [indexChan EXCEPT ![f] = Put(indexChan[f], k, Empty)]
                       \/ \A s \in Servers : indexChan'[s] = indexChan[s]
    BY <1>0, <2>1 DEF Register, k
  <2> QED
    BY <1>4, <2>2, <2>3, <2>4, <2>5
<1>5. ASSUME NEW s \in Servers, Apply(s)
      PROVE  \A f \in Servers : \A k \in DOMAIN indexChan'[f] : ChannelStep(f, k)
  <2> DEFINE i == lastApplied[s] + 1
             o == committed[lastApplied[s] + 1].op
             x == IF IsNew(s, o) /\ o.cmd = "Query" THEN ConfigNum(handled[s]) ELSE NoReply
             v == [op |-> o, reply |-> x]
  <2>1. CASE o = NoOp
    BY <1>1, <1>5, <2>1 DEF Apply
  <2>2. CASE o # NoOp
    <3>1. Deliverable(s) /\ indexChan' = [indexChan EXCEPT ![s] = Put(indexChan[s], i, v)]
      BY <1>0, <1>5, <2>2 DEF Apply
    <3> HIDE DEF v, i
    <3>2. \A f \in Servers : \A k \in DOMAIN indexChan'[f] :
            \/ k \in DOMAIN indexChan[f] /\ indexChan'[f][k] = indexChan[f][k]
            \/ f = s /\ k = i /\ indexChan'[f][k] = v
      <4>1. /\ indexChan'[s] = Put(indexChan[s], i, v)
            /\ \A f \in Servers \ {s} : indexChan'[f] = indexChan[f]
        BY <1>0, <3>1
      <4>2. \A k \in DOMAIN indexChan'[s] :
              \/ k \in DOMAIN indexChan[s] /\ indexChan'[s][k] = indexChan[s][k]
              \/ k = i /\ indexChan'[s][k] = v
        BY <4>1, PutAt
      <4> QED
        BY <4>1, <4>2
    <3> QED
      BY <2>2, <3>1, <3>2 DEF ChannelStep, v
  <2> QED
    BY <2>1, <2>2
<1>6. ASSUME NEW s \in Servers, Restart(s)
      PROVE  \A f \in Servers : \A i \in DOMAIN indexChan'[f] : ChannelStep(f, i)
  <2>1. indexChan' = [indexChan EXCEPT ![s] = <<>>]
    BY <1>6 DEF Restart, NewServer
  <2>2. indexChan'[s] = <<>> /\ \A f \in Servers \ {s} : indexChan'[f] = indexChan[f]
    BY <1>0, <2>1
  <2> QED
    BY <2>2 DEF ChannelStep
<1>7. ASSUME NEW s \in Servers, RaftNext(s) PROVE UNCHANGED indexChan
  BY <1>7 DEF RaftNext, Elect, Commit, Replicate, serverVars
<1>8. UNCHANGED vars => UNCHANGED indexChan
  BY DEF vars, serverVars
<1> QED
  BY <1>1, <1>2, <1>3, <1>4, <1>5, <1>6, <1>7, <1>8 DEF Next, HandlerNext
=============================================================================
