---------------------------- MODULE MapReduceProofs ----------------------------
(***************************************************************************)
(* For any number of workers and tasks, any crashes and redo requests:     *)
(* what the coordinator keeps whatever the races, what holds when no       *)
(* execution outlasts its monitor, and that the output is then right.      *)
(***************************************************************************)
EXTENDS MapReduce, FiniteSetTheorems, TLAPS

\* Zenon is quicker on most steps; what needs arithmetic is left to the solver.
USE ZenonT(10), SMTT(20)

\* A thread that executes or reports a task.
Busy == {"mapOpen", "mapClose", "readAll", "outOpen", "outClose", "report", "mark", "count"}

\* The workers that passed the unlocked test of GiveReduceTask and have not
\* got the lock yet.
Givers == {w \in Workers : pc[w] = "giveReduce"}

CoreTypeOK ==
  /\ counter \in [Kinds -> Nat] /\ counter["map"] <= NMap
  /\ done \in [Kinds -> Nat]
  /\ complete \subseteq Tasks
  /\ pc \in [Threads -> PCs]
  /\ job \in [Workers -> Tasks \cup {Nil}]

RestTypeOK ==
  /\ coord \in {"up", "exited", "panic", "fatal"}
  /\ worker_book \subseteq Workers
  /\ nfiles \in [ReduceIds -> Nat]
  /\ alive \subseteq Workers
  /\ host \in [Tasks -> Workers \cup {Nil}]
  /\ good \in [Threads -> BOOLEAN]
  /\ file \in [MapIds -> Threads \cup {Nil, Full}]
  /\ out \in [ReduceIds -> [by : Threads \cup {Nil, Full}, right : BOOLEAN]]
  /\ redos \in Nat /\ crashes \in Nat /\ patient \in BOOLEAN

\* Once all reduce tasks are given out nobody passes the test any more, and
\* each of those who did is given one task too many.
Overshoot ==
  counter["reduce"] >= NReduce =>
    counter["reduce"] + Cardinality(Givers) < NReduce + Cardinality(Workers)

\* The task a loop was given has been counted; a thread at work has a task.
JobsCounted ==
  /\ \A w \in Workers : job[w] # Nil => job[w][2] < counter[job[w][1]]
  /\ \A w \in Workers : pc[w] \in Busy => job[w] # Nil

\* A task that was not given out has no monitor yet.
NotGivenYet == \A t \in Tasks : t[2] >= counter[t[1]] => pc[t] = "none"

Core ==
  /\ CoreTypeOK /\ Overshoot /\ JobsCounted /\ NotGivenYet
  /\ GivenOnce /\ UnfinishedIsWatched /\ CountNotBehind

-----------------------------------------------------------------------------
(* Facts about tasks and finite sets                                       *)

\* A task is its kind and its number.
LEMMA TaskFacts ==
  ASSUME NEW t \in Tasks
  PROVE  t[1] \in Kinds /\ t[2] \in Nat /\ t = <<t[1], t[2]>>
<1>1. Cardinality(Workers) \in Nat
  BY FS_CardinalityType, MapReduceAssumption
<1> QED
  BY <1>1, MapReduceAssumption DEF Tasks, MapIds, ReduceIds, Kinds

\* There are finitely many tasks and threads.
LEMMA Finite == IsFiniteSet(Tasks) /\ IsFiniteSet(Threads)
<1>1. Cardinality(Workers) \in Nat
  BY FS_CardinalityType, MapReduceAssumption
<1>2. IsFiniteSet(MapIds) /\ IsFiniteSet(ReduceIds)
  <2>1. NMap - 1 \in Int /\ NReduce + Cardinality(Workers) - 1 \in Int /\ 0 \in Int
    BY <1>1, MapReduceAssumption
  <2> QED
    BY <2>1, FS_Interval DEF MapIds, ReduceIds
<1>3. IsFiniteSet({"map"}) /\ IsFiniteSet({"reduce"})
  BY FS_Singleton
<1>4. IsFiniteSet({"map"} \X MapIds) /\ IsFiniteSet({"reduce"} \X ReduceIds)
  BY <1>2, <1>3, FS_Product
<1>5. IsFiniteSet(Tasks)
  BY <1>4, FS_Union DEF Tasks
<1> QED
  BY <1>5, FS_Union, MapReduceAssumption DEF Threads

\* The threads that count, the tasks that are complete and the workers about
\* to be given a reduce task are finitely many.
LEMMA FiniteParts ==
  ASSUME CoreTypeOK, NEW k \in Kinds
  PROVE  /\ IsFiniteSet(Counting(k)) /\ Cardinality(Counting(k)) \in Nat
         /\ IsFiniteSet(CompleteOf(k)) /\ Cardinality(CompleteOf(k)) \in Nat
         /\ IsFiniteSet(Givers) /\ Cardinality(Givers) \in Nat
         /\ Cardinality(Workers) \in Nat /\ Cardinality(Givers) <= Cardinality(Workers)
<1>1. Counting(k) \subseteq Threads /\ CompleteOf(k) \subseteq Tasks /\ Givers \subseteq Workers
  BY DEF Counting, CompleteOf, Givers, CoreTypeOK
<1> QED
  BY <1>1, Finite, FS_Subset, FS_CardinalityType, MapReduceAssumption

-----------------------------------------------------------------------------
(* Steps that only move a thread                                           *)

\* A thread goes on from l0 to l and is given no task.
Moves(th, l0, l) ==
  /\ pc[th] = l0 /\ pc' = [pc EXCEPT ![th] = l]
  /\ UNCHANGED <<counter, job>>

\* Where a thread may go, if it is not to begin a job, and is to end a monitor
\* only for a complete task.
MayMove(th, l0, l) ==
  /\ l0 # "none" /\ l \in PCs \ {"none"}
  /\ l = "off" => th \in complete \/ th \in Workers
  /\ l = "giveReduce" => counter["reduce"] < NReduce
  /\ l \in Busy /\ th \in Workers => l0 \in Busy

\* Such a step keeps the books, also if it marks or counts a task.
LEMMA MoveKeepsBooks ==
  ASSUME Core, NEW th \in Threads, NEW l0, NEW l, Moves(th, l0, l), MayMove(th, l0, l),
         done' \in [Kinds -> Nat], complete' \subseteq Tasks, complete \subseteq complete'
  PROVE  CoreTypeOK' /\ Overshoot' /\ JobsCounted' /\ NotGivenYet' /\ GivenOnce'
         /\ UnfinishedIsWatched'
<1>1. CoreTypeOK'
  BY DEF Core, CoreTypeOK, Moves, MayMove
<1>2. GivenOnce' /\ JobsCounted'
  BY DEF Core, CoreTypeOK, Moves, MayMove, GivenOnce, JobsCounted, Threads
<1>3. NotGivenYet'
  BY DEF Core, CoreTypeOK, Moves, MayMove, NotGivenYet, Threads
<1>4. UnfinishedIsWatched'
  BY MapReduceAssumption DEF Core, CoreTypeOK, Moves, MayMove, UnfinishedIsWatched, Threads
<1>5. Overshoot'
  <2>1. CASE l = "giveReduce"
    <3>1. counter["reduce"] \in Nat /\ counter' = counter
      BY DEF Core, CoreTypeOK, Kinds, Moves
    <3> QED
      BY <2>1, <3>1, MapReduceAssumption DEF Overshoot, MayMove
  <2>2. CASE l # "giveReduce"
    <3>1. Givers' \subseteq Givers
      BY <2>2 DEF Core, CoreTypeOK, Moves, Givers, Threads
    <3>2. "map" \in Kinds
      BY DEF Kinds
    <3>3. Cardinality(Givers') <= Cardinality(Givers) /\ Cardinality(Givers') \in Nat
      BY <3>1, <3>2, FiniteParts, FS_Subset, FS_CardinalityType DEF Core
    <3>4. Cardinality(Givers) \in Nat /\ Cardinality(Workers) \in Nat
      BY <3>2, FiniteParts DEF Core
    <3>5. counter["reduce"] \in Nat /\ counter' = counter
      BY DEF Core, CoreTypeOK, Kinds, Moves
    <3> QED
      BY <3>3, <3>4, <3>5, MapReduceAssumption DEF Core, Overshoot
  <2> QED
    BY <2>1, <2>2
<1> QED
  BY <1>1, <1>2, <1>3, <1>4, <1>5

\* A step that neither marks nor counts leaves the sums alone.
LEMMA MoveSums ==
  ASSUME Core, NEW th \in Threads, NEW l0, NEW l, Moves(th, l0, l), l0 # "count", l # "count",
         UNCHANGED <<done, complete>>, NEW k \in Kinds
  PROVE  Counting(k)' = Counting(k) /\ CompleteOf(k)' = CompleteOf(k)
BY DEF Core, CoreTypeOK, Moves, Counting, Job, CompleteOf

\* A step that neither marks nor counts keeps the invariant.
LEMMA MoveKeeps ==
  ASSUME Core, NEW th \in Threads, NEW l0, NEW l, Moves(th, l0, l), MayMove(th, l0, l),
         l0 # "count", l # "count", UNCHANGED <<done, complete>>
  PROVE  Core'
<1>1. CoreTypeOK' /\ Overshoot' /\ JobsCounted' /\ NotGivenYet' /\ GivenOnce'
      /\ UnfinishedIsWatched'
  BY MoveKeepsBooks DEF Core, CoreTypeOK
<1>2. \A k \in Kinds : Counting(k)' = Counting(k) /\ CompleteOf(k)' = CompleteOf(k)
  BY MoveSums
<1> QED
  BY <1>1, <1>2 DEF Core, CountNotBehind

\* A thread at work has a task (coordinator.go:160, 178: args.TaskNumber).
LEMMA BusyHasJob ==
  ASSUME Core, NEW th \in Threads, pc[th] \in Busy
  PROVE  Job(th) \in Tasks /\ Job(th)[1] \in Kinds
BY TaskFacts DEF Core, CoreTypeOK, JobsCounted, Job, Threads

\* The unlocked assignment of CheckLastMapDone and CheckLastReduceDone: one
\* task more is complete at most, one thread more is about to count.
LEMMA MarkKeeps ==
  ASSUME Core, NEW th \in Threads, Mark(th)
  PROVE  Core'
<1>1. Job(th) \in Tasks /\ Job(th)[1] \in Kinds
  BY BusyHasJob DEF Mark, Busy
<1>2. Moves(th, "mark", "count") /\ MayMove(th, "mark", "count")
  BY DEF Mark, Goto, Moves, MayMove, PCs, Busy
<1>3. CoreTypeOK' /\ Overshoot' /\ JobsCounted' /\ NotGivenYet' /\ GivenOnce'
      /\ UnfinishedIsWatched'
  BY <1>1, <1>2, MoveKeepsBooks DEF Mark, Core, CoreTypeOK
<1>4. CountNotBehind'
  <2> SUFFICES ASSUME NEW k \in Kinds
               PROVE  done'[k] + Cardinality(Counting(k)') >= Cardinality(CompleteOf(k)')
    BY DEF CountNotBehind
  <2>1. /\ IsFiniteSet(Counting(k)) /\ Cardinality(Counting(k)) \in Nat
        /\ IsFiniteSet(CompleteOf(k)) /\ Cardinality(CompleteOf(k)) \in Nat
    BY FiniteParts DEF Core
  <2>2. done'[k] = done[k] /\ done[k] \in Nat
    BY DEF Mark, Core, CoreTypeOK
  <2>3. done[k] + Cardinality(Counting(k)) >= Cardinality(CompleteOf(k))
    BY DEF Core, CountNotBehind
  <2>4. CASE k = Job(th)[1]
    <3>1. Counting(k)' = Counting(k) \cup {th} /\ th \notin Counting(k)
      BY <2>4 DEF Mark, Goto, Counting, Job, Core, CoreTypeOK
    <3>2. CompleteOf(k)' = CompleteOf(k) \cup {Job(th)}
      BY <2>4 DEF Mark, CompleteOf
    <3>3. Cardinality(Counting(k)') = Cardinality(Counting(k)) + 1
      BY <2>1, <3>1, FS_AddElement
    <3>4. /\ Cardinality(CompleteOf(k)') <= Cardinality(CompleteOf(k)) + 1
          /\ Cardinality(CompleteOf(k)') \in Nat
      <4>1. Cardinality(CompleteOf(k)') =
              IF Job(th) \in CompleteOf(k) THEN Cardinality(CompleteOf(k))
              ELSE Cardinality(CompleteOf(k)) + 1
        BY <2>1, <3>2, FS_AddElement
      <4> QED
        BY <2>1, <4>1
    <3> QED
      BY <2>1, <2>2, <2>3, <3>3, <3>4
  <2>5. CASE k # Job(th)[1]
    <3>1. Counting(k)' = Counting(k)
      BY <2>5 DEF Mark, Goto, Counting, Job, Core, CoreTypeOK
    <3>2. CompleteOf(k)' = CompleteOf(k)
      BY <2>5 DEF Mark, CompleteOf
    <3> QED
      BY <2>2, <2>3, <3>1, <3>2
  <2> QED
    BY <2>4, <2>5
<1> QED
  BY <1>3, <1>4 DEF Core

\* Where a thread goes after the RPC.
LEMMA ReturnMoves ==
  ASSUME Core, NEW th \in Threads, NEW l0 \in Busy, pc[th] = l0, Return(th),
         UNCHANGED <<counter, job>>
  PROVE  \E l \in {"sleep", "askMap", "askReduce"} : Moves(th, l0, l) /\ MayMove(th, l0, l)
BY DEF Return, Goto, Moves, MayMove, PCs, Busy

\* The locked increment of CheckLastMapDone and CheckLastReduceDone.
LEMMA CountKeeps ==
  ASSUME Core, NEW th \in Threads, Count(th)
  PROVE  Core'
<1>1. Job(th) \in Tasks /\ Job(th)[1] \in Kinds
  BY BusyHasJob DEF Count, Busy
<1>2. PICK l \in {"sleep", "askMap", "askReduce"} :
        Moves(th, "count", l) /\ MayMove(th, "count", l)
  BY ReturnMoves DEF Count, Busy
<1>3. done' \in [Kinds -> Nat] /\ complete' = complete
  BY <1>1 DEF Count, Core, CoreTypeOK
<1>4. CoreTypeOK' /\ Overshoot' /\ JobsCounted' /\ NotGivenYet' /\ GivenOnce'
      /\ UnfinishedIsWatched'
  BY <1>2, <1>3, MoveKeepsBooks DEF Core, CoreTypeOK
<1>5. CountNotBehind'
  <2> SUFFICES ASSUME NEW k \in Kinds
               PROVE  done'[k] + Cardinality(Counting(k)') >= Cardinality(CompleteOf(k)')
    BY DEF CountNotBehind
  <2>1. /\ IsFiniteSet(Counting(k)) /\ Cardinality(Counting(k)) \in Nat
        /\ CompleteOf(k)' = CompleteOf(k) /\ Cardinality(CompleteOf(k)) \in Nat
    BY <1>3, FiniteParts DEF Core, CompleteOf
  <2>2. done[k] \in Nat /\ done[k] + Cardinality(Counting(k)) >= Cardinality(CompleteOf(k))
    BY DEF Core, CoreTypeOK, CountNotBehind
  <2>3. CASE k = Job(th)[1]
    <3>1. Counting(k)' = Counting(k) \ {th} /\ th \in Counting(k)
      BY <1>2, <2>3 DEF Count, Moves, Counting, Job, Core, CoreTypeOK
    <3>2. Cardinality(Counting(k)') = Cardinality(Counting(k)) - 1
      BY <2>1, <3>1, FS_RemoveElement
    <3>3. done'[k] = done[k] + 1
      BY <2>3 DEF Count, Core, CoreTypeOK
    <3> QED
      BY <2>1, <2>2, <3>2, <3>3
  <2>4. CASE k # Job(th)[1]
    <3>1. Counting(k)' = Counting(k)
      BY <1>2, <2>4 DEF Count, Moves, Counting, Job, Core, CoreTypeOK
    <3>2. done'[k] = done[k]
      BY <2>4 DEF Count, Core, CoreTypeOK
    <3> QED
      BY <2>1, <2>2, <3>1, <3>2
  <2> QED
    BY <2>3, <2>4
<1> QED
  BY <1>4, <1>5 DEF Core

-----------------------------------------------------------------------------
(* Giving out a task                                                       *)

\* Worker w is given task t, the next of its kind, and t a monitor.
Given(w, t, l) ==
  /\ t[2] = counter[t[1]]
  /\ counter' = [counter EXCEPT ![t[1]] = @ + 1]
  /\ job' = [job EXCEPT ![w] = t]
  /\ pc' = [pc EXCEPT ![w] = l, ![t] = "sleep"]
  /\ UNCHANGED <<done, complete>>

\* A task that is given out has no thread of its own yet, nor the loop of any
\* other worker, and leaves the sums alone.
LEMMA GivenFresh ==
  ASSUME Core, NEW w \in Workers, NEW t \in Tasks, NEW l \in {"mapOpen", "readAll"},
         pc[w] \in {"giveMap", "giveReduce"}, Given(w, t, l)
  PROVE  /\ pc[t] = "none" /\ \A v \in Workers : job[v] # t
         /\ \A k \in Kinds : Counting(k)' = Counting(k) /\ CompleteOf(k)' = CompleteOf(k)
<1>0. /\ t[1] \in Kinds /\ t[2] \in Nat /\ w # t /\ t \notin Workers /\ w \notin Tasks
      /\ w \in Threads /\ t \in Threads /\ Nil # t
  BY TaskFacts, MapReduceAssumption DEF Threads
<1>1. pc[t] = "none"
  BY <1>0 DEF Core, CoreTypeOK, NotGivenYet, Given
<1>2. \A v \in Workers : job[v] # t
  BY <1>0 DEF Core, CoreTypeOK, JobsCounted, Given
<1>3. \A k \in Kinds : Counting(k)' = Counting(k)
  BY <1>0, <1>1 DEF Core, CoreTypeOK, Given, Counting, Job
<1>4. \A k \in Kinds : CompleteOf(k)' = CompleteOf(k)
  BY DEF Given, CompleteOf
<1> QED
  BY <1>1, <1>2, <1>3, <1>4

\* What does not depend on the kind of the task.
LEMMA GivenKeeps ==
  ASSUME Core, NEW w \in Workers, NEW t \in Tasks, NEW l \in {"mapOpen", "readAll"},
         pc[w] \in {"giveMap", "giveReduce"}, Given(w, t, l)
  PROVE  /\ counter' \in [Kinds -> Nat] /\ done' \in [Kinds -> Nat] /\ complete' \subseteq Tasks
         /\ pc' \in [Threads -> PCs] /\ job' \in [Workers -> Tasks \cup {Nil}]
         /\ JobsCounted' /\ NotGivenYet' /\ GivenOnce' /\ UnfinishedIsWatched' /\ CountNotBehind'
<1>0. /\ \A u \in Tasks : u[1] \in Kinds /\ u[2] \in Nat /\ u = <<u[1], u[2]>>
      /\ w \notin Tasks /\ t \notin Workers /\ w # t /\ Nil \notin Tasks
      /\ w \in Threads /\ t \in Threads
  BY TaskFacts, MapReduceAssumption DEF Threads
<1>1. /\ counter' \in [Kinds -> Nat] /\ done' \in [Kinds -> Nat] /\ complete' \subseteq Tasks
      /\ job' \in [Workers -> Tasks \cup {Nil}]
  BY <1>0 DEF Core, CoreTypeOK, Given
<1>2. pc' \in [Threads -> PCs]
  BY <1>0 DEF Core, CoreTypeOK, Given, PCs
<1>3. \A u \in Tasks : u[2] < counter'[u[1]] <=> u[2] < counter[u[1]] \/ u = t
  <2> SUFFICES ASSUME NEW u \in Tasks
               PROVE  u[2] < counter'[u[1]] <=> u[2] < counter[u[1]] \/ u = t
    OBVIOUS
  <2>1. u = t <=> u[1] = t[1] /\ u[2] = t[2]
    BY <1>0
  <2>2. counter[u[1]] \in Nat /\ u[2] \in Nat /\ t[2] \in Nat
    BY <1>0 DEF Core, CoreTypeOK
  <2>3. counter'[u[1]] = IF u[1] = t[1] THEN counter[u[1]] + 1 ELSE counter[u[1]]
    BY <1>0 DEF Core, CoreTypeOK, Given
  <2> QED
    BY <2>1, <2>2, <2>3 DEF Given
<1>4. \A v \in Workers : job[v] # t
  BY GivenFresh
<1>5. GivenOnce'
  BY <1>0, <1>4 DEF Core, CoreTypeOK, GivenOnce, Given
<1>6. JobsCounted'
  <2>1. \A v \in Workers : job'[v] # Nil => job'[v] \in Tasks /\ (job'[v] = t \/ job'[v] = job[v])
    BY <1>0 DEF Core, CoreTypeOK, Given
  <2>2. \A v \in Workers : job'[v] # Nil => job'[v][2] < counter'[job'[v][1]]
    <3> SUFFICES ASSUME NEW v \in Workers, job'[v] # Nil
                 PROVE  job'[v][2] < counter'[job'[v][1]]
      OBVIOUS
    <3>1. CASE job'[v] = t
      BY <1>3, <3>1
    <3>2. CASE job'[v] = job[v]
      <4>1. job[v] \in Tasks /\ job[v][2] < counter[job[v][1]]
        BY <2>1, <3>2 DEF Core, JobsCounted
      <4> QED
        BY <1>3, <3>2, <4>1
    <3> QED
      BY <2>1, <3>1, <3>2
  <2>3. \A v \in Workers : v # w => pc'[v] = pc[v] /\ job'[v] = job[v]
    BY <1>0 DEF Core, CoreTypeOK, Given, Threads
  <2>4. job'[w] = t
    BY DEF Core, CoreTypeOK, Given
  <2>5. \A v \in Workers : pc'[v] \in Busy => job'[v] # Nil
    BY <1>0, <2>3, <2>4 DEF Core, JobsCounted
  <2> QED
    BY <2>2, <2>5 DEF JobsCounted
<1>7. \A u \in Tasks : pc'[u] = IF u = t THEN "sleep" ELSE pc[u]
  BY <1>0 DEF Core, CoreTypeOK, Given, Threads
<1>8. \A u \in Tasks : /\ counter[u[1]] \in Nat /\ counter'[u[1]] \in Nat
                      /\ (u[2] >= counter[u[1]] <=> ~(u[2] < counter[u[1]]))
                      /\ (u[2] >= counter'[u[1]] <=> ~(u[2] < counter'[u[1]]))
  BY <1>0, <1>1 DEF Core, CoreTypeOK
<1>9. NotGivenYet'
  BY <1>3, <1>7, <1>8 DEF Core, NotGivenYet
<1>10. UnfinishedIsWatched'
  <2> SUFFICES ASSUME NEW u \in Tasks, u[2] < counter'[u[1]], u \notin complete
               PROVE  pc'[u] \notin {"none", "off"}
    BY DEF UnfinishedIsWatched, Given
  <2>1. CASE u = t
    BY <1>7, <2>1
  <2>2. CASE u # t
    <3>1. u[2] < counter[u[1]]
      BY <1>3, <2>2
    <3> QED
      BY <1>7, <2>2, <3>1 DEF Core, UnfinishedIsWatched
  <2> QED
    BY <2>1, <2>2
<1>11. CountNotBehind'
  BY GivenFresh DEF Core, CountNotBehind, Given
<1> QED
  BY <1>1, <1>2, <1>5, <1>6, <1>9, <1>10, <1>11

\* GiveMapTask (coordinator.go:79-95).
LEMMA GiveMapKeeps ==
  ASSUME Core, NEW w \in Workers, GiveMapTask(w)
  PROVE  Core'
<1>0. counter["map"] \in Nat
  BY DEF Core, CoreTypeOK, Kinds
<1>1. CASE counter["map"] >= NMap
  <2>1. Panic /\ UNCHANGED <<pc, job>>
    BY <1>0, <1>1, MapReduceAssumption DEF GiveMapTask
  <2> QED
    BY <2>1 DEF Panic, Core, CoreTypeOK, Overshoot, Givers, JobsCounted, NotGivenYet, GivenOnce,
                UnfinishedIsWatched, CountNotBehind, Counting, CompleteOf, Job
<1>2. CASE counter["map"] < NMap
  <2> DEFINE t == <<"map", counter["map"]>>
  <2>1. t \in Tasks /\ t[1] = "map" /\ t[2] = counter["map"] /\ counter["map"] \in Nat
    BY <1>2, MapReduceAssumption DEF Core, CoreTypeOK, Kinds, Tasks, MapIds
  <2>2. Given(w, t, "mapOpen") /\ pc[w] = "giveMap"
    BY <1>2, <2>1, MapReduceAssumption DEF GiveMapTask, Given
  <2> HIDE DEF t
  <2>3. /\ counter' \in [Kinds -> Nat] /\ done' \in [Kinds -> Nat] /\ complete' \subseteq Tasks
        /\ pc' \in [Threads -> PCs] /\ job' \in [Workers -> Tasks \cup {Nil}]
        /\ JobsCounted' /\ NotGivenYet' /\ GivenOnce' /\ UnfinishedIsWatched' /\ CountNotBehind'
    BY <2>1, <2>2, GivenKeeps
  <2>4. counter'["map"] = counter["map"] + 1 /\ counter'["reduce"] = counter["reduce"]
    BY <2>1, <2>2 DEF Given, Core, CoreTypeOK, Kinds
  <2>5. CoreTypeOK'
    BY <1>2, <2>1, <2>3, <2>4, MapReduceAssumption DEF CoreTypeOK
  <2>6. Givers' = Givers
    BY <2>1, <2>2, MapReduceAssumption DEF Given, Givers, Core, CoreTypeOK, Threads
  <2>7. Overshoot'
    BY <2>4, <2>6 DEF Core, Overshoot
  <2> QED
    BY <2>3, <2>5, <2>7 DEF Core
<1> QED
  BY <1>0, <1>1, <1>2, MapReduceAssumption

\* Who gets the lock of GiveReduceTask is given one of ReduceIds
\* (coordinator.go:122-135).
LEMMA NextReduceTask ==
  ASSUME Core, NEW w \in Workers, pc[w] = "giveReduce"
  PROVE  <<"reduce", counter["reduce"]>> \in Tasks
<1>1. counter["reduce"] \in Nat /\ "map" \in Kinds
  BY DEF Core, CoreTypeOK, Kinds
<1>2. Cardinality(Givers) \in Nat /\ Cardinality(Workers) \in Nat
  BY <1>1, FiniteParts DEF Core
<1> QED
  BY <1>1, <1>2, MapReduceAssumption DEF Core, Overshoot, Tasks, ReduceIds

\* GiveReduceTask (coordinator.go:113-139).
LEMMA GiveReduceKeeps ==
  ASSUME Core, NEW w \in Workers, GiveReduceTask(w)
  PROVE  Core'
<1> DEFINE t == <<"reduce", counter["reduce"]>>
           c == counter["reduce"]
<1>1. c \in Nat /\ "reduce" \in Kinds /\ "map" \in Kinds
  BY DEF Core, CoreTypeOK, Kinds
<1>2. /\ IsFiniteSet(Givers) /\ Cardinality(Givers) \in Nat /\ Cardinality(Workers) \in Nat
      /\ Cardinality(Givers) <= Cardinality(Workers) /\ w \in Givers
  BY <1>1, FiniteParts DEF Core, Givers, GiveReduceTask
<1>3. t \in Tasks /\ t[1] = "reduce" /\ t[2] = c
  BY NextReduceTask DEF GiveReduceTask
<1>4. Given(w, t, "readAll") /\ pc[w] = "giveReduce"
  BY <1>3 DEF GiveReduceTask, Given
<1> HIDE DEF t
<1>5. /\ counter' \in [Kinds -> Nat] /\ done' \in [Kinds -> Nat] /\ complete' \subseteq Tasks
      /\ pc' \in [Threads -> PCs] /\ job' \in [Workers -> Tasks \cup {Nil}]
      /\ JobsCounted' /\ NotGivenYet' /\ GivenOnce' /\ UnfinishedIsWatched' /\ CountNotBehind'
  BY <1>3, <1>4, GivenKeeps
<1>6. counter'["reduce"] = c + 1 /\ counter'["map"] = counter["map"]
  BY <1>1, <1>3, <1>4 DEF Given, Core, CoreTypeOK, Kinds
<1>7. CoreTypeOK'
  BY <1>5, <1>6 DEF Core, CoreTypeOK
<1>8. Givers' = Givers \ {w}
  BY <1>3, <1>4, MapReduceAssumption DEF Given, Givers, Core, CoreTypeOK, Threads
<1>9. Cardinality(Givers') = Cardinality(Givers) - 1
  BY <1>2, <1>8, FS_RemoveElement
<1>10. Overshoot'
  BY <1>1, <1>2, <1>6, <1>9, MapReduceAssumption DEF Core, Overshoot
<1> QED
  BY <1>5, <1>7, <1>10 DEF Core

-----------------------------------------------------------------------------
(* The remaining steps                                                     *)

coreVars == <<counter, done, complete, pc, job>>

\* A step that touches none of the books.
LEMMA SameKeeps == Core /\ UNCHANGED coreVars => Core'
BY DEF coreVars, Core, CoreTypeOK, Overshoot, Givers, JobsCounted, NotGivenYet, GivenOnce,
       UnfinishedIsWatched, CountNotBehind, Counting, CompleteOf, Job

\* The loop of Worker() (worker.go:50-109).
LEMMA WorkerKeeps ==
  ASSUME Core, NEW w \in Workers, Worker(w)
  PROVE  Core'
<1>0. w \in Threads
  BY DEF Threads
<1>1. CASE RegisterWorker(w)
  <2>1. Moves(w, "register", "askMap") /\ MayMove(w, "register", "askMap")
    BY <1>1 DEF RegisterWorker, Goto, Moves, MayMove, PCs, Busy
  <2> QED
    BY <1>0, <1>1, <2>1, MoveKeeps DEF RegisterWorker
<1>2. CASE AskMap(w)
  <2>1. PICK l \in {"askReduce", "giveMap"} : Moves(w, "askMap", l) /\ MayMove(w, "askMap", l)
    BY <1>2 DEF AskMap, Goto, Moves, MayMove, PCs, Busy, coordVars
  <2> QED
    BY <1>0, <1>2, <2>1, MoveKeeps DEF AskMap, coordVars
<1>3. CASE AskReduce(w)
  <2>1. Moves(w, "askReduce", "giveReduce") /\ MayMove(w, "askReduce", "giveReduce")
    BY <1>3 DEF AskReduce, Goto, Moves, MayMove, PCs, Busy, coordVars
  <2> QED
    BY <1>0, <1>3, <2>1, MoveKeeps DEF AskReduce, coordVars
<1> QED
  BY <1>1, <1>2, <1>3, GiveMapKeeps, GiveReduceKeeps DEF Worker

\* Executing and reporting a task (worker.go:111-260, coordinator.go:160-193).
LEMMA ExecKeeps ==
  ASSUME Core, NEW th \in Threads, map_exec(th) \/ reduce_exec(th)
  PROVE  Core'
<1>1. CASE OpenBuckets(th)
  <2>1. Moves(th, "mapOpen", "mapClose") /\ MayMove(th, "mapOpen", "mapClose")
    BY <1>1 DEF OpenBuckets, Goto, Moves, MayMove, PCs, Busy, coordVars
  <2> QED
    BY <1>1, <2>1, MoveKeeps DEF OpenBuckets, coordVars
<1>2. CASE CloseBuckets(th)
  <2>1. Moves(th, "mapClose", "report") /\ MayMove(th, "mapClose", "report")
    BY <1>2 DEF CloseBuckets, Goto, Moves, MayMove, PCs, Busy, coordVars
  <2> QED
    BY <1>2, <2>1, MoveKeeps DEF CloseBuckets, coordVars
<1>3. CASE read_intermediates(th)
  <2>1. Moves(th, "readAll", "outOpen") /\ MayMove(th, "readAll", "outOpen")
    BY <1>3 DEF read_intermediates, Goto, Moves, MayMove, PCs, Busy, coordVars
  <2> QED
    BY <1>3, <2>1, MoveKeeps DEF read_intermediates, coordVars
<1>4. CASE OpenOutput(th)
  <2>1. Moves(th, "outOpen", "outClose") /\ MayMove(th, "outOpen", "outClose")
    BY <1>4 DEF OpenOutput, Goto, Moves, MayMove, PCs, Busy, coordVars
  <2> QED
    BY <1>4, <2>1, MoveKeeps DEF OpenOutput, coordVars
<1>5. CASE WroteOutput(th)
  <2>1. Moves(th, "outClose", "report") /\ MayMove(th, "outClose", "report")
    BY <1>5 DEF WroteOutput, Goto, Moves, MayMove, PCs, Busy, coordVars
  <2> QED
    BY <1>5, <2>1, MoveKeeps DEF WroteOutput, coordVars
<1>6. CASE Test(th)
  <2>1. CASE Panic /\ UNCHANGED pc
    BY <1>6, <2>1, SameKeeps DEF Test, Panic, coreVars
  <2>2. CASE Return(th) /\ UNCHANGED coordVars
    <3>1. PICK l \in {"sleep", "askMap", "askReduce"} :
            Moves(th, "report", l) /\ MayMove(th, "report", l)
      BY <1>6, <2>2, ReturnMoves DEF Test, Busy, coordVars
    <3> QED
      BY <2>2, <3>1, MoveKeeps DEF coordVars
  <2>3. CASE Goto(th, "mark") /\ UNCHANGED coordVars
    <3>1. Moves(th, "report", "mark") /\ MayMove(th, "report", "mark")
      BY <1>6, <2>3 DEF Test, Goto, Moves, MayMove, PCs, Busy, coordVars
    <3> QED
      BY <2>3, <3>1, MoveKeeps DEF coordVars
  <2> QED
    BY <1>6, <2>1, <2>2, <2>3 DEF Test
<1> QED
  BY <1>1, <1>2, <1>3, <1>4, <1>5, <1>6, MarkKeeps, CountKeeps
     DEF map_exec, reduce_exec, CheckLastMapDone, CheckLastReduceDone, TestThenCount

\* Monitors (coordinator.go:97-111, 141-155, 195-260).
LEMMA MonitorKeeps ==
  ASSUME Core, NEW t \in Tasks, spawn_map_monitor(t) \/ spawn_reduce_monitor(t)
  PROVE  Core'
<1>0. t \in Threads /\ t \notin Workers
  BY MapReduceAssumption DEF Threads
<1>1. CASE Redo(t)
  <2>1. CASE Goto(t, "dial")
    <3>1. Moves(t, "sleep", "dial") /\ MayMove(t, "sleep", "dial")
      BY <1>1, <2>1 DEF Redo, Goto, Moves, MayMove, PCs, Busy
    <3> QED
      BY <1>0, <1>1, <3>1, MoveKeeps DEF Redo
  <2>2. CASE UNCHANGED pc
    BY <1>1, <2>2, SameKeeps DEF Redo, coreVars
  <2> QED
    BY <1>1, <2>1, <2>2 DEF Redo, callWorker
<1>2. CASE Dial(t)
  <2>1. CASE UNCHANGED pc
    BY <1>2, <2>1, SameKeeps DEF Dial, coreVars
  <2>2. CASE OnWorker(t) /\ Goto(t, IF t[1] = "map" THEN "mapOpen" ELSE "readAll")
    <3>1. PICK l \in {"mapOpen", "readAll"} : Moves(t, "dial", l) /\ MayMove(t, "dial", l)
      BY <1>0, <1>2, <2>2 DEF Dial, Goto, Moves, MayMove, PCs, Busy
    <3> QED
      BY <1>0, <1>2, <3>1, MoveKeeps DEF Dial
  <2> QED
    BY <1>2, <2>1, <2>2 DEF Dial
<1>3. CASE RedoLost(t)
  <2>1. PICK l0 \in Busy \ {"count"} : Moves(t, l0, "sleep") /\ MayMove(t, l0, "sleep")
    BY <1>0, <1>3 DEF RedoLost, Goto, Moves, MayMove, PCs, Busy, coordVars
  <2> QED
    BY <1>0, <1>3, <2>1, MoveKeeps DEF RedoLost, coordVars
<1>4. CASE MonitorEnds(t)
  <2>1. CASE t \in complete /\ Goto(t, "off") /\ UNCHANGED coordVars
    <3>1. Moves(t, "sleep", "off") /\ MayMove(t, "sleep", "off")
      BY <1>0, <1>4, <2>1 DEF MonitorEnds, Goto, Moves, MayMove, PCs, Busy, coordVars
    <3> QED
      BY <1>0, <2>1, <3>1, MoveKeeps DEF coordVars
  <2>2. CASE Panic /\ UNCHANGED pc
    BY <1>4, <2>2, SameKeeps DEF MonitorEnds, Panic, coreVars
  <2> QED
    BY <1>4, <2>1, <2>2 DEF MonitorEnds
<1> QED
  BY <1>1, <1>2, <1>3, <1>4 DEF spawn_map_monitor, spawn_reduce_monitor

-----------------------------------------------------------------------------
(* The rest of the type invariant                                          *)

\* Each action keeps the type of what is not in the books.
LEMMA RestKeeps ==
  ASSUME Core, RestTypeOK, [Next]_vars
  PROVE  RestTypeOK'
<1>0. counter["map"] \in Nat
  BY DEF Core, CoreTypeOK, Kinds
<1>1. CASE UNCHANGED vars
  BY <1>1 DEF vars, coordVars, fileVars, boundVars, RestTypeOK
<1>2. ASSUME NEW w \in Workers, Worker(w) PROVE RestTypeOK'
  <2>1. CASE RegisterWorker(w)
    BY <2>1 DEF RegisterWorker, RestTypeOK, fileVars, boundVars
  <2>2. CASE AskMap(w)
    BY <2>2 DEF AskMap, RestTypeOK, coordVars, fileVars, boundVars
  <2>3. CASE GiveMapTask(w)
    BY <2>3 DEF GiveMapTask, Panic, RestTypeOK, fileVars, boundVars
  <2>4. CASE AskReduce(w)
    BY <2>4 DEF AskReduce, RestTypeOK, coordVars, fileVars, boundVars
  <2>5. CASE GiveReduceTask(w)
    <3>1. nfiles' \in [ReduceIds -> Nat]
      BY <1>0, <2>5 DEF GiveReduceTask, RestTypeOK
    <3> QED
      BY <2>5, <3>1 DEF GiveReduceTask, RestTypeOK, fileVars, boundVars
  <2> QED
    BY <1>2, <2>1, <2>2, <2>3, <2>4, <2>5 DEF Worker
<1>3. ASSUME NEW w \in Workers, Crash(w) PROVE RestTypeOK'
  BY <1>3 DEF Crash, RestTypeOK, coordVars, fileVars
<1>4. ASSUME NEW th \in Threads, map_exec(th) \/ reduce_exec(th) PROVE RestTypeOK'
  <2>1. CASE OpenBuckets(th)
    BY <2>1 DEF OpenBuckets, RestTypeOK, coordVars, boundVars
  <2>2. CASE CloseBuckets(th)
    BY <2>2 DEF CloseBuckets, RestTypeOK, coordVars, boundVars
  <2>3. CASE read_intermediates(th)
    <3>1. PICK g \in BOOLEAN : good' = [good EXCEPT ![th] = g]
      BY <2>3 DEF read_intermediates, ReadOutcomes
    <3>2. good' \in [Threads -> BOOLEAN]
      BY <3>1 DEF RestTypeOK
    <3> QED
      BY <2>3, <3>2 DEF read_intermediates, RestTypeOK, coordVars, boundVars
  <2>4. CASE OpenOutput(th)
    <3>1. PICK r \in BOOLEAN : out' = [out EXCEPT ![Job(th)[2]] = [by |-> th, right |-> r]]
      BY <2>4 DEF OpenOutput
    <3>2. out' \in [ReduceIds -> [by : Threads \cup {Nil, Full}, right : BOOLEAN]]
      BY <3>1 DEF RestTypeOK
    <3> QED
      BY <2>4, <3>2 DEF OpenOutput, RestTypeOK, coordVars, boundVars
  <2>5. CASE WroteOutput(th)
    <3>1. out' \in [ReduceIds -> [by : Threads \cup {Nil, Full}, right : BOOLEAN]]
      BY <2>5 DEF WroteOutput, RestTypeOK
    <3> QED
      BY <2>5, <3>1 DEF WroteOutput, RestTypeOK, coordVars, boundVars
  <2>6. CASE Test(th) \/ Mark(th) \/ Count(th)
    BY <2>6 DEF Test, Mark, Count, Panic, RestTypeOK, coordVars, fileVars, boundVars
  <2> QED
    BY <1>4, <2>1, <2>2, <2>3, <2>4, <2>5, <2>6
       DEF map_exec, reduce_exec, CheckLastMapDone, CheckLastReduceDone, TestThenCount
<1>5. ASSUME NEW th \in Threads, DialFails(th) PROVE RestTypeOK'
  BY <1>5 DEF DialFails, RestTypeOK, coordVars, fileVars, boundVars
<1>6. ASSUME NEW t \in Tasks, spawn_map_monitor(t) \/ spawn_reduce_monitor(t) PROVE RestTypeOK'
  <2>1. CASE Redo(t)
    BY <2>1 DEF Redo, callWorker, RestTypeOK, fileVars
  <2>2. CASE Dial(t)
    BY <2>2 DEF Dial, RestTypeOK, fileVars, boundVars
  <2>3. CASE RedoLost(t) \/ MonitorEnds(t)
    BY <2>3 DEF RedoLost, MonitorEnds, Panic, RestTypeOK, coordVars, fileVars, boundVars
  <2> QED
    BY <1>6, <2>1, <2>2, <2>3 DEF spawn_map_monitor, spawn_reduce_monitor
<1>7. CASE Exit
  BY <1>7 DEF Exit, RestTypeOK, fileVars, boundVars
<1> QED
  BY <1>1, <1>2, <1>3, <1>4, <1>5, <1>6, <1>7 DEF Next

-----------------------------------------------------------------------------
(* The theorems                                                            *)

\* MakeCoordinator and the start of the workers (coordinator.go:263-293).
LEMMA InitCore == Init => Core /\ RestTypeOK
<1> SUFFICES ASSUME Init PROVE Core /\ RestTypeOK
  OBVIOUS
<1>1. RestTypeOK
  BY MapReduceAssumption DEF Init, MakeCoordinator, RestTypeOK
<1>2. CoreTypeOK
  BY MapReduceAssumption DEF Init, MakeCoordinator, CoreTypeOK, Kinds, PCs
<1>3. JobsCounted /\ GivenOnce
  BY MapReduceAssumption DEF Init, JobsCounted, GivenOnce, Busy, Threads
<1>4. NotGivenYet /\ UnfinishedIsWatched
  BY TaskFacts, MapReduceAssumption
     DEF Init, MakeCoordinator, NotGivenYet, UnfinishedIsWatched, Threads
<1>5. Overshoot
  BY MapReduceAssumption DEF Init, MakeCoordinator, Overshoot, Kinds
<1>6. CountNotBehind
  <2> SUFFICES ASSUME NEW k \in Kinds
               PROVE  done[k] + Cardinality(Counting(k)) >= Cardinality(CompleteOf(k))
    BY DEF CountNotBehind
  <2>1. CompleteOf(k) = {} /\ done[k] = 0
    BY DEF Init, MakeCoordinator, CompleteOf
  <2>2. Cardinality(CompleteOf(k)) = 0
    BY <2>1, FS_EmptySet
  <2>3. Cardinality(Counting(k)) \in Nat
    BY <1>2, FiniteParts
  <2> QED
    BY <2>1, <2>2, <2>3
<1> QED
  BY <1>1, <1>2, <1>3, <1>4, <1>5, <1>6 DEF Core

\* Every step of a worker, of the coordinator or of a crash keeps the books.
LEMMA StepCore == Core /\ RestTypeOK /\ [Next]_vars => (Core /\ RestTypeOK)'
<1> SUFFICES ASSUME Core, RestTypeOK, [Next]_vars PROVE Core' /\ RestTypeOK'
  OBVIOUS
<1>1. Core'
  <2>1. CASE UNCHANGED vars
    BY <2>1, SameKeeps DEF vars, coordVars, coreVars
  <2>2. CASE (\E w \in Workers : Crash(w)) \/ (\E th \in Threads : DialFails(th)) \/ Exit
    BY <2>2, SameKeeps DEF Crash, DialFails, Exit, coordVars, coreVars
  <2> QED
    BY <2>1, <2>2, WorkerKeeps, ExecKeeps, MonitorKeeps DEF Next
<1> QED
  BY <1>1, RestKeeps

\* The invariant of the coordinator, for any workers, tasks, crashes and redo
\* requests (coordinator.go:79-193).
THEOREM MRInvariant == Spec => [](Core /\ RestTypeOK)
BY InitCore, StepCore, PTL DEF Spec

\* counter_map never passes the number of map tasks, and no more reduce tasks
\* are given out, too many, than there are other workers (coordinator.go:79,
\* 114-135): a loop is never given a task beyond ReduceIds.
THEOREM MRTypeCorrect == Spec => []TypeOK
<1>1. Core /\ RestTypeOK => TypeOK
  BY DEF Core, CoreTypeOK, RestTypeOK, TypeOK
<1> QED
  BY <1>1, MRInvariant, PTL

\* The loops of two workers are never given the same task (coordinator.go:
\* 85-91, 122-135).
THEOREM MRGivenOnce == Spec => []GivenOnce
<1>1. Core => GivenOnce
  BY DEF Core
<1> QED
  BY <1>1, MRInvariant, PTL

\* No task that was given out and is not complete is left without a monitor
\* (coordinator.go:90, 97-111, 133, 141-155).
THEOREM MRWatched == Spec => []UnfinishedIsWatched
<1>1. Core => UnfinishedIsWatched
  BY DEF Core
<1> QED
  BY <1>1, MRInvariant, PTL

\* done_map and done_reduce never fall behind the marks, whatever the races of
\* the unlocked test (coordinator.go:160-193).
THEOREM MRCounted == Spec => []CountNotBehind
<1>1. Core => CountNotBehind
  BY DEF Core
<1> QED
  BY <1>1, MRInvariant, PTL

-----------------------------------------------------------------------------
(***************************************************************************)
(* What holds when no execution outlasts its monitor: a task has one       *)
(* executor at a time, so that the counters are exact, and done_map ==     *)
(* nMap means what GiveReduceTask takes it for.                            *)
(***************************************************************************)

Executing == Busy \ {"mark", "count"}

\* Thread th may still complete its task.
Live(th) == pc[th] \in {"mark", "count"} \/ (pc[th] \in Executing /\ OnWorker(th))

\* A task has one executor at a time ...
Solo == \A u, v \in Threads : Live(u) /\ Live(v) /\ Job(u) = Job(v) => u = v

\* ... and none while its monitor looks for one.
DialAlone == \A t \in Tasks : pc[t] = "dial" => \A u \in Threads : Live(u) => Job(u) # t

\* The test that precedes the mark still holds at the mark.
MarkFirst == \A th \in Threads : pc[th] = "mark" => Job(th) \notin complete

Exact == \A k \in Kinds : done[k] + Cardinality(Counting(k)) = Cardinality(CompleteOf(k))

MapsComplete == \A m \in MapIds : <<"map", m>> \in complete

\* Whoever passed the test of GiveReduceTask found all maps complete.
ReduceLast == (counter["reduce"] > 0 \/ Givers # {}) => MapsComplete

OneExecutor == Solo /\ DialAlone /\ MarkFirst

PatientInv == patient => OneExecutor /\ Exact /\ ReduceLast

\* What each step is shown to keep.
Inv == Core /\ RestTypeOK /\ PatientInv

-----------------------------------------------------------------------------

\* If nobody begins to work and nobody to dial, nobody is joined.
LEMMA NobodyNew ==
  ASSUME Solo, DialAlone,
         \A u \in Threads : Live(u)' => Live(u) /\ Job(u)' = Job(u),
         \A t \in Tasks : pc'[t] = "dial" => pc[t] = "dial"
  PROVE  Solo' /\ DialAlone'
BY DEF Solo, DialAlone

\* The steps of a thread that goes on, returns or ends.
LEMMA PatientMove ==
  ASSUME Inv, patient, patient' = patient, NEW th \in Threads, NEW l0, NEW l,
         Moves(th, l0, l), MayMove(th, l0, l), UNCHANGED <<done, complete, host, alive>>,
         l0 # "count", l \notin {"count", "dial"},
         l \in Executing => l0 \in Executing,
         l = "mark" => Live(th) /\ Job(th) \notin complete,
         l = "giveReduce" => MapsComplete
  PROVE  PatientInv'
<1>0. OneExecutor /\ Exact /\ ReduceLast /\ CoreTypeOK
  BY DEF Inv, PatientInv, Core
<1>1. \A u \in Threads : Job(u)' = Job(u) /\ OnWorker(u)' = OnWorker(u)
  BY DEF Moves, Job, OnWorker, Host
<1>2. \A u \in Threads : u # th => pc'[u] = pc[u]
  BY <1>0 DEF Moves, CoreTypeOK
<1>3. pc[th] = l0 /\ pc'[th] = l
  BY <1>0 DEF Moves, CoreTypeOK
<1>4. \A u \in Threads : Live(u)' => Live(u)
  BY <1>1, <1>2, <1>3 DEF Live, Executing, Busy
<1>5. \A t \in Tasks : pc'[t] = "dial" => pc[t] = "dial"
  BY <1>2, <1>3 DEF Threads
<1>6. Solo' /\ DialAlone'
  BY <1>0, <1>1, <1>4, <1>5, NobodyNew DEF OneExecutor
<1>7. MarkFirst'
  BY <1>0, <1>1, <1>2, <1>3 DEF OneExecutor, MarkFirst
<1>8. Exact'
  BY <1>0, MoveSums DEF Inv, Exact
<1>9. ReduceLast'
  <2>1. CASE l = "giveReduce"
    BY <2>1 DEF ReduceLast, MapsComplete
  <2>2. CASE l # "giveReduce"
    <3>1. Givers' \subseteq Givers
      BY <1>2, <1>3, <2>2 DEF Givers, Threads
    <3> QED
      BY <1>0, <3>1 DEF ReduceLast, MapsComplete, Moves
  <2> QED
    BY <2>1, <2>2
<1> QED
  BY <1>6, <1>7, <1>8, <1>9 DEF PatientInv, OneExecutor

\* A step that only ends processes, or changes nothing here.
LEMMA PatientSame ==
  ASSUME Inv, patient, patient' = patient, UNCHANGED coreVars, UNCHANGED host,
         alive' \subseteq alive
  PROVE  PatientInv'
<1>0. OneExecutor /\ Exact /\ ReduceLast
  BY DEF Inv, PatientInv
<1>1. \A u \in Threads : Job(u)' = Job(u) /\ pc'[u] = pc[u] /\ (OnWorker(u)' => OnWorker(u))
  BY DEF coreVars, Job, OnWorker, Host
<1>2. \A u \in Threads : Live(u)' => Live(u)
  BY <1>1 DEF Live
<1>3. Solo' /\ DialAlone'
  BY <1>0, <1>1, <1>2, NobodyNew DEF OneExecutor, Threads
<1>4. MarkFirst'
  BY <1>0, <1>1 DEF OneExecutor, MarkFirst, coreVars
<1>5. Exact' /\ ReduceLast'
  BY <1>0 DEF Exact, ReduceLast, MapsComplete, Givers, Counting, CompleteOf, Job, coreVars
<1> QED
  BY <1>3, <1>4, <1>5 DEF PatientInv, OneExecutor

-----------------------------------------------------------------------------
(* Giving out, asking again                                                *)

\* A task that is given out is nobody else's (coordinator.go:79-95, 113-139).
LEMMA PatientGiven ==
  ASSUME Inv, patient, patient' = patient, NEW w \in Workers, NEW t \in Tasks,
         NEW l \in {"mapOpen", "readAll"}, pc[w] \in {"giveMap", "giveReduce"},
         Given(w, t, l), UNCHANGED <<host, alive>>, t[1] = "reduce" => MapsComplete
  PROVE  PatientInv'
<1>0. /\ OneExecutor /\ Exact /\ ReduceLast /\ CoreTypeOK /\ Core
      /\ w \in Threads /\ t \in Threads /\ w # t /\ t \notin Workers /\ w \notin Tasks
  BY MapReduceAssumption DEF Inv, PatientInv, Core, Threads
<1>1. /\ pc[t] = "none" /\ \A v \in Workers : job[v] # t
      /\ \A k \in Kinds : Counting(k)' = Counting(k) /\ CompleteOf(k)' = CompleteOf(k)
  BY <1>0, GivenFresh
<1>2. pc'[w] = l /\ pc'[t] = "sleep" /\ \A u \in Threads \ {w, t} : pc'[u] = pc[u]
  BY <1>0 DEF Given, CoreTypeOK
<1>3. Job(w)' = t /\ \A u \in Threads \ {w} : Job(u)' = Job(u)
  BY <1>0 DEF Given, CoreTypeOK, Job, Threads
<1>4. \A u \in Threads : OnWorker(u)' = OnWorker(u)
  BY DEF OnWorker, Host
<1>5. \A u \in Threads \ {w} : Live(u)' => u # t /\ Live(u) /\ Job(u)' # t
  BY <1>0, <1>1, <1>2, <1>3, <1>4 DEF Live, Executing, Busy, Job, Threads
<1>6. Solo'
  BY <1>0, <1>3, <1>5 DEF OneExecutor, Solo
<1>7. DialAlone'
  <2> SUFFICES ASSUME NEW d \in Tasks, pc'[d] = "dial", NEW u \in Threads, Live(u)'
               PROVE  Job(u)' # d
    BY DEF DialAlone
  <2>1. d # t /\ d # w /\ pc[d] = "dial"
    BY <1>0, <1>2 DEF Threads
  <2>2. CASE u = w
    BY <1>3, <2>1, <2>2
  <2>3. CASE u # w
    BY <1>0, <1>3, <1>5, <2>1, <2>3 DEF OneExecutor, DialAlone
  <2> QED
    BY <2>2, <2>3
<1>8. MarkFirst'
  BY <1>0, <1>2, <1>3 DEF OneExecutor, MarkFirst, Given
<1>9. Exact'
  BY <1>0, <1>1 DEF Exact, Given
<1>10. ReduceLast'
  <2>1. Givers' \subseteq Givers
    BY <1>0, <1>2 DEF Givers, Threads
  <2>2. t[1] # "reduce" => counter'["reduce"] = counter["reduce"]
    BY <1>0 DEF Given, CoreTypeOK, Kinds
  <2> QED
    BY <1>0, <2>1, <2>2 DEF ReduceLast, MapsComplete, Given
<1> QED
  BY <1>6, <1>7, <1>8, <1>9, <1>10 DEF PatientInv, OneExecutor

\* A patient monitor finds the work lost before it looks for another worker
\* (coordinator.go:97-111, 195-226).
LEMMA PatientRedo ==
  ASSUME Inv, patient, patient' = patient, NEW t \in Tasks, Redo(t)
  PROVE  PatientInv'
<1>0. /\ OneExecutor /\ Exact /\ ReduceLast /\ CoreTypeOK /\ Core /\ RestTypeOK
      /\ t \in Threads /\ t \notin Workers
  BY MapReduceAssumption DEF Inv, PatientInv, Core, Threads
<1>1. CASE UNCHANGED <<pc, host>>
  BY <1>1, PatientSame DEF Redo, coreVars
<1>2. CASE Goto(t, "dial") /\ \E w \in Workers : host' = [host EXCEPT ![t] = w]
  <2>1. \A u \in Threads : Live(u) => Job(u) # t
    BY DEF Redo, AtWork, Live, Executing, Busy
  <2>2. /\ pc[t] = "sleep" /\ pc'[t] = "dial"
        /\ \A u \in Threads \ {t} : pc'[u] = pc[u]
    BY <1>0, <1>2 DEF Redo, Goto, CoreTypeOK
  <2>3. \A u \in Threads : Job(u)' = Job(u)
    BY DEF Redo, Job
  <2>4. \A u \in Threads \ {t} : OnWorker(u)' = OnWorker(u)
    BY <1>0, <1>2 DEF Redo, OnWorker, Host, RestTypeOK, Threads
  <2>5. \A u \in Threads : Live(u)' => Live(u)
    BY <2>2, <2>4 DEF Live, Executing, Busy
  <2>6. Solo' /\ MarkFirst'
    BY <1>0, <2>2, <2>3, <2>5 DEF OneExecutor, Solo, MarkFirst, Redo
  <2>7. DialAlone'
    BY <1>0, <2>1, <2>2, <2>3, <2>5 DEF OneExecutor, DialAlone, Threads
  <2>8. Moves(t, "sleep", "dial") /\ UNCHANGED <<done, complete>>
    BY <1>2, <2>2 DEF Redo, Moves, Goto
  <2>9. Exact'
    BY <1>0, <2>8, MoveSums DEF Exact
  <2>10. ReduceLast'
    <3>1. Givers' = Givers
      BY <1>0, <2>2 DEF Givers, Threads
    <3> QED
      BY <1>0, <3>1 DEF ReduceLast, MapsComplete, Redo
  <2> QED
    BY <2>6, <2>7, <2>9, <2>10 DEF PatientInv, OneExecutor
<1> QED
  BY <1>0, <1>1, <1>2 DEF Redo, callWorker, RestTypeOK

\* The redo begins, and nobody else is at it (coordinator.go:228-260).
LEMMA PatientDial ==
  ASSUME Inv, patient, patient' = patient, NEW t \in Tasks, Dial(t)
  PROVE  PatientInv'
<1>0. /\ OneExecutor /\ Exact /\ ReduceLast /\ CoreTypeOK /\ Core
      /\ t \in Threads /\ t \notin Workers
  BY MapReduceAssumption DEF Inv, PatientInv, Core, Threads
<1>1. CASE UNCHANGED pc
  BY <1>1, PatientSame DEF Dial, coreVars
<1>2. CASE \E l \in {"mapOpen", "readAll"} : Goto(t, l)
  <2>1. PICK l \in {"mapOpen", "readAll"} : Goto(t, l)
    BY <1>2
  <2>2. /\ pc[t] = "dial" /\ pc'[t] = l
        /\ \A u \in Threads \ {t} : pc'[u] = pc[u]
    BY <1>0, <2>1 DEF Dial, Goto, CoreTypeOK
  <2>3. \A u \in Threads : Job(u)' = Job(u) /\ OnWorker(u)' = OnWorker(u)
    BY DEF Dial, Job, OnWorker, Host
  <2>4. Job(t)' = t
    BY <1>0 DEF Job
  <2>5. \A u \in Threads \ {t} : Live(u)' => Live(u) /\ Job(u)' # t
    BY <1>0, <2>2, <2>3 DEF Live, OneExecutor, DialAlone
  <2>6. Solo' /\ MarkFirst'
    BY <1>0, <2>2, <2>3, <2>4, <2>5 DEF OneExecutor, Solo, MarkFirst, Dial
  <2>7. DialAlone'
    <3> SUFFICES ASSUME NEW d \in Tasks, pc'[d] = "dial", NEW u \in Threads, Live(u)'
                 PROVE  Job(u)' # d
      BY DEF DialAlone
    <3>1. d # t /\ pc[d] = "dial"
      BY <2>1, <2>2 DEF Threads
    <3> QED
      BY <1>0, <2>3, <2>4, <2>5, <3>1 DEF OneExecutor, DialAlone
  <2>8. Moves(t, "dial", l) /\ UNCHANGED <<done, complete>> /\ l # "count"
    BY <2>1, <2>2 DEF Dial, Moves, Goto
  <2>9. Exact'
    BY <1>0, <2>8, MoveSums DEF Exact
  <2>10. ReduceLast'
    <3>1. Givers' = Givers
      BY <1>0, <2>2 DEF Givers, Threads
    <3> QED
      BY <1>0, <3>1 DEF ReduceLast, MapsComplete, Dial
  <2> QED
    BY <2>6, <2>7, <2>9, <2>10 DEF PatientInv, OneExecutor
<1> QED
  BY <1>1, <1>2 DEF Dial

-----------------------------------------------------------------------------
(* Marking and counting                                                    *)

\* The task is not complete when it is marked: one more of each
\* (coordinator.go:163, 181).
LEMMA PatientMark ==
  ASSUME Inv, patient, patient' = patient, NEW th \in Threads, Mark(th)
  PROVE  PatientInv'
<1>0. OneExecutor /\ Exact /\ ReduceLast /\ CoreTypeOK /\ Core
  BY DEF Inv, PatientInv, Core
<1>1. pc[th] = "mark" /\ pc'[th] = "count" /\ \A u \in Threads \ {th} : pc'[u] = pc[u]
  BY <1>0 DEF Mark, Goto, CoreTypeOK
<1>2. \A u \in Threads : Job(u)' = Job(u) /\ OnWorker(u)' = OnWorker(u)
  BY DEF Mark, Job, OnWorker, Host
<1>3. Live(th) /\ \A u \in Threads : Live(u)' => Live(u)
  BY <1>1, <1>2 DEF Live
<1>4. Solo' /\ DialAlone'
  BY <1>0, <1>1, <1>2, <1>3, NobodyNew DEF OneExecutor, Threads
<1>5. MarkFirst'
  <2> SUFFICES ASSUME NEW u \in Threads, pc'[u] = "mark"
               PROVE  Job(u)' \notin complete'
    BY DEF MarkFirst
  <2>1. u # th /\ pc[u] = "mark" /\ Live(u)
    BY <1>1 DEF Live
  <2>2. Job(u) # Job(th) /\ Job(u) \notin complete
    BY <1>0, <1>3, <2>1 DEF OneExecutor, Solo, MarkFirst
  <2> QED
    BY <1>2, <2>2 DEF Mark
<1>6. Exact'
  <2> SUFFICES ASSUME NEW k \in Kinds
               PROVE  done'[k] + Cardinality(Counting(k)') = Cardinality(CompleteOf(k)')
    BY DEF Exact
  <2>1. /\ IsFiniteSet(Counting(k)) /\ Cardinality(Counting(k)) \in Nat
        /\ IsFiniteSet(CompleteOf(k)) /\ Cardinality(CompleteOf(k)) \in Nat
    BY <1>0, FiniteParts
  <2>2. /\ done'[k] = done[k] /\ done[k] \in Nat
        /\ done[k] + Cardinality(Counting(k)) = Cardinality(CompleteOf(k))
    BY <1>0 DEF Mark, CoreTypeOK, Exact
  <2>3. CASE k = Job(th)[1]
    <3>1. Counting(k)' = Counting(k) \cup {th} /\ th \notin Counting(k)
      BY <1>1, <1>2, <2>3 DEF Counting
    <3>2. CompleteOf(k)' = CompleteOf(k) \cup {Job(th)} /\ Job(th) \notin CompleteOf(k)
      BY <1>0, <1>1, <2>3 DEF Mark, CompleteOf, OneExecutor, MarkFirst
    <3>3. /\ Cardinality(Counting(k)') = Cardinality(Counting(k)) + 1
          /\ Cardinality(CompleteOf(k)') = Cardinality(CompleteOf(k)) + 1
      BY <2>1, <3>1, <3>2, FS_AddElement
    <3> QED
      BY <2>1, <2>2, <3>3
  <2>4. CASE k # Job(th)[1]
    <3>1. Counting(k)' = Counting(k)
      BY <1>1, <1>2, <2>4 DEF Counting
    <3>2. CompleteOf(k)' = CompleteOf(k)
      BY <2>4 DEF Mark, CompleteOf
    <3> QED
      BY <2>2, <3>1, <3>2
  <2> QED
    BY <2>3, <2>4
<1>7. ReduceLast'
  <2>1. Givers' = Givers
    BY <1>1 DEF Givers, Threads
  <2> QED
    BY <1>0, <2>1 DEF ReduceLast, MapsComplete, Mark
<1> QED
  BY <1>4, <1>5, <1>6, <1>7 DEF PatientInv, OneExecutor

\* A thread that counted is through (coordinator.go:164-169, 182-187).
LEMMA PatientCount ==
  ASSUME Inv, patient, patient' = patient, NEW th \in Threads, Count(th)
  PROVE  PatientInv'
<1>0. OneExecutor /\ Exact /\ ReduceLast /\ CoreTypeOK /\ Core
  BY DEF Inv, PatientInv, Core
<1>1. /\ pc[th] = "count" /\ pc'[th] \in {"sleep", "askMap", "askReduce"}
      /\ \A u \in Threads \ {th} : pc'[u] = pc[u]
  BY <1>0 DEF Count, Return, Goto, CoreTypeOK
<1>2. \A u \in Threads : Job(u)' = Job(u) /\ OnWorker(u)' = OnWorker(u)
  BY DEF Count, Job, OnWorker, Host
<1>3. \A u \in Threads : Live(u)' => Live(u)
  BY <1>1, <1>2 DEF Live
<1>4. Solo' /\ DialAlone'
  BY <1>0, <1>1, <1>2, <1>3, NobodyNew DEF OneExecutor, Threads
<1>5. MarkFirst'
  BY <1>0, <1>1, <1>2 DEF OneExecutor, MarkFirst, Count
<1>6. Exact'
  <2> SUFFICES ASSUME NEW k \in Kinds
               PROVE  done'[k] + Cardinality(Counting(k)') = Cardinality(CompleteOf(k)')
    BY DEF Exact
  <2>1. /\ IsFiniteSet(Counting(k)) /\ Cardinality(Counting(k)) \in Nat
        /\ CompleteOf(k)' = CompleteOf(k) /\ Cardinality(CompleteOf(k)) \in Nat
    BY <1>0, FiniteParts DEF Count, CompleteOf
  <2>2. done[k] \in Nat /\ done[k] + Cardinality(Counting(k)) = Cardinality(CompleteOf(k))
    BY <1>0 DEF CoreTypeOK, Exact
  <2>3. CASE k = Job(th)[1]
    <3>1. Counting(k)' = Counting(k) \ {th} /\ th \in Counting(k)
      BY <1>1, <1>2, <2>3 DEF Counting
    <3>2. Cardinality(Counting(k)') = Cardinality(Counting(k)) - 1
      BY <2>1, <3>1, FS_RemoveElement
    <3>3. done'[k] = done[k] + 1
      BY <1>0, <2>3 DEF Count, CoreTypeOK
    <3> QED
      BY <2>1, <2>2, <3>2, <3>3
  <2>4. CASE k # Job(th)[1]
    <3>1. Counting(k)' = Counting(k)
      BY <1>1, <1>2, <2>4 DEF Counting
    <3>2. done'[k] = done[k]
      BY <1>0, <2>4 DEF Count, CoreTypeOK
    <3> QED
      BY <2>1, <2>2, <3>1, <3>2
  <2> QED
    BY <2>3, <2>4
<1>7. ReduceLast'
  <2>1. Givers' = Givers
    BY <1>1 DEF Givers, Threads
  <2> QED
    BY <1>0, <2>1 DEF ReduceLast, MapsComplete, Count
<1> QED
  BY <1>4, <1>5, <1>6, <1>7 DEF PatientInv, OneExecutor

\* With exact counters, done_map == nMap says that every map task is complete
\* (coordinator.go:114).
LEMMA AllCounted ==
  ASSUME CoreTypeOK, Exact, done["map"] = NMap
  PROVE  MapsComplete
<1> DEFINE maps == {"map"} \X MapIds
<1>1. "map" \in Kinds
  BY DEF Kinds
<1>2. /\ IsFiniteSet(MapIds) /\ Cardinality(MapIds) = NMap
      /\ IsFiniteSet({"map"}) /\ Cardinality({"map"}) = 1
  <2>1. 0 \in Int /\ NMap - 1 \in Int /\ ~(0 > NMap - 1) /\ NMap - 1 - 0 + 1 = NMap
    BY MapReduceAssumption
  <2>2. IsFiniteSet(MapIds) /\ Cardinality(MapIds) = NMap
    BY <2>1, FS_Interval DEF MapIds
  <2>3. IsFiniteSet({"map"}) /\ Cardinality({"map"}) = 1
    BY FS_Singleton
  <2> QED
    BY <2>2, <2>3
<1>3. IsFiniteSet(maps) /\ Cardinality(maps) = NMap
  <2>1. IsFiniteSet(maps) /\ Cardinality(maps) = 1 * NMap
    BY <1>2, FS_Product
  <2> QED
    BY <2>1, MapReduceAssumption
<1>4. CompleteOf("map") \subseteq maps
  BY DEF CompleteOf, CoreTypeOK, Tasks
<1>5. /\ Cardinality(CompleteOf("map")) \in Nat /\ Cardinality(Counting("map")) \in Nat
      /\ NMap + Cardinality(Counting("map")) = Cardinality(CompleteOf("map"))
  BY <1>1, FiniteParts DEF Exact
<1>6. Cardinality(CompleteOf("map")) <= Cardinality(maps)
  BY <1>3, <1>4, FS_Subset
<1>7. Cardinality(CompleteOf("map")) = Cardinality(maps)
  BY <1>3, <1>5, <1>6, MapReduceAssumption
<1>8. CompleteOf("map") = maps
  BY <1>3, <1>4, <1>7, FS_Subset
<1> QED
  BY <1>8 DEF CompleteOf, MapsComplete

-----------------------------------------------------------------------------
(* The theorems                                                            *)

\* The loop of Worker() (worker.go:50-109).
LEMMA PatientWorker ==
  ASSUME Inv, patient, patient' = patient, NEW w \in Workers, Worker(w)
  PROVE  PatientInv'
<1>0. w \in Threads /\ Core /\ CoreTypeOK /\ Exact /\ ReduceLast
  BY DEF Threads, Inv, PatientInv, Core
<1>1. CASE RegisterWorker(w)
  <2>1. Moves(w, "register", "askMap") /\ MayMove(w, "register", "askMap")
    BY <1>1 DEF RegisterWorker, Goto, Moves, MayMove, PCs, Busy
  <2> QED
    BY <1>0, <1>1, <2>1, PatientMove DEF RegisterWorker, Executing, Busy
<1>2. CASE AskMap(w)
  <2>1. PICK l \in {"askReduce", "giveMap"} : Moves(w, "askMap", l) /\ MayMove(w, "askMap", l)
    BY <1>2 DEF AskMap, Goto, Moves, MayMove, PCs, Busy, coordVars
  <2> QED
    BY <1>0, <1>2, <2>1, PatientMove DEF AskMap, coordVars, Executing, Busy
<1>3. CASE AskReduce(w)
  <2>1. Moves(w, "askReduce", "giveReduce") /\ MayMove(w, "askReduce", "giveReduce")
    BY <1>3 DEF AskReduce, Goto, Moves, MayMove, PCs, Busy, coordVars
  <2>2. MapsComplete
    BY <1>0, <1>3, AllCounted DEF AskReduce
  <2> QED
    BY <1>0, <1>3, <2>1, <2>2, PatientMove DEF AskReduce, coordVars, Executing, Busy
<1>4. CASE GiveMapTask(w)
  <2>1. counter["map"] \in Nat
    BY <1>0 DEF CoreTypeOK, Kinds
  <2>2. CASE counter["map"] >= NMap
    BY <1>4, <2>1, <2>2, PatientSame, MapReduceAssumption DEF GiveMapTask, Panic, coreVars
  <2>3. CASE counter["map"] < NMap
    <3> DEFINE t == <<"map", counter["map"]>>
    <3>1. t \in Tasks /\ t[1] = "map" /\ t[2] = counter["map"]
      BY <2>1, <2>3, MapReduceAssumption DEF Tasks, MapIds
    <3>2. Given(w, t, "mapOpen") /\ pc[w] = "giveMap" /\ UNCHANGED <<host, alive>>
      BY <1>4, <2>1, <2>3, <3>1, MapReduceAssumption DEF GiveMapTask, Given
    <3> HIDE DEF t
    <3> QED
      BY <3>1, <3>2, PatientGiven
  <2> QED
    BY <2>1, <2>2, <2>3, MapReduceAssumption
<1>5. CASE GiveReduceTask(w)
  <2> DEFINE t == <<"reduce", counter["reduce"]>>
  <2>1. MapsComplete
    BY <1>0, <1>5 DEF GiveReduceTask, ReduceLast, Givers
  <2>2. t \in Tasks /\ t[1] = "reduce" /\ t[2] = counter["reduce"]
    BY <1>0, <1>5, NextReduceTask DEF GiveReduceTask
  <2>3. Given(w, t, "readAll") /\ pc[w] = "giveReduce" /\ UNCHANGED <<host, alive>>
    BY <1>5, <2>2 DEF GiveReduceTask, Given
  <2> HIDE DEF t
  <2> QED
    BY <2>1, <2>2, <2>3, PatientGiven
<1> QED
  BY <1>1, <1>2, <1>3, <1>4, <1>5 DEF Worker

\* Executing and reporting a task (worker.go:111-260, coordinator.go:160-193).
LEMMA PatientExec ==
  ASSUME Inv, patient, patient' = patient, NEW th \in Threads, map_exec(th) \/ reduce_exec(th)
  PROVE  PatientInv'
<1>1. CASE OpenBuckets(th)
  <2>1. Moves(th, "mapOpen", "mapClose") /\ MayMove(th, "mapOpen", "mapClose")
    BY <1>1 DEF OpenBuckets, Goto, Moves, MayMove, PCs, Busy, coordVars
  <2> QED
    BY <1>1, <2>1, PatientMove DEF OpenBuckets, coordVars, Executing, Busy
<1>2. CASE CloseBuckets(th)
  <2>1. Moves(th, "mapClose", "report") /\ MayMove(th, "mapClose", "report")
    BY <1>2 DEF CloseBuckets, Goto, Moves, MayMove, PCs, Busy, coordVars
  <2> QED
    BY <1>2, <2>1, PatientMove DEF CloseBuckets, coordVars, Executing, Busy
<1>3. CASE read_intermediates(th)
  <2>1. Moves(th, "readAll", "outOpen") /\ MayMove(th, "readAll", "outOpen")
    BY <1>3 DEF read_intermediates, Goto, Moves, MayMove, PCs, Busy, coordVars
  <2> QED
    BY <1>3, <2>1, PatientMove DEF read_intermediates, coordVars, Executing, Busy
<1>4. CASE OpenOutput(th)
  <2>1. Moves(th, "outOpen", "outClose") /\ MayMove(th, "outOpen", "outClose")
    BY <1>4 DEF OpenOutput, Goto, Moves, MayMove, PCs, Busy, coordVars
  <2> QED
    BY <1>4, <2>1, PatientMove DEF OpenOutput, coordVars, Executing, Busy
<1>5. CASE WroteOutput(th)
  <2>1. Moves(th, "outClose", "report") /\ MayMove(th, "outClose", "report")
    BY <1>5 DEF WroteOutput, Goto, Moves, MayMove, PCs, Busy, coordVars
  <2> QED
    BY <1>5, <2>1, PatientMove DEF WroteOutput, coordVars, Executing, Busy
<1>6. CASE Test(th)
  <2>0. Core
    BY DEF Inv
  <2>1. CASE Panic /\ UNCHANGED pc
    BY <1>6, <2>1, PatientSame DEF Test, Panic, coreVars
  <2>2. CASE Return(th) /\ UNCHANGED coordVars
    <3>1. PICK l \in {"sleep", "askMap", "askReduce"} :
            Moves(th, "report", l) /\ MayMove(th, "report", l)
      BY <1>6, <2>0, <2>2, ReturnMoves DEF Test, Busy, coordVars
    <3> QED
      BY <1>6, <2>2, <3>1, PatientMove DEF Test, coordVars, Executing, Busy
  <2>3. CASE Job(th) \notin complete /\ Goto(th, "mark") /\ UNCHANGED coordVars
    <3>1. Moves(th, "report", "mark") /\ MayMove(th, "report", "mark")
      BY <1>6, <2>3 DEF Test, Goto, Moves, MayMove, PCs, Busy, coordVars
    <3>2. Live(th)
      BY <1>6 DEF Test, Live, Executing, Busy
    <3> QED
      BY <1>6, <2>3, <3>1, <3>2, PatientMove DEF Test, coordVars, Executing, Busy
  <2> QED
    BY <1>6, <2>1, <2>2, <2>3 DEF Test
<1> QED
  BY <1>1, <1>2, <1>3, <1>4, <1>5, <1>6, PatientMark, PatientCount
     DEF map_exec, reduce_exec, CheckLastMapDone, CheckLastReduceDone, TestThenCount

\* Monitors (coordinator.go:97-111, 141-155, 195-260).
LEMMA PatientMonitor ==
  ASSUME Inv, patient, patient' = patient, NEW t \in Tasks,
         spawn_map_monitor(t) \/ spawn_reduce_monitor(t)
  PROVE  PatientInv'
<1>0. t \in Threads /\ t \notin Workers
  BY MapReduceAssumption DEF Threads
<1>1. CASE RedoLost(t)
  <2>1. PICK l0 \in Busy \ {"count"} : Moves(t, l0, "sleep") /\ MayMove(t, l0, "sleep")
    BY <1>0, <1>1 DEF RedoLost, Goto, Moves, MayMove, PCs, Busy, coordVars
  <2> QED
    BY <1>0, <1>1, <2>1, PatientMove DEF RedoLost, coordVars, Executing, Busy
<1>2. CASE MonitorEnds(t)
  <2>1. CASE t \in complete /\ Goto(t, "off") /\ UNCHANGED coordVars
    <3>1. Moves(t, "sleep", "off") /\ MayMove(t, "sleep", "off")
      BY <1>0, <1>2, <2>1 DEF MonitorEnds, Goto, Moves, MayMove, PCs, Busy, coordVars
    <3> QED
      BY <1>0, <1>2, <2>1, <3>1, PatientMove DEF MonitorEnds, coordVars, Executing, Busy
  <2>2. CASE Panic /\ UNCHANGED pc
    BY <1>2, <2>2, PatientSame DEF MonitorEnds, Panic, coreVars
  <2> QED
    BY <1>2, <2>1, <2>2 DEF MonitorEnds
<1> QED
  BY <1>1, <1>2, PatientRedo, PatientDial DEF spawn_map_monitor, spawn_reduce_monitor

\* Nobody works on anything at the start (coordinator.go:263-293).
LEMMA InitPatient == Init => PatientInv
<1> SUFFICES ASSUME Init PROVE PatientInv
  OBVIOUS
<1>1. \A u \in Threads : pc[u] \in {"register", "none"}
  BY DEF Init
<1>2. OneExecutor
  BY <1>1 DEF OneExecutor, Solo, DialAlone, MarkFirst, Live, Executing, Busy, Threads
<1>3. \A k \in Kinds : Counting(k) = {} /\ CompleteOf(k) = {} /\ done[k] = 0
  BY <1>1 DEF Init, MakeCoordinator, Counting, CompleteOf
<1>4. Exact
  BY <1>3, FS_EmptySet DEF Exact
<1>5. Givers = {} /\ counter["reduce"] = 0
  BY <1>1 DEF Givers, Threads, Init, MakeCoordinator, Kinds
<1> QED
  BY <1>2, <1>4, <1>5 DEF PatientInv, ReduceLast

\* Patience is chosen once.
LEMMA PatienceFixed == [Next]_vars => patient' = patient
<1>1. ASSUME NEW w \in Workers, Worker(w) \/ Crash(w) PROVE patient' = patient
  BY <1>1 DEF Worker, Crash, RegisterWorker, AskMap, GiveMapTask, AskReduce, GiveReduceTask,
              boundVars
<1>2. ASSUME NEW th \in Threads, map_exec(th) \/ reduce_exec(th) \/ DialFails(th)
      PROVE  patient' = patient
  BY <1>2 DEF map_exec, reduce_exec, DialFails, OpenBuckets, CloseBuckets, read_intermediates,
              OpenOutput, WroteOutput, CheckLastMapDone, CheckLastReduceDone, TestThenCount,
              Test, Mark, Count, boundVars
<1>3. ASSUME NEW t \in Tasks, spawn_map_monitor(t) \/ spawn_reduce_monitor(t)
      PROVE  patient' = patient
  BY <1>3 DEF spawn_map_monitor, spawn_reduce_monitor, Redo, Dial, RedoLost, MonitorEnds, boundVars
<1> QED
  BY <1>1, <1>2, <1>3 DEF Next, Exit, vars, boundVars

\* Every step of a patient job keeps its invariant.
LEMMA StepPatient == Inv /\ [Next]_vars => Inv'
<1> SUFFICES ASSUME Inv, [Next]_vars PROVE PatientInv'
  BY StepCore DEF Inv
<1>1. patient' = patient
  BY PatienceFixed
<1> SUFFICES ASSUME patient PROVE PatientInv'
  BY <1>1 DEF PatientInv
<1>2. CASE UNCHANGED vars
  BY <1>1, <1>2, PatientSame DEF vars, coordVars, coreVars
<1>3. CASE (\E w \in Workers : Crash(w)) \/ (\E th \in Threads : DialFails(th)) \/ Exit
  BY <1>1, <1>3, PatientSame DEF Crash, DialFails, Exit, coordVars, coreVars
<1> QED
  BY <1>1, <1>2, <1>3, PatientWorker, PatientExec, PatientMonitor DEF Next

\* The invariant of a patient job.
THEOREM MRPatientInvariant == Spec => []Inv
<1>1. Init => Inv
  BY InitCore, InitPatient DEF Inv
<1> QED
  BY <1>1, StepPatient, PTL DEF Spec

\* If no execution outlasts its monitor, done_map and done_reduce are exact
\* although they are tested and marked without the lock (coordinator.go:
\* 160-193), for any workers, tasks and crashes.
THEOREM MRCountExact == Spec => []CountExact
<1>1. Inv => CountExact
  BY DEF Inv, PatientInv, Exact, CountExact
<1> QED
  BY <1>1, MRPatientInvariant, PTL

\* If no execution outlasts its monitor, no reduce task is given out before
\* every map task is complete (coordinator.go:114).
THEOREM MRReduceAfterAllMaps == Spec => []PatientReduceAfterAllMaps
<1>1. Inv => PatientReduceAfterAllMaps
  BY DEF Inv, PatientInv, ReduceLast, MapsComplete, PatientReduceAfterAllMaps, ReduceAfterAllMaps
<1> QED
  BY <1>1, MRPatientInvariant, PTL

-----------------------------------------------------------------------------
(***************************************************************************)
(* What a patient job writes: an execution that got as far as its report   *)
(* has written its files, and nobody writes the files of a complete task.  *)
(***************************************************************************)

Whole == [by |-> Full, right |-> TRUE]

\* The files of task t are whole.
Written(t) ==
  /\ t[1] = "map" => file[t[2]] = Full
  /\ t[1] = "reduce" => out[t[2]] = Whole

\* What thread th has done so far of its task.
Wrote(th) ==
  /\ pc[th] = "mapClose" => file[Job(th)[2]] = th
  /\ pc[th] \in {"outOpen", "outClose"} => good[th]
  /\ pc[th] = "outClose" => out[Job(th)[2]] = [by |-> th, right |-> TRUE]
  /\ pc[th] \in {"report", "mark", "count"} => Written(Job(th))

ThreadRight(th) ==
  /\ pc[th] \in {"mapOpen", "mapClose"} => Job(th)[1] = "map"
  /\ pc[th] \in {"readAll", "outOpen", "outClose"} => Job(th)[1] = "reduce"
  /\ pc[th] \in {"mark", "count"} => Job(th)[2] < Total(Job(th)[1])
  /\ Live(th) /\ pc[th] # "count" => Job(th) \notin complete
  /\ Live(th) => Wrote(th)

TaskRight(t) ==
  /\ t \in complete => t[2] < counter[t[1]] /\ t[2] < Total(t[1]) /\ Written(t)
  /\ pc[t] = "dial" => t \notin complete

\* A reduce task is told of the files of all map tasks.
AllFiles == \A i \in ReduceIds : i < counter["reduce"] => nfiles[i] = NMap

\* Done() is true only when every reduce task is complete.
ExitLast == coord = "exited" => \A i \in 0 .. (NReduce - 1) : <<"reduce", i>> \in complete

FilesRight ==
  /\ \A th \in Threads : ThreadRight(th)
  /\ \A t \in Tasks : TaskRight(t)
  /\ AllFiles /\ ExitLast

FilesInv == patient => FilesRight

\* A step leaves task t and its files alone.
Untouched(t) ==
  /\ t[1] = "map" => file'[t[2]] = file[t[2]]
  /\ t[1] = "reduce" => out'[t[2]] = out[t[2]]
  /\ t \in complete' => t \in complete

\* A thread that does not move and whose task is left alone.
LEMMA ThreadStays ==
  ASSUME NEW u \in Threads, ThreadRight(u), pc'[u] = pc[u], Job(u)' = Job(u), good'[u] = good[u],
         Live(u)' => Live(u), Live(u) => Untouched(Job(u))
  PROVE  ThreadRight(u)'
<1>1. CASE ~Live(u)
  BY <1>1 DEF ThreadRight
<1>2. CASE Live(u)
  <2>1. Wrote(u)'
    BY <1>2 DEF ThreadRight, Wrote, Written, Untouched
  <2> QED
    BY <1>2, <2>1 DEF ThreadRight, Untouched
<1> QED
  BY <1>1, <1>2

\* A task that is left alone.
LEMMA TaskStays ==
  ASSUME NEW t \in Tasks, TaskRight(t), Untouched(t), pc'[t] = "dial" => t \notin complete,
         counter \in [Kinds -> Nat], counter' \in [Kinds -> Nat],
         \A k \in Kinds : counter[k] <= counter'[k]
  PROVE  TaskRight(t)'
<1>1. t[1] \in Kinds /\ t[2] \in Nat
  BY TaskFacts
<1>2. t \in complete' => t[2] < counter'[t[1]]
  BY <1>1 DEF TaskRight, Untouched
<1>3. t \in complete' => Written(t)'
  BY DEF TaskRight, Untouched, Written
<1> QED
  BY <1>2, <1>3 DEF TaskRight, Untouched

\* Nothing happens to a thread that is idle.
LEMMA IdleRight ==
  ASSUME NEW th \in Threads, pc[th] \notin Busy
  PROVE  ThreadRight(th)
BY DEF ThreadRight, Live, Executing, Busy

\* A live thread is at a task that was given out, and that nobody else is at.
LEMMA LiveFacts ==
  ASSUME Inv, patient, FilesRight, NEW th \in Threads, Live(th)
  PROVE  /\ Job(th) \in Tasks /\ Job(th)[1] \in Kinds /\ Job(th)[2] < counter[Job(th)[1]]
         /\ ThreadRight(th) /\ (pc[th] # "count" => Job(th) \notin complete) /\ Wrote(th)
         /\ \A u \in Threads \ {th} : Live(u) => Job(u) # Job(th)
<1>1. Core /\ Solo /\ pc[th] \in Busy
  BY DEF Inv, PatientInv, OneExecutor, Live, Executing, Busy
<1>2. Job(th) \in Tasks /\ Job(th)[1] \in Kinds
  BY <1>1, BusyHasJob
<1>3. Job(th)[2] < counter[Job(th)[1]]
  <2>1. CASE th \in Workers
    <3>1. Job(th) = job[th] /\ job[th] # Nil
      BY <1>1, <2>1 DEF Job, Core, JobsCounted
    <3> QED
      BY <1>1, <2>1, <3>1 DEF Core, JobsCounted
  <2>2. CASE th \notin Workers
    <3>1. th \in Tasks /\ Job(th) = th /\ pc[th] # "none"
      BY <1>1, <2>2 DEF Job, Threads, Busy
    <3>2. ~(th[2] >= counter[th[1]])
      BY <1>1, <3>1 DEF Core, NotGivenYet
    <3>3. th[2] \in Nat /\ counter[th[1]] \in Nat
      BY <1>1, <3>1, TaskFacts DEF Core, CoreTypeOK
    <3> QED
      BY <3>1, <3>2, <3>3
  <2> QED
    BY <2>1, <2>2
<1>4. ThreadRight(th)
  BY DEF FilesRight
<1>5. \A u \in Threads \ {th} : Live(u) => Job(u) # Job(th)
  BY <1>1 DEF Solo
<1> QED
  BY <1>2, <1>3, <1>4, <1>5 DEF ThreadRight

\* A thread goes on, and writes no files but those of its own task, which is
\* not complete.
LEMMA FilesMove ==
  ASSUME Inv, patient, FilesRight, NEW th \in Threads, NEW l, pc' = [pc EXCEPT ![th] = l],
         UNCHANGED <<job, counter, complete, nfiles>>,
         \A u \in Threads \ {th} : good'[u] = good[u] /\ (OnWorker(u)' => OnWorker(u)),
         \A t \in Tasks : Untouched(t) \/ (t = Job(th) /\ Live(th) /\ pc[th] # "count"),
         ThreadRight(th)', l = "dial" => th \notin complete, coord' = "exited" => coord = "exited"
  PROVE  FilesRight'
<1>1. CoreTypeOK /\ \A u \in Threads \ {th} : pc'[u] = pc[u]
  BY DEF Inv, Core, CoreTypeOK
<1>2. pc'[th] = l
  BY <1>1 DEF CoreTypeOK
<1>3. ASSUME NEW u \in Threads, u # th PROVE ThreadRight(u)'
  <2>1. pc'[u] = pc[u] /\ Job(u)' = Job(u) /\ good'[u] = good[u] /\ (Live(u)' => Live(u))
        /\ ThreadRight(u)
    BY <1>1, <1>3 DEF Job, Live, FilesRight
  <2>2. ASSUME Live(u) PROVE Untouched(Job(u))
    <3>1. Job(u) \in Tasks
      BY <2>2, LiveFacts
    <3>2. Live(th) => Job(u) # Job(th)
      BY <1>3, <2>2, LiveFacts
    <3> QED
      BY <3>1, <3>2
  <2> QED
    BY <2>1, <2>2, ThreadStays
<1>4. ASSUME NEW t \in Tasks PROVE TaskRight(t)'
  <2>0. TaskRight(t) /\ t \in Threads
    BY DEF FilesRight, Threads
  <2>1. pc'[t] = "dial" => t \notin complete
    BY <1>1, <1>2, <2>0 DEF TaskRight
  <2>2. CASE Untouched(t)
    <3>1. counter \in [Kinds -> Nat] /\ counter' = counter
      BY <1>1 DEF CoreTypeOK
    <3>2. \A x \in Kinds : counter[x] <= counter'[x]
      BY <3>1
    <3> QED
      BY <2>0, <2>1, <2>2, <3>1, <3>2, TaskStays
  <2>3. CASE t = Job(th) /\ Live(th) /\ pc[th] # "count"
    <3>1. t \notin complete
      BY <2>3, LiveFacts
    <3> QED
      BY <3>1 DEF TaskRight
  <2> QED
    BY <2>2, <2>3
<1>5. AllFiles' /\ ExitLast'
  BY DEF FilesRight, AllFiles, ExitLast
<1> QED
  BY <1>3, <1>4, <1>5 DEF FilesRight

\* Processes end, and nothing else.
LEMMA FilesSame ==
  ASSUME Inv, patient, FilesRight, UNCHANGED <<pc, job, counter, complete, nfiles, fileVars>>,
         \A u \in Threads : OnWorker(u)' => OnWorker(u), coord' = "exited" => coord = "exited"
  PROVE  FilesRight'
<1>1. \A t \in Tasks : Untouched(t)
  BY DEF Untouched, fileVars
<1>2. ASSUME NEW u \in Threads PROVE ThreadRight(u)'
  <2>1. Job(u)' = Job(u) /\ (Live(u)' => Live(u)) /\ ThreadRight(u) /\ good'[u] = good[u]
    BY DEF Job, Live, FilesRight, fileVars
  <2>2. Live(u) => Untouched(Job(u))
    BY <1>1, LiveFacts
  <2> QED
    BY <2>1, <2>2, ThreadStays
<1>3. ASSUME NEW t \in Tasks PROVE TaskRight(t)'
  <2>1. TaskRight(t) /\ CoreTypeOK
    BY DEF FilesRight, Inv, Core
  <2>2. pc'[t] = "dial" => t \notin complete
    BY <2>1 DEF TaskRight
  <2>3. /\ counter \in [Kinds -> Nat] /\ counter' \in [Kinds -> Nat]
        /\ \A k \in Kinds : counter[k] <= counter'[k]
    BY <2>1 DEF CoreTypeOK
  <2> QED
    BY <1>1, <2>1, <2>2, <2>3, TaskStays
<1>4. AllFiles' /\ ExitLast'
  BY DEF FilesRight, AllFiles, ExitLast
<1> QED
  BY <1>2, <1>3, <1>4 DEF FilesRight

\* A task is marked by the one thread that is at it, which has written its
\* files (coordinator.go:163, 181).
LEMMA FilesMark ==
  ASSUME Inv, patient, FilesRight, NEW th \in Threads, Mark(th)
  PROVE  FilesRight'
<1>1. CoreTypeOK /\ Live(th) /\ pc[th] = "mark"
  BY DEF Inv, Core, Mark, Live
<1>2. /\ pc'[th] = "count" /\ (\A u \in Threads \ {th} : pc'[u] = pc[u])
      /\ complete' = complete \cup {Job(th)} /\ UNCHANGED <<coord, counter, nfiles, good, file,
         out>>
  BY <1>1 DEF Mark, Goto, CoreTypeOK, fileVars
<1>3. \A u \in Threads : Job(u)' = Job(u) /\ OnWorker(u)' = OnWorker(u)
  BY DEF Mark, Job, OnWorker, Host
<1>4. /\ Job(th) \in Tasks /\ Job(th)[2] < counter[Job(th)[1]] /\ ThreadRight(th) /\ Wrote(th)
      /\ \A u \in Threads \ {th} : Live(u) => Job(u) # Job(th)
  BY <1>1, LiveFacts
<1>5. Written(Job(th)) /\ Job(th)[2] < Total(Job(th)[1])
  BY <1>1, <1>4 DEF Wrote, ThreadRight
<1>6. ASSUME NEW t \in Tasks, t # Job(th) PROVE Untouched(t)
  BY <1>2, <1>6 DEF Untouched
<1>7. ASSUME NEW u \in Threads PROVE ThreadRight(u)'
  <2>1. CASE u = th
    <3>1. Written(Job(th))'
      BY <1>2, <1>3, <1>5 DEF Written
    <3> QED
      BY <1>2, <1>3, <1>5, <2>1, <3>1 DEF ThreadRight, Wrote
  <2>2. CASE u # th
    <3>1. pc'[u] = pc[u] /\ good'[u] = good[u] /\ (Live(u)' => Live(u)) /\ ThreadRight(u)
      BY <1>2, <1>3, <2>2 DEF Live, FilesRight
    <3>2. Live(u) => Untouched(Job(u))
      BY <1>4, <1>6, <2>2, LiveFacts
    <3> QED
      BY <1>3, <3>1, <3>2, ThreadStays
  <2> QED
    BY <2>1, <2>2
<1>8. ASSUME NEW t \in Tasks PROVE TaskRight(t)'
  <2>0. TaskRight(t) /\ t \in Threads
    BY DEF FilesRight, Threads
  <2>1. CASE t = Job(th)
    <3>1. pc'[t] # "dial"
      <4>1. pc[t] # "dial"
        BY <1>1, <2>0, <2>1 DEF Inv, PatientInv, OneExecutor, DialAlone
      <4> QED
        BY <1>2, <2>0, <4>1
    <3>2. Written(t)'
      BY <1>2, <1>5, <2>1 DEF Written
    <3> QED
      BY <1>2, <1>4, <1>5, <2>1, <3>1, <3>2 DEF TaskRight
  <2>2. CASE t # Job(th)
    <3>1. pc'[t] = "dial" => t \notin complete
      BY <1>2, <2>0 DEF TaskRight
    <3> QED
      BY <1>1, <1>2, <1>6, <2>0, <2>2, <3>1, TaskStays DEF CoreTypeOK
  <2> QED
    BY <2>1, <2>2
<1>9. AllFiles' /\ ExitLast'
  BY <1>2 DEF FilesRight, AllFiles, ExitLast
<1> QED
  BY <1>7, <1>8, <1>9 DEF FilesRight

\* A task that is given out is not complete, and a reduce task comes with the
\* number of map tasks (coordinator.go:79-95, 113-139).
LEMMA FilesGiven ==
  ASSUME Inv, patient, FilesRight, NEW w \in Workers, NEW t \in Tasks,
         NEW l \in {"mapOpen", "readAll"}, pc[w] \in {"giveMap", "giveReduce"},
         Given(w, t, l), UNCHANGED <<coord, host, alive, good, file, out>>,
         l = "mapOpen" <=> t[1] = "map", AllFiles'
  PROVE  FilesRight'
<1>1. /\ CoreTypeOK /\ Core /\ w \in Threads /\ t \in Threads /\ w # t /\ t \notin Workers
         /\ w \notin Tasks
      /\ t[1] \in Kinds /\ t[2] \in Nat
  BY MapReduceAssumption, TaskFacts DEF Inv, Core, Threads
<1>2. pc[t] = "none"
  BY <1>1, GivenFresh
<1>3. pc'[w] = l /\ pc'[t] = "sleep" /\ \A u \in Threads \ {w, t} : pc'[u] = pc[u]
  BY <1>1 DEF Given, CoreTypeOK
<1>4. Job(w)' = t /\ \A u \in Threads \ {w} : Job(u)' = Job(u)
  BY <1>1 DEF Given, CoreTypeOK, Job, Threads
<1>5. \A u \in Threads : OnWorker(u)' = OnWorker(u)
  BY DEF OnWorker, Host
<1>6. /\ counter' \in [Kinds -> Nat] /\ \A k \in Kinds : counter[k] <= counter'[k]
      /\ complete' = complete
  BY <1>1 DEF Given, CoreTypeOK
<1>7. t \notin complete
  <2>1. TaskRight(t) /\ t[2] = counter[t[1]] /\ counter[t[1]] \in Nat
    BY <1>1 DEF FilesRight, Given, CoreTypeOK
  <2> QED
    BY <2>1 DEF TaskRight
<1>8. \A d \in Tasks : Untouched(d)
  BY <1>6 DEF Untouched
<1>9. ASSUME NEW u \in Threads PROVE ThreadRight(u)'
  <2>1. CASE u = w
    BY <1>1, <1>3, <1>4, <1>6, <1>7, <2>1 DEF ThreadRight, Wrote, Kinds
  <2>2. CASE u = t
    BY <1>3, <2>2 DEF ThreadRight, Live, Executing, Busy
  <2>3. CASE u # w /\ u # t
    <3>1. pc'[u] = pc[u] /\ Job(u)' = Job(u) /\ good'[u] = good[u] /\ (Live(u)' => Live(u))
          /\ ThreadRight(u)
      BY <1>3, <1>4, <1>5, <2>3 DEF Live, FilesRight
    <3>2. Live(u) => Untouched(Job(u))
      BY <1>8, LiveFacts
    <3> QED
      BY <3>1, <3>2, ThreadStays
  <2> QED
    BY <2>1, <2>2, <2>3
<1>10. ASSUME NEW d \in Tasks PROVE TaskRight(d)'
  <2>1. TaskRight(d) /\ d \in Threads /\ d # w
    BY <1>1 DEF FilesRight, Threads
  <2>2. pc'[d] = "dial" => d \notin complete
    BY <1>3, <2>1 DEF TaskRight
  <2> QED
    BY <1>1, <1>6, <1>8, <2>1, <2>2, TaskStays DEF CoreTypeOK
<1>11. ExitLast'
  BY <1>6 DEF FilesRight, ExitLast
<1> QED
  BY <1>9, <1>10, <1>11 DEF FilesRight

\* When every map task is complete, every one was given out, and its files are
\* whole.
LEMMA MapsWhole ==
  ASSUME Inv, FilesRight, MapsComplete
  PROVE  counter["map"] = NMap /\ \A m \in MapIds : file[m] = Full
<1>1. CoreTypeOK /\ NMap \in Nat \ {0} /\ counter["map"] \in Nat /\ counter["map"] <= NMap
  BY MapReduceAssumption DEF Inv, Core, CoreTypeOK, Kinds
<1>2. ASSUME NEW m \in MapIds PROVE m < counter["map"] /\ file[m] = Full
  <2>1. <<"map", m>> \in Tasks /\ <<"map", m>> \in complete
    BY DEF Tasks, MapsComplete
  <2>2. TaskRight(<<"map", m>>)
    BY <2>1 DEF FilesRight
  <2> QED
    BY <2>1, <2>2 DEF TaskRight, Written
<1>3. NMap - 1 \in MapIds
  BY <1>1 DEF MapIds
<1>4. NMap - 1 < counter["map"]
  BY <1>2, <1>3
<1> QED
  BY <1>1, <1>2, <1>4

\* The loop of Worker() (worker.go:50-109).
LEMMA FilesWorker ==
  ASSUME Inv, patient, FilesRight, NEW w \in Workers, Worker(w)
  PROVE  FilesRight'
<1>0. w \in Threads /\ Core /\ CoreTypeOK /\ ReduceLast
  BY DEF Threads, Inv, PatientInv, Core
<1>1. ASSUME NEW l \in PCs \ Busy, l # "dial", Goto(w, l), UNCHANGED <<coord, job, host, alive,
             counter, complete, nfiles, good, file, out>>
      PROVE  FilesRight'
  <2>1. \A u \in Threads : OnWorker(u)' = OnWorker(u)
    BY <1>1 DEF OnWorker, Host
  <2>2. \A t \in Tasks : Untouched(t)
    BY <1>1 DEF Untouched
  <2>3. pc'[w] = l
    BY <1>0, <1>1 DEF Goto, CoreTypeOK
  <2>4. ThreadRight(w)'
    BY <1>1, <2>3 DEF ThreadRight, Live, Executing, Busy
  <2> QED
    BY <1>0, <1>1, <2>1, <2>2, <2>4, FilesMove DEF Goto
<1>2. CASE RegisterWorker(w)
  BY <1>1, <1>2 DEF RegisterWorker, PCs, Busy, fileVars
<1>3. CASE AskMap(w)
  BY <1>1, <1>3 DEF AskMap, PCs, Busy, fileVars, coordVars
<1>4. CASE AskReduce(w)
  BY <1>1, <1>4 DEF AskReduce, PCs, Busy, fileVars, coordVars
<1>5. CASE GiveMapTask(w)
  <2>1. counter["map"] \in Nat
    BY <1>0 DEF CoreTypeOK, Kinds
  <2>2. CASE counter["map"] >= NMap
    <3>1. UNCHANGED <<pc, job, host, alive, counter, complete, nfiles, fileVars>>
          /\ coord' = "panic"
      BY <1>5, <2>1, <2>2, MapReduceAssumption DEF GiveMapTask, Panic
    <3>2. \A u \in Threads : OnWorker(u)' => OnWorker(u)
      BY <3>1 DEF OnWorker, Host
    <3> QED
      BY <3>1, <3>2, FilesSame
  <2>3. CASE counter["map"] < NMap
    <3> DEFINE t == <<"map", counter["map"]>>
    <3>1. t \in Tasks /\ t[1] = "map" /\ t[2] = counter["map"]
      BY <2>1, <2>3, MapReduceAssumption DEF Tasks, MapIds
    <3>2. /\ Given(w, t, "mapOpen") /\ pc[w] = "giveMap" /\ UNCHANGED <<coord, host, alive, good,
             file, out>>
          /\ UNCHANGED nfiles
      BY <1>5, <2>1, <2>3, <3>1, MapReduceAssumption DEF GiveMapTask, Given, fileVars
    <3>3. counter'["reduce"] = counter["reduce"]
      BY <1>0, <3>1, <3>2 DEF Given, CoreTypeOK, Kinds
    <3>4. AllFiles'
      BY <3>2, <3>3 DEF FilesRight, AllFiles
    <3> HIDE DEF t
    <3> QED
      BY <3>1, <3>2, <3>4, FilesGiven
  <2> QED
    BY <2>1, <2>2, <2>3, MapReduceAssumption
<1>6. CASE GiveReduceTask(w)
  <2> DEFINE t == <<"reduce", counter["reduce"]>>
  <2>1. MapsComplete
    BY <1>0, <1>6 DEF GiveReduceTask, ReduceLast, Givers
  <2>2. t \in Tasks /\ t[1] = "reduce" /\ t[2] = counter["reduce"]
    BY <1>0, <1>6, NextReduceTask DEF GiveReduceTask
  <2>3. Given(w, t, "readAll") /\ pc[w] = "giveReduce" /\ UNCHANGED <<coord, host, alive, good,
        file, out>>
    BY <1>6, <2>2 DEF GiveReduceTask, Given, fileVars
  <2>4. AllFiles'
    <3>1. /\ nfiles' = [nfiles EXCEPT ![counter["reduce"]] = counter["map"]]
             /\ counter["map"] = NMap
          /\ counter'["reduce"] = counter["reduce"] + 1 /\ nfiles \in [ReduceIds -> Nat]
      BY <1>0, <1>6, <2>1, MapsWhole DEF GiveReduceTask, CoreTypeOK, Kinds, Inv, RestTypeOK
    <3>2. counter["reduce"] \in Nat /\ \A i \in ReduceIds : i \in Nat
      BY <1>0 DEF CoreTypeOK, Kinds, ReduceIds
    <3> QED
      BY <3>1, <3>2 DEF FilesRight, AllFiles
  <2> HIDE DEF t
  <2> QED
    BY <2>2, <2>3, <2>4, FilesGiven
<1> QED
  BY <1>2, <1>3, <1>4, <1>5, <1>6 DEF Worker

\* The other tasks have other files.
LEMMA OthersUntouched ==
  ASSUME NEW j \in Tasks, complete' = complete,
         \/ j[1] = "map" /\ out' = out /\ \A m \in MapIds \ {j[2]} : file'[m] = file[m]
         \/ j[1] = "reduce" /\ file' = file /\ \A i \in ReduceIds \ {j[2]} : out'[i] = out[i]
  PROVE  \A t \in Tasks : Untouched(t) \/ t = j
<1> SUFFICES ASSUME NEW t \in Tasks, t # j PROVE Untouched(t)
  OBVIOUS
<1>1. /\ t[1] = "map" => t[2] \in MapIds
      /\ t[1] = "reduce" => t[2] \in ReduceIds
      /\ t[1] = j[1] => t[2] # j[2]
  BY TaskFacts DEF Tasks
<1> QED
  BY <1>1 DEF Untouched

\* The steps of map_exec and reduce_exec up to the report (worker.go:111-260).
LEMMA FilesWrite ==
  ASSUME Inv, patient, FilesRight, NEW th \in Threads,
         \/ OpenBuckets(th) \/ CloseBuckets(th) \/ read_intermediates(th)
         \/ OpenOutput(th) \/ WroteOutput(th)
  PROVE  FilesRight'
<1> DEFINE j == Job(th)
<1>1. /\ Live(th) /\ pc[th] \in Executing /\ pc[th] # "count" /\ UNCHANGED <<coord, job, host,
         alive, counter, complete, nfiles>>
  BY DEF OpenBuckets, CloseBuckets, read_intermediates, OpenOutput, WroteOutput, Live, Executing,
         Busy, coordVars
<1>2. /\ j \in Tasks /\ j[1] \in Kinds /\ j[2] < counter[j[1]] /\ ThreadRight(th)
         /\ j \notin complete /\ Wrote(th)
      /\ \A u \in Threads \ {th} : Live(u) => Job(u) # j
  BY <1>1, LiveFacts
<1>3. /\ CoreTypeOK /\ RestTypeOK /\ Core
      /\ (j[1] = "map" => j[2] \in MapIds) /\ (j[1] = "reduce" => j[2] \in ReduceIds)
  BY <1>2 DEF Inv, Core, Tasks
<1>4. Job(th)' = j /\ OnWorker(th)' /\ (\A u \in Threads : OnWorker(u)' => OnWorker(u))
  BY <1>1 DEF Job, OnWorker, Host, Live, Executing, OpenBuckets, CloseBuckets, read_intermediates,
     OpenOutput, WroteOutput
<1> HIDE DEF j
<1>5. ASSUME NEW l \in Busy, l \notin {"mark", "count"}, pc' = [pc EXCEPT ![th] = l],
             ThreadRight(th)',
             \A u \in Threads \ {th} : good'[u] = good[u],
             \A t \in Tasks : Untouched(t) \/ t = j
      PROVE  FilesRight'
  BY <1>1, <1>4, <1>5, FilesMove DEF j, Busy
<1>6. CASE OpenBuckets(th)
  <2>1. j[1] = "map"
    BY <1>2, <1>6 DEF ThreadRight, OpenBuckets, j
  <2>2. file'[j[2]] = th /\ (\A m \in MapIds \ {j[2]} : file'[m] = file[m]) /\ UNCHANGED <<good,
        out>>
    BY <1>3, <1>6, <2>1 DEF OpenBuckets, RestTypeOK, j
  <2>3. pc' = [pc EXCEPT ![th] = "mapClose"] /\ pc'[th] = "mapClose"
    BY <1>3, <1>6 DEF OpenBuckets, Goto, CoreTypeOK
  <2>4. ThreadRight(th)'
    BY <1>1, <1>2, <1>4, <2>1, <2>2, <2>3 DEF ThreadRight, Wrote
  <2>5. \A t \in Tasks : Untouched(t) \/ t = j
    BY <1>1, <1>2, <2>1, <2>2, OthersUntouched
  <2> QED
    BY <1>5, <2>2, <2>3, <2>4, <2>5 DEF Busy
<1>7. CASE CloseBuckets(th)
  <2>1. j[1] = "map" /\ file[j[2]] = th
    BY <1>2, <1>7 DEF ThreadRight, Wrote, CloseBuckets, j
  <2>2. file'[j[2]] = Full /\ (\A m \in MapIds \ {j[2]} : file'[m] = file[m]) /\ UNCHANGED <<good,
        out>>
    BY <1>3, <1>7, <2>1 DEF CloseBuckets, RestTypeOK, j
  <2>3. pc' = [pc EXCEPT ![th] = "report"] /\ pc'[th] = "report"
    BY <1>3, <1>7 DEF CloseBuckets, Goto, CoreTypeOK
  <2>4. ThreadRight(th)'
    BY <1>1, <1>2, <1>4, <2>1, <2>2, <2>3 DEF ThreadRight, Wrote, Written
  <2>5. \A t \in Tasks : Untouched(t) \/ t = j
    BY <1>1, <1>2, <2>1, <2>2, OthersUntouched
  <2> QED
    BY <1>5, <2>2, <2>3, <2>4, <2>5 DEF Busy
<1>8. CASE read_intermediates(th)
  <2>1. j[1] = "reduce"
    BY <1>2, <1>8 DEF ThreadRight, read_intermediates, j
  <2>2. j[2] \in Nat /\ counter["reduce"] \in Nat /\ j[2] < counter["reduce"] /\ j[2] \in ReduceIds
    BY <1>2, <1>3, <2>1, TaskFacts DEF CoreTypeOK, Kinds
  <2>3. MapsComplete /\ nfiles[j[2]] = NMap
    BY <2>2 DEF FilesRight, AllFiles, Inv, PatientInv, ReduceLast
  <2>4. \A m \in MapIds : file[m] = Full
    BY <2>3, MapsWhole
  <2>5. ReadOutcomes(NMap) = {TRUE}
    BY <2>4, MapReduceAssumption DEF ReadOutcomes, MapIds
  <2>6. good'[th] = TRUE /\ (\A u \in Threads \ {th} : good'[u] = good[u]) /\ UNCHANGED <<file,
        out>>
    BY <1>3, <1>8, <2>3, <2>5 DEF read_intermediates, RestTypeOK, j
  <2>7. pc' = [pc EXCEPT ![th] = "outOpen"] /\ pc'[th] = "outOpen"
    BY <1>3, <1>8 DEF read_intermediates, Goto, CoreTypeOK
  <2>8. ThreadRight(th)'
    BY <1>1, <1>2, <1>4, <2>1, <2>6, <2>7 DEF ThreadRight, Wrote
  <2>9. \A t \in Tasks : Untouched(t) \/ t = j
    BY <1>1, <2>6 DEF Untouched
  <2> QED
    BY <1>5, <2>6, <2>7, <2>8, <2>9 DEF Busy
<1>9. CASE OpenOutput(th)
  <2>1. j[1] = "reduce" /\ good[th] /\ j[2] \in ReduceIds
    BY <1>2, <1>3, <1>9 DEF ThreadRight, Wrote, OpenOutput, j
  <2>2. \A u \in Threads : pc[u] = "outClose" /\ OnWorker(u) /\ Job(u) = Job(th) => u = th
    BY <1>2 DEF Live, Executing, Busy, j
  <2>3. \A u \in {th} \cup {v \in Threads : pc[v] = "outClose" /\ OnWorker(v)
        /\ Job(v) = Job(th)} : good[u]
    BY <2>1, <2>2
  <2>4. (\A u \in {th} \cup {v \in Threads : pc[v] = "outClose" /\ OnWorker(v)
        /\ Job(v) = Job(th)} : good[u]) = TRUE
    BY <2>3
  <2>5. out' = [out EXCEPT ![j[2]] = [by |-> th, right |-> TRUE]] /\ UNCHANGED <<good, file>>
    BY <1>9, <2>4 DEF OpenOutput, j
  <2>6. out'[j[2]] = [by |-> th, right |-> TRUE] /\ \A i \in ReduceIds \ {j[2]} : out'[i] = out[i]
    BY <1>3, <2>1, <2>5 DEF RestTypeOK
  <2>7. pc' = [pc EXCEPT ![th] = "outClose"] /\ pc'[th] = "outClose"
    BY <1>3, <1>9 DEF OpenOutput, Goto, CoreTypeOK
  <2>8. ThreadRight(th)'
    BY <1>1, <1>2, <1>4, <2>1, <2>5, <2>6, <2>7 DEF ThreadRight, Wrote
  <2>9. \A t \in Tasks : Untouched(t) \/ t = j
    BY <1>1, <1>2, <2>1, <2>5, <2>6, OthersUntouched
  <2> QED
    BY <1>5, <2>5, <2>7, <2>8, <2>9 DEF Busy
<1>10. CASE WroteOutput(th)
  <2>1. j[1] = "reduce" /\ out[j[2]] = [by |-> th, right |-> TRUE] /\ j[2] \in ReduceIds
    BY <1>2, <1>3, <1>10 DEF ThreadRight, Wrote, WroteOutput, j
  <2>2. out' = [out EXCEPT ![j[2]].by = IF @ = th THEN Full ELSE @] /\ UNCHANGED <<good, file>>
    BY <1>10 DEF WroteOutput, j
  <2>3. out'[j[2]] = Whole /\ \A i \in ReduceIds \ {j[2]} : out'[i] = out[i]
    <3>1. out[j[2]].by = th
      BY <2>1
    <3>2. out' = [out EXCEPT ![j[2]] = [out[j[2]] EXCEPT !.by = Full]]
      BY <2>2, <3>1
    <3>3. \A b : [[by |-> th, right |-> b] EXCEPT !.by = Full] = [by |-> Full, right |-> b]
      OBVIOUS
    <3>4. [out[j[2]] EXCEPT !.by = Full] = Whole
      BY <2>1, <3>3 DEF Whole
    <3> QED
      BY <1>3, <2>1, <3>2, <3>4 DEF RestTypeOK
  <2>4. pc' = [pc EXCEPT ![th] = "report"] /\ pc'[th] = "report"
    BY <1>3, <1>10 DEF WroteOutput, Goto, CoreTypeOK
  <2>5. ThreadRight(th)'
    BY <1>1, <1>2, <1>4, <2>1, <2>3, <2>4 DEF ThreadRight, Wrote, Written
  <2>6. \A t \in Tasks : Untouched(t) \/ t = j
    BY <1>1, <1>2, <2>1, <2>2, <2>3, OthersUntouched
  <2> QED
    BY <1>5, <2>2, <2>4, <2>5, <2>6 DEF Busy
<1> QED
  BY <1>6, <1>7, <1>8, <1>9, <1>10

\* A thread goes on without writing anything.
LEMMA FilesQuiet ==
  ASSUME Inv, patient, FilesRight, NEW th \in Threads, NEW l, pc' = [pc EXCEPT ![th] = l],
         UNCHANGED <<job, alive, counter, complete, nfiles, good, file, out>>,
         \A u \in Threads \ {th} : Host(u)' = Host(u),
         ThreadRight(th)', l = "dial" => th \notin complete, coord' = "exited" => coord = "exited"
  PROVE  FilesRight'
<1>1. \A t \in Tasks : Untouched(t)
  BY DEF Untouched
<1>2. \A u \in Threads \ {th} : OnWorker(u)' => OnWorker(u)
  BY DEF OnWorker
<1> QED
  BY <1>1, <1>2, FilesMove

\* The coordinator dies of one of its own checks.
LEMMA FilesEnd ==
  ASSUME Inv, patient, FilesRight, UNCHANGED <<pc, job, host, alive, counter, complete, nfiles,
         fileVars>>,
         coord' = "exited" => coord = "exited"
  PROVE  FilesRight'
<1>1. \A u \in Threads : OnWorker(u)' => OnWorker(u)
  BY DEF OnWorker, Host
<1> QED
  BY <1>1, FilesSame

\* The report (coordinator.go:160-193).
LEMMA FilesReport ==
  ASSUME Inv, patient, FilesRight, NEW th \in Threads, Test(th) \/ Count(th)
  PROVE  FilesRight'
<1>0. Core /\ CoreTypeOK /\ \A u \in Threads : Host(u)' = Host(u)
  BY DEF Inv, Core, Test, Count, Host
<1>1. ASSUME Return(th), UNCHANGED <<coord, job, host, alive, counter, complete, nfiles, fileVars>>
      PROVE  FilesRight'
  <2>1. PICK l \in {"sleep", "askMap", "askReduce"} : pc' = [pc EXCEPT ![th] = l]
    BY <1>1 DEF Return, Goto
  <2>2. pc'[th] = l
    BY <1>0, <2>1 DEF CoreTypeOK
  <2>3. ThreadRight(th)'
    BY <2>2 DEF ThreadRight, Live, Executing, Busy
  <2> QED
    BY <1>0, <1>1, <2>1, <2>3, FilesQuiet DEF fileVars
<1>2. CASE Count(th)
  BY <1>1, <1>2 DEF Count
<1>3. CASE Test(th)
  <2>1. CASE Panic /\ UNCHANGED pc
    BY <1>3, <2>1, FilesEnd DEF Test, Panic
  <2>2. CASE Return(th) /\ UNCHANGED coordVars
    BY <1>1, <1>3, <2>2 DEF Test, coordVars
  <2>3. CASE Job(th)[2] < Total(Job(th)[1]) /\ Job(th) \notin complete /\ Goto(th, "mark")
             /\ UNCHANGED coordVars
    <3>1. pc' = [pc EXCEPT ![th] = "mark"] /\ pc'[th] = "mark" /\ pc[th] = "report"
      BY <1>0, <1>3, <2>3 DEF Goto, CoreTypeOK, Test
    <3>2. Live(th)
      BY <1>3 DEF Test, Live, Executing, Busy
    <3>3. Wrote(th)
      BY <3>2, LiveFacts
    <3>4. Job(th)' = Job(th) /\ Written(Job(th)) /\ UNCHANGED <<file, out, complete>>
      BY <1>3, <2>3, <3>1, <3>3 DEF Test, Job, Wrote, fileVars, coordVars
    <3>5. Written(Job(th))'
      BY <3>4 DEF Written
    <3>6. ThreadRight(th)'
      BY <2>3, <3>1, <3>4, <3>5 DEF ThreadRight, Wrote
    <3> QED
      BY <1>0, <1>3, <2>3, <3>1, <3>6, FilesQuiet DEF Test, coordVars, fileVars
  <2> QED
    BY <1>3, <2>1, <2>2, <2>3 DEF Test
<1> QED
  BY <1>2, <1>3

\* Monitors (coordinator.go:97-111, 141-155, 195-260).
LEMMA FilesMonitor ==
  ASSUME Inv, patient, FilesRight, NEW t \in Tasks, spawn_map_monitor(t) \/ spawn_reduce_monitor(t)
  PROVE  FilesRight'
<1>0. Core /\ CoreTypeOK /\ t \in Threads /\ t \notin Workers /\ Job(t) = t /\ t[1] \in Kinds
  BY MapReduceAssumption, TaskFacts DEF Inv, Core, Threads, Job
<1>1. CASE Redo(t)
  <2>1. CASE coord' = "fatal" /\ UNCHANGED <<worker_book, pc, host>>
    BY <1>1, <2>1, FilesEnd DEF Redo
  <2>2. CASE \E w \in worker_book \cap alive : host' = [host EXCEPT ![t] = w] /\ Goto(t,
             "dial") /\ UNCHANGED coord
    <3>1. \A u \in Threads \ {t} : Host(u)' = Host(u)
      BY <2>2 DEF Host, Threads, Inv, RestTypeOK
    <3>2. pc' = [pc EXCEPT ![t] = "dial"] /\ pc'[t] = "dial"
      BY <1>0, <2>2 DEF Goto, CoreTypeOK
    <3>3. ThreadRight(t)'
      BY <3>2 DEF ThreadRight, Live, Executing, Busy
    <3> QED
      BY <1>0, <1>1, <2>2, <3>1, <3>2, <3>3, FilesQuiet DEF Redo, fileVars
  <2> QED
    BY <1>1, <2>1, <2>2 DEF Redo, callWorker
<1>2. CASE Dial(t)
  <2>1. CASE coord' = "fatal" /\ UNCHANGED pc
    BY <1>2, <2>1, FilesEnd DEF Dial
  <2>2. CASE Goto(t, IF t[1] = "map" THEN "mapOpen" ELSE "readAll") /\ UNCHANGED coord
    <3>1. PICK l \in {"mapOpen", "readAll"} : pc' = [pc EXCEPT ![t] = l]
               /\ (l = "mapOpen" <=> t[1] = "map")
      BY <2>2 DEF Goto
    <3>2. pc'[t] = l
      BY <1>0, <3>1 DEF CoreTypeOK
    <3>3. t \notin complete
      BY <1>2 DEF Dial, FilesRight, TaskRight
    <3>4. ThreadRight(t)'
      BY <1>0, <1>2, <3>1, <3>2, <3>3 DEF ThreadRight, Wrote, Dial, Job, Kinds
    <3>5. \A u \in Threads : Host(u)' = Host(u)
      BY <1>2 DEF Host, Dial
    <3> QED
      BY <1>0, <1>2, <2>2, <3>1, <3>4, <3>5, FilesQuiet DEF Dial, fileVars
  <2> QED
    BY <1>2, <2>1, <2>2 DEF Dial
<1>3. ASSUME NEW l \in {"sleep", "off"}, Goto(t, l), UNCHANGED <<coordVars, alive, job, host,
             fileVars>>
      PROVE  FilesRight'
  <2>1. pc' = [pc EXCEPT ![t] = l] /\ pc'[t] = l
    BY <1>0, <1>3 DEF Goto, CoreTypeOK
  <2>2. ThreadRight(t)'
    BY <2>1 DEF ThreadRight, Live, Executing, Busy
  <2>3. \A u \in Threads : Host(u)' = Host(u)
    BY <1>3 DEF Host
  <2> QED
    BY <1>0, <1>3, <2>1, <2>2, <2>3, FilesQuiet DEF coordVars, fileVars
<1>4. CASE RedoLost(t)
  BY <1>3, <1>4 DEF RedoLost
<1>5. CASE MonitorEnds(t)
  <2>1. CASE Goto(t, "off") /\ UNCHANGED coordVars
    BY <1>3, <1>5, <2>1 DEF MonitorEnds
  <2>2. CASE Panic /\ UNCHANGED pc
    BY <1>5, <2>2, FilesEnd DEF MonitorEnds, Panic
  <2> QED
    BY <1>5, <2>1, <2>2 DEF MonitorEnds
<1> QED
  BY <1>1, <1>2, <1>4, <1>5 DEF spawn_map_monitor, spawn_reduce_monitor

\* With exact counters, done_reduce == nReduce says that every reduce task is
\* complete (coordinator.go:51).
LEMMA ReducesCounted ==
  ASSUME Inv, patient, FilesRight, done["reduce"] = NReduce
  PROVE  \A i \in 0 .. (NReduce - 1) : <<"reduce", i>> \in complete
<1> DEFINE ids == 0 .. (NReduce - 1)
<1> DEFINE all == {"reduce"} \X ids
<1>0. CoreTypeOK /\ Exact /\ "reduce" \in Kinds /\ NReduce \in Nat
  BY MapReduceAssumption DEF Inv, Core, PatientInv, Kinds
<1>1. /\ IsFiniteSet(ids) /\ Cardinality(ids) = NReduce
      /\ IsFiniteSet({"reduce"}) /\ Cardinality({"reduce"}) = 1
  <2>1. 0 \in Int /\ NReduce - 1 \in Int /\ NReduce - 1 - 0 + 1 = NReduce
    BY <1>0
  <2>2. CASE NReduce = 0
    <3>1. ids = {}
      BY <2>2
    <3> QED
      BY <2>2, <3>1, FS_EmptySet, FS_Singleton
  <2>3. CASE NReduce # 0
    <3>1. ~(0 > NReduce - 1)
      BY <1>0, <2>3
    <3>2. IsFiniteSet(ids) /\ Cardinality(ids) = NReduce
      BY <2>1, <3>1, FS_Interval
    <3> QED
      BY <3>2, FS_Singleton
  <2> QED
    BY <2>2, <2>3
<1>2. IsFiniteSet(all) /\ Cardinality(all) = NReduce
  <2> HIDE DEF ids
  <2>1. IsFiniteSet(all) /\ Cardinality(all) = 1 * NReduce
    BY <1>1, FS_Product
  <2> QED
    BY <1>0, <2>1
<1>3. CompleteOf("reduce") \subseteq all
  <2> SUFFICES ASSUME NEW t \in complete, t[1] = "reduce" PROVE t \in all
    BY DEF CompleteOf
  <2>1. t \in Tasks
    BY <1>0 DEF CoreTypeOK
  <2>2. t[2] < NReduce
    BY <2>1 DEF FilesRight, TaskRight, Total
  <2>3. t[2] \in Nat /\ t = <<t[1], t[2]>>
    BY <2>1, TaskFacts
  <2> QED
    BY <1>0, <2>2, <2>3
<1>4. /\ Cardinality(CompleteOf("reduce")) \in Nat /\ Cardinality(Counting("reduce")) \in Nat
      /\ NReduce + Cardinality(Counting("reduce")) = Cardinality(CompleteOf("reduce"))
  BY <1>0, FiniteParts DEF Exact
<1>5. Cardinality(CompleteOf("reduce")) <= Cardinality(all)
  BY <1>2, <1>3, FS_Subset
<1>6. Cardinality(CompleteOf("reduce")) = Cardinality(all)
  BY <1>0, <1>2, <1>4, <1>5
<1>7. CompleteOf("reduce") = all
  BY <1>2, <1>3, <1>6, FS_Subset
<1> QED
  BY <1>7 DEF CompleteOf

\* main() returns (coordinator.go:51-63).
LEMMA FilesExit ==
  ASSUME Inv, patient, FilesRight, Exit
  PROVE  FilesRight'
<1>1. \A t \in Tasks : Untouched(t)
  BY DEF Untouched, Exit, fileVars
<1>2. CoreTypeOK /\ \A u \in Threads : OnWorker(u)' = OnWorker(u) /\ Job(u)' = Job(u)
  BY DEF OnWorker, Host, Exit, Job, Inv, Core
<1>3. ASSUME NEW u \in Threads PROVE ThreadRight(u)'
  <2>1. ThreadRight(u) /\ pc'[u] = pc[u] /\ good'[u] = good[u] /\ (Live(u)' => Live(u))
    BY <1>2 DEF FilesRight, Exit, fileVars, Live
  <2>2. Live(u) => Untouched(Job(u))
    BY <1>1, LiveFacts
  <2> QED
    BY <1>2, <2>1, <2>2, ThreadStays
<1>4. ASSUME NEW t \in Tasks PROVE TaskRight(t)'
  <2>1. TaskRight(t)
    BY DEF FilesRight
  <2>2. UNCHANGED <<counter, pc>> /\ (pc[t] = "dial" => t \notin complete)
    BY <2>1 DEF Exit, TaskRight
  <2>3. /\ counter \in [Kinds -> Nat] /\ counter' \in [Kinds -> Nat]
        /\ \A k \in Kinds : counter[k] <= counter'[k]
    BY <1>2, <2>2 DEF CoreTypeOK
  <2> QED
    BY <1>1, <2>1, <2>2, <2>3, TaskStays
<1>5. AllFiles'
  BY DEF FilesRight, AllFiles, Exit
<1>6. ExitLast'
  BY ReducesCounted DEF Exit, Done, ExitLast
<1> QED
  BY <1>3, <1>4, <1>5, <1>6 DEF FilesRight

\* Nothing is written at the start (coordinator.go:263-293).
LEMMA InitFiles == Init => FilesInv
<1> SUFFICES ASSUME Init PROVE FilesRight
  BY DEF FilesInv
<1>1. \A u \in Threads : pc[u] \in {"register", "none"}
  BY DEF Init
<1>2. \A u \in Threads : ThreadRight(u)
  BY <1>1, IdleRight DEF Busy
<1>3. \A t \in Tasks : TaskRight(t)
  BY <1>1 DEF Init, MakeCoordinator, TaskRight, Threads
<1>4. counter["reduce"] = 0 /\ \A i \in ReduceIds : i \in Nat
  BY DEF Init, MakeCoordinator, Kinds, ReduceIds
<1>5. AllFiles /\ ExitLast
  BY <1>4 DEF AllFiles, ExitLast, Init, MakeCoordinator
<1> QED
  BY <1>2, <1>3, <1>5 DEF FilesRight

\* Every step of a patient job keeps what is known of its files.
LEMMA StepFiles == Inv /\ FilesInv /\ [Next]_vars => FilesInv'
<1> SUFFICES ASSUME Inv, FilesInv, [Next]_vars PROVE FilesInv'
  OBVIOUS
<1>1. patient' = patient
  BY PatienceFixed
<1> SUFFICES ASSUME patient PROVE FilesRight'
  BY <1>1 DEF FilesInv
<1>2. FilesRight
  BY DEF FilesInv
<1>3. CASE UNCHANGED vars
  BY <1>2, <1>3, FilesEnd DEF vars, coordVars
<1>4. ASSUME NEW w \in Workers, Crash(w) PROVE FilesRight'
  <2>1. \A u \in Threads : OnWorker(u)' => OnWorker(u)
    BY <1>4 DEF Crash, OnWorker, Host
  <2> QED
    BY <1>2, <1>4, <2>1, FilesSame DEF Crash, coordVars
<1>5. ASSUME NEW th \in Threads, DialFails(th) PROVE FilesRight'
  <2>1. \A u \in Threads : OnWorker(u)' => OnWorker(u)
    BY <1>5 DEF DialFails, OnWorker, Host
  <2> QED
    BY <1>2, <1>5, <2>1, FilesSame DEF DialFails, coordVars
<1>6. ASSUME NEW th \in Threads, map_exec(th) \/ reduce_exec(th) PROVE FilesRight'
  BY <1>2, <1>6, FilesWrite, FilesReport, FilesMark
     DEF map_exec, reduce_exec, CheckLastMapDone, CheckLastReduceDone, TestThenCount
<1> QED
  BY <1>2, <1>3, <1>4, <1>5, <1>6, FilesWorker, FilesMonitor, FilesExit DEF Next

\* When the coordinator of a patient job reports it done, every output file is
\* whole and was computed from whole intermediate files (coordinator.go:51),
\* for any workers, tasks, crashes and redo requests.
THEOREM MROutputCorrect == Spec => []OutputCorrect
<1>1. FilesInv => OutputCorrect
  <2> SUFFICES ASSUME FilesInv, patient, coord = "exited", NEW i \in 0 .. (NReduce - 1)
               PROVE  out[i] = [by |-> Full, right |-> TRUE]
    BY DEF OutputCorrect
  <2>1. <<"reduce", i>> \in complete
    BY DEF FilesInv, FilesRight, ExitLast
  <2>2. i \in ReduceIds
    <3>1. Cardinality(Workers) \in Nat
      BY FS_CardinalityType, MapReduceAssumption
    <3> QED
      BY <3>1, MapReduceAssumption DEF ReduceIds
  <2>3. TaskRight(<<"reduce", i>>)
    BY <2>2 DEF FilesInv, FilesRight, Tasks
  <2> QED
    BY <2>1, <2>3 DEF TaskRight, Written, Whole
<1> QED
  BY <1>1, MRPatientInvariant, InitFiles, StepFiles, PTL DEF Spec
====
