------------------------------- MODULE MapReduce -------------------------------
(***************************************************************************)
(* The MapReduce coordinator and its workers (src/mr).  A worker process   *)
(* runs the loop of Worker(), and serves redo requests in goroutines of    *)
(* their own; the coordinator runs one goroutine per incoming RPC and one  *)
(* monitor per task it gave out.  Steps are as fine as the code's locking: *)
(* a test made before c.mu.Lock() is a step of its own.                    *)
(*                                                                         *)
(* A task is <<"map", i>> or <<"reduce", i>>; a thread that executes tasks *)
(* is a worker (its loop) or a task (the redo its monitor asked for).      *)
(***************************************************************************)
EXTENDS Integers, FiniteSets

CONSTANTS
  Workers,       \* worker processes
  NMap,          \* len(filenames)
  NReduce,       \* nReduce
  Patience,      \* the values that patient may have
  Nil, Full,     \* not workers, not tasks
  MaxRedo,       \* bound: redo requests, by patience
  MaxCrashes     \* bound: worker crashes, by patience

VARIABLES
  coord,         \* the coordinator process: "up", "exited", "panic", "fatal"
  counter,       \* counter_map, counter_reduce: tasks given out
  done,          \* done_map, done_reduce
  complete,      \* map_complete, reduce_complete: the tasks marked
  worker_book,   \* the registered workers
  nfiles,        \* len(Reducefiles) as given with each reduce task
  alive,         \* the workers that have not crashed or exited
  pc,            \* where each thread is
  job,           \* the task the loop of a worker was last given
  host,          \* the worker that executes a task's redo
  good,          \* whether a thread's read_intermediates found everything
  file,          \* mr-i-*: Nil, Full, or the thread that opened it last
  out,           \* mr-out-i: the same, with whether the lines are right
  redos,         \* redo requests so far
  crashes,       \* crashes so far
  patient        \* no live execution outlasts its monitor's 10 s, so that a
                 \*   redo is asked for only when the work was lost

coordVars  == <<coord, counter, done, complete, worker_book, nfiles>>
fileVars   == <<good, file, out>>
boundVars  == <<redos, crashes, patient>>
vars       == <<coordVars, alive, pc, job, host, fileVars, boundVars>>

Kinds    == {"map", "reduce"}
Total(k) == IF k = "map" THEN NMap ELSE NReduce

MapIds    == 0 .. (NMap - 1)
\* Callers that pass the unlocked test together can be given more reduce
\* tasks than there are, at most one each.
ReduceIds == 0 .. (NReduce + Cardinality(Workers) - 1)
Tasks     == ({"map"} \X MapIds) \cup ({"reduce"} \X ReduceIds)
Threads   == Workers \cup Tasks

ASSUME MapReduceAssumption ==
  /\ IsFiniteSet(Workers)
  /\ NMap \in Nat \ {0} /\ NReduce \in Nat \ {0}
  /\ Patience \subseteq BOOLEAN
  /\ MaxRedo \in [BOOLEAN -> Nat] /\ MaxCrashes \in [BOOLEAN -> Nat]
  /\ Workers \cap Tasks = {} /\ Nil \notin Threads /\ Full \notin Threads \cup {Nil}

Job(th)  == IF th \in Workers THEN job[th] ELSE th
Host(th) == IF th \in Workers THEN th ELSE host[th]

\* Steps of a thread in its worker process need the process; steps of the RPC
\* handler that serves it need the coordinator.
OnWorker(th) == Host(th) \in alive
OnCoord      == coord = "up"

Goto(th, l) == pc' = [pc EXCEPT ![th] = l]
Panic       == coord' = "panic" /\ UNCHANGED <<counter, done, complete, worker_book, nfiles>>

-----------------------------------------------------------------------------
(* The loop of a worker, and the coordinator's side of its RPCs            *)

\* call("Coordinator.RegisterWorker")
RegisterWorker(w) ==
  /\ pc[w] = "register" /\ OnWorker(w) /\ OnCoord
  /\ worker_book' = worker_book \cup {w}
  /\ Goto(w, "askMap")
  /\ UNCHANGED <<coord, counter, done, complete, nfiles, alive, job, host, fileVars, boundVars>>

\* GiveMapTask before the lock: io.EOF sends the worker on to the reduce loop.
AskMap(w) ==
  /\ pc[w] = "askMap" /\ OnWorker(w) /\ OnCoord
  /\ Goto(w, IF counter["map"] >= NMap THEN "askReduce" ELSE "giveMap")
  /\ UNCHANGED <<coordVars, alive, job, host, fileVars, boundVars>>

GiveMapTaskAgain(w) ==
  LET t == <<"map", counter["map"]>> IN
  /\ pc[w] = "giveMap" /\ OnCoord
  /\ job' = [job EXCEPT ![w] = t]
  /\ pc' = [pc EXCEPT ![w] = "mapOpen", ![t] = "sleep"]
  /\ UNCHANGED <<coordVars, alive, host, fileVars, boundVars>>

GiveMapTaskLate(w) ==
  LET t == <<"map", counter["map"] + 1>> IN
  /\ pc[w] = "giveMap" /\ OnCoord
  /\ counter["map"] < NMap
  /\ counter' = [counter EXCEPT !["map"] = @ + 1]
  /\ job' = [job EXCEPT ![w] = t]
  /\ pc' = [pc EXCEPT ![w] = "mapOpen", ![t] = "sleep"]
  /\ UNCHANGED <<coord, done, complete, worker_book, nfiles, alive, host, fileVars, boundVars>>

\* GiveMapTask under the lock: filenames[counter_map] is out of range when
\* another caller took the last task since the test, and nothing recovers.
GiveMapTask(w) ==
  LET t == <<"map", counter["map"]>> IN
  /\ pc[w] = "giveMap" /\ OnCoord
  /\ \/ /\ counter["map"] >= NMap
        /\ Panic
        /\ UNCHANGED <<pc, job>>
     \/ /\ counter["map"] < NMap
        /\ counter' = [counter EXCEPT !["map"] = @ + 1]
        /\ job' = [job EXCEPT ![w] = t]
        /\ pc' = [pc EXCEPT ![w] = "mapOpen", ![t] = "sleep"]
        /\ UNCHANGED <<coord, done, complete, worker_book, nfiles>>
  /\ UNCHANGED <<alive, host, fileVars, boundVars>>

AskReduceAnyTime(w) ==
  /\ pc[w] = "askReduce" /\ OnWorker(w) /\ OnCoord
  /\ counter["reduce"] < NReduce
  /\ Goto(w, "giveReduce")
  /\ UNCHANGED <<coordVars, alive, job, host, fileVars, boundVars>>

\* GiveReduceTask before the lock.  Without a task (-1: maps outstanding, or
\* io.EOF: none left) the worker asks again, forever.
AskReduce(w) ==
  /\ pc[w] = "askReduce" /\ OnWorker(w) /\ OnCoord
  /\ done["map"] = NMap
  /\ counter["reduce"] < NReduce
  /\ Goto(w, "giveReduce")
  /\ UNCHANGED <<coordVars, alive, job, host, fileVars, boundVars>>

\* GiveReduceTask under the lock, where the test is not repeated.
GiveReduceTask(w) ==
  LET i == counter["reduce"]
      t == <<"reduce", i>>
  IN
  /\ pc[w] = "giveReduce" /\ OnCoord
  /\ counter' = [counter EXCEPT !["reduce"] = @ + 1]
  /\ nfiles' = [nfiles EXCEPT ![i] = counter["map"]]
  /\ job' = [job EXCEPT ![w] = t]
  /\ pc' = [pc EXCEPT ![w] = "readAll", ![t] = "sleep"]
  /\ UNCHANGED <<coord, done, complete, worker_book, alive, host, fileVars, boundVars>>

-----------------------------------------------------------------------------
(* Executing a task: map_exec and reduce_exec, in any thread               *)

\* bucket_by_intermediate_key opens its files with O_TRUNC ...
OpenBuckets(th) ==
  /\ pc[th] = "mapOpen" /\ OnWorker(th)
  /\ file' = [file EXCEPT ![Job(th)[2]] = th]
  /\ Goto(th, "mapClose")
  /\ UNCHANGED <<coordVars, alive, job, host, good, out, boundVars>>

\* ... and has written all of them.  Copies of a map task write the same
\* bytes, so the files are whole once the last to truncate them is through.
CloseBuckets(th) ==
  /\ pc[th] = "mapClose" /\ OnWorker(th)
  /\ file' = [file EXCEPT ![Job(th)[2]] = IF @ = th THEN Full ELSE @]
  /\ Goto(th, "report")
  /\ UNCHANGED <<coordVars, alive, job, host, good, out, boundVars>>

\* What read_intermediates can make of mr-0-r .. mr-(n-1)-r: a missing file
\* reads as empty, one that is being written may lack pairs of this bucket.
ReadOutcomes(n) ==
  IF n # NMap \/ \E m \in 0 .. (n - 1) : file[m] = Nil THEN {FALSE}
  ELSE IF \A m \in MapIds : file[m] = Full THEN {TRUE} ELSE BOOLEAN

read_intermediates(th) ==
  /\ pc[th] = "readAll" /\ OnWorker(th)
  /\ \E g \in ReadOutcomes(nfiles[Job(th)[2]]) : good' = [good EXCEPT ![th] = g]
  /\ Goto(th, "outOpen")
  /\ UNCHANGED <<coordVars, alive, job, host, file, out, boundVars>>

\* perform_reduce truncates mr-out-i.  Others may be in the middle of writing
\* it: their lines end up in it as well.
OpenOutput(th) ==
  LET i == Job(th)[2]
      writers == {th} \cup {u \in Threads : /\ pc[u] = "outClose" /\ OnWorker(u)
                                          /\ Job(u) = Job(th)}
  IN
  /\ pc[th] = "outOpen" /\ OnWorker(th)
  /\ out' = [out EXCEPT ![i] = [by |-> th, right |-> \A u \in writers : good[u]]]
  /\ Goto(th, "outClose")
  /\ UNCHANGED <<coordVars, alive, job, host, good, file, boundVars>>

WroteOutput(th) ==
  /\ pc[th] = "outClose" /\ OnWorker(th)
  /\ out' = [out EXCEPT ![Job(th)[2]].by = IF @ = th THEN Full ELSE @]
  /\ Goto(th, "report")
  /\ UNCHANGED <<coordVars, alive, job, host, good, file, boundVars>>

-----------------------------------------------------------------------------
(* CheckLastMapDone and CheckLastReduceDone, in the coordinator            *)

\* After the RPC: a worker's loop asks for the next task, a redo request has
\* been served and its monitor sleeps again.
Return(th) ==
  Goto(th, IF th \notin Workers THEN "sleep"
           ELSE IF Job(th)[1] = "map" THEN "askMap" ELSE "askReduce")

\* The unlocked test; reduce_complete has no element for a task too many.
Test(th) ==
  /\ pc[th] = "report" /\ OnWorker(th) /\ OnCoord
  /\ \/ /\ Job(th)[2] >= Total(Job(th)[1])
        /\ Panic /\ UNCHANGED pc
     \/ /\ Job(th)[2] < Total(Job(th)[1])
        /\ IF Job(th) \in complete THEN Return(th) ELSE Goto(th, "mark")
        /\ UNCHANGED coordVars
  /\ UNCHANGED <<alive, job, host, fileVars, boundVars>>

MarkUncounted(th) ==
  /\ pc[th] = "mark" /\ OnCoord
  /\ complete' = complete \cup {Job(th)}
  /\ Return(th)
  /\ UNCHANGED <<coord, counter, done, worker_book, nfiles, alive, job, host, fileVars, boundVars>>

\* The unlocked assignment.
Mark(th) ==
  /\ pc[th] = "mark" /\ OnCoord
  /\ complete' = complete \cup {Job(th)}
  /\ Goto(th, "count")
  /\ UNCHANGED <<coord, counter, done, worker_book, nfiles, alive, job, host, fileVars, boundVars>>

CountMaps(th) ==
  /\ pc[th] = "count" /\ OnCoord
  /\ done' = [done EXCEPT !["map"] = @ + 1]
  /\ Return(th)
  /\ UNCHANGED <<coord, counter, complete, worker_book, nfiles, alive, job, host, fileVars, boundVars>>

\* The locked increment.  The error or nil that follows is not looked at.
Count(th) ==
  /\ pc[th] = "count" /\ OnCoord
  /\ done' = [done EXCEPT ![Job(th)[1]] = @ + 1]
  /\ Return(th)
  /\ UNCHANGED <<coord, counter, complete, worker_book, nfiles, alive, job, host, fileVars, boundVars>>

TestThenCount(th) == Test(th) \/ Mark(th) \/ Count(th)

CheckLastMapDone(th)    == Job(th) # Nil /\ Job(th)[1] = "map" /\ TestThenCount(th)
CheckLastReduceDone(th) == Job(th) # Nil /\ Job(th)[1] = "reduce" /\ TestThenCount(th)

-----------------------------------------------------------------------------
(* Monitors                                                                *)

\* Somebody is still at work on t.
AtWork(t) ==
  \E th \in Threads : /\ Job(th) = t
                      /\ \/ pc[th] \in {"mark", "count"}
                         \/ /\ pc[th] \in {"mapOpen", "mapClose", "readAll", "outOpen",
                                           "outClose", "report"}
                            /\ OnWorker(th)

\* callWorker under the lock: the map is walked in any order, workers that do
\* not answer are deleted until one does; log.Fatal when none does.
callWorker(t) ==
  \/ /\ worker_book \cap alive = {}
     /\ coord' = "fatal"
     /\ UNCHANGED <<worker_book, pc, host>>
  \/ \E w \in worker_book \cap alive, dead \in SUBSET (worker_book \ alive) :
       /\ worker_book' = worker_book \ dead
       /\ host' = [host EXCEPT ![t] = w]
       /\ Goto(t, "dial")
       /\ UNCHANGED coord

\* The monitor wakes up: callWorkerRedoMap or callWorkerRedoReduce.
Redo(t) ==
  /\ pc[t] = "sleep" /\ OnCoord
  /\ t[2] < Total(t[1]) /\ t \notin complete
  /\ patient => ~AtWork(t)
  /\ redos < MaxRedo[patient]
  /\ redos' = redos + 1
  /\ callWorker(t)
  /\ UNCHANGED <<counter, done, complete, nfiles, alive, job, fileVars, crashes, patient>>

\* The second dial, without the lock: log.Fatal if the worker is gone.
Dial(t) ==
  /\ pc[t] = "dial" /\ OnCoord
  /\ \/ /\ OnWorker(t)
        /\ Goto(t, IF t[1] = "map" THEN "mapOpen" ELSE "readAll")
        /\ UNCHANGED coord
     \/ /\ ~OnWorker(t)
        /\ coord' = "fatal"
        /\ UNCHANGED pc
  /\ UNCHANGED <<counter, done, complete, worker_book, nfiles, alive, job, host, fileVars, boundVars>>

\* conn.Call fails because the worker died.
RedoLost(t) ==
  /\ pc[t] \in {"mapOpen", "mapClose", "readAll", "outOpen", "outClose", "report"}
  /\ ~OnWorker(t) /\ OnCoord
  /\ Goto(t, "sleep")
  /\ UNCHANGED <<coordVars, alive, job, host, fileVars, boundVars>>

MonitorLooksOnce(t) ==
  /\ pc[t] = "sleep" /\ OnCoord
  /\ Goto(t, "off")
  /\ UNCHANGED <<coordVars, alive, job, host, fileVars, boundVars>>

\* The monitor wakes up and leaves its loop, or indexes past reduce_complete.
MonitorEnds(t) ==
  /\ pc[t] = "sleep" /\ OnCoord
  /\ \/ /\ t \in complete
        /\ Goto(t, "off")
        /\ UNCHANGED coordVars
     \/ /\ t[2] >= Total(t[1])
        /\ Panic /\ UNCHANGED pc
  /\ UNCHANGED <<alive, job, host, fileVars, boundVars>>

spawn_map_monitor(t)    == t[1] = "map" /\ (Redo(t) \/ Dial(t) \/ RedoLost(t) \/ MonitorEnds(t))
spawn_reduce_monitor(t) == t[1] = "reduce" /\ (Redo(t) \/ Dial(t) \/ RedoLost(t) \/ MonitorEnds(t))

-----------------------------------------------------------------------------
(* Processes that end                                                      *)

Done == done["map"] = NMap /\ done["reduce"] = NReduce

\* main() polls Done() and returns.
Exit ==
  /\ OnCoord /\ Done
  /\ coord' = "exited"
  /\ UNCHANGED <<counter, done, complete, worker_book, nfiles, alive, pc, job, host, fileVars, boundVars>>

Crash(w) ==
  /\ w \in alive /\ crashes < MaxCrashes[patient]
  /\ alive' = alive \ {w}
  /\ crashes' = crashes + 1
  /\ UNCHANGED <<coordVars, pc, job, host, fileVars, redos, patient>>

\* call() cannot reach the coordinator: log.Fatal ends the worker process.
DialFails(th) ==
  /\ pc[th] \in {"register", "askMap", "askReduce", "report"}
  /\ OnWorker(th) /\ ~OnCoord
  /\ alive' = alive \ {Host(th)}
  /\ UNCHANGED <<coordVars, pc, job, host, fileVars, boundVars>>

-----------------------------------------------------------------------------

MakeCoordinator ==
  /\ coord = "up"
  /\ counter = [k \in Kinds |-> 0]
  /\ done = [k \in Kinds |-> 0]
  /\ complete = {}
  /\ worker_book = {}
  /\ nfiles = [i \in ReduceIds |-> 0]

Init ==
  /\ MakeCoordinator
  /\ alive = Workers
  /\ pc = [th \in Threads |-> IF th \in Workers THEN "register" ELSE "none"]
  /\ job = [w \in Workers |-> Nil]
  /\ host = [t \in Tasks |-> Nil]
  /\ good = [th \in Threads |-> FALSE]
  /\ file = [m \in MapIds |-> Nil]
  /\ out = [i \in ReduceIds |-> [by |-> Nil, right |-> FALSE]]
  /\ redos = 0
  /\ crashes = 0
  /\ patient \in Patience

Worker(w) ==
  \/ RegisterWorker(w) \/ AskMap(w) \/ GiveMapTask(w)
  \/ AskReduce(w) \/ GiveReduceTask(w)

map_exec(th)    == OpenBuckets(th) \/ CloseBuckets(th) \/ CheckLastMapDone(th)
reduce_exec(th) == read_intermediates(th) \/ OpenOutput(th) \/ WroteOutput(th) \/ CheckLastReduceDone(th)

Next ==
  \/ \E w \in Workers : Worker(w) \/ Crash(w)
  \/ \E th \in Threads : map_exec(th) \/ reduce_exec(th) \/ DialFails(th)
  \/ \E t \in Tasks : spawn_map_monitor(t) \/ spawn_reduce_monitor(t)
  \/ Exit

Spec == Init /\ [][Next]_vars

\* Every goroutine is scheduled and every timer fires; workers may crash but
\* need not.
Fairness ==
  /\ \A w \in Workers : WF_vars(Worker(w))
  /\ \A th \in Threads : WF_vars(map_exec(th)) /\ WF_vars(reduce_exec(th))
  /\ \A t \in Tasks : WF_vars(spawn_map_monitor(t)) /\ WF_vars(spawn_reduce_monitor(t))
  /\ WF_vars(Exit)

FairSpec == Spec /\ Fairness

-----------------------------------------------------------------------------

PCs == {"none", "register", "askMap", "giveMap", "mapOpen", "mapClose", "askReduce", "giveReduce",
        "readAll", "outOpen", "outClose", "report", "mark", "count", "sleep", "dial", "off"}

TypeOK ==
  /\ coord \in {"up", "exited", "panic", "fatal"}
  /\ counter \in [Kinds -> Nat] /\ counter["map"] <= NMap
  /\ done \in [Kinds -> Nat]
  /\ complete \subseteq Tasks
  /\ worker_book \subseteq Workers
  /\ nfiles \in [ReduceIds -> Nat]
  /\ alive \subseteq Workers
  /\ pc \in [Threads -> PCs]
  /\ job \in [Workers -> Tasks \cup {Nil}]
  /\ host \in [Tasks -> Workers \cup {Nil}]
  /\ good \in [Threads -> BOOLEAN]
  /\ file \in [MapIds -> Threads \cup {Nil, Full}]
  /\ out \in [ReduceIds -> [by : Threads \cup {Nil, Full}, right : BOOLEAN]]
  /\ redos \in Nat /\ crashes \in Nat /\ patient \in BOOLEAN

\* The loops of two workers are never given the same task (coordinator.go:
\* 85-91, 122-135), although both may have passed the test together.
GivenOnce == \A v, w \in Workers : v # w /\ job[v] # Nil => job[v] # job[w]

\* A task that was given out and is not complete has a monitor that will look
\* at it again (coordinator.go:90, 97-111, 133, 141-155): no task is orphaned.
UnfinishedIsWatched ==
  \A t \in Tasks : t[2] < counter[t[1]] /\ t \notin complete => pc[t] \notin {"none", "off"}

\* Threads of kind k that have marked their task and not yet counted it.
Counting(k) == {th \in Threads : pc[th] = "count" /\ Job(th)[1] = k}
CompleteOf(k) == {t \in complete : t[1] = k}

\* Whatever the races, done_map and done_reduce never fall behind the tasks
\* that are marked complete (coordinator.go:160-193): Done() cannot be missed
\* for want of an increment.
CountNotBehind ==
  \A k \in Kinds : done[k] + Cardinality(Counting(k)) >= Cardinality(CompleteOf(k))

\* If no execution outlasts its monitor, the counters are exact.
CountExact ==
  patient => \A k \in Kinds : done[k] + Cardinality(Counting(k)) = Cardinality(CompleteOf(k))

\* No reduce task is given out before every map task is complete
\* (coordinator.go:114, 157, 170-174).
ReduceAfterAllMaps == counter["reduce"] > 0 => \A m \in MapIds : <<"map", m>> \in complete

\* It holds if no execution outlasts its monitor: done_map == nMap, which
\* GiveReduceTask tests without the lock (coordinator.go:114), then means it.
PatientReduceAfterAllMaps == patient => ReduceAfterAllMaps

\* When the coordinator of a patient job reports it done, every output file
\* is whole and was computed from whole intermediate files (coordinator.go:51).
OutputCorrect ==
  patient /\ coord = "exited" =>
    \A i \in 0 .. (NReduce - 1) : out[i] = [by |-> Full, right |-> TRUE]

\* The coordinator does not wait forever: it finishes, or dies of one of its
\* own checks, as long as a worker remains (coordinator.go:55-63, 97-111).
NeverHangs == patient ~> coord # "up"
====
