--------------------------- MODULE SubagentsProofs ---------------------------
(***************************************************************************)
(* Subagents proved for any number of tasks, workers, signals and nudges:   *)
(* no child is left without a worker that waits for it, and a stop that was *)
(* written is not lost, however nudges and children interleave.             *)
(***************************************************************************)
EXTENDS Subagents, FiniteSetTheorems, SequenceTheorems, TLAPS

-----------------------------------------------------------------------------
(* The pool *)

PoolShape ==
  /\ queue \in Seq(Tasks)
  /\ worker \in [Workers -> [pc : {"take", "spawn", "wait", "done"},
                             task : Tasks \cup {0}]]
  /\ child \in [Tasks -> {"none", "running", "exited", "killed"}]
  /\ clock \in 1 .. MaxClock + 1
  /\ root \in [Tasks -> 0 .. MaxClock + 1]

\* A child that runs has a worker waiting for it.
Waited == \A t \in Tasks : child[t] = "running" =>
            \E w \in Workers : worker[w] = [pc |-> "wait", task |-> t]

\* A child has a directory from its start on.
Rooted == \A t \in Tasks : root[t] # 0 <=> child[t] # "none"

\* A task is started once: those in the queue and those about to be started have no
\* child yet, and nobody else holds them.
Unstarted ==
  /\ \A i \in DOMAIN queue : child[queue[i]] = "none"
  /\ \A i, j \in DOMAIN queue : queue[i] = queue[j] => i = j
  /\ \A w \in Workers : worker[w].pc = "spawn" =>
       /\ worker[w].task \in Tasks
       /\ child[worker[w].task] = "none"
       /\ \A i \in DOMAIN queue : queue[i] # worker[w].task
       /\ \A v \in Workers : worker[v].pc = "spawn" /\ worker[v].task = worker[w].task
                               => v = w
  /\ \A w \in Workers : worker[w].pc = "wait" => worker[w].task \in Tasks

PoolInv == PoolShape /\ Waited /\ Rooted /\ Unstarted

\* All tasks are in the queue at first.
LEMMA InitPool == Init => PoolInv
<1> SUFFICES ASSUME Init PROVE PoolInv
  OBVIOUS
<1> USE SubagentsAssumptions DEF Init, Tasks
<1>1. queue \in Seq(Tasks)
  <2>1. Total \in Nat
    OBVIOUS
  <2> QED
    BY <2>1, IsASeq
<1>2. PoolShape
  BY <1>1 DEF PoolShape
<1>3. Waited /\ Rooted
  BY DEF Waited, Rooted
<1>4. Unstarted
  BY DEF Unstarted
<1> QED
  BY <1>2, <1>3, <1>4 DEF PoolInv

\* What a step of the pool's signals leaves alone.
LEMMA PoolUnchanged == PoolInv /\ UNCHANGED <<queue, worker, child, clock, root>> => PoolInv'
  BY DEF PoolInv, PoolShape, Waited, Rooted, Unstarted

\* A worker takes a task or finds none.
LEMMA TakeKeepsPool == ASSUME PoolInv, NEW w \in Workers, Take(w) PROVE PoolInv'
<1> USE DEF PoolInv
<1>1. /\ worker[w].pc = "take"
      /\ UNCHANGED <<child, clock, root>>
  BY DEF Take, children
<1>2. CASE queue = << >>
  <2>1. worker' = [worker EXCEPT ![w].pc = "done"] /\ queue' = queue
    BY <1>2 DEF Take
  <2>2. worker'[w].pc = "done" /\ \A v \in Workers \ {w} : worker'[v] = worker[v]
    BY <2>1 DEF PoolShape
  <2>3. PoolShape'
    BY <1>1, <2>1 DEF PoolShape
  <2>4. Waited' /\ Rooted'
    BY <1>1, <2>2 DEF Waited, Rooted, PoolShape
  <2>5. Unstarted'
    BY <1>1, <2>1, <2>2 DEF Unstarted
  <2> QED
    BY <2>3, <2>4, <2>5
<1>3. CASE queue # << >>
  <2>1. /\ worker' = [worker EXCEPT ![w] = [pc |-> "spawn", task |-> Head(queue)]]
        /\ queue' = Tail(queue)
    BY <1>3 DEF Take, Rest
  <2>2. /\ Head(queue) = queue[1] /\ 1 \in DOMAIN queue /\ queue[1] \in Tasks
        /\ queue' \in Seq(Tasks)
        /\ \A i \in DOMAIN queue' : i + 1 \in DOMAIN queue /\ queue'[i] = queue[i + 1] /\ i \in Nat \ {0}
    BY <1>3, <2>1, HeadTailProperties DEF PoolShape
  <2>3. /\ worker'[w] = [pc |-> "spawn", task |-> queue[1]]
        /\ \A v \in Workers \ {w} : worker'[v] = worker[v]
    BY <2>1, <2>2 DEF PoolShape
  <2>4. PoolShape'
    BY <1>1, <2>1, <2>2 DEF PoolShape
  <2>5. Waited' /\ Rooted'
    BY <1>1, <2>3 DEF Waited, Rooted
  <2>6. \A i \in DOMAIN queue' : queue'[i] # queue[1]
    BY <2>2 DEF Unstarted
  <2>7. /\ \A i \in DOMAIN queue' : child'[queue'[i]] = "none"
        /\ \A i, j \in DOMAIN queue' : queue'[i] = queue'[j] => i = j
    BY <1>1, <2>2 DEF Unstarted
  <2>8. ASSUME NEW v \in Workers, worker'[v].pc = "spawn"
        PROVE  /\ worker'[v].task \in Tasks
               /\ child'[worker'[v].task] = "none"
               /\ \A i \in DOMAIN queue' : queue'[i] # worker'[v].task
               /\ \A u \in Workers : worker'[u].pc = "spawn" /\ worker'[u].task = worker'[v].task
                                       => u = v
    <3>1. CASE v = w
      BY <1>1, <2>2, <2>3, <2>6, <3>1 DEF Unstarted
    <3>2. CASE v # w
      <4>1. worker'[v] = worker[v]
        BY <2>3, <3>2
      <4>2. worker[v].task # queue[1]
        BY <2>2, <2>8, <4>1 DEF Unstarted
      <4>3. /\ worker[v].task \in Tasks /\ child[worker[v].task] = "none"
            /\ \A i \in DOMAIN queue : queue[i] # worker[v].task
        BY <2>8, <4>1 DEF Unstarted
      <4>4. ASSUME NEW u \in Workers, worker'[u].pc = "spawn", worker'[u].task = worker'[v].task
            PROVE  u = v
        <5>1. u # w
          BY <2>3, <4>1, <4>2, <4>4
        <5>2. worker[u].pc = "spawn" /\ worker[u].task = worker[v].task /\ worker[v].pc = "spawn"
          BY <2>3, <2>8, <4>1, <4>4, <5>1
        <5> QED
          BY <5>2 DEF Unstarted
      <4> QED
        BY <1>1, <2>2, <4>1, <4>3, <4>4
    <3> QED
      BY <3>1, <3>2
  <2>9. \A v \in Workers : worker'[v].pc = "wait" => worker'[v].task \in Tasks
    BY <2>3 DEF Unstarted
  <2>10. Unstarted'
    BY <2>7, <2>8, <2>9 DEF Unstarted
  <2> QED
    BY <2>4, <2>5, <2>10
<1> QED
  BY <1>2, <1>3

\* A worker whose child is not running goes back for the next task.
LEMMA AgainKeepsPool ==
  ASSUME PoolInv, NEW w \in Workers, Again(w), UNCHANGED <<queue, clock, root>>,
         child' \in [Tasks -> {"none", "running", "exited", "killed"}],
         \A t \in Tasks : /\ child'[t] = "none" <=> child[t] = "none"
                          /\ child'[t] = "running" =>
                               child[t] = "running" /\ ~(worker[w].pc = "wait" /\ worker[w].task = t)
  PROVE  PoolInv'
<1> USE DEF PoolInv
<1>1. /\ worker'[w] = [pc |-> "take", task |-> 0]
      /\ \A v \in Workers \ {w} : worker'[v] = worker[v]
  BY DEF Again, PoolShape
<1>2. PoolShape'
  BY DEF PoolShape, Again
<1>3. Waited'
  <2> SUFFICES ASSUME NEW t \in Tasks, child'[t] = "running"
               PROVE  \E v \in Workers : worker'[v] = [pc |-> "wait", task |-> t]
    BY DEF Waited
  <2>1. PICK v \in Workers : worker[v] = [pc |-> "wait", task |-> t]
    BY DEF Waited
  <2>2. v # w
    BY <2>1
  <2> QED
    BY <1>1, <2>1, <2>2
<1>4. Rooted'
  BY DEF Rooted
<1>5. \A i \in DOMAIN queue : queue[i] \in Tasks
  BY DEF PoolShape
<1>6. \A v \in Workers : worker'[v].pc \in {"spawn", "wait"} =>
        v # w /\ worker'[v] = worker[v]
  BY <1>1
<1>7. Unstarted'
  BY <1>5, <1>6 DEF Unstarted
<1> QED
  BY <1>2, <1>3, <1>4, <1>7

\* A child comes into a directory named by the time.
LEMMA StartKeepsPool == ASSUME PoolInv, NEW w \in Workers, Start(w) PROVE PoolInv'
<1> USE DEF PoolInv
<1> DEFINE t == worker[w].task
<1>1. /\ worker[w].pc = "spawn" /\ t \in Tasks /\ child[t] = "none"
      /\ UNCHANGED <<queue, clock>>
      /\ root' = [root EXCEPT ![t] = clock]
      /\ child' = [child EXCEPT ![t] = "running"]
      /\ worker' = [worker EXCEPT ![w].pc = "wait"]
  BY DEF Start, Unstarted
<1>2. /\ worker'[w] = [pc |-> "wait", task |-> t]
      /\ \A v \in Workers \ {w} : worker'[v] = worker[v]
  BY <1>1 DEF PoolShape
<1>3. PoolShape'
  <2>1. clock \in 0 .. MaxClock + 1
    BY SubagentsAssumptions DEF PoolShape
  <2>2. worker' \in [Workers -> [pc : {"take", "spawn", "wait", "done"},
                                 task : Tasks \cup {0}]]
    <3>1. [worker[w] EXCEPT !.pc = "wait"] \in [pc : {"take", "spawn", "wait", "done"},
                                                task : Tasks \cup {0}]
      BY DEF PoolShape
    <3>2. worker' = [worker EXCEPT ![w] = [worker[w] EXCEPT !.pc = "wait"]]
      BY <1>1
    <3> QED
      BY <3>1, <3>2 DEF PoolShape
  <2>3. root' \in [Tasks -> 0 .. MaxClock + 1]
    BY <1>1, <2>1 DEF PoolShape
  <2>4. child' \in [Tasks -> {"none", "running", "exited", "killed"}]
    BY <1>1 DEF PoolShape
  <2> QED
    BY <1>1, <2>2, <2>3, <2>4 DEF PoolShape
<1>4. Waited'
  <2> SUFFICES ASSUME NEW u \in Tasks, child'[u] = "running"
               PROVE  \E v \in Workers : worker'[v] = [pc |-> "wait", task |-> u]
    BY DEF Waited
  <2>1. CASE u = t
    BY <1>2, <2>1
  <2>2. CASE u # t
    <3>1. child[u] = "running"
      BY <1>1, <2>2 DEF PoolShape
    <3>2. PICK v \in Workers : worker[v] = [pc |-> "wait", task |-> u]
      BY <3>1 DEF Waited
    <3>3. v # w
      BY <1>1, <3>2
    <3> QED
      BY <1>2, <3>2, <3>3
  <2> QED
    BY <2>1, <2>2
<1>5. Rooted'
  BY <1>1 DEF Rooted, PoolShape
<1>6. \A i \in DOMAIN queue : queue[i] # t /\ queue[i] \in Tasks
  BY <1>1 DEF Unstarted, PoolShape
<1>7. Unstarted'
  BY <1>1, <1>2, <1>6 DEF Unstarted, PoolShape
<1> QED
  BY <1>3, <1>4, <1>5, <1>7

\* A child ends by itself, or by a stop.
LEMMA EndKeepsPool ==
  ASSUME PoolInv, NEW t \in Tasks, child[t] = "running",
         child' = [child EXCEPT ![t] = "exited"], UNCHANGED <<queue, worker, clock, root>>
  PROVE  PoolInv'
<1> USE DEF PoolInv
<1>1. PoolShape'
  BY DEF PoolShape
<1>2. \A u \in Tasks : child'[u] = IF u = t THEN "exited" ELSE child[u]
  BY DEF PoolShape
<1>3. Waited' /\ Rooted'
  BY <1>2 DEF Waited, Rooted
<1>4. \A i \in DOMAIN queue : queue[i] \in Tasks
  BY DEF PoolShape
<1>5. Unstarted'
  BY <1>2, <1>4 DEF Unstarted
<1> QED
  BY <1>1, <1>3, <1>5

\* A worker's child reached its time limit.
LEMMA TimesOutKeepsPool == ASSUME PoolInv, NEW w \in Workers, TimesOut(w) PROVE PoolInv'
<1> DEFINE t == worker[w].task
<1>1. /\ worker[w].pc = "wait" /\ child[t] = "running"
      /\ child' = [child EXCEPT ![t] = "killed"]
      /\ Again(w) /\ UNCHANGED <<queue, clock, root>>
  BY DEF TimesOut, AfterError, Killed
<1>2. t \in Tasks
  BY <1>1 DEF PoolInv, Unstarted
<1>3. child' \in [Tasks -> {"none", "running", "exited", "killed"}]
  BY <1>1 DEF PoolInv, PoolShape
<1>4. \A u \in Tasks : child'[u] = IF u = t THEN "killed" ELSE child[u]
  BY <1>1 DEF PoolInv, PoolShape
<1> QED
  BY <1>1, <1>2, <1>3, <1>4, AgainKeepsPool

\* Every step keeps the pool in order.
LEMMA NextPool == PoolInv /\ [Next]_vars => PoolInv'
<1> SUFFICES ASSUME PoolInv, [Next]_vars PROVE PoolInv'
  OBVIOUS
<1>1. ASSUME NEW w \in Workers, Work(w) PROVE PoolInv'
  <2>1. CASE Take(w)
    BY <2>1, TakeKeepsPool
  <2>2. CASE Refuse(w)
    <3>1. worker[w].pc = "spawn" /\ Again(w) /\ UNCHANGED <<queue, child, clock, root>>
      BY <2>2 DEF Refuse, AfterError, children
    <3>2. child' \in [Tasks -> {"none", "running", "exited", "killed"}]
      BY <3>1 DEF PoolInv, PoolShape
    <3> QED
      BY <3>1, <3>2, AgainKeepsPool
  <2>3. CASE Start(w)
    BY <2>3, StartKeepsPool
  <2>4. CASE Reap(w)
    <3>1. /\ worker[w].pc = "wait" /\ child[worker[w].task] = "exited"
          /\ Again(w) /\ UNCHANGED <<queue, child, clock, root>>
      BY <2>4 DEF Reap, AfterError, children
    <3>2. child' \in [Tasks -> {"none", "running", "exited", "killed"}]
      BY <3>1 DEF PoolInv, PoolShape
    <3> QED
      BY <3>1, <3>2, AgainKeepsPool
  <2>5. CASE TimesOut(w)
    BY <2>5, TimesOutKeepsPool
  <2> QED
    BY <1>1, <2>1, <2>2, <2>3, <2>4, <2>5 DEF Work
<1>2. ASSUME NEW t \in Tasks, Exit(t) PROVE PoolInv'
  BY <1>2, EndKeepsPool DEF Exit, pool
<1>3. ASSUME NEW t \in Tasks, Look(t) \/ Read(t) \/ Unlink(t) PROVE PoolInv'
  BY <1>3, PoolUnchanged DEF Look, Read, Unlink, pool, children
<1>4. ASSUME NEW t \in Tasks, Apply(t) PROVE PoolInv'
  <2>1. CASE \E i \in DOMAIN poll[t].got : poll[t].got[i][1] = "_stop"
    BY <1>4, <2>1, EndKeepsPool DEF Apply, pool
  <2>2. CASE ~\E i \in DOMAIN poll[t].got : poll[t].got[i][1] = "_stop"
    BY <1>4, <2>2, PoolUnchanged DEF Apply, pool
  <2> QED
    BY <2>1, <2>2
<1>5. CASE Return \/ Nudge \/ Open \/ Fill
  BY <1>5, PoolUnchanged DEF Return, Nudge, Open, Fill, pool, children
<1>6. CASE Tick
  <2>1. clock' \in 1 .. MaxClock + 1
    BY <1>6, SubagentsAssumptions DEF Tick, PoolInv, PoolShape
  <2>2. UNCHANGED <<queue, worker, child, root>>
    BY <1>6 DEF Tick, pool
  <2> QED
    BY <2>1, <2>2 DEF PoolInv, PoolShape, Waited, Rooted, Unstarted
<1>7. CASE UNCHANGED vars
  BY <1>7, PoolUnchanged DEF vars, pool, children
<1> QED
  BY <1>1, <1>2, <1>3, <1>4, <1>5, <1>6, <1>7 DEF Next

\* The pool is in order in every state.
LEMMA PoolInvariance == Spec => []PoolInv
<1> QED
  BY InitPool, NextPool, PTL DEF Spec

\* Each running child has a worker of its own, of which there are at most MaxParallel.
LEMMA RunningIsBounded == PoolInv => Cardinality(Running) <= MaxParallel
<1> SUFFICES ASSUME PoolInv PROVE Cardinality(Running) <= MaxParallel
  OBVIOUS
<1> DEFINE N == Least(MaxParallel, Total)
           g == [t \in Running |-> CHOOSE w \in Workers : worker[w] = [pc |-> "wait", task |-> t]]
<1>1. N \in Nat /\ N >= 1 /\ N <= MaxParallel /\ MaxParallel \in Nat
  BY SubagentsAssumptions DEF Least
<1>2. IsFiniteSet(Workers) /\ Cardinality(Workers) = N
  <2> HIDE DEF N
  <2>1. 1 \in Int /\ N \in Int /\ ~(1 > N) /\ N - 1 + 1 = N
    BY <1>1
  <2>2. IsFiniteSet(1 .. N) /\ Cardinality(1 .. N) = IF 1 > N THEN 0 ELSE N - 1 + 1
    BY ONLY <2>1, FS_Interval
  <2> QED
    BY <2>1, <2>2 DEF Workers, N
<1>3. \A t \in Running : g[t] \in Workers /\ worker[g[t]] = [pc |-> "wait", task |-> t]
  BY DEF PoolInv, Waited, Running
<1>4. g \in Injection(Running, Workers)
  <2>1. g \in [Running -> Workers]
    BY <1>3
  <2>2. \A t, u \in Running : g[t] = g[u] => t = u
    <3> SUFFICES ASSUME NEW t \in Running, NEW u \in Running, g[t] = g[u] PROVE t = u
      OBVIOUS
    <3>1. [pc |-> "wait", task |-> t] = [pc |-> "wait", task |-> u]
      BY <1>3
    <3> QED
      BY <3>1
  <2> HIDE DEF g
  <2> QED
    BY <2>1, <2>2 DEF Injection, IsInjective
<1>5. IsFiniteSet(Running) /\ Cardinality(Running) <= Cardinality(Workers)
  BY ONLY <1>2, <1>4, FS_Injection
<1>6. Cardinality(Running) \in Nat
  BY <1>5, FS_CardinalityType
<1> HIDE DEF N
<1> QED
  BY <1>1, <1>2, <1>5, <1>6

\* No more children are alive than max_parallel allows, each has a worker waiting for
\* it, and none outlives the call (spawn_subagent_map, spawn_one_subagent).
THEOREM ChildrenHaveWorkers == Spec => []ChildrenAreWaitedFor
<1>1. PoolInv => ChildrenAreWaitedFor
  BY RunningIsBounded DEF PoolInv, Waited, ChildrenAreWaitedFor, Running
<1> QED
  BY <1>1, PoolInvariance, PTL

-----------------------------------------------------------------------------
(* The signals *)

Dirs == 1 .. MaxClock + 1

FilesShape ==
  /\ files = [d \in Dirs |-> files[d]]
  /\ \A d \in Dirs : \A f \in DOMAIN files[d] : files[d][f] \in Nat

FileNames == STRING \cup {"_stop"}

PollShape ==
  /\ poll \in [Tasks -> [at : Nat, held : Nat, reading : BOOLEAN,
                         got : Seq(FileNames \X Nat)]]
  /\ \A t \in Tasks : poll[t].reading => poll[t].at \in DOMAIN Names

\* While a nudge writes, it has a directory, and the file that is open for writing
\* is there unless a child removed it.
NudgeShape ==
  /\ nudge = [n |-> nudge.n, dir |-> nudge.dir, todo |-> nudge.todo, file |-> nudge.file,
              open |-> nudge.open]
  /\ nudge.n \in Nat /\ nudge.open \in {"no", "linked", "unlinked"}
  /\ nudge.open # "no" => nudge.file \in nudge.todo
  /\ nudge.todo # {} => nudge.dir \in Dirs
  /\ nudge.open = "linked" => nudge.file \in DOMAIN files[nudge.dir]

HasStop(got) == \E i \in DOMAIN got : got[i][1] = "_stop"

\* The stop of directory d is in its file, or one of the children of d is past its
\* removal.
StopIsKept(d) ==
  \/ "_stop" \in DOMAIN files[d]
  \/ \E t \in Tasks : root[t] = d /\ (child[t] # "running" \/ HasStop(poll[t].got))

\* Directory d has had a stop: a nudge wrote it, or is still writing it while a child
\* has it in hand already.
Stopped(d) ==
  \/ \E s \in sent : s[1] = d /\ s[2] = "_stop"
  \/ nudge.open = "unlinked" /\ nudge.dir = d /\ nudge.file = "_stop"

StopsAreKept ==
  /\ \A s \in sent : s[1] \in Dirs
  /\ \A d \in Dirs : Stopped(d) => StopIsKept(d)

SignalInv == FilesShape /\ PollShape /\ NudgeShape /\ StopsAreKept

\* Nothing is written at first.
LEMMA InitSignals == Init => SignalInv
<1> SUFFICES ASSUME Init PROVE SignalInv
  OBVIOUS
<1>1. FilesShape
  BY DEF Init, FilesShape, Dirs, NoFiles
<1>2. PollShape
  <2>1. << >> \in Seq(FileNames \X Nat)
    BY EmptySeq
  <2> QED
    BY <2>1 DEF Init, PollShape, Quiet
<1>3. NudgeShape /\ StopsAreKept
  BY DEF Init, NudgeShape, NoNudge, StopsAreKept, Stopped
<1> QED
  BY <1>1, <1>2, <1>3 DEF SignalInv

\* What keeps a stop: its file stays, or who has it keeps it or comes to its end.
LEMMA KeptIf ==
  ASSUME NEW d \in Dirs, StopIsKept(d),
         "_stop" \in DOMAIN files[d] => StopIsKept(d)' \/ "_stop" \in DOMAIN files'[d],
         \A t \in Tasks : root[t] = d =>
           /\ root'[t] = d
           /\ child[t] # "running" => child'[t] # "running"
           /\ HasStop(poll[t].got) => HasStop(poll'[t].got) \/ child'[t] # "running"
  PROVE  StopIsKept(d)'
  BY DEF StopIsKept, HasStop

\* No stop is added, and those there are stay.
LEMMA StopsAreKeptIf ==
  ASSUME StopsAreKept, sent' = sent,
         \A d \in Dirs : StopIsKept(d) => StopIsKept(d)',
         \A d \in Dirs : Stopped(d)' => Stopped(d) \/ StopIsKept(d)'
  PROVE  StopsAreKept'
  BY DEF StopsAreKept

\* A step of the pool alone
LEMMA SignalsUnchanged ==
  SignalInv /\ UNCHANGED <<child, root, files, nudge, sent, poll>> => SignalInv'
<1> SUFFICES ASSUME SignalInv, UNCHANGED <<child, root, files, nudge, sent, poll>>
             PROVE  SignalInv'
  OBVIOUS
<1>1. FilesShape' /\ PollShape' /\ NudgeShape'
  BY DEF SignalInv, FilesShape, PollShape, NudgeShape
<1>2. StopsAreKept'
  BY DEF SignalInv, StopsAreKept, Stopped, StopIsKept
<1> QED
  BY <1>1, <1>2 DEF SignalInv

\* A new child takes no place of another.
LEMMA StartKeepsSignals ==
  ASSUME PoolInv, SignalInv, NEW w \in Workers, Start(w) PROVE SignalInv'
<1> DEFINE t == worker[w].task
<1>1. /\ t \in Tasks /\ child[t] = "none" /\ root[t] = 0
      /\ root' = [root EXCEPT ![t] = clock]
      /\ child' = [child EXCEPT ![t] = "running"]
      /\ UNCHANGED <<files, nudge, sent, poll>>
  BY DEF Start, signals, PoolInv, Unstarted, Rooted
<1>2. \A u \in Tasks : u # t => root'[u] = root[u] /\ child'[u] = child[u]
  BY <1>1 DEF PoolInv, PoolShape
<1>3. FilesShape' /\ PollShape' /\ NudgeShape'
  BY <1>1 DEF SignalInv, FilesShape, PollShape, NudgeShape
<1>4. ASSUME NEW d \in Dirs, StopIsKept(d) PROVE StopIsKept(d)'
  <2>1. \A u \in Tasks : root[u] = d => u # t
    BY <1>1, SubagentsAssumptions DEF Dirs
  <2> QED
    BY <1>1, <1>2, <1>4, <2>1, KeptIf
<1>5. StopsAreKept'
  BY <1>1, <1>4, StopsAreKeptIf DEF SignalInv, Stopped
<1> QED
  BY <1>3, <1>5 DEF SignalInv

\* A child that ends takes its stop with it; one that goes on had none.
LEMMA ForgetKeepsSignals ==
  ASSUME PoolInv, SignalInv, NEW t \in Tasks, poll' = [poll EXCEPT ![t] = Quiet],
         UNCHANGED <<root, files, nudge, sent>>,
         \A u \in Tasks : child[u] # "running" => child'[u] # "running",
         child'[t] # "running" \/ ~HasStop(poll[t].got)
  PROVE  SignalInv'
<1>1. Quiet \in [at : Nat, held : Nat, reading : BOOLEAN, got : Seq(FileNames \X Nat)]
  <2>1. << >> \in Seq(FileNames \X Nat)
    BY EmptySeq
  <2> QED
    BY <2>1 DEF Quiet
<1>2. \A u \in Tasks : poll'[u] = IF u = t THEN Quiet ELSE poll[u]
  BY DEF SignalInv, PollShape
<1>3. PollShape'
  <2>1. poll' \in [Tasks -> [at : Nat, held : Nat, reading : BOOLEAN,
                             got : Seq(FileNames \X Nat)]]
    BY <1>1 DEF SignalInv, PollShape
  <2>2. ~Quiet.reading
    BY DEF Quiet
  <2>3. \A u \in Tasks : poll'[u].reading => poll'[u].at \in DOMAIN Names
    BY <1>2, <2>2 DEF SignalInv, PollShape
  <2> QED
    BY <2>1, <2>3 DEF PollShape
<1>4. FilesShape' /\ NudgeShape'
  BY DEF SignalInv, FilesShape, NudgeShape
<1>5. ASSUME NEW d \in Dirs, StopIsKept(d) PROVE StopIsKept(d)'
  BY <1>2, <1>5, KeptIf
<1>6. StopsAreKept'
  BY <1>5, StopsAreKeptIf DEF SignalInv, Stopped
<1> QED
  BY <1>3, <1>4, <1>6 DEF SignalInv

\* A look at the files changes nothing that was read before.
LEMMA LookKeepsSignals ==
  ASSUME PoolInv, SignalInv, NEW t \in Tasks,
         NEW new \in [at : Nat, held : Nat, reading : BOOLEAN, got : Seq(FileNames \X Nat)],
         new.reading => new.at \in DOMAIN Names,
         new.got = poll[t].got,
         poll' = [poll EXCEPT ![t] = new],
         UNCHANGED <<root, child, files, nudge, sent>>
  PROVE  SignalInv'
<1>1. \A u \in Tasks : poll'[u] = IF u = t THEN new ELSE poll[u]
  BY DEF SignalInv, PollShape
<1>2. \A u \in Tasks : poll'[u].got = poll[u].got
  BY <1>1
<1>3. \A u \in Tasks : poll'[u].reading => poll'[u].at \in DOMAIN Names
  BY <1>1 DEF SignalInv, PollShape
<1>4. PollShape'
  <2>1. poll' \in [Tasks -> [at : Nat, held : Nat, reading : BOOLEAN,
                             got : Seq(FileNames \X Nat)]]
    BY DEF SignalInv, PollShape
  <2> QED
    BY <1>3, <2>1 DEF PollShape
<1>5. FilesShape' /\ NudgeShape'
  BY DEF SignalInv, FilesShape, NudgeShape
<1>6. ASSUME NEW d \in Dirs, StopIsKept(d) PROVE StopIsKept(d)'
  BY <1>2, <1>6, KeptIf
<1>7. StopsAreKept'
  BY <1>6, StopsAreKeptIf DEF SignalInv, Stopped
<1> QED
  BY <1>4, <1>5, <1>7 DEF SignalInv

\* The signals have names, in places counted from one.
LEMMA NamesAreNames == \A i \in DOMAIN Names : i \in Nat \ {0} /\ Names[i] \in FileNames
<1>1. Texts \in Seq(FileNames)
  <2>1. Texts \in Seq(STRING)
    BY ONLY SubagentsAssumptions
  <2> QED
    BY <2>1 DEF FileNames
<1>2. Append(Texts, "_stop") \in Seq(FileNames)
  <2>1. "_stop" \in FileNames
    BY DEF FileNames
  <2> QED
    BY ONLY <1>1, <2>1, AppendProperties
<1> QED
  BY <1>2 DEF Names

\* Reading a file and removing it: a stop goes from the file to the child.
LEMMA UnlinkKeepsSignals ==
  ASSUME PoolInv, SignalInv, NEW t \in Tasks, Unlink(t) PROVE SignalInv'
<1> DEFINE d0 == root[t]
           f0 == Names[poll[t].at]
           more == IF Heeded(f0, poll[t].held) THEN Append(poll[t].got, <<f0, poll[t].held>>)
                   ELSE poll[t].got
           new == [at |-> poll[t].at + 1, held |-> 0, reading |-> FALSE, got |-> more]
<1>1. /\ child[t] = "running" /\ poll[t].reading
      /\ files' = [files EXCEPT ![d0] = Without(d0, f0)]
      /\ poll' = [poll EXCEPT ![t] = new]
      /\ nudge' = IF nudge.open = "linked" /\ nudge.dir = d0 /\ nudge.file = f0
                  THEN [nudge EXCEPT !.open = "unlinked"] ELSE nudge
      /\ UNCHANGED <<child, root, sent>>
  BY DEF Unlink, children
<1>2. /\ poll[t] \in [at : Nat, held : Nat, reading : BOOLEAN, got : Seq(FileNames \X Nat)]
      /\ f0 \in FileNames
  BY <1>1, NamesAreNames DEF SignalInv, PollShape
<1>3. d0 \in Dirs
  BY <1>1, SubagentsAssumptions DEF PoolInv, PoolShape, Rooted, Dirs
<1>4. /\ more \in Seq(FileNames \X Nat)
      /\ HasStop(poll[t].got) => HasStop(more)
      /\ f0 = "_stop" => HasStop(more)
  <2>1. <<f0, poll[t].held>> \in FileNames \X Nat
    BY <1>2
  <2> DEFINE longer == Append(poll[t].got, <<f0, poll[t].held>>)
  <2>2. /\ longer \in Seq(FileNames \X Nat) /\ Len(longer) = Len(poll[t].got) + 1
        /\ \A i \in 1 .. Len(poll[t].got) : longer[i] = poll[t].got[i]
        /\ longer[Len(poll[t].got) + 1] = <<f0, poll[t].held>>
    BY <1>2, <2>1, AppendProperties
  <2>3. DOMAIN longer = 1 .. Len(poll[t].got) + 1 /\ DOMAIN poll[t].got = 1 .. Len(poll[t].got)
        /\ Len(poll[t].got) \in Nat
    BY <1>2, <2>2
  <2>4. HasStop(poll[t].got) => HasStop(longer)
    BY <2>2, <2>3 DEF HasStop
  <2>5. f0 = "_stop" => HasStop(longer)
    <3> HIDE DEF longer, f0
    <3>1. Len(poll[t].got) + 1 \in DOMAIN longer
      BY <2>3
    <3>2. longer[Len(poll[t].got) + 1][1] = f0
      BY <2>2
    <3> QED
      BY <3>1, <3>2 DEF HasStop
  <2>6. f0 = "_stop" => Heeded(f0, poll[t].held)
    BY DEF Heeded
  <2> HIDE DEF longer
  <2>7. more = longer \/ (more = poll[t].got /\ f0 # "_stop")
    BY <2>6 DEF longer
  <2> QED
    BY <1>2, <2>2, <2>4, <2>5, <2>7
<1> HIDE DEF more
<1>5. PollShape'
  <2>1. new \in [at : Nat, held : Nat, reading : BOOLEAN, got : Seq(FileNames \X Nat)]
    BY <1>2, <1>4
  <2>2. poll' \in [Tasks -> [at : Nat, held : Nat, reading : BOOLEAN,
                             got : Seq(FileNames \X Nat)]]
    BY <1>1, <2>1 DEF SignalInv, PollShape
  <2>3. \A u \in Tasks : poll'[u].reading => poll'[u].at \in DOMAIN Names
    BY <1>1 DEF SignalInv, PollShape
  <2> QED
    BY <2>2, <2>3 DEF PollShape
<1>6. /\ \A d \in Dirs : d # d0 => files'[d] = files[d]
      /\ files'[d0] = [f \in DOMAIN files[d0] \ {f0} |-> files[d0][f]]
      /\ files' = [d \in Dirs |-> files'[d]]
  BY <1>1, <1>3 DEF SignalInv, FilesShape, Without, Restrict
<1>7. FilesShape'
  BY <1>3, <1>6 DEF SignalInv, FilesShape
<1>8. \A d \in Dirs : DOMAIN files'[d] = IF d = d0 THEN DOMAIN files[d] \ {f0}
                                          ELSE DOMAIN files[d]
  BY <1>6
<1>9. NudgeShape'
  BY <1>1, <1>8 DEF SignalInv, NudgeShape
<1>10. poll'[t].got = more /\ \A u \in Tasks : u # t => poll'[u] = poll[u]
  BY <1>1 DEF SignalInv, PollShape
<1>11. ASSUME NEW d \in Dirs, d = d0, f0 = "_stop" PROVE StopIsKept(d)'
  <2>1. root'[t] = d /\ HasStop(poll'[t].got)
    BY <1>1, <1>4, <1>10, <1>11
  <2> QED
    BY <2>1 DEF StopIsKept, HasStop
<1>12. ASSUME NEW d \in Dirs, StopIsKept(d) PROVE StopIsKept(d)'
  <2>1. "_stop" \in DOMAIN files[d] => StopIsKept(d)' \/ "_stop" \in DOMAIN files'[d]
    <3>1. CASE d = d0 /\ f0 = "_stop"
      BY <1>11, <3>1
    <3>2. CASE ~(d = d0 /\ f0 = "_stop")
      BY <1>8, <3>2
    <3> QED
      BY <3>1, <3>2
  <2>2. \A u \in Tasks : HasStop(poll[u].got) => HasStop(poll'[u].got)
    BY <1>4, <1>10
  <2> QED
    BY <1>1, <1>12, <2>1, <2>2, KeptIf
<1>13. ASSUME NEW d \in Dirs, Stopped(d)' PROVE Stopped(d) \/ StopIsKept(d)'
  <2>1. nudge'.dir = nudge.dir /\ nudge'.file = nudge.file
    BY <1>1 DEF SignalInv, NudgeShape
  <2>2. nudge'.open = "unlinked" => nudge.open = "unlinked" \/ (nudge.dir = d0 /\ nudge.file = f0)
    BY <1>1 DEF SignalInv, NudgeShape
  <2> HIDE DEF f0, d0
  <2>3. CASE \E s \in sent : s[1] = d /\ s[2] = "_stop"
    BY <2>3 DEF Stopped
  <2>4. CASE nudge'.open = "unlinked" /\ nudge'.dir = d /\ nudge'.file = "_stop"
    <3>1. CASE nudge.open = "unlinked"
      BY <2>1, <2>4, <3>1 DEF Stopped
    <3>2. CASE nudge.open # "unlinked"
      BY <1>11, <2>1, <2>2, <2>4, <3>2
    <3> QED
      BY <3>1, <3>2
  <2> QED
    BY <1>1, <1>13, <2>3, <2>4 DEF Stopped
<1>14. StopsAreKept'
  BY <1>1, <1>12, <1>13, StopsAreKeptIf DEF SignalInv
<1> QED
  BY <1>5, <1>7, <1>9, <1>14 DEF SignalInv

\* A nudge begins; what it will write is not decided by what was written.
LEMMA NudgeKeepsSignals == ASSUME PoolInv, SignalInv, Nudge PROVE SignalInv'
<1>1. PICK t \in Tasks :
        /\ root[t] # 0
        /\ \E todo : nudge' = [n |-> nudge.n + 1, dir |-> root[t], todo |-> todo,
                            file |-> "none", open |-> "no"]
  BY DEF Nudge
<1>2. UNCHANGED <<child, root, files, sent, poll>>
  BY DEF Nudge, children
<1>3. root[t] \in Dirs
  BY <1>1, SubagentsAssumptions DEF PoolInv, PoolShape, Dirs
<1>4. FilesShape' /\ PollShape'
  BY <1>2 DEF SignalInv, FilesShape, PollShape
<1>5. NudgeShape'
  <2>1. nudge.n + 1 \in Nat
    BY DEF SignalInv, NudgeShape
  <2> QED
    BY <1>1, <1>3, <2>1 DEF NudgeShape
<1>6. StopsAreKept'
  <2>1. nudge'.open # "unlinked"
    BY <1>1
  <2> QED
    BY <1>2, <2>1 DEF SignalInv, StopsAreKept, Stopped, StopIsKept
<1> QED
  BY <1>4, <1>5, <1>6 DEF SignalInv

\* A file is opened, which adds to the directory.
LEMMA OpenKeepsSignals == ASSUME PoolInv, SignalInv, Open PROVE SignalInv'
<1>0. PICK i \in DOMAIN Names :
        /\ Names[i] \in nudge.todo
        /\ nudge' = [nudge EXCEPT !.file = Names[i], !.open = "linked"]
        /\ files' = [files EXCEPT ![nudge.dir] =
             [f \in DOMAIN files[nudge.dir] \cup {Names[i]} |->
                IF f = Names[i] THEN 0 ELSE files[nudge.dir][f]]]
  BY DEF Open
<1> DEFINE d0 == nudge.dir
           f0 == Names[i]
           new == [f \in DOMAIN files[d0] \cup {f0} |-> IF f = f0 THEN 0 ELSE files[d0][f]]
<1>1. /\ f0 \in nudge.todo /\ nudge.open = "no" /\ d0 \in Dirs
      /\ files' = [files EXCEPT ![d0] = new]
      /\ nudge' = [nudge EXCEPT !.file = f0, !.open = "linked"]
      /\ UNCHANGED <<child, root, sent, poll>>
  BY <1>0 DEF Open, children, SignalInv, NudgeShape
<1>2. /\ DOMAIN new = DOMAIN files[d0] \cup {f0}
      /\ \A f \in DOMAIN new : \/ new[f] = 0
                               \/ f \in DOMAIN files[d0] /\ new[f] = files[d0][f]
  OBVIOUS
<1> HIDE DEF new
<1>3. /\ files'[d0] = new /\ \A d \in Dirs : d # d0 => files'[d] = files[d]
      /\ files' = [d \in Dirs |-> files'[d]]
  BY <1>1 DEF SignalInv, FilesShape
<1>4. FilesShape'
  BY <1>1, <1>2, <1>3 DEF SignalInv, FilesShape
<1>5. PollShape'
  BY <1>1 DEF SignalInv, PollShape
<1>6. NudgeShape'
  <2>1. /\ nudge' = [n |-> nudge.n, dir |-> nudge.dir, todo |-> nudge.todo, file |-> f0,
                    open |-> "linked"]
        /\ nudge.n \in Nat
    BY <1>1 DEF SignalInv, NudgeShape
  <2>2. f0 \in DOMAIN files'[d0]
    BY <1>2, <1>3
  <2> QED
    BY <1>1, <2>1, <2>2 DEF NudgeShape
<1>7. ASSUME NEW d \in Dirs, StopIsKept(d) PROVE StopIsKept(d)'
  BY <1>1, <1>2, <1>3, <1>7 DEF StopIsKept
<1>8. nudge'.open = "linked"
  BY <1>1 DEF SignalInv, NudgeShape
<1>9. StopsAreKept'
  BY <1>1, <1>7, <1>8, StopsAreKeptIf DEF SignalInv, Stopped
<1> QED
  BY <1>4, <1>5, <1>6, <1>9 DEF SignalInv

\* A file is filled: the stop is there, or whoever removed it has it.
LEMMA FillKeepsSignals == ASSUME PoolInv, SignalInv, Fill PROVE SignalInv'
<1> DEFINE d0 == nudge.dir
           f0 == nudge.file
<1>1. /\ nudge.todo # {} /\ nudge.open \in {"linked", "unlinked"} /\ d0 \in Dirs
      /\ nudge.open = "linked" => f0 \in DOMAIN files[d0]
      /\ nudge.n \in Nat
      /\ files' = IF nudge.open = "linked" /\ f0 # "_stop"
                  THEN [files EXCEPT ![d0][f0] = nudge.n] ELSE files
      /\ sent' = sent \cup {<<d0, f0, nudge.n>>}
      /\ nudge' = [nudge EXCEPT !.todo = @ \ {f0}, !.file = "none", !.open = "no"]
      /\ UNCHANGED <<child, root, poll>>
  BY DEF Fill, children, SignalInv, NudgeShape
<1>2. FilesShape' /\ \A d \in Dirs : DOMAIN files'[d] = DOMAIN files[d]
  <2>1. CASE nudge.open = "linked" /\ f0 # "_stop"
    <3>1. files' = [files EXCEPT ![d0] = [files[d0] EXCEPT ![f0] = nudge.n]]
      BY <1>1, <2>1
    <3>2. /\ files'[d0] = [files[d0] EXCEPT ![f0] = nudge.n]
          /\ \A d \in Dirs : d # d0 => files'[d] = files[d]
          /\ files' = [d \in Dirs |-> files'[d]]
      BY <1>1, <3>1 DEF SignalInv, FilesShape
    <3>3. DOMAIN files'[d0] = DOMAIN files[d0]
      BY <3>2
    <3>4. \A f \in DOMAIN files[d0] : files'[d0][f] = IF f = f0 THEN nudge.n ELSE files[d0][f]
      BY <3>2
    <3> QED
      BY <1>1, <3>2, <3>3, <3>4 DEF SignalInv, FilesShape
  <2>2. CASE ~(nudge.open = "linked" /\ f0 # "_stop")
    BY <1>1, <2>2 DEF SignalInv, FilesShape
  <2> QED
    BY <2>1, <2>2
<1>3. PollShape'
  BY <1>1 DEF SignalInv, PollShape
<1>4. nudge' = [n |-> nudge.n, dir |-> nudge.dir, todo |-> nudge.todo \ {f0}, file |-> "none",
                 open |-> "no"]
  BY <1>1 DEF SignalInv, NudgeShape
<1>5. NudgeShape'
  BY <1>1, <1>4 DEF NudgeShape
<1>6. ASSUME NEW d \in Dirs, StopIsKept(d) PROVE StopIsKept(d)'
  BY <1>1, <1>2, <1>6 DEF StopIsKept
<1>7. ASSUME NEW d \in Dirs, Stopped(d)' PROVE StopIsKept(d)'
  <2>1. PICK s \in sent' : s[1] = d /\ s[2] = "_stop"
    BY <1>4, <1>7 DEF Stopped
  <2>2. CASE s \in sent
    BY <1>6, <2>1, <2>2 DEF SignalInv, StopsAreKept, Stopped
  <2>3. CASE s \notin sent
    <3>1. d = d0 /\ f0 = "_stop"
      BY <1>1, <2>1, <2>3
    <3>2. CASE nudge.open = "linked"
      BY <1>1, <1>2, <3>1, <3>2 DEF StopIsKept
    <3>3. CASE nudge.open = "unlinked"
      <4>1. Stopped(d)
        BY <3>1, <3>3 DEF Stopped
      <4> QED
        BY <1>6, <4>1 DEF SignalInv, StopsAreKept
    <3> QED
      BY <1>1, <3>2, <3>3
  <2> QED
    BY <2>2, <2>3
<1>8. \A s \in sent' : s[1] \in Dirs
  BY <1>1 DEF SignalInv, StopsAreKept
<1>9. StopsAreKept'
  BY <1>7, <1>8 DEF StopsAreKept
<1> QED
  BY <1>2, <1>3, <1>5, <1>9 DEF SignalInv

\* Every step keeps the signals in order.
LEMMA NextSignals == PoolInv /\ SignalInv /\ [Next]_vars => SignalInv'
<1> SUFFICES ASSUME PoolInv, SignalInv, [Next]_vars PROVE SignalInv'
  OBVIOUS
<1>1. ASSUME NEW w \in Workers, Work(w) PROVE SignalInv'
  <2>1. CASE Take(w) \/ Refuse(w) \/ Reap(w)
    BY <2>1, SignalsUnchanged DEF Take, Refuse, Reap, children, signals
  <2>2. CASE Start(w)
    BY <2>2, StartKeepsSignals
  <2>3. CASE TimesOut(w)
    <3> DEFINE t == worker[w].task
    <3>1. /\ worker[w].pc = "wait" /\ child' = [child EXCEPT ![t] = "killed"]
          /\ poll' = [poll EXCEPT ![t] = Quiet]
          /\ UNCHANGED <<root, files, nudge, sent>>
      BY <2>3 DEF TimesOut, Killed, Forget
    <3>2. t \in Tasks
      BY <3>1 DEF PoolInv, Unstarted
    <3>3. \A u \in Tasks : child'[u] = IF u = t THEN "killed" ELSE child[u]
      BY <3>1 DEF PoolInv, PoolShape
    <3>4. \A u \in Tasks : child[u] # "running" => child'[u] # "running"
      BY <3>3
    <3>5. child'[t] # "running"
      BY <3>2, <3>3
    <3> HIDE DEF t
    <3> QED
      BY <3>1, <3>2, <3>4, <3>5, ForgetKeepsSignals
  <2> QED
    BY <1>1, <2>1, <2>2, <2>3 DEF Work
<1>2. ASSUME NEW t \in Tasks, child' = [child EXCEPT ![t] = "exited"], Forget(t),
             UNCHANGED <<root, files, nudge, sent>>
      PROVE  SignalInv'
  <2>1. \A u \in Tasks : child'[u] = IF u = t THEN "exited" ELSE child[u]
    BY <1>2 DEF PoolInv, PoolShape
  <2>2. \A u \in Tasks : child[u] # "running" => child'[u] # "running"
    BY <2>1
  <2>3. child'[t] # "running" /\ poll' = [poll EXCEPT ![t] = Quiet]
    BY <1>2, <2>1 DEF Forget
  <2> QED
    BY <1>2, <2>2, <2>3, ForgetKeepsSignals
<1>3. ASSUME NEW t \in Tasks, Exit(t) PROVE SignalInv'
  BY <1>2, <1>3 DEF Exit
<1>4. ASSUME NEW t \in Tasks, Look(t) PROVE SignalInv'
  <2> DEFINE new == [poll[t] EXCEPT !.at = 1]
  <2>1. /\ poll[t] \in [at : Nat, held : Nat, reading : BOOLEAN, got : Seq(FileNames \X Nat)]
        /\ poll[t].at = 0
        /\ poll[t].reading => poll[t].at \in DOMAIN Names
        /\ poll' = [poll EXCEPT ![t] = new]
        /\ UNCHANGED <<root, child, files, nudge, sent>>
    BY <1>4 DEF Look, SignalInv, PollShape, children
  <2>2. ~poll[t].reading
    BY <2>1, NamesAreNames
  <2>3. /\ new \in [at : Nat, held : Nat, reading : BOOLEAN, got : Seq(FileNames \X Nat)]
        /\ new.got = poll[t].got /\ new.reading = poll[t].reading
    BY <2>1
  <2> HIDE DEF new
  <2> QED
    BY <2>1, <2>2, <2>3, LookKeepsSignals
<1>5. ASSUME NEW t \in Tasks, Read(t) PROVE SignalInv'
  <2> DEFINE f0 == Names[poll[t].at]
             d0 == root[t]
  <2>1. /\ poll[t] \in [at : Nat, held : Nat, reading : BOOLEAN, got : Seq(FileNames \X Nat)]
        /\ poll[t].at \in DOMAIN Names /\ ~poll[t].reading
        /\ UNCHANGED <<root, child, files, nudge, sent>>
    BY <1>5 DEF Read, SignalInv, PollShape, children
  <2>2. CASE f0 \in DOMAIN files[d0]
    <3> DEFINE new == [poll[t] EXCEPT !.reading = TRUE, !.held = files[d0][f0]]
    <3>1. d0 \in Dirs
      BY <1>5, SubagentsAssumptions DEF Read, PoolInv, PoolShape, Rooted, Dirs
    <3>2. files[d0][f0] \in Nat
      BY <2>2, <3>1 DEF SignalInv, FilesShape
    <3>3. poll' = [poll EXCEPT ![t] = new]
      BY <1>5, <2>2 DEF Read, SignalInv, PollShape
    <3> HIDE DEF f0, d0
    <3>4. /\ new \in [at : Nat, held : Nat, reading : BOOLEAN, got : Seq(FileNames \X Nat)]
          /\ new.got = poll[t].got /\ new.at = poll[t].at
      BY <2>1, <3>2
    <3> HIDE DEF new
    <3> QED
      BY <2>1, <3>3, <3>4, LookKeepsSignals
  <2>3. CASE f0 \notin DOMAIN files[d0]
    <3> DEFINE next == poll[t].at + 1
               new == [poll[t] EXCEPT !.at = next]
    <3>1. next \in Nat /\ poll' = [poll EXCEPT ![t] = new]
      BY <1>5, <2>1, <2>3 DEF Read
    <3> HIDE DEF next
    <3>2. /\ new \in [at : Nat, held : Nat, reading : BOOLEAN, got : Seq(FileNames \X Nat)]
          /\ new.got = poll[t].got /\ new.reading = poll[t].reading
      BY <2>1, <3>1
    <3> HIDE DEF new
    <3> QED
      BY <2>1, <3>1, <3>2, LookKeepsSignals
  <2> QED
    BY <2>2, <2>3
<1>6. ASSUME NEW t \in Tasks, Unlink(t) PROVE SignalInv'
  BY <1>6, UnlinkKeepsSignals
<1>7. ASSUME NEW t \in Tasks, Apply(t) PROVE SignalInv'
  <2>1. CASE HasStop(poll[t].got)
    BY <1>2, <1>7, <2>1 DEF Apply, HasStop
  <2>2. CASE ~HasStop(poll[t].got)
    BY <1>7, <2>2, ForgetKeepsSignals DEF Apply, HasStop
  <2> QED
    BY <2>1, <2>2
<1>8. CASE Nudge \/ Open \/ Fill
  BY <1>8, NudgeKeepsSignals, OpenKeepsSignals, FillKeepsSignals
<1>9. CASE Return \/ Tick \/ UNCHANGED vars
  BY <1>9, SignalsUnchanged DEF Return, Tick, vars, children, signals
<1> QED
  BY <1>1, <1>3, <1>4, <1>5, <1>6, <1>7, <1>8, <1>9 DEF Next

\* A stop that was written stands until a child of its directory has it in hand, in
\* whatever order nudges write and children look (write_subagent_signals,
\* consume_subagent_signals).
THEOREM StopIsNotLost == Spec => []StopStands
<1>1. SignalInv => StopStands
  <2> SUFFICES ASSUME SignalInv, NEW s \in sent, s[2] = "_stop"
               PROVE  \/ "_stop" \in DOMAIN files[s[1]]
                      \/ \E t \in Tasks :
                           /\ root[t] = s[1]
                           /\ \/ child[t] # "running"
                              \/ \E i \in DOMAIN poll[t].got : poll[t].got[i][1] = "_stop"
    BY DEF StopStands
  <2> QED
    BY DEF SignalInv, StopsAreKept, Stopped, StopIsKept, HasStop
<1>2. Spec => [](PoolInv /\ SignalInv)
  BY InitPool, InitSignals, NextPool, NextSignals, PTL DEF Spec
<1> QED
  BY <1>1, <1>2, PTL

-----------------------------------------------------------------------------
(* What a child applies *)

Notes == FileNames \X Nat

IsIn(p, s) == \E i \in 1 .. Len(s) : s[i] = p

\* A child has read p: it applied it, or has it in hand.
Has(t, p) == IsIn(p, seen[t]) \/ IsIn(p, poll[t].got)

\* Text n was written to a file of name f, and will not be written to one again.
Old(f, n) == n \in 1 .. nudge.n /\ (n = nudge.n => f \notin nudge.todo)

Distinct(s) == \A i, j \in 1 .. Len(s) : s[i] = s[j] /\ s[i][1] # "_stop" => i = j

FilesOld ==
  \A d \in Dirs : \A f \in DOMAIN files[d] :
    f # "_stop" /\ files[d][f] # 0 => Old(f, files[d][f])

\* What a child is about to take out of a file is old, and so is what it has; that is in
\* no file of its directory any more, and it has it once.
TaskOnce(t) ==
  /\ seen[t] \in Seq(Notes)
  /\ child[t] # "running" => seen[t] = << >> /\ poll[t].got = << >>
  /\ poll[t].reading /\ Names[poll[t].at] # "_stop" /\ poll[t].held # 0 =>
       Old(Names[poll[t].at], poll[t].held)
  /\ \A p \in Notes : Has(t, p) /\ p[1] # "_stop" =>
       /\ Old(p[1], p[2])
       /\ p[1] \in DOMAIN files[root[t]] => files[root[t]][p[1]] # p[2]
       /\ poll[t].reading => ~(Names[poll[t].at] = p[1] /\ poll[t].held = p[2])
       /\ ~(IsIn(p, seen[t]) /\ IsIn(p, poll[t].got))
  /\ Distinct(seen[t]) /\ Distinct(poll[t].got)
  /\ \A i \in 1 .. Len(seen[t]) : seen[t][i][1] # "_stop"

OnceInv ==
  /\ seen = [t \in Tasks |-> seen[t]]
  /\ FilesOld
  /\ \A t \in Tasks : TaskOnce(t)

LEMMA NothingIn == ASSUME NEW p PROVE ~IsIn(p, << >>)
  BY EmptySeq DEF IsIn

\* One more at the end of s.
LEMMA OneMore ==
  ASSUME NEW s \in Seq(Notes), NEW x \in Notes
  PROVE  /\ Append(s, x) \in Seq(Notes)
         /\ \A p : IsIn(p, Append(s, x)) <=> IsIn(p, s) \/ p = x
         /\ Distinct(s) /\ (x[1] # "_stop" => ~IsIn(x, s)) => Distinct(Append(s, x))
<1> DEFINE r == Append(s, x)
<1>1. /\ r \in Seq(Notes) /\ Len(r) = Len(s) + 1 /\ Len(s) \in Nat
      /\ \A i \in 1 .. Len(s) : r[i] = s[i]
      /\ r[Len(s) + 1] = x
  BY AppendProperties, LenProperties
<1> HIDE DEF r
<1>2. /\ \A i \in 1 .. Len(r) : i \in 1 .. Len(s) \/ i = Len(s) + 1
      /\ \A i \in 1 .. Len(s) : i \in 1 .. Len(r)
      /\ Len(s) + 1 \in 1 .. Len(r)
  BY <1>1
<1>3. \A p : IsIn(p, r) <=> IsIn(p, s) \/ p = x
  BY <1>1, <1>2 DEF IsIn
<1>4. Distinct(s) /\ (x[1] # "_stop" => ~IsIn(x, s)) => Distinct(r)
  BY <1>1, <1>2 DEF IsIn, Distinct
<1> QED
  BY <1>1, <1>3, <1>4 DEF r

\* All that is in hand after what was applied.
LEMMA OneAfterOther ==
  ASSUME NEW a \in Seq(Notes), NEW b \in Seq(Notes)
  PROVE  /\ a \o b \in Seq(Notes)
         /\ \A p : IsIn(p, a \o b) <=> IsIn(p, a) \/ IsIn(p, b)
         /\ Distinct(a) /\ Distinct(b)
              /\ (\A p \in Notes : p[1] # "_stop" => ~(IsIn(p, a) /\ IsIn(p, b)))
              => Distinct(a \o b)
<1> DEFINE r == a \o b
<1>1. /\ r \in Seq(Notes) /\ Len(r) = Len(a) + Len(b) /\ Len(a) \in Nat /\ Len(b) \in Nat
      /\ \A i \in 1 .. Len(a) : r[i] = a[i]
      /\ \A i \in 1 .. Len(b) : r[Len(a) + i] = b[i]
  BY ConcatProperties, LenProperties
<1> HIDE DEF r
<1>2. \A i \in 1 .. Len(r) :
        i \in 1 .. Len(a) \/ \E j \in 1 .. Len(b) : i = Len(a) + j
  <2> SUFFICES ASSUME NEW i \in 1 .. Len(r), i \notin 1 .. Len(a)
               PROVE  \E j \in 1 .. Len(b) : i = Len(a) + j
    OBVIOUS
  <2>1. i - Len(a) \in 1 .. Len(b) /\ i = Len(a) + (i - Len(a))
    BY <1>1
  <2> QED
    BY <2>1
<1>3. /\ \A i \in 1 .. Len(a) : i \in 1 .. Len(r)
      /\ \A i \in 1 .. Len(b) : Len(a) + i \in 1 .. Len(r)
  BY <1>1
<1>4. ASSUME NEW p PROVE IsIn(p, r) <=> IsIn(p, a) \/ IsIn(p, b)
  <2>1. ASSUME NEW i \in 1 .. Len(r), r[i] = p PROVE IsIn(p, a) \/ IsIn(p, b)
    <3>1. CASE i \in 1 .. Len(a)
      BY <1>1, <2>1, <3>1 DEF IsIn
    <3>2. CASE \E j \in 1 .. Len(b) : i = Len(a) + j
      BY <1>1, <2>1, <3>2 DEF IsIn
    <3> QED
      BY <1>2, <3>1, <3>2
  <2>2. ASSUME NEW i \in 1 .. Len(a), a[i] = p PROVE IsIn(p, r)
    BY <1>1, <1>3, <2>2 DEF IsIn
  <2>3. ASSUME NEW i \in 1 .. Len(b), b[i] = p PROVE IsIn(p, r)
    <3>1. Len(a) + i \in 1 .. Len(r) /\ r[Len(a) + i] = p
      BY <1>1, <1>3, <2>3
    <3> QED
      BY ONLY <3>1 DEF IsIn
  <2> QED
    BY <2>1, <2>2, <2>3 DEF IsIn
<1>5. ASSUME Distinct(a), Distinct(b),
             \A p \in Notes : p[1] # "_stop" => ~(IsIn(p, a) /\ IsIn(p, b))
      PROVE  Distinct(r)
  <2> SUFFICES ASSUME NEW i \in 1 .. Len(r), NEW j \in 1 .. Len(r), r[i] = r[j],
                      r[i][1] # "_stop"
               PROVE  i = j
    BY DEF Distinct
  <2>1. r[i] \in Notes
    BY <1>1, ElementOfSeq
  <2>2. CASE i \in 1 .. Len(a) /\ j \in 1 .. Len(a)
    BY <1>1, <1>5, <2>2 DEF Distinct
  <2>3. CASE i \in 1 .. Len(a) /\ j \notin 1 .. Len(a)
    <3>1. PICK k \in 1 .. Len(b) : j = Len(a) + k
      BY <1>2, <2>3
    <3>2. a[i] = r[i] /\ b[k] = r[i]
      BY <1>1, <2>3, <3>1
    <3>3. IsIn(r[i], a) /\ IsIn(r[i], b)
      BY <2>3, <3>2 DEF IsIn
    <3> QED
      BY <1>5, <2>1, <3>3
  <2>4. CASE i \notin 1 .. Len(a) /\ j \in 1 .. Len(a)
    <3>1. PICK k \in 1 .. Len(b) : i = Len(a) + k
      BY <1>2, <2>4
    <3>2. a[j] = r[i] /\ b[k] = r[i]
      BY <1>1, <2>4, <3>1
    <3>3. IsIn(r[i], a) /\ IsIn(r[i], b)
      BY <2>4, <3>2 DEF IsIn
    <3> QED
      BY <1>5, <2>1, <3>3
  <2>5. CASE i \notin 1 .. Len(a) /\ j \notin 1 .. Len(a)
    <3>1. PICK k \in 1 .. Len(b), l \in 1 .. Len(b) : i = Len(a) + k /\ j = Len(a) + l
      BY <1>2, <2>5
    <3>2. b[k] = b[l] /\ b[k][1] # "_stop"
      BY <1>1, <3>1
    <3> QED
      BY <1>5, <3>1, <3>2 DEF Distinct
  <2> QED
    BY <2>2, <2>3, <2>4, <2>5
<1> QED
  BY <1>1, <1>4, <1>5 DEF r

\* What can be in the files of a directory after a step: what was there, nothing, or a
\* text that is new.
Fresh(d) ==
  \A f \in DOMAIN files'[d] :
    \/ f \in DOMAIN files[d] /\ files'[d][f] = files[d][f]
    \/ files'[d][f] = 0
    \/ ~Old(f, files'[d][f])

\* A child that does nothing.
LEMMA TaskStays ==
  ASSUME PoolInv, NEW t \in Tasks, TaskOnce(t),
         seen'[t] = seen[t], poll'[t] = poll[t], child'[t] = child[t], root'[t] = root[t],
         \A f, n : Old(f, n) => Old(f, n)',
         \A d \in Dirs : Fresh(d)
  PROVE  TaskOnce(t)'
<1>1. ASSUME NEW p \in Notes, Has(t, p), p[1] # "_stop"
      PROVE  /\ Old(p[1], p[2])'
             /\ p[1] \in DOMAIN files'[root[t]] => files'[root[t]][p[1]] # p[2]
             /\ poll[t].reading => ~(Names[poll[t].at] = p[1] /\ poll[t].held = p[2])
             /\ ~(IsIn(p, seen[t]) /\ IsIn(p, poll[t].got))
  <2>1. /\ Old(p[1], p[2])
        /\ p[1] \in DOMAIN files[root[t]] => files[root[t]][p[1]] # p[2]
        /\ poll[t].reading => ~(Names[poll[t].at] = p[1] /\ poll[t].held = p[2])
        /\ ~(IsIn(p, seen[t]) /\ IsIn(p, poll[t].got))
    BY <1>1 DEF TaskOnce
  <2>2. child[t] = "running"
    BY <1>1, NothingIn DEF TaskOnce, Has
  <2>3. root[t] \in Dirs
    BY <2>2, SubagentsAssumptions DEF PoolInv, PoolShape, Rooted, Dirs
  <2>4. p[2] # 0
    BY <2>1 DEF Old
  <2>5. p[1] \in DOMAIN files'[root[t]] => files'[root[t]][p[1]] # p[2]
    BY <2>1, <2>3, <2>4 DEF Fresh
  <2>6. Old(p[1], p[2])'
    BY <2>1
  <2> QED
    BY <2>1, <2>5, <2>6
<1>2. ASSUME poll[t].reading, Names[poll[t].at] # "_stop", poll[t].held # 0
      PROVE  Old(Names[poll[t].at], poll[t].held)'
  BY <1>2 DEF TaskOnce
<1>3. \A p : Has(t, p)' <=> Has(t, p)
  BY DEF Has, IsIn
<1> QED
  BY <1>1, <1>2, <1>3 DEF TaskOnce, IsIn, Distinct, Old

\* Nothing happens to the files.
LEMMA FilesStay ==
  ASSUME UNCHANGED <<files, nudge>>
  PROVE  /\ FilesOld => FilesOld'
         /\ \A f, n : Old(f, n) => Old(f, n)'
         /\ \A d \in Dirs : Fresh(d)
  BY DEF FilesOld, Old, Fresh

\* Only child t does something, and not to the files.
LEMMA OneTask ==
  ASSUME PoolInv, OnceInv, NEW t \in Tasks, UNCHANGED <<files, nudge>>,
         seen' = [u \in Tasks |-> seen'[u]],
         \A u \in Tasks : u # t => /\ seen'[u] = seen[u] /\ poll'[u] = poll[u]
                                   /\ child'[u] = child[u] /\ root'[u] = root[u],
         TaskOnce(t)'
  PROVE  OnceInv'
<1>1. FilesOld' /\ (\A f, n : Old(f, n) => Old(f, n)') /\ \A d \in Dirs : Fresh(d)
  BY FilesStay DEF OnceInv
<1>2. ASSUME NEW u \in Tasks, u # t PROVE TaskOnce(u)'
  <2>1. /\ seen'[u] = seen[u] /\ poll'[u] = poll[u]
        /\ child'[u] = child[u] /\ root'[u] = root[u]
    BY <1>2
  <2> QED
    BY <1>1, <2>1, TaskStays DEF OnceInv
<1>3. ASSUME NEW u \in Tasks PROVE TaskOnce(u)'
  <2>1. CASE u = t
    <3>1. TaskOnce(t)'
      OBVIOUS
    <3> QED
      BY <2>1, <3>1 DEF TaskOnce, Has, IsIn, Old, Distinct
  <2>2. CASE u # t
    BY <1>2, <2>2
  <2> QED
    BY <2>1, <2>2
<1> QED
  BY <1>1, <1>3 DEF OnceInv

\* A child that has nothing.
LEMMA NothingHad ==
  ASSUME NEW t \in Tasks, seen'[t] = << >>, poll'[t].got = << >>,
         poll'[t].reading /\ Names[poll'[t].at] # "_stop" /\ poll'[t].held # 0 =>
           Old(Names[poll[t].at], poll[t].held)'
  PROVE  TaskOnce(t)'
<1>1. << >> \in Seq(Notes) /\ Len(<< >>) = 0
  BY EmptySeq
<1>2. \A p : ~Has(t, p)'
  BY NothingIn DEF Has, IsIn
<1> QED
  BY <1>1, <1>2 DEF TaskOnce, Distinct, Old

\* A step of the pool alone
LEMMA OnceUnchanged ==
  OnceInv /\ PoolInv /\ UNCHANGED <<child, root, files, nudge, poll, seen>> => OnceInv'
<1> SUFFICES ASSUME OnceInv, PoolInv, UNCHANGED <<child, root, files, nudge, poll, seen>>
             PROVE  OnceInv'
  OBVIOUS
<1>1. FilesOld' /\ (\A f, n : Old(f, n) => Old(f, n)') /\ \A d \in Dirs : Fresh(d)
  BY FilesStay DEF OnceInv
<1>2. ASSUME NEW t \in Tasks PROVE TaskOnce(t)'
  BY <1>1, TaskStays DEF OnceInv
<1> QED
  BY <1>1, <1>2 DEF OnceInv

\* A child begins with nothing.
LEMMA StartKeepsOnce ==
  ASSUME PoolInv, OnceInv, NEW w \in Workers, Start(w) PROVE OnceInv'
<1>1. PICK t \in Tasks :
        /\ child[t] = "none"
        /\ root' = [root EXCEPT ![t] = clock]
        /\ child' = [child EXCEPT ![t] = "running"]
  BY DEF Start, PoolInv, Unstarted
<1>2. seen' = seen /\ poll' = poll /\ files' = files /\ nudge' = nudge
  BY DEF Start, signals
<1>3. \A u \in Tasks : u # t => /\ seen'[u] = seen[u] /\ poll'[u] = poll[u]
                                /\ child'[u] = child[u] /\ root'[u] = root[u]
  BY <1>1, <1>2 DEF PoolInv, PoolShape
<1>4. TaskOnce(t)'
  <2>1. TaskOnce(t)
    BY <1>1 DEF OnceInv
  <2>2. seen'[t] = << >> /\ poll'[t].got = << >>
    BY <1>1, <1>2, <2>1 DEF TaskOnce
  <2>3. poll[t].reading /\ Names[poll[t].at] # "_stop" /\ poll[t].held # 0 =>
          Old(Names[poll[t].at], poll[t].held)
    BY <2>1 DEF TaskOnce
  <2>4. Old(Names[poll[t].at], poll[t].held) => Old(Names[poll[t].at], poll[t].held)'
    BY <1>2 DEF Old
  <2>5. poll'[t] = poll[t]
    BY <1>2
  <2>6. poll'[t].reading /\ Names[poll'[t].at] # "_stop" /\ poll'[t].held # 0 =>
          Old(Names[poll[t].at], poll[t].held)'
    BY <2>3, <2>4, <2>5
  <2> QED
    BY <2>2, <2>6, NothingHad
<1>5. seen' = [u \in Tasks |-> seen'[u]]
  BY <1>2 DEF OnceInv
<1> QED
  BY <1>2, <1>3, <1>4, <1>5, OneTask

\* A child that ends has nothing.
LEMMA ForgetKeepsOnce ==
  ASSUME PoolInv, SignalInv, OnceInv, NEW t \in Tasks, Forget(t),
         UNCHANGED <<root, files, nudge>>,
         \A u \in Tasks : u # t => child'[u] = child[u]
  PROVE  OnceInv'
<1>1. /\ poll' = [poll EXCEPT ![t] = Quiet] /\ seen' = [seen EXCEPT ![t] = << >>]
  BY DEF Forget
<1>2. /\ poll'[t] = Quiet /\ seen'[t] = << >>
      /\ \A u \in Tasks : u # t => poll'[u] = poll[u] /\ seen'[u] = seen[u]
      /\ seen' = [u \in Tasks |-> seen'[u]]
  BY <1>1 DEF SignalInv, PollShape, OnceInv
<1>3. TaskOnce(t)'
  <2>1. poll'[t].got = << >> /\ ~poll'[t].reading
    BY <1>2 DEF Quiet
  <2> QED
    BY <1>2, <2>1, NothingHad
<1> QED
  BY <1>2, <1>3, OneTask

\* What a child reads is old, and it has not got it yet.
LEMMA LookKeepsOnce ==
  ASSUME PoolInv, SignalInv, OnceInv, NEW t \in Tasks, NEW new,
         poll' = [poll EXCEPT ![t] = new], new.got = poll[t].got,
         UNCHANGED <<root, child, files, nudge, seen>>,
         new.reading => /\ new.held # 0 /\ Names[new.at] # "_stop" =>
                             Old(Names[new.at], new.held)
                        /\ \A p \in Notes : Has(t, p) /\ p[1] # "_stop" =>
                             ~(Names[new.at] = p[1] /\ new.held = p[2])
  PROVE  OnceInv'
<1>1. /\ poll'[t] = new
      /\ \A u \in Tasks : u # t => poll'[u] = poll[u] /\ seen'[u] = seen[u]
      /\ seen' = [u \in Tasks |-> seen'[u]]
  BY DEF SignalInv, PollShape, OnceInv
<1>2. TaskOnce(t)'
  <2>1. TaskOnce(t)
    BY DEF OnceInv
  <2>2. \A p : Has(t, p)' <=> Has(t, p)
    BY <1>1 DEF Has, IsIn
  <2>3. \A f, n : Old(f, n)' <=> Old(f, n)
    BY DEF Old
  <2> QED
    BY <1>1, <2>1, <2>2, <2>3, SMTT(30) DEF TaskOnce, IsIn, Distinct
<1> QED
  BY <1>1, <1>2, OneTask

LEMMA LookStep == ASSUME PoolInv, SignalInv, OnceInv, NEW t \in Tasks, Look(t) PROVE OnceInv'
<1>1. /\ poll[t].at = 0 /\ poll' = [poll EXCEPT ![t].at = 1]
      /\ UNCHANGED <<root, child, files, nudge, seen>>
  BY DEF Look, children
<1>2. PICK new : new = [poll[t] EXCEPT !.at = 1]
  OBVIOUS
<1>3. poll' = [poll EXCEPT ![t] = new]
  BY <1>1, <1>2 DEF SignalInv, PollShape
<1>4. poll[t] \in [at : Nat, held : Nat, reading : BOOLEAN, got : Seq(FileNames \X Nat)]
  BY DEF SignalInv, PollShape
<1>5. ~poll[t].reading
  BY <1>1, NamesAreNames DEF SignalInv, PollShape
<1>6. new.got = poll[t].got /\ new.reading = poll[t].reading
  BY <1>2, <1>4
<1> QED
  BY <1>1, <1>3, <1>5, <1>6, LookKeepsOnce

LEMMA ReadStep == ASSUME PoolInv, SignalInv, OnceInv, NEW t \in Tasks, Read(t) PROVE OnceInv'
<1> DEFINE f0 == Names[poll[t].at]
           d0 == root[t]
<1>1. /\ poll[t] \in [at : Nat, held : Nat, reading : BOOLEAN, got : Seq(FileNames \X Nat)]
      /\ child[t] = "running" /\ ~poll[t].reading
      /\ UNCHANGED <<root, child, files, nudge, seen>>
      /\ poll' = IF f0 \in DOMAIN files[d0]
                 THEN [poll EXCEPT ![t].reading = TRUE, ![t].held = files[d0][f0]]
                 ELSE [poll EXCEPT ![t].at = @ + 1]
  BY DEF Read, SignalInv, PollShape, children
<1>2. d0 \in Dirs
  BY <1>1, SubagentsAssumptions DEF PoolInv, PoolShape, Rooted, Dirs
<1>3. CASE f0 \in DOMAIN files[d0]
  <2>1. PICK new : new = [poll[t] EXCEPT !.reading = TRUE, !.held = files[d0][f0]]
    OBVIOUS
  <2>2. poll' = [poll EXCEPT ![t] = new]
    BY <1>1, <1>3, <2>1 DEF SignalInv, PollShape
  <2>3. new.got = poll[t].got /\ new.at = poll[t].at /\ new.held = files[d0][f0]
    BY <1>1, <2>1
  <2>4. f0 # "_stop" /\ new.held # 0 => Old(f0, new.held)
    BY <1>2, <1>3, <2>3 DEF OnceInv, FilesOld
  <2>5. \A p \in Notes : Has(t, p) /\ p[1] # "_stop" => ~(f0 = p[1] /\ new.held = p[2])
    BY <1>3, <2>3 DEF OnceInv, TaskOnce
  <2>6. \A p \in Notes : Has(t, p) /\ p[1] # "_stop" =>
          ~(Names[new.at] = p[1] /\ new.held = p[2])
    BY <2>3, <2>5
  <2>7. new.held # 0 /\ Names[new.at] # "_stop" => Old(Names[new.at], new.held)
    BY <2>3, <2>4
  <2> HIDE DEF f0, d0
  <2> QED
    BY <1>1, <2>2, <2>3, <2>6, <2>7, LookKeepsOnce
<1>4. CASE f0 \notin DOMAIN files[d0]
  <2>1. PICK new : new = [poll[t] EXCEPT !.at = @ + 1]
    OBVIOUS
  <2>2. poll' = [poll EXCEPT ![t] = new]
    BY <1>1, <1>4, <2>1 DEF SignalInv, PollShape
  <2>3. new.got = poll[t].got /\ new.reading = poll[t].reading
    BY <1>1, <2>1
  <2> QED
    BY <1>1, <2>2, <2>3, LookKeepsOnce
<1> QED
  BY <1>3, <1>4

\* What was in hand is applied.
LEMMA ApplyStep == ASSUME PoolInv, SignalInv, OnceInv, NEW t \in Tasks, Apply(t) PROVE OnceInv'
<1>1. CASE HasStop(poll[t].got)
  <2>1. child' = [child EXCEPT ![t] = "exited"] /\ Forget(t) /\ UNCHANGED <<root, files, nudge>>
    BY <1>1 DEF Apply, HasStop
  <2>2. \A u \in Tasks : u # t => child'[u] = child[u]
    BY <2>1 DEF PoolInv, PoolShape
  <2> QED
    BY <2>1, <2>2, ForgetKeepsOnce
<1>2. CASE ~HasStop(poll[t].got)
  <2>1. /\ child[t] = "running"
        /\ seen' = [seen EXCEPT ![t] = @ \o poll[t].got]
        /\ poll' = [poll EXCEPT ![t] = Quiet]
        /\ UNCHANGED <<child, root, files, nudge>>
    BY <1>2 DEF Apply, HasStop
  <2>2. /\ poll'[t] = Quiet /\ seen'[t] = seen[t] \o poll[t].got
        /\ \A u \in Tasks : u # t => poll'[u] = poll[u] /\ seen'[u] = seen[u]
        /\ seen' = [u \in Tasks |-> seen'[u]]
    BY <2>1 DEF SignalInv, PollShape, OnceInv
  <2>3. TaskOnce(t) /\ seen[t] \in Seq(Notes) /\ poll[t].got \in Seq(Notes)
    BY DEF OnceInv, TaskOnce, SignalInv, PollShape, Notes
  <2>4. /\ seen'[t] \in Seq(Notes)
        /\ \A p : IsIn(p, seen'[t]) <=> Has(t, p)
        /\ Distinct(seen'[t])
    <3>1. \A p \in Notes : p[1] # "_stop" => ~(IsIn(p, seen[t]) /\ IsIn(p, poll[t].got))
      BY <2>3 DEF TaskOnce, Has
    <3>2. Distinct(seen[t]) /\ Distinct(poll[t].got)
      BY <2>3 DEF TaskOnce
    <3> QED
      BY <2>2, <2>3, <3>1, <3>2, OneAfterOther DEF Has
  <2>5. poll'[t].got = << >> /\ ~poll'[t].reading
    BY <2>2 DEF Quiet
  <2>6. \A p : ~IsIn(p, poll'[t].got)
    BY <2>5, NothingIn
  <2>7. \A p : Has(t, p)' <=> Has(t, p)
    BY <2>4, <2>6 DEF Has, IsIn
  <2>8. \A i \in 1 .. Len(seen'[t]) : seen'[t][i][1] # "_stop"
    <3> SUFFICES ASSUME NEW i \in 1 .. Len(seen'[t]), seen'[t][i][1] = "_stop" PROVE FALSE
      OBVIOUS
    <3>1. PICK p : p = seen'[t][i]
      OBVIOUS
    <3>2. IsIn(p, seen'[t])
      BY <3>1 DEF IsIn
    <3>3. CASE IsIn(p, seen[t])
      BY <2>3, <3>1, <3>3 DEF TaskOnce, IsIn
    <3>4. CASE IsIn(p, poll[t].got)
      <4>1. DOMAIN poll[t].got = 1 .. Len(poll[t].got)
        BY <2>3, LenProperties
      <4> QED
        BY <1>2, <3>1, <3>4, <4>1 DEF HasStop, IsIn
    <3> QED
      BY <2>4, <3>2, <3>3, <3>4 DEF Has
  <2>9. TaskOnce(t)'
    <3>1. Distinct(poll'[t].got)
      BY <2>5, EmptySeq DEF Distinct
    <3>2. \A p \in Notes : Has(t, p)' /\ p[1] # "_stop" =>
            /\ Old(p[1], p[2])'
            /\ p[1] \in DOMAIN files'[root'[t]] => files'[root'[t]][p[1]] # p[2]
      BY <2>1, <2>3, <2>7 DEF TaskOnce, Old
    <3>3. \A p : ~IsIn(p, poll[t].got)'
      BY <2>6 DEF IsIn
    <3>4. Distinct(seen[t])' /\ Distinct(poll[t].got)'
      BY <2>4, <3>1 DEF Distinct
    <3> QED
      BY <2>1, <2>4, <2>5, <2>8, <3>2, <3>3, <3>4 DEF TaskOnce
  <2> QED
    BY <2>1, <2>2, <2>9, OneTask
<1> QED
  BY <1>1, <1>2

\* What a child takes out of a file is old, in no file any more, and new to the child.
LEMMA UnlinkStep == ASSUME PoolInv, SignalInv, OnceInv, NEW t \in Tasks, Unlink(t) PROVE OnceInv'
<1>1. PICK d0 \in Dirs, f0 \in FileNames :
        /\ d0 = root[t] /\ f0 = Names[poll[t].at]
        /\ files' = [files EXCEPT ![d0] = Without(d0, f0)]
        /\ nudge' = IF nudge.open = "linked" /\ nudge.dir = d0 /\ nudge.file = f0
                    THEN [nudge EXCEPT !.open = "unlinked"] ELSE nudge
  <2>1. child[t] = "running" /\ poll[t].reading
    BY DEF Unlink
  <2>2. root[t] \in Dirs /\ Names[poll[t].at] \in FileNames
    BY <2>1, SubagentsAssumptions, NamesAreNames
      DEF SignalInv, PollShape, PoolInv, PoolShape, Rooted, Dirs
  <2> QED
    BY <2>2 DEF Unlink
<1>2. PICK more :
        /\ more = IF Heeded(f0, poll[t].held) THEN Append(poll[t].got, <<f0, poll[t].held>>)
                  ELSE poll[t].got
        /\ poll' = [poll EXCEPT ![t] = [at |-> poll[t].at + 1, held |-> 0,
                                        reading |-> FALSE, got |-> more]]
  BY <1>1 DEF Unlink
<1>3. /\ child[t] = "running" /\ poll[t].reading
      /\ UNCHANGED <<child, root, seen>>
  BY DEF Unlink, children
<1>4. /\ nudge'.n = nudge.n /\ nudge'.todo = nudge.todo
  BY <1>1 DEF SignalInv, NudgeShape
<1>5. \A f, n : Old(f, n)' <=> Old(f, n)
  BY <1>4 DEF Old
<1>6. /\ \A d \in Dirs : d # d0 => files'[d] = files[d]
      /\ files'[d0] = [f \in DOMAIN files[d0] \ {f0} |-> files[d0][f]]
  BY <1>1 DEF SignalInv, FilesShape, Without, Restrict
<1>7. \A d \in Dirs : \A f \in DOMAIN files'[d] :
        f \in DOMAIN files[d] /\ files'[d][f] = files[d][f]
  BY <1>6
<1>8. FilesOld'
  BY <1>5, <1>7 DEF FilesOld, OnceInv, Dirs
<1>9. \A d \in Dirs : Fresh(d)
  BY <1>7 DEF Fresh
<1>10. /\ poll'[t] = [at |-> poll[t].at + 1, held |-> 0, reading |-> FALSE, got |-> more]
       /\ \A u \in Tasks : u # t => poll'[u] = poll[u]
  BY <1>2 DEF SignalInv, PollShape
<1>11. poll'[t].got = more /\ ~poll'[t].reading
  BY <1>10
<1>12. ASSUME NEW u \in Tasks, u # t PROVE TaskOnce(u)'
  <2>1. poll'[u] = poll[u]
    BY <1>10, <1>12
  <2>2. TaskOnce(u)
    BY DEF OnceInv
  <2>3. seen'[u] = seen[u] /\ child'[u] = child[u] /\ root'[u] = root[u]
    BY <1>3
  <2>4. \A f, n : Old(f, n) => Old(f, n)'
    BY <1>5
  <2> QED
    BY <1>9, <2>1, <2>2, <2>3, <2>4, TaskStays
<1>13. PICK x \in Notes : x = <<f0, poll[t].held>> /\ x[1] = f0 /\ x[2] = poll[t].held
  <2>1. PICK h \in Nat : h = poll[t].held
    BY DEF SignalInv, PollShape
  <2>2. <<f0, h>> \in Notes /\ <<f0, h>>[1] = f0 /\ <<f0, h>>[2] = h
    BY DEF Notes
  <2> QED
    BY <2>1, <2>2
<1>14. TaskOnce(t) /\ poll[t].got \in Seq(Notes)
  BY DEF OnceInv, SignalInv, PollShape, Notes
<1>15. f0 # "_stop" => ~IsIn(x, seen[t]) /\ ~IsIn(x, poll[t].got)
  BY <1>1, <1>3, <1>13, <1>14 DEF TaskOnce, Has
<1>16. f0 # "_stop" /\ Heeded(f0, poll[t].held) => Old(x[1], x[2])
  BY <1>1, <1>3, <1>13, <1>14 DEF TaskOnce, Heeded
<1>17. /\ more \in Seq(Notes) /\ Distinct(more)
       /\ \A p : IsIn(p, more) => IsIn(p, poll[t].got) \/ (p = x /\ Heeded(f0, poll[t].held))
  <2>1. Distinct(poll[t].got)
    BY <1>14 DEF TaskOnce
  <2>2. CASE Heeded(f0, poll[t].held)
    <3>1. more = Append(poll[t].got, x)
      BY <1>2, <1>13, <2>2
    <3> QED
      BY <1>13, <1>14, <1>15, <2>1, <2>2, <3>1, OneMore
  <2>3. CASE ~Heeded(f0, poll[t].held)
    BY <1>2, <1>14, <2>1, <2>3
  <2> QED
    BY <2>2, <2>3
<1>18. ASSUME NEW p \in Notes, IsIn(p, seen[t]) \/ IsIn(p, more), p[1] # "_stop"
       PROVE  /\ Old(p[1], p[2])'
              /\ p[1] \in DOMAIN files'[d0] => files'[d0][p[1]] # p[2]
              /\ ~(IsIn(p, seen[t]) /\ IsIn(p, more))
  <2>1. CASE Has(t, p)
    <3>1. /\ Old(p[1], p[2])
          /\ p[1] \in DOMAIN files[d0] => files[d0][p[1]] # p[2]
          /\ ~(IsIn(p, seen[t]) /\ IsIn(p, poll[t].got))
      BY <1>1, <1>14, <1>18, <2>1 DEF TaskOnce
    <3>2. p = x => ~IsIn(p, seen[t]) /\ ~IsIn(p, poll[t].got)
      BY <1>13, <1>15, <1>18
    <3> QED
      BY <1>5, <1>7, <1>17, <3>1, <3>2
  <2>2. CASE ~Has(t, p)
    <3>1. p = x /\ Heeded(f0, poll[t].held) /\ ~IsIn(p, seen[t])
      BY <1>17, <1>18, <2>2 DEF Has
    <3>2. f0 \notin DOMAIN files'[d0]
      BY <1>6
    <3>3. p[1] = f0 /\ Old(p[1], p[2])
      BY <1>13, <1>16, <1>18, <3>1
    <3> QED
      BY <1>5, <3>1, <3>2, <3>3
  <2> QED
    BY <2>1, <2>2
<1>19. TaskOnce(t)'
  <2>1. root'[t] = d0 /\ seen'[t] = seen[t] /\ child'[t] = "running"
    BY <1>1, <1>3
  <2>2. \A p : Has(t, p)' <=> IsIn(p, seen[t]) \/ IsIn(p, more)
    BY <1>11, <2>1 DEF Has, IsIn
  <2>3. \A p : (IsIn(p, seen[t])' <=> IsIn(p, seen[t])) /\ (IsIn(p, poll[t].got)' <=> IsIn(p, more))
    BY <1>11, <2>1 DEF IsIn
  <2>4. Distinct(seen[t])' /\ Distinct(poll[t].got)'
    BY <1>11, <1>14, <1>17, <2>1 DEF Distinct, TaskOnce
  <2>5. /\ seen[t] \in Seq(Notes)
        /\ \A i \in 1 .. Len(seen[t]) : seen[t][i][1] # "_stop"
    BY <1>14 DEF TaskOnce
  <2> QED
    BY <1>11, <1>18, <2>1, <2>2, <2>3, <2>4, <2>5 DEF TaskOnce
<1>20. ASSUME NEW u \in Tasks PROVE TaskOnce(u)'
  <2>1. CASE u = t
    BY <1>19, <2>1 DEF TaskOnce, Has, IsIn, Old, Distinct
  <2>2. CASE u # t
    BY <1>12, <2>2
  <2> QED
    BY <2>1, <2>2
<1> QED
  BY <1>3, <1>8, <1>20 DEF OnceInv

\* A nudge begins, with a number of its own, after every text that was written.
LEMMA NudgeStep == ASSUME PoolInv, SignalInv, OnceInv, Nudge PROVE OnceInv'
<1>1. /\ nudge'.n = nudge.n + 1 /\ nudge.n \in Nat
      /\ UNCHANGED <<child, root, files, poll, seen>>
  BY DEF Nudge, children, SignalInv, NudgeShape
<1>2. \A f, n : Old(f, n) => Old(f, n)'
  BY <1>1 DEF Old
<1>3. FilesOld'
  BY <1>1, <1>2 DEF FilesOld, OnceInv, Dirs
<1>4. \A d \in Dirs : Fresh(d)
  BY <1>1 DEF Fresh
<1>5. ASSUME NEW t \in Tasks PROVE TaskOnce(t)'
  BY <1>1, <1>2, <1>4, TaskStays DEF OnceInv
<1> QED
  BY <1>1, <1>3, <1>5 DEF OnceInv

\* A file is truncated, which is not a text.
LEMMA OpenStep == ASSUME PoolInv, SignalInv, OnceInv, Open PROVE OnceInv'
<1>0. PICK i \in DOMAIN Names :
        /\ Names[i] \in nudge.todo
        /\ nudge' = [nudge EXCEPT !.file = Names[i], !.open = "linked"]
        /\ files' = [files EXCEPT ![nudge.dir] =
             [f \in DOMAIN files[nudge.dir] \cup {Names[i]} |->
                IF f = Names[i] THEN 0 ELSE files[nudge.dir][f]]]
  BY DEF Open
<1>1. PICK d0, f0 :
        /\ d0 \in Dirs
        /\ nudge' = [nudge EXCEPT !.file = f0, !.open = "linked"]
        /\ files' = [files EXCEPT ![d0] =
             [f \in DOMAIN files[d0] \cup {f0} |-> IF f = f0 THEN 0 ELSE files[d0][f]]]
  <2>1. nudge.dir \in Dirs
    BY <1>0 DEF SignalInv, NudgeShape
  <2> QED
    BY <1>0, <2>1
<1>2. UNCHANGED <<child, root, poll, seen>>
  BY DEF Open, children
<1>3. nudge'.n = nudge.n /\ nudge'.todo = nudge.todo
  BY <1>1 DEF SignalInv, NudgeShape
<1>4. \A f, n : Old(f, n)' <=> Old(f, n)
  BY <1>3 DEF Old
<1>5. /\ \A d \in Dirs : d # d0 => files'[d] = files[d]
      /\ files'[d0] = [f \in DOMAIN files[d0] \cup {f0} |-> IF f = f0 THEN 0 ELSE files[d0][f]]
  BY <1>1 DEF SignalInv, FilesShape
<1>6. \A d \in Dirs : \A f \in DOMAIN files'[d] :
        (f \in DOMAIN files[d] /\ files'[d][f] = files[d][f]) \/ files'[d][f] = 0
  BY <1>5
<1>7. FilesOld'
  BY <1>4, <1>6 DEF FilesOld, OnceInv, Dirs
<1>8. \A d \in Dirs : Fresh(d)
  BY <1>6 DEF Fresh
<1>9. ASSUME NEW t \in Tasks PROVE TaskOnce(t)'
  BY <1>2, <1>4, <1>8, TaskStays DEF OnceInv
<1> QED
  BY <1>2, <1>7, <1>9 DEF OnceInv

\* A file gets its text, which no file of its name had before and none gets again.
LEMMA FillStep == ASSUME PoolInv, SignalInv, OnceInv, Fill PROVE OnceInv'
<1>1. PICK d0, f0 :
        /\ d0 \in Dirs
        /\ f0 \in nudge.todo
        /\ nudge.open = "linked" => f0 \in DOMAIN files[d0]
        /\ files' = IF nudge.open = "linked" /\ f0 # "_stop"
                    THEN [files EXCEPT ![d0][f0] = nudge.n] ELSE files
        /\ nudge' = [nudge EXCEPT !.todo = @ \ {f0}, !.file = "none", !.open = "no"]
  <2>1. /\ nudge.dir \in Dirs /\ nudge.file \in nudge.todo
        /\ nudge.open = "linked" => nudge.file \in DOMAIN files[nudge.dir]
    BY DEF Fill, SignalInv, NudgeShape
  <2> QED
    BY <2>1 DEF Fill
<1>2. UNCHANGED <<child, root, poll, seen>>
  BY DEF Fill, children
<1>3. nudge'.n = nudge.n /\ nudge'.todo = nudge.todo \ {f0} /\ nudge.n \in Nat
  BY <1>1 DEF SignalInv, NudgeShape
<1>4. \A f, n : Old(f, n) => Old(f, n)'
  BY <1>3 DEF Old
<1>6. ~Old(f0, nudge.n)
  BY <1>1 DEF Old
<1>7. \A d \in Dirs : \A f \in DOMAIN files'[d] :
        \/ f \in DOMAIN files[d] /\ files'[d][f] = files[d][f]
        \/ f = f0 /\ files'[d][f] = nudge.n
  <2>1. CASE nudge.open = "linked" /\ f0 # "_stop"
    <3>1. files' = [files EXCEPT ![d0] = [files[d0] EXCEPT ![f0] = nudge.n]]
      BY <1>1, <2>1
    <3>0. d0 \in Dirs
      BY <1>1
    <3>2. /\ files'[d0] = [files[d0] EXCEPT ![f0] = nudge.n]
          /\ \A d \in Dirs : d # d0 => files'[d] = files[d]
      BY <3>0, <3>1 DEF SignalInv, FilesShape
    <3>3. DOMAIN files'[d0] = DOMAIN files[d0]
      BY <3>2
    <3>4. \A f \in DOMAIN files[d0] : files'[d0][f] = IF f = f0 THEN nudge.n ELSE files[d0][f]
      BY <3>2
    <3> QED
      BY <3>2, <3>3, <3>4
  <2>2. CASE ~(nudge.open = "linked" /\ f0 # "_stop")
    BY <1>1, <2>2
  <2> QED
    BY <2>1, <2>2
<1>8. FilesOld'
  <2> SUFFICES ASSUME NEW d \in Dirs, NEW f \in DOMAIN files'[d], f # "_stop", files'[d][f] # 0
               PROVE  Old(f, files[d][f])'
    BY DEF FilesOld, Dirs
  <2>1. CASE f \in DOMAIN files[d] /\ files'[d][f] = files[d][f]
    <3>1. Old(f, files[d][f])
      BY <2>1 DEF OnceInv, FilesOld
    <3> QED
      BY <1>4, <2>1, <3>1 DEF Old
  <2>2. CASE f = f0 /\ files'[d][f] = nudge.n
    BY <1>3, <2>2 DEF Old
  <2> QED
    BY <1>7, <2>1, <2>2
<1>9. \A d \in Dirs : Fresh(d)
  BY <1>6, <1>7 DEF Fresh
<1>10. ASSUME NEW t \in Tasks PROVE TaskOnce(t)'
  BY <1>2, <1>4, <1>9, TaskStays DEF OnceInv
<1> QED
  BY <1>2, <1>8, <1>10 DEF OnceInv

\* Nothing was written at first.
LEMMA InitOnce == Init => OnceInv
<1> SUFFICES ASSUME Init PROVE OnceInv
  OBVIOUS
<1>1. FilesOld
  BY DEF Init, FilesOld, NoFiles, Dirs
<1>2. ASSUME NEW t \in Tasks PROVE TaskOnce(t)
  <2>1. seen[t] = << >> /\ poll[t].got = << >> /\ ~poll[t].reading
    BY DEF Init, Quiet
  <2>2. << >> \in Seq(Notes) /\ Len(<< >>) = 0
    BY EmptySeq
  <2>3. \A p : ~Has(t, p)
    BY <2>1, NothingIn DEF Has
  <2> QED
    BY <2>1, <2>2, <2>3 DEF TaskOnce, Distinct
<1>3. seen = [t \in Tasks |-> seen[t]]
  BY DEF Init
<1> QED
  BY <1>1, <1>2, <1>3 DEF OnceInv

LEMMA NextOnce == PoolInv /\ SignalInv /\ OnceInv /\ [Next]_vars => OnceInv'
<1> SUFFICES ASSUME PoolInv, SignalInv, OnceInv, [Next]_vars PROVE OnceInv'
  OBVIOUS
<1>1. ASSUME NEW w \in Workers, Work(w) PROVE OnceInv'
  <2>1. CASE Take(w) \/ Refuse(w) \/ Reap(w)
    <3>1. UNCHANGED <<child, root, files, nudge, poll, seen>>
      BY <2>1 DEF Take, Refuse, Reap, children, signals
    <3> QED
      BY <3>1, OnceUnchanged
  <2>2. CASE Start(w)
    BY <2>2, StartKeepsOnce
  <2>3. CASE TimesOut(w)
    <3>1. PICK t \in Tasks : /\ child' = [child EXCEPT ![t] = "killed"]
                             /\ Forget(t) /\ UNCHANGED <<root, files, nudge>>
      BY <2>3 DEF TimesOut, Killed, PoolInv, Unstarted
    <3>2. \A u \in Tasks : u # t => child'[u] = child[u]
      BY <3>1 DEF PoolInv, PoolShape
    <3> QED
      BY <3>1, <3>2, ForgetKeepsOnce
  <2> QED
    BY <1>1, <2>1, <2>2, <2>3 DEF Work
<1>2. ASSUME NEW t \in Tasks, Exit(t) PROVE OnceInv'
  <2>1. \A u \in Tasks : u # t => child'[u] = child[u]
    BY <1>2 DEF Exit, PoolInv, PoolShape
  <2> QED
    BY <1>2, <2>1, ForgetKeepsOnce DEF Exit
<1>3. CASE Return \/ Tick \/ UNCHANGED vars
  <2>1. UNCHANGED <<child, root, files, nudge, poll, seen>>
    BY <1>3 DEF Return, Tick, vars, children, signals
  <2> QED
    BY <2>1, OnceUnchanged
<1>4. ASSUME NEW t \in Tasks, Look(t) \/ Read(t) \/ Unlink(t) \/ Apply(t) PROVE OnceInv'
  BY <1>4, LookStep, ReadStep, UnlinkStep, ApplyStep
<1> QED
  BY <1>1, <1>2, <1>3, <1>4, NudgeStep, OpenStep, FillStep DEF Next

\* A child applies a message once, however looks and nudges interleave: what it took
\* out of a file is in no file again (consume_subagent_signals, write_subagent_signals).
THEOREM SignalsApplyOnce == Spec => []NeverReapplied
<1>1. OnceInv => NeverReapplied
  <2> SUFFICES ASSUME OnceInv, NEW t \in Tasks, NEW i \in DOMAIN seen[t], NEW j \in DOMAIN seen[t],
                      seen[t][i] = seen[t][j]
               PROVE  i = j
    BY DEF NeverReapplied
  <2>1. /\ seen[t] \in Seq(Notes) /\ Distinct(seen[t])
        /\ \A k \in 1 .. Len(seen[t]) : seen[t][k][1] # "_stop"
    BY DEF OnceInv, TaskOnce
  <2>2. DOMAIN seen[t] = 1 .. Len(seen[t])
    BY <2>1, LenProperties
  <2> QED
    BY <2>1, <2>2 DEF Distinct
<1>2. Spec => [](PoolInv /\ SignalInv /\ OnceInv)
  BY InitPool, InitSignals, InitOnce, NextPool, NextSignals, NextOnce, PTL DEF Spec
<1> QED
  BY <1>1, <1>2, PTL

-----------------------------------------------------------------------------
(* The answer *)

\* A map of 1 .. n onto itself that never falls is the identity.
LEMMA RisingIsIdentity ==
  ASSUME NEW n \in Nat, NEW g \in Injection(1 .. n, 1 .. n),
         \A i, j \in 1 .. n : i < j => g[i] <= g[j]
  PROVE  \A i \in 1 .. n : g[i] = i
<1>1. /\ g \in [1 .. n -> 1 .. n]
      /\ \A i, j \in 1 .. n : g[i] = g[j] => i = j
  BY DEF Injection, IsInjective
<1>2. ASSUME NEW a \in Int, NEW b \in Int, NEW c \in Int, NEW d \in Int,
             1 <= a, b <= n, c <= d, a <= b, \A i \in a .. b : g[i] \in c .. d
      PROVE  b - a <= d - c
  <2> DEFINE h == [i \in a .. b |-> g[i]]
  <2>1. \A i \in a .. b : i \in 1 .. n
    BY <1>2
  <2>2. /\ h \in [a .. b -> c .. d]
        /\ \A i, j \in a .. b : h[i] = h[j] => i = j
    BY <1>1, <1>2, <2>1
  <2> HIDE DEF h
  <2>3. h \in Injection(a .. b, c .. d)
    BY <2>2 DEF Injection, IsInjective
  <2>4. /\ Cardinality(a .. b) = IF a > b THEN 0 ELSE b - a + 1
        /\ IsFiniteSet(c .. d)
        /\ Cardinality(c .. d) = IF c > d THEN 0 ELSE d - c + 1
    BY FS_Interval
  <2>5. Cardinality(a .. b) <= Cardinality(c .. d)
    BY ONLY <2>3, <2>4, FS_Injection
  <2> QED
    BY <1>2, <2>4, <2>5
<1> SUFFICES ASSUME NEW i \in 1 .. n PROVE g[i] = i
  OBVIOUS
<1>3. g[i] \in 1 .. n
  BY <1>1
<1>4. i <= g[i]
  <2>1. \A j \in 1 .. i : g[j] \in 1 .. g[i]
    <3> SUFFICES ASSUME NEW j \in 1 .. i PROVE g[j] \in 1 .. g[i]
      OBVIOUS
    <3>1. j \in 1 .. n /\ (j = i \/ j < i)
      OBVIOUS
    <3> QED
      BY <1>1, <1>3, <3>1
  <2>2. 1 \in Int /\ i \in Int /\ g[i] \in Int /\ 1 <= 1 /\ i <= n /\ 1 <= g[i] /\ 1 <= i
    BY <1>3
  <2>3. i - 1 <= g[i] - 1
    BY ONLY <1>2, <2>1, <2>2
  <2> QED
    BY <2>2, <2>3
<1>5. g[i] <= i
  <2>1. \A j \in i .. n : g[j] \in g[i] .. n
    <3> SUFFICES ASSUME NEW j \in i .. n PROVE g[j] \in g[i] .. n
      OBVIOUS
    <3>1. j \in 1 .. n /\ (j = i \/ i < j)
      OBVIOUS
    <3> QED
      BY <1>1, <1>3, <3>1
  <2>2. i \in Int /\ n \in Int /\ g[i] \in Int /\ 1 <= i /\ n <= n /\ g[i] <= n /\ i <= n
    BY <1>3
  <2>3. n - i <= n - g[i]
    BY ONLY <1>2, <2>1, <2>2
  <2> QED
    BY <2>2, <2>3
<1> QED
  BY <1>3, <1>4, <1>5

\* The m entries of r are for the tasks 1 .. n, one each.
OneEach(r, m, n) ==
  /\ DOMAIN r = 1 .. m
  /\ \A i \in 1 .. m : r[i].index \in 1 .. n
  /\ \A i, j \in 1 .. m : r[i].index = r[j].index => i = j
  /\ \A k \in 1 .. n : \E i \in 1 .. m : r[i].index = k

LEMMA OrderedFunction ==
  ASSUME NEW r
  PROVE  Ordered(r) = [i \in DOMAIN Ordered(r) |-> Ordered(r)[i]]
<1> DEFINE p == CHOOSE q \in Bijection(DOMAIN r, DOMAIN r) :
                  \A i, j \in DOMAIN r : i < j => r[q[i]].index <= r[q[j]].index
<1>1. Ordered(r) = [i \in DOMAIN r |-> r[p[i]]]
  BY Zenon DEF Ordered
<1> HIDE DEF p
<1> QED
  BY <1>1

\* Such entries are in the order of the tasks once sorted.
LEMMA OrderedEntries ==
  ASSUME NEW r, NEW m \in Nat, NEW n \in Nat, OneEach(r, m, n)
  PROVE  /\ DOMAIN Ordered(r) = 1 .. n
         /\ \A k \in 1 .. n : Ordered(r)[k].index = k
<1> USE DEF OneEach
<1>1. m = n
  <2> DEFINE h == [i \in 1 .. m |-> r[i].index]
  <2>1. /\ h \in [1 .. m -> 1 .. n]
        /\ \A i, j \in 1 .. m : h[i] = h[j] => i = j
        /\ \A k \in 1 .. n : \E i \in 1 .. m : h[i] = k
    OBVIOUS
  <2> HIDE DEF h
  <2>2. h \in Bijection(1 .. m, 1 .. n)
    BY <2>1 DEF Bijection, Injection, Surjection, IsInjective
  <2>3. ExistsBijection(1 .. m, 1 .. n)
    BY <2>2 DEF ExistsBijection
  <2>4. /\ IsFiniteSet(1 .. m)
        /\ Cardinality(1 .. m) = IF 1 > m THEN 0 ELSE m - 1 + 1
        /\ Cardinality(1 .. n) = IF 1 > n THEN 0 ELSE n - 1 + 1
    BY FS_Interval
  <2>5. Cardinality(1 .. n) = Cardinality(1 .. m)
    BY ONLY <2>3, <2>4, FS_Bijection
  <2> QED
    BY <2>4, <2>5
<1> DEFINE Sorts(q) == \A i, j \in 1 .. n : i < j => r[q[i]].index <= r[q[j]].index
<1>2. \E q \in Bijection(1 .. n, 1 .. n) : Sorts(q)
  <2> DEFINE q == [k \in 1 .. n |-> CHOOSE i \in 1 .. n : r[i].index = k]
  <2>1. \A k \in 1 .. n : q[k] \in 1 .. n /\ r[q[k]].index = k
    BY <1>1
  <2>2. q \in [1 .. n -> 1 .. n]
    BY <2>1
  <2> HIDE DEF q
  <2>3. ASSUME NEW k \in 1 .. n, NEW l \in 1 .. n, q[k] = q[l] PROVE k = l
    <3>1. r[q[k]].index = k /\ r[q[l]].index = l
      BY <2>1
    <3> QED
      BY ONLY <2>3, <3>1
  <2>4. \A i \in 1 .. n : \E k \in 1 .. n : q[k] = i
    <3> SUFFICES ASSUME NEW i \in 1 .. n PROVE \E k \in 1 .. n : q[k] = i
      OBVIOUS
    <3>1. PICK k \in 1 .. n : k = r[i].index
      BY <1>1
    <3>2. q[k] \in 1 .. m /\ r[q[k]].index = r[i].index /\ i \in 1 .. m
      BY <1>1, <2>1, <3>1
    <3>3. q[k] = i
      BY <3>2
    <3> QED
      BY <3>3
  <2>5. q \in Bijection(1 .. n, 1 .. n)
    BY <2>2, <2>3, <2>4 DEF Bijection, Injection, Surjection, IsInjective
  <2>6. Sorts(q)
    BY <2>1
  <2> QED
    BY <2>5, <2>6
<1>3. PICK p \in Bijection(1 .. n, 1 .. n) : Sorts(p) /\ Ordered(r) = [i \in 1 .. n |-> r[p[i]]]
  <2> DEFINE p == CHOOSE q \in Bijection(DOMAIN r, DOMAIN r) :
                    \A i, j \in DOMAIN r : i < j => r[q[i]].index <= r[q[j]].index
  <2>1. p \in Bijection(1 .. n, 1 .. n) /\ Sorts(p)
    BY <1>1, <1>2
  <2>2. Ordered(r) = [i \in 1 .. n |-> r[p[i]]]
    BY <1>1 DEF Ordered
  <2> QED
    BY <2>1, <2>2
<1>4. /\ p \in [1 .. n -> 1 .. n]
      /\ \A i, j \in 1 .. n : p[i] = p[j] => i = j
  BY DEF Bijection, Injection, IsInjective
<1> DEFINE g == [i \in 1 .. n |-> r[p[i]].index]
<1>5. /\ g \in [1 .. n -> 1 .. n]
      /\ \A i, j \in 1 .. n : g[i] = g[j] => i = j
      /\ \A i, j \in 1 .. n : i < j => g[i] <= g[j]
  <2>1. \A i \in 1 .. n : p[i] \in 1 .. m /\ r[p[i]].index \in 1 .. n
    BY <1>1, <1>4
  <2>2. \A i \in 1 .. n : g[i] = r[p[i]].index
    OBVIOUS
  <2>3. g \in [1 .. n -> 1 .. n]
    BY <2>1
  <2> HIDE DEF g
  <2>4. ASSUME NEW i \in 1 .. n, NEW j \in 1 .. n, g[i] = g[j] PROVE i = j
    <3>1. p[i] \in 1 .. m /\ p[j] \in 1 .. m /\ r[p[i]].index = r[p[j]].index
      BY <2>1, <2>2, <2>4
    <3>2. p[i] = p[j]
      BY <3>1
    <3> QED
      BY <1>4, <3>2
  <2>5. ASSUME NEW i \in 1 .. n, NEW j \in 1 .. n, i < j PROVE g[i] <= g[j]
    BY <1>3, <2>2, <2>5
  <2> QED
    BY <2>3, <2>4, <2>5
<1>6. \A i \in 1 .. n : g[i] = i
  <2> HIDE DEF g
  <2>1. g \in Injection(1 .. n, 1 .. n)
    BY <1>5 DEF Injection, IsInjective
  <2> QED
    BY ONLY <1>5, <2>1, n \in Nat, RisingIsIdentity
<1> QED
  BY <1>3, <1>6

Entries == [index : Tasks, status : {"error", "success"}]

Queued(t) == \E i \in DOMAIN queue : queue[i] = t
Holds(w, t) == worker[w].pc \in {"spawn", "wait"} /\ worker[w].task = t
Entered(t) == \E i \in 1 .. Len(results) : results[i].index = t

\* Every task is in one place: the queue, one worker's hands or one entry.
OnePlace ==
  /\ \A i, j \in 1 .. Len(results) : results[i].index = results[j].index => i = j
  /\ \A t \in Tasks :
       /\ Queued(t) \/ Entered(t) \/ \E w \in Workers : Holds(w, t)
       /\ ~(Queued(t) /\ Entered(t))
       /\ \A w \in Workers : Holds(w, t) =>
            ~Queued(t) /\ ~Entered(t) /\ \A v \in Workers : Holds(v, t) => v = w

\* A worker is done when nothing is left to take.
AnswerInv ==
  /\ results \in Seq(Entries)
  /\ OnePlace
  /\ \A w \in Workers : worker[w].pc = "done" => queue = << >>
  /\ AnswerInOrder

LEMMA InitAnswer == Init => AnswerInv
<1> SUFFICES ASSUME Init PROVE AnswerInv
  OBVIOUS
<1>1. /\ queue = [t \in Tasks |-> t] /\ results = << >> /\ answer = << >>
      /\ \A w \in Workers : worker[w].pc = "take"
  BY DEF Init
<1>2. << >> \in Seq(Entries) /\ Len(<< >>) = 0
  BY EmptySeq
<1>3. /\ \A t \in Tasks : Queued(t) /\ ~Entered(t)
      /\ \A t \in Tasks, w \in Workers : ~Holds(w, t)
  BY <1>1, <1>2 DEF Queued, Entered, Holds
<1>4. OnePlace
  BY <1>1, <1>2, <1>3 DEF OnePlace
<1> QED
  BY <1>1, <1>2, <1>4 DEF AnswerInv, AnswerInOrder

\* No task changes its place.
LEMMA AnswerUnchanged ==
  ASSUME AnswerInv, UNCHANGED <<queue, results, answer>>,
         \A w \in Workers, t \in Tasks : Holds(w, t)' <=> Holds(w, t),
         \A w \in Workers : worker'[w].pc = "done" => queue = << >>
  PROVE  AnswerInv'
<1>1. \A t \in Tasks : (Queued(t)' <=> Queued(t)) /\ (Entered(t)' <=> Entered(t))
  BY DEF Queued, Entered
<1>2. OnePlace'
  BY <1>1 DEF AnswerInv, OnePlace
<1> QED
  BY <1>2 DEF AnswerInv, AnswerInOrder

\* The task goes from the queue to the worker.
LEMMA TakeStep == ASSUME PoolInv, AnswerInv, NEW w \in Workers, Take(w) PROVE AnswerInv'
<1>1. worker[w].pc = "take" /\ results' = results /\ answer' = answer
  BY DEF Take
<1>2. CASE queue = << >>
  <2>1. worker' = [worker EXCEPT ![w].pc = "done"] /\ queue' = queue
    BY <1>2 DEF Take
  <2>2. worker'[w].pc = "done" /\ \A v \in Workers \ {w} : worker'[v] = worker[v]
    BY <2>1 DEF PoolInv, PoolShape
  <2>3. \A v \in Workers, t \in Tasks : Holds(v, t)' <=> Holds(v, t)
    BY <1>1, <2>2 DEF Holds
  <2> QED
    BY <1>1, <1>2, <2>1, <2>3, AnswerUnchanged
<1>3. CASE queue # << >>
  <2>1. PICK h : /\ h = Head(queue) /\ queue' = Tail(queue)
                 /\ worker' = [worker EXCEPT ![w] = [pc |-> "spawn", task |-> h]]
    BY <1>3 DEF Take, Rest
  <2>2. /\ h = queue[1] /\ h \in Tasks /\ Len(queue) \in Nat /\ Len(queue) # 0
        /\ DOMAIN queue = 1 .. Len(queue)
        /\ queue' \in Seq(Tasks) /\ Len(queue') = Len(queue) - 1
        /\ DOMAIN queue' = 1 .. Len(queue')
        /\ \A i \in 1 .. Len(queue') : queue'[i] = queue[i + 1]
    BY <1>3, <2>1, HeadTailProperties, LenProperties DEF PoolInv, PoolShape
  <2>3. /\ worker'[w] = [pc |-> "spawn", task |-> h]
        /\ \A v \in Workers \ {w} : worker'[v] = worker[v]
    BY <2>1 DEF PoolInv, PoolShape
  <2>4. ASSUME NEW t \in Tasks PROVE Queued(t)' <=> Queued(t) /\ t # h
    <3>1. ASSUME NEW i \in 1 .. Len(queue'), queue'[i] = t PROVE Queued(t) /\ t # h
      <4>1. i + 1 \in DOMAIN queue /\ i + 1 # 1 /\ 1 \in DOMAIN queue /\ queue[i + 1] = t
        BY <2>2, <3>1
      <4> QED
        BY <2>2, <4>1 DEF Queued, PoolInv, Unstarted
    <3>2. ASSUME NEW i \in DOMAIN queue, queue[i] = t, t # h PROVE Queued(t)'
      <4>1. i - 1 \in 1 .. Len(queue') /\ queue'[i - 1] = t
        BY <2>2, <3>2
      <4> QED
        BY <2>2, <4>1 DEF Queued
    <3> QED
      BY <2>2, <3>1, <3>2 DEF Queued
  <2>5. \A t \in Tasks : Entered(t)' <=> Entered(t)
    BY <1>1 DEF Entered
  <2>6. \A v \in Workers, t \in Tasks :
          Holds(v, t)' <=> IF v = w THEN t = h ELSE Holds(v, t)
    BY <2>3 DEF Holds
  <2>7. Queued(h)
    BY <2>2 DEF Queued
  <2>8. OnePlace'
    <3>1. ASSUME NEW t \in Tasks
          PROVE  /\ Queued(t)' \/ Entered(t)' \/ \E v \in Workers : Holds(v, t)'
                 /\ ~(Queued(t)' /\ Entered(t)')
                 /\ \A v \in Workers : Holds(v, t)' =>
                      ~Queued(t)' /\ ~Entered(t)' /\ \A u \in Workers : Holds(u, t)' => u = v
      <4>1. CASE t = h
        BY <2>2, <2>4, <2>5, <2>6, <2>7, <4>1 DEF AnswerInv, OnePlace
      <4>2. CASE t # h
        <5>1. ~Holds(w, t)
          BY <1>1 DEF Holds
        <5> QED
          BY <2>4, <2>5, <2>6, <4>2, <5>1 DEF AnswerInv, OnePlace
      <4> QED
        BY <4>1, <4>2
    <3> QED
      BY <1>1, <3>1 DEF AnswerInv, OnePlace
  <2>9. \A v \in Workers : worker'[v].pc # "done"
    BY <1>3, <2>3 DEF AnswerInv
  <2> QED
    BY <1>1, <2>8, <2>9 DEF AnswerInv, AnswerInOrder
<1> QED
  BY <1>2, <1>3

\* The task goes from the worker to an entry.
LEMMA EntryStep ==
  ASSUME PoolInv, AnswerInv, NEW w \in Workers, NEW h \in Tasks, Holds(w, h), Again(w),
         NEW s \in {"error", "success"}, results' = Append(results, [index |-> h, status |-> s]),
         UNCHANGED <<queue, answer>>
  PROVE  AnswerInv'
<1> DEFINE e == [index |-> h, status |-> s]
<1>1. e \in Entries /\ e.index = h
  BY DEF Entries
<1> HIDE DEF e
<1>2. results \in Seq(Entries)
  BY DEF AnswerInv
<1>3. /\ results' \in Seq(Entries) /\ Len(results') = Len(results) + 1 /\ Len(results) \in Nat
      /\ \A i \in 1 .. Len(results) : results'[i] = results[i]
      /\ results'[Len(results) + 1] = e
  BY <1>1, <1>2, AppendProperties, LenProperties DEF e
<1>4. /\ worker'[w] = [pc |-> "take", task |-> 0]
      /\ \A v \in Workers \ {w} : worker'[v] = worker[v]
  BY DEF Again, PoolInv, PoolShape
<1>5. ~Queued(h) /\ ~Entered(h) /\ \A v \in Workers : Holds(v, h) => v = w
  BY DEF AnswerInv, OnePlace
<1>6. ASSUME NEW t \in Tasks PROVE Entered(t)' <=> Entered(t) \/ t = h
  <2>1. Len(results) + 1 \in 1 .. Len(results')
    BY <1>3
  <2>2. \A i \in 1 .. Len(results') : i \in 1 .. Len(results) \/ i = Len(results) + 1
    BY <1>3
  <2>3. \A i \in 1 .. Len(results) : i \in 1 .. Len(results')
    BY <1>3
  <2> QED
    BY <1>1, <1>3, <2>1, <2>2, <2>3 DEF Entered
<1>7. \A t \in Tasks : Queued(t)' <=> Queued(t)
  BY DEF Queued
<1>8. \A v \in Workers, t \in Tasks : Holds(v, t)' <=> v # w /\ Holds(v, t)
  BY <1>4 DEF Holds
<1>9. \A t \in Tasks : Holds(w, t) => t = h
  BY DEF Holds
<1>10. OnePlace'
  <2>1. ASSUME NEW i \in 1 .. Len(results'), NEW j \in 1 .. Len(results'),
               results'[i].index = results'[j].index
        PROVE  i = j
    <3>1. /\ i \in 1 .. Len(results) \/ i = Len(results) + 1
          /\ j \in 1 .. Len(results) \/ j = Len(results) + 1
      BY <1>3
    <3>2. \A k \in 1 .. Len(results) : results[k].index # h
      BY <1>5 DEF Entered
    <3> QED
      BY <1>1, <1>3, <2>1, <3>1, <3>2 DEF AnswerInv, OnePlace
  <2>2. ASSUME NEW t \in Tasks
        PROVE  /\ Queued(t)' \/ Entered(t)' \/ \E v \in Workers : Holds(v, t)'
               /\ ~(Queued(t)' /\ Entered(t)')
               /\ \A v \in Workers : Holds(v, t)' =>
                    ~Queued(t)' /\ ~Entered(t)' /\ \A u \in Workers : Holds(u, t)' => u = v
    <3>1. CASE t = h
      BY <1>5, <1>6, <1>7, <1>8, <3>1
    <3>2. CASE t # h
      <4>1. ~Holds(w, t)
        BY <1>9, <3>2
      <4> QED
        BY <1>6, <1>7, <1>8, <3>2, <4>1 DEF AnswerInv, OnePlace
    <3> QED
      BY <3>1, <3>2
  <2> QED
    BY <2>1, <2>2 DEF OnePlace
<1>11. \A v \in Workers : worker'[v].pc = "done" => queue' = << >>
  BY <1>4 DEF AnswerInv
<1> QED
  BY <1>3, <1>10, <1>11 DEF AnswerInv, AnswerInOrder

\* When every worker is done, every task has its entry.
LEMMA ReturnStep == ASSUME PoolInv, AnswerInv, Return PROVE AnswerInv'
<1>1. /\ \A w \in Workers : worker[w].pc = "done"
      /\ answer' = Ordered(results)
      /\ UNCHANGED <<queue, worker, results>>
  BY DEF Return
<1>2. 1 \in Workers /\ Total \in Nat /\ Tasks = 1 .. Total
  BY SubagentsAssumptions DEF Workers, Least, Tasks
<1>3. queue = << >>
  BY <1>1, <1>2 DEF AnswerInv
<1>4. \A t \in Tasks : Entered(t)
  BY <1>1, <1>3 DEF AnswerInv, OnePlace, Queued, Holds
<1>5. PICK m \in Nat : DOMAIN results = 1 .. m /\ m = Len(results)
  BY LenProperties DEF AnswerInv
<1>6. /\ \A i \in 1 .. m : results[i].index \in 1 .. Total
      /\ \A i, j \in 1 .. m : results[i].index = results[j].index => i = j
      /\ \A k \in 1 .. Total : \E i \in 1 .. m : results[i].index = k
  <2>1. \A i \in 1 .. m : results[i] \in Entries
    BY <1>5, ElementOfSeq DEF AnswerInv
  <2> QED
    BY <1>2, <1>4, <1>5, <2>1 DEF Entries, AnswerInv, OnePlace, Entered
<1>7. DOMAIN answer' = 1 .. Total /\ \A k \in 1 .. Total : answer'[k].index = k
  <2>1. /\ DOMAIN Ordered(results) = 1 .. Total
        /\ \A k \in 1 .. Total : Ordered(results)[k].index = k
    <3>1. Total \in Nat /\ m \in Nat /\ OneEach(results, m, Total)
      BY <1>2, <1>5, <1>6 DEF OneEach
    <3> QED
      BY ONLY <3>1, OrderedEntries
  <2> QED
    BY <1>1, <2>1
<1>8. Len(answer') = Total
  <2>1. answer' = [k \in 1 .. Total |-> answer'[k]]
    BY <1>1, <1>7, OrderedFunction
  <2> QED
    BY <1>2, <1>7, <2>1
<1>9. AnswerInOrder'
  BY <1>2, <1>7, <1>8 DEF AnswerInOrder
<1>10. OnePlace'
  BY <1>1 DEF AnswerInv, OnePlace, Queued, Entered, Holds
<1> QED
  BY <1>1, <1>9, <1>10 DEF AnswerInv

LEMMA NextAnswer == PoolInv /\ AnswerInv /\ [Next]_vars => AnswerInv'
<1> SUFFICES ASSUME PoolInv, AnswerInv, [Next]_vars PROVE AnswerInv'
  OBVIOUS
<1>1. CASE UNCHANGED pool
  <2>1. UNCHANGED <<queue, worker, results, answer>>
    BY <1>1 DEF pool
  <2> QED
    BY <2>1 DEF AnswerInv, OnePlace, AnswerInOrder, Queued, Entered, Holds
<1>2. ASSUME NEW w \in Workers, Work(w) PROVE AnswerInv'
  <2>1. CASE Take(w)
    BY <2>1, TakeStep
  <2>2. CASE Start(w)
    <3>1. /\ worker[w].pc = "spawn" /\ worker' = [worker EXCEPT ![w].pc = "wait"]
          /\ UNCHANGED <<queue, results, answer>>
      BY <2>2 DEF Start
    <3>2. /\ worker'[w].pc = "wait" /\ worker'[w].task = worker[w].task
          /\ \A v \in Workers \ {w} : worker'[v] = worker[v]
      BY <3>1 DEF PoolInv, PoolShape
    <3>3. \A v \in Workers, t \in Tasks : Holds(v, t)' <=> Holds(v, t)
      BY <3>1, <3>2 DEF Holds
    <3>4. \A v \in Workers : worker'[v].pc = "done" => queue = << >>
      BY <3>2 DEF AnswerInv
    <3> QED
      BY <3>1, <3>3, <3>4, AnswerUnchanged
  <2>3. CASE Refuse(w) \/ Reap(w) \/ TimesOut(w)
    <3>1. PICK h \in Tasks : h = worker[w].task /\ Holds(w, h)
      BY <2>3 DEF Refuse, Reap, TimesOut, PoolInv, Unstarted, Holds
    <3>2. PICK s \in {"error", "success"} : results' = Append(results, [index |-> h, status |-> s])
      <4>1. \/ results' = Append(results, [index |-> h, status |-> "error"])
            \/ results' = Append(results, [index |-> h, status |-> "success"])
        BY <2>3, <3>1 DEF Refuse, Reap, TimesOut, AfterError
      <4> QED
        BY <4>1
    <3>3. Again(w) /\ UNCHANGED <<queue, answer>>
      BY <2>3 DEF Refuse, Reap, TimesOut, AfterError
    <3> QED
      BY <3>1, <3>2, <3>3, EntryStep
  <2> QED
    BY <1>2, <2>1, <2>2, <2>3 DEF Work
<1>3. ASSUME NEW t \in Tasks, Exit(t) \/ Look(t) \/ Read(t) \/ Unlink(t) \/ Apply(t)
      PROVE  UNCHANGED pool
  BY <1>3 DEF Exit, Look, Read, Unlink, Apply
<1>4. Tick \/ Nudge \/ Open \/ Fill \/ UNCHANGED vars => UNCHANGED pool
  BY DEF Tick, Nudge, Open, Fill, vars
<1> QED
  BY <1>1, <1>2, <1>3, <1>4, ReturnStep DEF Next

\* The tool answers with one entry per task in the order of the tasks, whichever
\* finished first and however each ended (spawn_subagent_map).
THEOREM AnswersInOrder == Spec => []AnswerInOrder
<1>1. AnswerInv => AnswerInOrder
  BY DEF AnswerInv
<1>2. Spec => [](PoolInv /\ AnswerInv)
  BY InitPool, InitAnswer, NextPool, NextAnswer, PTL DEF Spec
<1> QED
  BY <1>1, <1>2, PTL
=============================================================================
