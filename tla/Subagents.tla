------------------------------ MODULE Subagents ------------------------------
(***************************************************************************)
(* The subagents of agent-tools (subagent.rs): the pool of workers behind    *)
(* spawn_subagent_map, which runs one child process per task, and the signal *)
(* files through which another process (subagent_nudge) talks to a child     *)
(* that runs.                                                                *)
(*                                                                           *)
(* Workers take tasks from a queue under a lock and wait for their child,    *)
(* which exits or is killed at its time limit.  A nudge writes up to three   *)
(* files one by one, each truncated before it is filled; a child looks at    *)
(* them one by one before a turn, and removes each after reading it.  File   *)
(* system calls are the steps.                                               *)
(*                                                                           *)
(* A child is its directory, its state and what it has seen; what it does    *)
(* with a signal in its turn is in AgentLoop.  spawn_subagent is a pool of   *)
(* one task.                                                                 *)
(***************************************************************************)
EXTENDS Naturals, Sequences, FiniteSets, Functions

LOCAL INSTANCE SequencesExt

CONSTANTS
  Texts,        \* names of the signals that carry a text, in the order of a look
  Total,        \* tasks
  MaxParallel,  \* max_parallel
  MaxNudges,    \* bound: nudges
  MaxClock      \* bound: ticks of the clock that names directories

ASSUME SubagentsAssumptions ==
  /\ Texts \in Seq(STRING) /\ "_stop" \notin ToSet(Texts)
  /\ \A i, j \in DOMAIN Texts : Texts[i] = Texts[j] => i = j
  /\ {Total, MaxParallel} \subseteq Nat \ {0}
  /\ {MaxNudges, MaxClock} \subseteq Nat

VARIABLES
  queue,    \* tasks nobody has taken
  worker,   \* per worker, what it does and for which task
  results,  \* entries in the order they came in
  answer,   \* what the tool returns
  child,    \* per task: "none", "running", "exited" or "killed"
  root,     \* per task, its directory
  clock,
  files,    \* per directory, the signal files and their contents
  nudge,    \* the call in progress
  sent,     \* <<directory, file, number of the nudge>>, when filled
  poll,     \* per task, how far the child has looked
  seen      \* per task, what the child has applied

pool == <<queue, worker, results, answer>>
children == <<child, root, clock>>
signals == <<files, nudge, sent, poll, seen>>
vars == <<pool, children, signals>>

Tasks == 1 .. Total
Least(m, n) == IF m < n THEN m ELSE n
Workers == 1 .. Least(MaxParallel, Total)

\* In the order a child looks at them.
Names == Append(Texts, "_stop")

NoFiles == [f \in {} |-> 0]

Quiet == [at |-> 0, held |-> 0, reading |-> FALSE, got |-> << >>]

NoNudge == [n |-> 0, dir |-> 0, todo |-> {}, file |-> "none", open |-> "no"]

Init ==
  /\ queue = [t \in Tasks |-> t]
  /\ worker = [w \in Workers |-> [pc |-> "take", task |-> 0]]
  /\ results = << >>
  /\ answer = << >>
  /\ child = [t \in Tasks |-> "none"]
  /\ root = [t \in Tasks |-> 0]
  /\ clock = 1
  /\ files = [d \in 1 .. MaxClock + 1 |-> NoFiles]
  /\ nudge = NoNudge
  /\ sent = {}
  /\ poll = [t \in Tasks |-> Quiet]
  /\ seen = [t \in Tasks |-> << >>]

-----------------------------------------------------------------------------
(* spawn_subagent_map *)

\* Under one lock, the first task is read and removed.
Rest(q) == Tail(q)

Take(w) ==
  /\ worker[w].pc = "take"
  /\ IF queue = << >>
     THEN /\ worker' = [worker EXCEPT ![w].pc = "done"]
          /\ UNCHANGED queue
     ELSE /\ worker' = [worker EXCEPT ![w] = [pc |-> "spawn", task |-> Head(queue)]]
          /\ queue' = Rest(queue)
  /\ UNCHANGED <<results, answer, children, signals>>

\* A failed task is an entry like any other, and the worker goes on.
Mutant_AfterError(w) ==
  /\ queue' = Append(queue, worker[w].task)
  /\ UNCHANGED results

AfterError(w) ==
  /\ results' = Append(results, [index |-> worker[w].task, status |-> "error"])
  /\ UNCHANGED queue

Again(w) == worker' = [worker EXCEPT ![w] = [pc |-> "take", task |-> 0]]

\* The depth limit, an unknown role, or a directory or process that cannot be
\* made.
Refuse(w) ==
  /\ worker[w].pc = "spawn"
  /\ AfterError(w)
  /\ Again(w)
  /\ UNCHANGED <<answer, children, signals>>

\* The directory is named by the time (simple_id), and made if it is not there.
Start(w) ==
  /\ worker[w].pc = "spawn"
  /\ LET t == worker[w].task
     IN  /\ root' = [root EXCEPT ![t] = clock]
         /\ child' = [child EXCEPT ![t] = "running"]
  /\ worker' = [worker EXCEPT ![w].pc = "wait"]
  /\ UNCHANGED <<queue, results, answer, clock, signals>>

Tick ==
  /\ clock <= MaxClock
  /\ clock' = clock + 1
  /\ UNCHANGED <<pool, child, root, signals>>

\* What a child read and applied is gone with it.
Forget(t) ==
  /\ poll' = [poll EXCEPT ![t] = Quiet]
  /\ seen' = [seen EXCEPT ![t] = << >>]

\* The child comes to its end; its exit status tells success from failure.
Exit(t) ==
  /\ child[t] = "running"
  /\ child' = [child EXCEPT ![t] = "exited"]
  /\ Forget(t)
  /\ UNCHANGED <<pool, root, clock, files, nudge, sent>>

Reap(w) ==
  /\ worker[w].pc = "wait"
  /\ child[worker[w].task] = "exited"
  /\ \/ /\ results' = Append(results, [index |-> worker[w].task, status |-> "success"])
        /\ UNCHANGED queue
     \/ AfterError(w)
  /\ Again(w)
  /\ UNCHANGED <<answer, children, signals>>

Mutant_Killed(t) == child

Killed(t) == [child EXCEPT ![t] = "killed"]

TimesOut(w) ==
  /\ worker[w].pc = "wait"
  /\ LET t == worker[w].task
     IN  /\ child[t] = "running"
         /\ child' = Killed(t)
         /\ Forget(t)
  /\ AfterError(w)
  /\ Again(w)
  /\ UNCHANGED <<answer, root, clock, files, nudge, sent>>

Mutant_Ordered(entries) == entries

Ordered(entries) ==
  LET p == CHOOSE q \in Bijection(DOMAIN entries, DOMAIN entries) :
             \A i, j \in DOMAIN entries : i < j => entries[q[i]].index <= entries[q[j]].index
  IN  [i \in DOMAIN entries |-> entries[p[i]]]

Return ==
  /\ \A w \in Workers : worker[w].pc = "done"
  /\ answer = << >>
  /\ answer' = Ordered(results)
  /\ UNCHANGED <<queue, worker, results, children, signals>>

-----------------------------------------------------------------------------
(* subagent_nudge: write_subagent_signals, by another process *)

Nudge ==
  /\ nudge.todo = {}
  /\ nudge.n < MaxNudges
  /\ \E t \in Tasks, todo \in SUBSET ToSet(Names) :
       /\ root[t] # 0
       /\ todo # {}
       /\ nudge' = [n |-> nudge.n + 1, dir |-> root[t], todo |-> todo, file |-> "none", open |-> "no"]
  /\ UNCHANGED <<pool, children, files, sent, poll, seen>>

\* fs::write opens and truncates the file, and then fills it.  The files of a
\* nudge are written in the order of their names.
Open ==
  /\ nudge.open = "no"
  /\ \E i \in DOMAIN Names :
       /\ Names[i] \in nudge.todo
       /\ \A j \in 1 .. i - 1 : Names[j] \notin nudge.todo
       /\ nudge' = [nudge EXCEPT !.file = Names[i], !.open = "linked"]
       /\ LET d == nudge.dir
          IN  files' = [files EXCEPT ![d] =
                [f \in DOMAIN files[d] \cup {Names[i]} |->
                   IF f = Names[i] THEN 0 ELSE files[d][f]]]
  /\ UNCHANGED <<pool, children, sent, poll, seen>>

\* What is written to a file removed meanwhile is written to no file; the stop
\* file stays empty.
Fill ==
  /\ nudge.open # "no"
  /\ LET f == nudge.file
     IN  /\ files' = IF nudge.open = "linked" /\ f # "_stop"
                     THEN [files EXCEPT ![nudge.dir][f] = nudge.n]
                     ELSE files
         /\ sent' = sent \cup {<<nudge.dir, f, nudge.n>>}
         /\ nudge' = [nudge EXCEPT !.todo = @ \ {f}, !.file = "none", !.open = "no"]
  /\ UNCHANGED <<pool, children, poll, seen>>

-----------------------------------------------------------------------------
(* consume_subagent_signals, by the child *)

\* A turn of the child begins with a look at the files.
Look(t) ==
  /\ child[t] = "running"
  /\ poll[t].at = 0
  /\ poll' = [poll EXCEPT ![t].at = 1]
  /\ UNCHANGED <<pool, children, files, nudge, sent, seen>>

\* Reads a file, or finds that it is there.
Read(t) ==
  /\ child[t] = "running"
  /\ poll[t].at \in DOMAIN Names
  /\ ~poll[t].reading
  /\ LET f == Names[poll[t].at]
     IN  poll' = IF f \in DOMAIN files[root[t]]
                 THEN [poll EXCEPT ![t].reading = TRUE,
                                   ![t].held = files[root[t]][f]]
                 ELSE [poll EXCEPT ![t].at = @ + 1]
  /\ UNCHANGED <<pool, children, files, nudge, sent, seen>>

\* An empty text is dropped; a stop is the file itself.
Mutant_Heeded(f, content) == content # 0

Heeded(f, content) == f = "_stop" \/ content # 0

Mutant_Without(d, f) == files[d]

Without(d, f) == Restrict(files[d], DOMAIN files[d] \ {f})

Unlink(t) ==
  /\ child[t] = "running"
  /\ poll[t].reading
  /\ LET d == root[t]
         f == Names[poll[t].at]
     IN  /\ files' = [files EXCEPT ![d] = Without(d, f)]
         /\ nudge' = IF nudge.open = "linked" /\ nudge.dir = d /\ nudge.file = f
                     THEN [nudge EXCEPT !.open = "unlinked"]
                     ELSE nudge
         /\ poll' = [poll EXCEPT
              ![t] = [at |-> poll[t].at + 1, held |-> 0, reading |-> FALSE,
                      got |-> IF Heeded(f, poll[t].held)
                              THEN Append(poll[t].got, <<f, poll[t].held>>)
                              ELSE poll[t].got]]
  /\ UNCHANGED <<pool, children, sent, seen>>

\* apply_subagent_signals: what was read goes to the turn, and a stop ends the
\* run.
Apply(t) ==
  /\ child[t] = "running"
  /\ poll[t].at > Len(Names)
  /\ IF \E i \in DOMAIN poll[t].got : poll[t].got[i][1] = "_stop"
     THEN /\ child' = [child EXCEPT ![t] = "exited"]
          /\ Forget(t)
     ELSE /\ seen' = [seen EXCEPT ![t] = @ \o poll[t].got]
          /\ poll' = [poll EXCEPT ![t] = Quiet]
          /\ UNCHANGED child
  /\ UNCHANGED <<pool, root, clock, files, nudge, sent>>

-----------------------------------------------------------------------------

Work(w) == Take(w) \/ Refuse(w) \/ Start(w) \/ Reap(w) \/ TimesOut(w)

Next ==
  \/ \E w \in Workers : Work(w)
  \/ \E t \in Tasks : Exit(t) \/ Look(t) \/ Read(t) \/ Unlink(t) \/ Apply(t)
  \/ Return \/ Tick
  \/ Nudge \/ Open \/ Fill

Spec == Init /\ [][Next]_vars

\* A worker is a thread that never waits longer than the time limit of its
\* child (timeout_secs, at most an hour); nothing is assumed of the children.
FairSpec ==
  /\ Spec
  /\ \A w \in Workers : WF_vars(Work(w))
  /\ WF_vars(Return)

-----------------------------------------------------------------------------
(* Properties *)

Running == {t \in Tasks : child[t] = "running"}

\* The state has its shape, and every task is in one place: the queue, one
\* worker's hands, or the results.
TypeOK ==
  /\ ToSet(queue) \subseteq Tasks
  /\ \A w \in Workers : worker[w] \in [pc : {"take", "spawn", "wait", "done"},
                                       task : Tasks \cup {0}]
  /\ child \in [Tasks -> {"none", "running", "exited", "killed"}]
  /\ clock \in 1 .. MaxClock + 1 /\ root \in [Tasks -> 0 .. clock]
  /\ \A d \in DOMAIN files : DOMAIN files[d] \subseteq ToSet(Names)
  /\ nudge.open = "linked" => nudge.file \in DOMAIN files[nudge.dir]
  /\ \A t \in Tasks :
       Cardinality({i \in DOMAIN queue : queue[i] = t})
       + Cardinality({w \in Workers : worker[w].task = t})
       + Cardinality({i \in DOMAIN results : results[i].index = t}) = 1

\* The tool answers with one entry per task in the order of the tasks, whichever
\* finished first and however each ended.
AnswerInOrder ==
  answer # << >> => Len(answer) = Total /\ \A t \in Tasks : answer[t].index = t

\* No more children are alive than max_parallel allows, and each has a worker
\* waiting for it: a child that timed out is gone before its worker goes on, and
\* none outlives the call.
ChildrenAreWaitedFor ==
  /\ Cardinality(Running) <= MaxParallel
  /\ \A t \in Running : \E w \in Workers : worker[w] = [pc |-> "wait", task |-> t]

\* consume_subagent_signals: "so the same signal is never re-applied".  A child
\* applies each message once.
NeverReapplied ==
  \A t \in Tasks : \A i, j \in DOMAIN seen[t] :
    seen[t][i] = seen[t][j] => i = j

\* A stop that was written stands until a child of the directory has it in
\* hand; no other signal written around it and no empty file makes it disappear.
StopStands ==
  \A s \in sent : s[2] = "_stop" =>
    \/ "_stop" \in DOMAIN files[s[1]]
    \/ \E t \in Tasks :
         /\ root[t] = s[1]
         /\ \/ child[t] # "running"
            \/ \E i \in DOMAIN poll[t].got : poll[t].got[i][1] = "_stop"

\* Every call returns, whatever the children do.
Returns == <>(answer # << >>)

\* What the comment at consume_subagent_signals says, "Read and atomically
\* consume": a message that was written is in its file, with a child of the
\* directory, or replaced by a later one.
MessageStands ==
  \A s \in sent : s[2] # "_stop" =>
    \/ s[2] \in DOMAIN files[s[1]] /\ files[s[1]][s[2]] = s[3]
    \/ nudge.n > s[3]
    \/ \E t \in Tasks :
         /\ root[t] = s[1]
         /\ \/ child[t] # "running"
            \/ poll[t].held = s[3]
            \/ <<s[2], s[3]>> \in ToSet(poll[t].got \o seen[t])

\* What the comment at inherit_memory says of a child without it: it "gets its
\* own subagent/<uuid>/ cwd so writes don't race".
OwnDirectory ==
  \A t, u \in Running : t # u => root[t] # root[u]
=============================================================================
