--------------------------- MODULE AgentLoopProofs ---------------------------
(***************************************************************************)
(* Proofs about AgentLoop, for every turn budget, retry budget and failure  *)
(* budget, and about Library, what runs leave behind, for any skills, runs  *)
(* and names.                                                               *)
(*                                                                         *)
(* The two share no state.  The proofs about Library start with its types,  *)
(* which hold for any number of terminals, as its last property does, that  *)
(* what was made is found again.  The two between need that runs learn one  *)
(* after the other, and the second that the user waits.                     *)
(***************************************************************************)
EXTENDS AgentLoop, Library, SequenceTheorems, FiniteSetTheorems, TLAPS

\* How far the loop is, told by the number of observations.
Progress ==
  /\ pc = "turn" => Len(observations) = turn
  /\ pc \in {"plan", "planner", "tool", "finished", "failed"} =>
       Len(observations) + 1 = turn
  /\ pc = "exceeded" => Len(observations) = MaxTurns

\* A stop signal that a tool was late for is still waiting where the loop will
\* find it before it asks the planner again.
LateIsWaiting ==
  /\ lateTools \in {0, 1}
  /\ lateTools = 1 => \/ pc \in Ended
                      \/ pc \in {"tool", "turn", "plan"} /\ "stop" \in signals

IInv == TypeOK /\ Progress /\ LateIsWaiting

LEMMA InitIInv == Init => IInv
BY AgentLoopAssumptions, EmptySeq
   DEF Init, IInv, TypeOK, Progress, LateIsWaiting, Ended, Hints, Calls, NoCall

\* What a tool call leaves in the list of observations.
LEMMA ObservationAdded ==
  ASSUME TypeOK, NEW ok \in BOOLEAN, NEW cached \in BOOLEAN, RunTool(ok, cached)
  PROVE  LET new == [call |-> call, ok |-> ok, cached |-> cached]
         IN  /\ observations' = Append(observations, new)
             /\ observations' \in Seq(Observation)
             /\ Len(observations) \in Nat
             /\ Len(observations') = Len(observations) + 1
             /\ \A i \in 1..Len(observations) : observations'[i] = observations[i]
             /\ observations'[Len(observations) + 1] = new
<1> DEFINE new == [call |-> call, ok |-> ok, cached |-> cached]
<1>1. new \in Observation /\ observations \in Seq(Observation)
  BY DEF TypeOK, Observation
<1>2. observations' = Append(observations, new)
  BY DEF RunTool
<1> HIDE DEF new
<1>3. /\ observations' \in Seq(Observation)
      /\ Len(observations') = Len(observations) + 1
      /\ \A i \in 1..Len(observations) : observations'[i] = observations[i]
      /\ observations'[Len(observations) + 1] = new
  BY <1>1, <1>2, AppendProperties
<1>4. Len(observations) \in Nat
  BY <1>1, LenProperties
<1>. QED  BY <1>2, <1>3, <1>4 DEF new

LEMMA LoopStep == ASSUME IInv, Loop PROVE IInv'
<1> USE AgentLoopAssumptions DEF IInv, TypeOK, Progress, LateIsWaiting, Ended, Hints
<1>1. CASE PrepareTurn
  BY <1>1 DEF PrepareTurn, TurnsLeft, TurnHint
<1>2. CASE ExceedTurns
  BY <1>2 DEF ExceedTurns, TurnsLeft
<1>3. CASE Abort
  BY <1>3 DEF Abort
<1>4. CASE ObeyStop
  BY <1>4 DEF ObeyStop
<1>5. CASE CallPlanner
  BY <1>5 DEF CallPlanner, Stopped
<1>. QED  BY <1>1, <1>2, <1>3, <1>4, <1>5 DEF Loop

LEMMA AnswerStep == ASSUME IInv, Answer PROVE IInv'
<1> USE AgentLoopAssumptions DEF IInv, TypeOK, Progress, LateIsWaiting, Ended, Hints
<1>1. ASSUME NEW c \in Calls, ChooseTool(c) PROVE IInv'
  BY <1>1 DEF ChooseTool
<1>2. CASE Finish
  BY <1>2 DEF Finish
<1>3. CASE RetryParse
  BY <1>3 DEF RetryParse
<1>4. CASE RetryTransport
  BY <1>4 DEF RetryTransport, TransportBudget
<1>5. ASSUME NEW error, PlannerFails(error) PROVE IInv'
  BY <1>5 DEF PlannerFails
<1>. QED  BY <1>1, <1>2, <1>3, <1>4, <1>5 DEF Answer

LEMMA ToolStep ==
  ASSUME IInv, NEW ok \in BOOLEAN, NEW cached \in BOOLEAN, RunTool(ok, cached)
  PROVE  IInv'
<1>1. /\ observations' \in Seq(Observation)
      /\ Len(observations) \in Nat
      /\ Len(observations') = Len(observations) + 1
  BY ObservationAdded DEF IInv
<1>2. TypeOK'
  BY <1>1 DEF IInv, TypeOK, RunTool, StreakAfter, NoCall, Calls
<1>3. Progress'
  BY <1>1 DEF IInv, TypeOK, Progress, RunTool
<1>4. LateIsWaiting'
  BY DEF IInv, LateIsWaiting, RunTool, Ended
<1>. QED  BY <1>2, <1>3, <1>4 DEF IInv

LEMMA NextIInv == IInv /\ [Next]_vars => IInv'
<1> SUFFICES ASSUME IInv, [Next]_vars PROVE IInv'
  OBVIOUS
<1>1. ASSUME NEW s \in {"stop", "intervene"}, Nudge(s) PROVE IInv'
  BY <1>1 DEF Nudge, IInv, TypeOK, Progress, LateIsWaiting
<1>2. CASE UNCHANGED vars
  BY <1>2 DEF vars, IInv, TypeOK, Progress, LateIsWaiting
<1>. QED  BY <1>1, <1>2, LoopStep, AnswerStep, ToolStep DEF Next, Tool

LEMMA Invariance == Spec => []IInv
BY InitIInv, NextIInv, PTL DEF Spec

-----------------------------------------------------------------------------
(* The theorems.                                                           *)

\* The run's state is well typed: in particular the turn and the retries left
\* never leave their budgets.
THEOREM TypeCorrect == Spec => []TypeOK
<1>1. IInv => TypeOK
  BY DEF IInv
<1>. QED  BY <1>1, Invariance, PTL

\* For every budget: after its parent's stop signal a subagent runs at most
\* the one tool its planner was choosing.
THEOREM StopObeyed == Spec => []StopIsPrompt
<1>1. IInv => StopIsPrompt
  BY DEF IInv, LateIsWaiting, StopIsPrompt
<1>. QED  BY <1>1, Invariance, PTL

-----------------------------------------------------------------------------
(* The failure budget.                                                     *)

LEMMA FreshFailuresFinite ==
  ASSUME TypeOK PROVE IsFiniteSet(FreshFailures)
<1>1. Len(observations) \in Nat
  BY LenProperties DEF TypeOK
<1>2. IsFiniteSet(1..Len(observations))
  BY <1>1, FS_Interval
<1>. QED  BY <1>2, FS_Subset DEF FreshFailures

LEMMA StreakStep ==
  ASSUME IInv, StreakIsExact, NEW ok \in BOOLEAN, NEW cached \in BOOLEAN,
         RunTool(ok, cached)
  PROVE  StreakIsExact'
<1> DEFINE n == Len(observations)
           new == [call |-> call, ok |-> ok, cached |-> cached]
           fresh(i) == /\ ~observations'[i].ok
                       /\ \A j \in i..(n + 1) :
                            observations'[j].ok => observations'[j].cached
<1>1. /\ n \in Nat
      /\ Len(observations') = n + 1
      /\ \A i \in 1..n : observations'[i] = observations[i]
      /\ observations'[n + 1] = new
  BY ObservationAdded DEF IInv
<1>2. observations'[n + 1].ok = ok /\ observations'[n + 1].cached = cached
  BY <1>1
<1>3. IsFiniteSet(FreshFailures) /\ Cardinality(FreshFailures) \in Nat
  BY FreshFailuresFinite, FS_CardinalityType DEF IInv
<1>4. FreshFailures' = {i \in 1..(n + 1) : fresh(i)}
  BY <1>1 DEF FreshFailures
<1>5. FreshFailures =
        {i \in 1..n : /\ ~observations[i].ok
                      /\ \A j \in i..n : observations[j].ok => observations[j].cached}
  BY DEF FreshFailures
<1> HIDE DEF n, new
<1>6. \A i \in 1..(n + 1) : n + 1 \in i..(n + 1) /\ (i \in 1..n \/ i = n + 1)
  BY <1>1
<1>7. ASSUME ok => cached, NEW i \in 1..n
      PROVE  fresh(i) <=> i \in FreshFailures
  <2>1. /\ i \in 1..(n + 1)
        /\ observations'[i] = observations[i]
        /\ \A j \in i..n : j \in i..(n + 1) /\ observations'[j] = observations[j]
        /\ \A j \in i..(n + 1) : j \in i..n \/ j = n + 1
    BY <1>1
  <2>. QED  BY <1>2, <1>5, <1>7, <2>1
<1>8. CASE ok /\ ~cached
  <2>1. \A i \in 1..(n + 1) : ~fresh(i)
    BY <1>2, <1>6, <1>8
  <2>2. FreshFailures' = {}
    BY <1>4, <2>1
  <2>3. failureStreak' = 0
    BY <1>8 DEF RunTool, StreakAfter
  <2>. QED  BY <2>2, <2>3, FS_EmptySet DEF StreakIsExact
<1>9. CASE ok /\ cached
  <2>1. ~fresh(n + 1)
    BY <1>2, <1>9
  <2>2. FreshFailures' = FreshFailures
    <3>1. \A i \in 1..n : fresh(i) <=> i \in FreshFailures
      BY <1>7, <1>9
    <3>2. \A i \in 1..n : i \in 1..(n + 1)
      BY <1>1
    <3>3. \A i \in FreshFailures : i \in 1..n
      BY <1>5
    <3> HIDE DEF fresh
    <3>. QED  BY <1>4, <1>6, <2>1, <3>1, <3>2, <3>3
  <2>3. failureStreak' = failureStreak
    BY <1>9 DEF RunTool, StreakAfter
  <2>. QED  BY <2>2, <2>3 DEF StreakIsExact
<1>10. CASE ~ok
  <2>1. fresh(n + 1)
    <3>1. \A j \in (n + 1)..(n + 1) : j = n + 1
      BY <1>1
    <3>. QED  BY <1>2, <1>10, <3>1
  <2>2. FreshFailures' = FreshFailures \cup {n + 1}
    <3>1. \A i \in 1..n : fresh(i) <=> i \in FreshFailures
      BY <1>7, <1>10
    <3>2. /\ \A i \in 1..n : i \in 1..(n + 1)
          /\ n + 1 \in 1..(n + 1)
      BY <1>1
    <3>3. \A i \in FreshFailures : i \in 1..n
      BY <1>5
    <3> HIDE DEF fresh
    <3>. QED  BY <1>4, <1>6, <2>1, <3>1, <3>2, <3>3
  <2>3. n + 1 \notin FreshFailures
    BY <1>1, <1>5
  <2>4. failureStreak' = failureStreak + 1
    BY <1>10 DEF RunTool, StreakAfter
  <2>5. Cardinality(FreshFailures') = Cardinality(FreshFailures) + 1
    BY <1>3, <2>2, <2>3, FS_AddElement
  <2>. QED  BY <2>4, <2>5 DEF StreakIsExact
<1>. QED  BY <1>8, <1>9, <1>10

\* The failure budget is exact for every budget and any length of run: it
\* counts the failures since the last success that did not come from the cache.
THEOREM BudgetExact == Spec => []StreakIsExact
<1>1. Init => StreakIsExact
  <2>1. ASSUME Init PROVE FreshFailures = {}
    BY <2>1, EmptySeq DEF Init, FreshFailures
  <2>. QED  BY <2>1, FS_EmptySet DEF Init, StreakIsExact
<1>2. IInv /\ StreakIsExact /\ [Next]_vars => StreakIsExact'
  <2> SUFFICES ASSUME IInv, StreakIsExact, [Next]_vars PROVE StreakIsExact'
    OBVIOUS
  <2>1. CASE Tool
    BY <2>1, StreakStep DEF Tool
  <2>2. CASE UNCHANGED <<observations, failureStreak>>
    BY <2>2 DEF StreakIsExact, FreshFailures
  <2>3. Loop \/ Answer => UNCHANGED <<observations, failureStreak>>
    BY DEF Loop, PrepareTurn, ExceedTurns, Abort, ObeyStop, CallPlanner, Answer,
           ChooseTool, Finish, RetryParse, RetryTransport, PlannerFails
  <2>4. ASSUME NEW s, Nudge(s) PROVE UNCHANGED <<observations, failureStreak>>
    BY <2>4 DEF Nudge
  <2>. QED  BY <2>1, <2>2, <2>3, <2>4 DEF Next, vars
<1>. QED  BY <1>1, <1>2, Invariance, PTL DEF Spec

-----------------------------------------------------------------------------
(* The contract.                                                           *)

\* For every turn budget the loop implements RunContract: at most one tool per
\* turn, at most MaxTurns of them, one outcome, nothing after it, and
\* "exceeded" exactly when the budget is used up.
THEOREM KeepsContract == Spec => ImplementsContract
<1>1. Init => Contract!Init
  BY EmptySeq DEF Init, Contract!Init, Ended
<1>2. IInv /\ [Next]_vars => Contract!Next \/ UNCHANGED Contract!vars
  <2> SUFFICES ASSUME IInv, [Next]_vars
               PROVE  Contract!Next \/ UNCHANGED Contract!vars
    OBVIOUS
  <2> USE AgentLoopAssumptions DEF Contract!Next, Contract!vars, Ended
  <2>1. Len(observations) \in Nat
    BY LenProperties DEF IInv, TypeOK
  <2>2. ASSUME NEW ok \in BOOLEAN, NEW cached \in BOOLEAN, RunTool(ok, cached)
        PROVE  Contract!RunTool
    <3>1. Len(observations') = Len(observations) + 1
      BY <2>2, ObservationAdded DEF IInv
    <3>2. Len(observations) < MaxTurns
      BY <2>1, <2>2 DEF RunTool, IInv, Progress, TypeOK
    <3>. QED  BY <2>2, <3>1, <3>2 DEF RunTool, Contract!RunTool
  <2>3. CASE ExceedTurns
    <3>1. Contract!Exceed
      BY <2>3 DEF ExceedTurns, TurnsLeft, Contract!Exceed, IInv, TypeOK, Progress
    <3>. QED  BY <3>1
  <2>4. ASSUME pc \in {"plan", "planner"}, pc' \in {"finished", "failed"},
               UNCHANGED observations
        PROVE  Contract!End
    BY <2>1, <2>4 DEF Contract!End, IInv, TypeOK, Progress
  <2>5. Abort \/ ObeyStop \/ Finish => Contract!End
    BY <2>4 DEF Abort, ObeyStop, Finish
  <2>6. ASSUME NEW error, PlannerFails(error) PROVE Contract!End
    BY <2>4, <2>6 DEF PlannerFails
  <2>7. ASSUME pc \notin Ended, pc' \notin Ended, UNCHANGED observations
        PROVE  UNCHANGED Contract!vars
    BY <2>7
  <2>8. PrepareTurn \/ CallPlanner \/ RetryParse \/ RetryTransport
          => UNCHANGED Contract!vars
    BY <2>7 DEF PrepareTurn, CallPlanner, RetryParse, RetryTransport
  <2>9. ASSUME NEW c, ChooseTool(c) PROVE UNCHANGED Contract!vars
    BY <2>7, <2>9 DEF ChooseTool
  <2>10. ASSUME NEW s, Nudge(s) PROVE UNCHANGED Contract!vars
    BY <2>10 DEF Nudge
  <2>11. CASE UNCHANGED vars
    BY <2>11 DEF vars
  <2>. QED  BY <2>2, <2>3, <2>5, <2>6, <2>8, <2>9, <2>10, <2>11
            DEF Next, Loop, Answer, Tool
<1>. QED  BY <1>1, <1>2, Invariance, PTL
          DEF Spec, ImplementsContract, Contract!Spec, Contract!vars
-----------------------------------------------------------------------------
(* Library: what a write and a step of a terminal do.                        *)

LEMMA WriteEffect ==
  ASSUME LibraryTypeOK, NEW s \in Slugs, NEW text \in Texts, Write(s, text)
  PROVE  /\ skill' \in [Places' -> Texts] /\ Places' = Places \cup {s} /\ Places' \subseteq Slugs
         /\ skill'[s] = text
         /\ \A t \in Places \ {s} : skill'[t] = skill[t]
BY DEF LibraryTypeOK, Write, Places

LEMMA BecomeEffect ==
  ASSUME LibraryTypeOK, NEW p \in Proc, NEW c \in Terminals, Equipped(c),
         Become(p, c)
  PROVE  /\ proc' \in [Proc -> Terminals]
         /\ \A q \in Proc : Equipped(proc'[q])
         /\ proc'[p] = c
         /\ \A q \in Proc \ {p} : proc'[q] = proc[q]
BY DEF LibraryTypeOK, Become

LEMMA IdleType == Idle \in Terminals /\ Idle.pc = "idle"
<1>1. NoRun \in Runs \cup {NoRun} /\ None \in Slugs \cup {None} /\ <<>> \in Seq(Texts)
  BY EmptySeq
<1> QED
  BY <1>1, SMTT(30) DEF Idle, Terminals, Stages

LEMMA QuitEffect ==
  ASSUME LibraryTypeOK, NEW p \in Proc, Quit(p)
  PROVE  /\ proc' \in [Proc -> Terminals]
         /\ \A q \in Proc : Equipped(proc'[q])
         /\ proc'[p].pc = "idle"
         /\ \A q \in Proc \ {p} : proc'[q] = proc[q]
BY IdleType, BecomeEffect DEF Quit, Equipped

\* An update leaves everything of a text but what it is to change.
LEMMA LearntEffect ==
  ASSUME NEW t \in Texts, NEW u \in STRING
  PROVE  /\ Learnt(t, u) \in Texts
         /\ Learnt(t, u).tools = t.tools /\ Learnt(t, u).origin = t.origin
         /\ [Learnt(t, u) EXCEPT !.updates = <<>>, !.section = FALSE, !.quotes = {}]
              = [t EXCEPT !.updates = <<>>, !.section = FALSE, !.quotes = {}]
         /\ IsPrefix(t.updates, Learnt(t, u).updates)
<1>1. t.updates \in Seq(STRING) /\ t.quotes \in SUBSET Phrases
  BY DEF Texts
<1>2. /\ Append(t.updates, u) \in Seq(STRING)
      /\ IsPrefix(t.updates, Append(t.updates, u)) /\ IsPrefix(t.updates, t.updates)
  <2>1. /\ Append(t.updates, u) \in Seq(STRING)
        /\ Len(Append(t.updates, u)) = Len(t.updates) + 1 /\ Len(t.updates) \in Nat
        /\ \A i \in 1 .. Len(t.updates) : Append(t.updates, u)[i] = t.updates[i]
    BY <1>1, AppendProperties, LenProperties
  <2>2. /\ SubSeq(t.updates, 1, Len(t.updates))
             = [i \in 1 .. Len(t.updates) |-> t.updates[i]]
        /\ SubSeq(Append(t.updates, u), 1, Len(t.updates))
             = [i \in 1 .. Len(t.updates) |-> Append(t.updates, u)[i]]
    BY <1>1, <2>1
  <2> QED
    BY <2>1, <2>2 DEF IsPrefix
<1>3. t.quotes \cup {"updates"} \in SUBSET Phrases
  BY <1>1 DEF Phrases
<1> DEFINE a == [t EXCEPT !.updates = Append(@, u), !.quotes = @ \cup {"updates"}]
           b == [t EXCEPT !.updates = Append(@, u), !.section = TRUE]
           c == [t EXCEPT !.updates = Append(@, u)]
           Kept(x) == /\ x \in Texts
                      /\ x.tools = t.tools /\ x.origin = t.origin
                      /\ [x EXCEPT !.updates = <<>>, !.section = FALSE, !.quotes = {}]
                           = [t EXCEPT !.updates = <<>>, !.section = FALSE, !.quotes = {}]
                      /\ IsPrefix(t.updates, x.updates)
<1>4. Kept(t)
  BY <1>2
<1>5. Kept(a)
  <2>1. /\ a \in Texts /\ a.tools = t.tools /\ a.origin = t.origin
        /\ a.updates = Append(t.updates, u)
    BY <1>2, <1>3 DEF Texts
  <2>2. [a EXCEPT !.updates = <<>>, !.section = FALSE, !.quotes = {}]
          = [t EXCEPT !.updates = <<>>, !.section = FALSE, !.quotes = {}]
    BY DEF Texts
  <2> QED
    BY <1>2, <2>1, <2>2
<1>6. Kept(b)
  <2>1. /\ b \in Texts /\ b.tools = t.tools /\ b.origin = t.origin
        /\ b.updates = Append(t.updates, u)
    BY <1>2 DEF Texts
  <2>2. [b EXCEPT !.updates = <<>>, !.section = FALSE, !.quotes = {}]
          = [t EXCEPT !.updates = <<>>, !.section = FALSE, !.quotes = {}]
    BY DEF Texts
  <2> QED
    BY <1>2, <2>1, <2>2
<1>7. Kept(c)
  <2>1. /\ c \in Texts /\ c.tools = t.tools /\ c.origin = t.origin
        /\ c.updates = Append(t.updates, u)
    BY <1>2 DEF Texts
  <2>2. [c EXCEPT !.updates = <<>>, !.section = FALSE, !.quotes = {}]
          = [t EXCEPT !.updates = <<>>, !.section = FALSE, !.quotes = {}]
    BY DEF Texts
  <2> QED
    BY <1>2, <2>1, <2>2
<1>8. Learnt(t, u) \in {t, a, b, c}
  BY Zenon DEF Learnt
<1> HIDE DEF a, b, c
<1> QED
  BY <1>4, <1>5, <1>6, <1>7, <1>8

LEMMA ReflectionType ==
  ASSUME LibraryAssumptions, NEW run \in Runs, NEW name \in Names, NEW bound \in BOOLEAN,
         NEW origin \in {"created", "learned"}
  PROVE  /\ Reflection(run, name, bound, origin) \in Texts
         /\ Reflection(run, name, bound, origin).origin = origin
         /\ Reflection(run, name, bound, origin).tools = run.tools
<1>1. run.tools \in SUBSET STRING /\ run.quotes \in SUBSET Phrases
  BY DEF LibraryAssumptions, Logs
<1>2. Boilerplate \in SUBSET STRING
  BY DEF LibraryAssumptions
<1>3. <<>> \in Seq(STRING)
  BY EmptySeq
<1>4. (IF bound THEN name ELSE None) \in Names \cup {None}
  OBVIOUS
<1> DEFINE x == Reflection(run, name, bound, origin)
<1>5. x = [front |-> IF bound THEN name ELSE None, heading |-> name, about |-> Boilerplate,
           tags |-> {}, tools |-> run.tools, quotes |-> run.quotes, section |-> FALSE,
           rule |-> TRUE, updates |-> <<>>, utf8 |-> TRUE, origin |-> origin]
  BY DEF Reflection
<1> HIDE DEF x
<1>6. x.origin = origin /\ x.tools = run.tools
  BY <1>5
<1>7. x \in Texts
  <2> DEFINE f == IF bound THEN name ELSE None
  <2>1. f \in Names \cup {None} /\ name \in Names \cup {None}
    BY <1>4
  <2>2. {} \in SUBSET STRING /\ FALSE \in BOOLEAN /\ TRUE \in BOOLEAN
        /\ origin \in {"given", "hand", "created", "learned"}
    OBVIOUS
  <2>3. x = [front |-> f, heading |-> name, about |-> Boilerplate,
             tags |-> {}, tools |-> run.tools, quotes |-> run.quotes, section |-> FALSE,
             rule |-> TRUE, updates |-> <<>>, utf8 |-> TRUE, origin |-> origin]
    BY <1>5
  <2> HIDE DEF f
  <2> QED
    BY ONLY <1>1, <1>2, <1>3, <2>1, <2>2, <2>3, SMTT(30) DEF Texts
<1> QED
  BY <1>6, <1>7 DEF x

-----------------------------------------------------------------------------
(* Library: the types, for any number of terminals.                          *)

\* A slug is its own slug.
LEMMA SlugOfSlug ==
  ASSUME LibraryAssumptions
  PROVE  /\ \A s \in Slugs : s \in Names /\ Slug[s] = s
         /\ \A n \in Names : Slug[n] \in Slugs
BY DEF LibraryAssumptions, Slugs

LEMMA LibraryInitType == LibraryInit => LibraryTypeOK
BY LibraryAssumptions, IdleType
   DEF LibraryAssumptions, LibraryInit, LibraryTypeOK, Places, Equipped

\* What a terminal with a run keeps of it.
LEMMA BusyType ==
  ASSUME LibraryTypeOK, NEW p \in Proc, proc[p].pc # "idle"
  PROVE  /\ proc[p] \in Terminals /\ proc[p].run \in Runs /\ Equipped(proc[p])
         /\ proc[p].run.id \in STRING
         /\ IsFiniteSet(proc[p].run.says) /\ IsFiniteSet(proc[p].run.tools)
<1>1. proc[p] \in Terminals /\ proc[p].run \in Runs
  BY DEF LibraryTypeOK, Equipped
<1>2. proc[p].run \in Logs
  BY <1>1, LibraryAssumptions DEF LibraryAssumptions
<1>3. proc[p].run.id \in STRING
  BY <1>2 DEF Logs
<1> QED
  BY <1>1, <1>3, LibraryAssumptions DEF LibraryAssumptions, LibraryTypeOK

\* The steps of a terminal that leave the files alone, told by what becomes of it.
Quiet(p) == RunEnds(p) \/ Bind(p) \/ Decide(p) \/ Read(p) \/ Settle(p)

LEMMA QuietEffect ==
  ASSUME LibraryTypeOK, NEW p \in Proc, Quiet(p)
  PROVE  /\ skill' = skill
         /\ \E c \in Terminals : Equipped(c) /\ Become(p, c)
<1>1. ASSUME RunEnds(p), Readable
      PROVE  \E c \in Terminals : Equipped(c) /\ Become(p, c)
  <2>0. PICK run \in Runs : \E name \in Range(Numbered[run.base]) :
          Become(p, [Idle EXCEPT !.pc = "named", !.run = run, !.name = name])
    BY <1>1 DEF RunEnds
  <2>1. PICK name \in Range(Numbered[run.base]) :
          Become(p, [Idle EXCEPT !.pc = "named", !.run = run, !.name = name])
    BY <2>0
  <2>2. name \in Slugs
    <3>1. run.base \in DOMAIN Numbered
      BY LibraryAssumptions DEF LibraryAssumptions, Logs
    <3>2. Numbered[run.base] \in Seq(Slugs)
      BY <3>1, LibraryAssumptions DEF LibraryAssumptions
    <3> QED
      BY <3>2 DEF Range
  <2> DEFINE c == [Idle EXCEPT !.pc = "named", !.run = run, !.name = name]
  <2>3. c \in Terminals /\ Equipped(c)
    BY <2>2, IdleType DEF Terminals, Stages, Equipped
  <2> QED
    BY <2>1, <2>3
<1>2. ASSUME Bind(p)
      PROVE  \E c \in Terminals : Equipped(c) /\ Become(p, c)
  <2>1. PICK b \in BOOLEAN : Become(p, [proc[p] EXCEPT !.pc = "bound", !.bound = b])
    BY <1>2 DEF Bind
  <2> DEFINE c == [proc[p] EXCEPT !.pc = "bound", !.bound = b]
  <2>2. c \in Terminals /\ Equipped(c)
    BY <1>2, BusyType DEF Bind, Terminals, Stages, Equipped
  <2> QED
    BY <2>1, <2>2
<1>3. ASSUME Decide(p)
      PROVE  \/ Quit(p)
             \/ \E c \in Terminals : Equipped(c) /\ Become(p, c)
  <2>1. proc[p].pc = "bound"
    BY <1>3 DEF Decide
  <2>2. ASSUME NEW s \in Places, Become(p, [proc[p] EXCEPT !.pc = "update", !.target = s])
        PROVE  \E c \in Terminals : Equipped(c) /\ Become(p, c)
    <3> DEFINE c == [proc[p] EXCEPT !.pc = "update", !.target = s]
    <3>1. s \in Slugs
      BY DEF LibraryTypeOK
    <3>2. c \in Terminals /\ Equipped(c)
      BY <2>1, <3>1, BusyType DEF Terminals, Stages, Equipped
    <3> QED
      BY <2>2, <3>2
  <2>3. ASSUME Become(p, [proc[p] EXCEPT !.pc = "create"])
        PROVE  \E c \in Terminals : Equipped(c) /\ Become(p, c)
    <3> DEFINE c == [proc[p] EXCEPT !.pc = "create"]
    <3>1. c \in Terminals /\ Equipped(c)
      BY <2>1, BusyType DEF Terminals, Stages, Equipped
    <3> QED
      BY <2>3, <3>1
  <2> QED
    BY <1>3, <2>2, <2>3 DEF Decide
<1>4. ASSUME Read(p)
      PROVE  \/ Quit(p)
             \/ \E c \in Terminals : Equipped(c) /\ Become(p, c)
  <2>1. proc[p].pc = "update"
    BY <1>4 DEF Read
  <2>2. ASSUME proc[p].target \in Places,
               Become(p, [proc[p] EXCEPT !.pc = "read", !.text = <<skill[proc[p].target]>>])
        PROVE  \E c \in Terminals : Equipped(c) /\ Become(p, c)
    <3> DEFINE c == [proc[p] EXCEPT !.pc = "read", !.text = <<skill[proc[p].target]>>]
    <3>1. <<skill[proc[p].target]>> \in Seq(Texts)
      BY <2>2 DEF LibraryTypeOK
    <3>2. c \in Terminals /\ Equipped(c)
      BY <2>1, <3>1, BusyType DEF Terminals, Stages, Equipped
    <3> QED
      BY <2>2, <3>2
  <2> QED
    BY <1>4, <2>2 DEF Read
<1>5. Quit(p) => \E c \in Terminals : Equipped(c) /\ Become(p, c)
  BY IdleType DEF Quit, Equipped
<1>6. RunEnds(p) /\ ~Readable => Quit(p)
  BY DEF RunEnds
<1>7. Settle(p) => Quit(p)
  BY DEF Settle
<1>8. skill' = skill
  BY DEF Quiet, RunEnds, Bind, Decide, Read, Settle
<1> QED
  BY <1>1, <1>2, <1>3, <1>4, <1>5, <1>6, <1>7, <1>8 DEF Quiet

\* The update of a skill: nothing is written, or what was read is written with the
\* line of the run.
LEMMA UpdateEffect ==
  ASSUME LibraryTypeOK, NEW p \in Proc, Update(p)
  PROVE  /\ proc[p].pc = "read" /\ proc[p].target \in Slugs /\ proc[p].text[1] \in Texts
         /\ \/ skill' = skill
            \/ /\ proc[p].target \in Places
               /\ Write(proc[p].target, Learnt(proc[p].text[1], proc[p].run.id))
         /\ \E c \in Terminals : /\ Equipped(c) /\ c.pc \in {"settle", "idle"}
                                 /\ Become(p, c)
<1>1. proc[p].pc = "read"
  BY DEF Update
<1>2. proc[p] \in Terminals /\ Equipped(proc[p])
  BY <1>1, BusyType
<1>3. proc[p].target \in Slugs /\ proc[p].text \in Seq(Texts) /\ proc[p].text # <<>>
  BY <1>1, <1>2 DEF Equipped, Terminals
<1>4. proc[p].text[1] \in Texts
  BY <1>3
<1> DEFINE c == [proc[p] EXCEPT !.pc = "settle"]
<1>5. c \in Terminals /\ Equipped(c) /\ c.pc = "settle"
  BY <1>1, <1>2 DEF Equipped, Terminals, Stages
<1>6. Become(p, c) \/ Quit(p)
  BY DEF Update
<1>7. \/ skill' = skill
      \/ /\ proc[p].target \in Places
         /\ Write(proc[p].target, Learnt(proc[p].text[1], proc[p].run.id))
  BY DEF Update
<1> QED
  BY <1>1, <1>3, <1>4, <1>5, <1>6, <1>7, IdleType DEF Quit, Equipped

LEMMA CreateEffect ==
  ASSUME LibraryTypeOK, NEW p \in Proc, Create(p)
  PROVE  /\ proc[p].pc = "create" /\ proc[p].name \in Slugs
         /\ \E text \in Texts : /\ text.origin = "learned" /\ text.tools = proc[p].run.tools
                                /\ Write(proc[p].name, text)
         /\ \E c \in Terminals : /\ Equipped(c) /\ c.pc = "settle" /\ Become(p, c)
<1>1. proc[p].pc = "create"
  BY DEF Create
<1>2. /\ proc[p] \in Terminals /\ proc[p].run \in Runs /\ Equipped(proc[p])
  BY <1>1, BusyType
<1>3. proc[p].name \in Slugs /\ proc[p].bound \in BOOLEAN
  BY <1>1, <1>2 DEF Equipped, Terminals
<1>4. proc[p].name \in Names /\ Slug[proc[p].name] = proc[p].name
  BY <1>3, SlugOfSlug, LibraryAssumptions
<1> DEFINE text == Reflection(proc[p].run, proc[p].name, proc[p].bound, "learned")
           c    == [proc[p] EXCEPT !.pc = "settle", !.target = proc[p].name]
<1>5. text \in Texts /\ text.origin = "learned" /\ text.tools = proc[p].run.tools
  BY <1>2, <1>3, <1>4, ReflectionType, LibraryAssumptions
<1>6. c \in Terminals /\ Equipped(c) /\ c.pc = "settle"
  BY <1>1, <1>2, <1>3 DEF Equipped, Terminals, Stages
<1>7. Write(proc[p].name, text) /\ Become(p, c)
  BY <1>4 DEF Create
<1> HIDE DEF text, c
<1> QED
  BY <1>1, <1>3, <1>5, <1>6, <1>7

\* What the user does at a prompt: a text that no run has learned is written
\* somewhere, or one is removed.
UserWrites == \E s \in Slugs, text \in Texts : text.origin # "learned" /\ Write(s, text)
UserDeletes == \E s \in Places : skill' = [t \in Places \ {s} |-> skill[t]]

LEMMA UserEffect ==
  ASSUME (\E name \in Asked : CreateByName(name)) \/ WriteByHand \/ DeleteByHand
  PROVE  (UserWrites \/ UserDeletes) /\ proc' = proc /\ Waiting
<1>1. ASSUME NEW name \in Asked, CreateByName(name)
      PROVE  UserWrites /\ proc' = proc /\ Waiting
  <2>1. PICK run \in Runs, b \in BOOLEAN :
          Write(Slug[name], Reflection(run, name, b, "created"))
    BY <1>1 DEF CreateByName
  <2>2. name \in Names /\ Slug[name] \in Slugs
    BY LibraryAssumptions DEF LibraryAssumptions, Slugs
  <2>3. /\ Reflection(run, name, b, "created") \in Texts
        /\ Reflection(run, name, b, "created").origin = "created"
    BY <2>2, ReflectionType, LibraryAssumptions
  <2> QED
    BY <1>1, <2>1, <2>2, <2>3 DEF CreateByName, UserWrites
<1>2. ASSUME WriteByHand
      PROVE  UserWrites /\ proc' = proc /\ Waiting
  <2>1. PICK hand \in ByHand : Write(hand[1], hand[2])
    BY <1>2 DEF WriteByHand
  <2>2. hand[1] \in Slugs /\ hand[2] \in Texts /\ hand[2].origin = "hand"
    BY LibraryAssumptions DEF LibraryAssumptions
  <2> QED
    BY <1>2, <2>1, <2>2 DEF WriteByHand, UserWrites
<1>3. DeleteByHand => UserDeletes /\ proc' = proc /\ Waiting
  BY DEF DeleteByHand, UserDeletes
<1> QED
  BY <1>1, <1>2, <1>3

LEMMA LibraryStepType == LibraryTypeOK /\ [LibraryNext]_libraryVars => LibraryTypeOK'
<1> SUFFICES ASSUME LibraryTypeOK, [LibraryNext]_libraryVars PROVE LibraryTypeOK'
  OBVIOUS
<1>1. ASSUME NEW s \in Slugs, NEW text \in Texts, Write(s, text)
      PROVE  skill' \in [Places' -> Texts] /\ Places' \subseteq Slugs
  BY <1>1, WriteEffect
<1>2. skill' = skill => skill' \in [Places' -> Texts] /\ Places' \subseteq Slugs
  BY DEF LibraryTypeOK, Places
<1>3. ASSUME NEW p \in Proc, NEW c \in Terminals, Equipped(c), Become(p, c)
      PROVE  proc' \in [Proc -> Terminals] /\ \A q \in Proc : Equipped(proc'[q])
  BY <1>3, BecomeEffect
<1>4. proc' = proc => proc' \in [Proc -> Terminals] /\ \A q \in Proc : Equipped(proc'[q])
  BY DEF LibraryTypeOK
<1>5. ASSUME NEW p \in Proc, Quiet(p) PROVE LibraryTypeOK'
  BY <1>2, <1>3, <1>5, QuietEffect DEF LibraryTypeOK
<1>6. ASSUME NEW p \in Proc, Update(p) PROVE LibraryTypeOK'
  <2>1. proc[p].run.id \in STRING
    BY <1>6, BusyType DEF Update
  <2>2. Learnt(proc[p].text[1], proc[p].run.id) \in Texts
    BY <1>6, <2>1, UpdateEffect, LearntEffect
  <2> QED
    BY <1>1, <1>2, <1>3, <1>6, <2>2, UpdateEffect DEF LibraryTypeOK
<1>7. ASSUME NEW p \in Proc, Create(p) PROVE LibraryTypeOK'
  BY <1>1, <1>3, <1>7, CreateEffect DEF LibraryTypeOK
<1>8. ASSUME UserWrites, proc' = proc PROVE LibraryTypeOK'
  BY <1>1, <1>4, <1>8 DEF UserWrites, LibraryTypeOK
<1>9. ASSUME UserDeletes, proc' = proc PROVE LibraryTypeOK'
  <2>1. skill' \in [Places' -> Texts] /\ Places' \subseteq Slugs
    BY <1>9 DEF UserDeletes, LibraryTypeOK, Places
  <2> QED
    BY <1>4, <1>9, <2>1 DEF LibraryTypeOK
<1>10. CASE UNCHANGED libraryVars
  BY <1>2, <1>4, <1>10 DEF libraryVars, LibraryTypeOK
<1> QED
  BY <1>5, <1>6, <1>7, <1>8, <1>9, <1>10, UserEffect DEF LibraryNext, Quiet

\* The skills directory and the terminals keep their types, with any number of
\* terminals and whatever the user does meanwhile.
THEOREM LibraryTypeCorrect == LibrarySpec => []LibraryTypeOK
BY LibraryInitType, LibraryStepType, PTL DEF LibrarySpec

-----------------------------------------------------------------------------
(* Library: no tool belongs to two learned skills.                           *)

\* No skill learned elsewhere than at s lists one of the tools.
FreeOf(s, tools) ==
  \A t \in Places \ {s} : skill[t].origin = "learned" => skill[t].tools \cap tools = {}

\* What a terminal is about to write shares no tool with what is learned elsewhere:
\* a new skill, because none was similar, and an old text that comes back, because
\* nothing else was learned since it was read.
Writable(c) ==
  /\ c.pc = "create" => FreeOf(c.name, c.run.tools)
  /\ c.pc = "read" /\ c.text[1].origin = "learned" => FreeOf(c.target, c.text[1].tools)

LearnedInv ==
  /\ LibraryTypeOK /\ LearnedAreDisjoint
  /\ \A p \in Proc : Writable(proc[p])

\* One tool in common makes a skill similar, whatever else they have.
LEMMA SharedToolIsSimilar ==
  ASSUME NEW run, IsFiniteSet(run.says), IsFiniteSet(run.tools),
         NEW s \in Places, skill[s].tools \cap run.tools # {}
  PROVE  s \in Similar(run)
<1> DEFINE A == (run.says \cup run.tools) \cap Haystack(s)
           B == run.tools \cap Tags(s)
<1>1. PICK tool : tool \in skill[s].tools /\ tool \in run.tools
  OBVIOUS
<1>2. tool \in A /\ tool \in B
  BY <1>1 DEF Tags, Haystack
<1>3. IsFiniteSet(A) /\ IsFiniteSet(B)
  <2>1. IsFiniteSet(run.says \cup run.tools)
    BY FS_Union
  <2>2. A \subseteq run.says \cup run.tools /\ B \subseteq run.tools
    OBVIOUS
  <2> HIDE DEF A, B
  <2> QED
    BY <2>1, <2>2, FS_Subset
<1>4. Score(run, s) = Cardinality(A) + 2 * Cardinality(B)
  BY DEF Score
<1> HIDE DEF A, B
<1>5. Cardinality(A) \in Nat \ {0} /\ Cardinality(B) \in Nat \ {0}
  BY <1>2, <1>3, FS_EmptySet, FS_CardinalityType
<1>6. Score(run, s) >= 3
  BY <1>4, <1>5
<1> QED
  BY <1>6 DEF Similar

LEMMA LibraryInitLearned == LibraryInit => LearnedInv
<1> SUFFICES ASSUME LibraryInit PROVE LearnedInv
  OBVIOUS
<1>1. LearnedAreDisjoint
  BY LibraryAssumptions DEF LibraryAssumptions, LibraryInit, LearnedAreDisjoint, Places
<1>2. ASSUME NEW p \in Proc PROVE Writable(proc[p])
  BY IdleType DEF LibraryInit, Writable
<1> QED
  BY <1>1, <1>2, LibraryInitType DEF LearnedInv

\* A step of the only terminal that leaves the files alone.
LEMMA QuietLearned ==
  ASSUME LearnedInv, NEW p, Proc = {p}, Quiet(p)
  PROVE  LearnedInv'
<1>1. LibraryTypeOK /\ LearnedAreDisjoint /\ Writable(proc[p]) /\ p \in Proc
  BY DEF LearnedInv
<1>2. LibraryTypeOK' /\ skill' = skill /\ Places' = Places
  BY <1>1, QuietEffect, LibraryStepType DEF LibraryNext, Quiet, Places
<1>3. LearnedAreDisjoint'
  BY <1>1, <1>2 DEF LearnedAreDisjoint
<1>4. ASSUME NEW c, Become(p, c) PROVE proc'[p] = c
  BY <1>1, <1>4 DEF Become, LibraryTypeOK
<1>5. ASSUME NEW c, Become(p, c), Writable(c) PROVE Writable(proc[p])'
  <2>1. Writable(c)'
    BY <1>2, <1>5 DEF Writable, FreeOf
  <2> QED
    BY <1>4, <1>5, <2>1 DEF Writable
<1>6. Quit(p) => Writable(proc[p])'
  BY <1>4, IdleType DEF Quit, Writable
<1>7. RunEnds(p) => Writable(proc[p])'
  <2>1. ASSUME NEW run, NEW name, Become(p, [Idle EXCEPT !.pc = "named", !.run = run, !.name = name])
        PROVE  Writable(proc[p])'
    <3>1. proc'[p].pc = "named"
      BY <1>4, <2>1 DEF Idle
    <3> QED
      BY <3>1 DEF Writable
  <2> QED
    BY <1>6, <2>1 DEF RunEnds
<1>8. Bind(p) => Writable(proc[p])'
  <2>1. ASSUME Bind(p) PROVE proc'[p].pc = "bound"
    <3>1. PICK b \in BOOLEAN : Become(p, [proc[p] EXCEPT !.pc = "bound", !.bound = b])
      BY <2>1 DEF Bind
    <3> QED
      BY <1>1, <1>4, <3>1 DEF LibraryTypeOK, Terminals
  <2> QED
    BY <2>1 DEF Writable
<1>9. Decide(p) => Writable(proc[p])'
  <2> SUFFICES ASSUME Decide(p) PROVE Writable(proc[p])'
    OBVIOUS
  <2>1. proc[p].pc = "bound" /\ proc[p] \in Terminals
    BY <1>1 DEF Decide, LibraryTypeOK
  <2>2. ASSUME NEW s, Become(p, [proc[p] EXCEPT !.pc = "update", !.target = s])
        PROVE  Writable(proc[p])'
    <3>1. proc'[p].pc = "update"
      BY <1>4, <2>1, <2>2 DEF Terminals
    <3> QED
      BY <3>1 DEF Writable
  <2>3. ASSUME Similar(proc[p].run) = {}, Become(p, [proc[p] EXCEPT !.pc = "create"])
        PROVE  Writable(proc[p])'
    <3> DEFINE c == [proc[p] EXCEPT !.pc = "create"]
    <3>1. c.pc = "create" /\ c.run = proc[p].run
      BY <2>1 DEF Terminals
    <3>2. IsFiniteSet(proc[p].run.says) /\ IsFiniteSet(proc[p].run.tools)
      BY <1>1, <2>1, BusyType
    <3>3. FreeOf(c.name, proc[p].run.tools)
      BY <2>3, <3>2, SharedToolIsSimilar DEF FreeOf
    <3> QED
      BY <1>5, <2>3, <3>1, <3>3 DEF Writable
  <2> QED
    BY <1>6, <2>2, <2>3 DEF Decide
<1>10. Read(p) => Writable(proc[p])'
  <2> SUFFICES ASSUME Read(p), ~Quit(p) PROVE Writable(proc[p])'
    BY <1>6
  <2> DEFINE c == [proc[p] EXCEPT !.pc = "read", !.text = <<skill[proc[p].target]>>]
  <2>1. Become(p, c) /\ proc[p].target \in Places /\ proc[p] \in Terminals
    BY <1>1 DEF Read, LibraryTypeOK
  <2>2. c.pc = "read" /\ c.text[1] = skill[proc[p].target] /\ c.target = proc[p].target
    BY <2>1 DEF Terminals
  <2>3. Writable(c)
    BY <1>1, <2>1, <2>2 DEF Writable, FreeOf, LearnedAreDisjoint
  <2> QED
    BY <1>5, <2>1, <2>3
<1>11. Writable(proc[p])'
  BY <1>6, <1>7, <1>8, <1>9, <1>10 DEF Quiet, Settle
<1> QED
  BY <1>2, <1>3, <1>11 DEF LearnedInv

\* A learned text is written at a place that is free of its tools elsewhere.
LEMMA LearnedWrite ==
  ASSUME LearnedInv, NEW s \in Slugs, NEW text \in Texts, Write(s, text),
         text.origin = "learned" => FreeOf(s, text.tools)
  PROVE  LearnedAreDisjoint'
<1>1. /\ LibraryTypeOK /\ LearnedAreDisjoint
      /\ Places' = Places \cup {s} /\ skill'[s] = text
      /\ \A t \in Places \ {s} : skill'[t] = skill[t]
  BY WriteEffect DEF LearnedInv
<1> SUFFICES ASSUME NEW t \in Places', NEW u \in Places', t # u,
                    skill'[t].origin = "learned", skill'[u].origin = "learned"
             PROVE  skill'[t].tools \cap skill'[u].tools = {}
  BY DEF LearnedAreDisjoint
<1>2. CASE t = s
  BY <1>1, <1>2 DEF FreeOf
<1>3. CASE u = s
  BY <1>1, <1>3 DEF FreeOf
<1>4. CASE t # s /\ u # s
  BY <1>1, <1>4 DEF LearnedAreDisjoint
<1> QED
  BY <1>2, <1>3, <1>4

LEMMA UpdateLearned ==
  ASSUME LearnedInv, NEW p, Proc = {p}, Update(p)
  PROVE  LearnedInv'
<1>1. LibraryTypeOK /\ LearnedAreDisjoint /\ Writable(proc[p]) /\ p \in Proc
  BY DEF LearnedInv
<1>2. LibraryTypeOK'
  BY <1>1, LibraryStepType DEF LibraryNext
<1>3. /\ proc[p].pc = "read" /\ proc[p].target \in Slugs /\ proc[p].text[1] \in Texts
      /\ proc[p].run.id \in STRING
  BY <1>1, UpdateEffect, BusyType
<1>4. LearnedAreDisjoint'
  <2> DEFINE text == Learnt(proc[p].text[1], proc[p].run.id)
  <2>1. /\ text \in Texts /\ text.tools = proc[p].text[1].tools
        /\ text.origin = proc[p].text[1].origin
    BY <1>3, LearntEffect
  <2>2. text.origin = "learned" => FreeOf(proc[p].target, text.tools)
    BY <1>1, <1>3, <2>1 DEF Writable
  <2> HIDE DEF text
  <2>3. CASE Write(proc[p].target, text)
    BY <1>3, <2>1, <2>2, <2>3, LearnedWrite
  <2>4. CASE skill' = skill
    BY <1>1, <2>4 DEF LearnedAreDisjoint, Places
  <2> QED
    BY <1>1, <2>3, <2>4, UpdateEffect DEF text
<1>5. proc'[p].pc \in {"settle", "idle"}
  BY <1>1, UpdateEffect, BecomeEffect
<1>6. Writable(proc[p])'
  BY <1>5 DEF Writable
<1> QED
  BY <1>2, <1>4, <1>6 DEF LearnedInv

LEMMA CreateLearned ==
  ASSUME LearnedInv, NEW p, Proc = {p}, Create(p)
  PROVE  LearnedInv'
<1>1. LibraryTypeOK /\ LearnedAreDisjoint /\ Writable(proc[p]) /\ p \in Proc
  BY DEF LearnedInv
<1>2. LibraryTypeOK'
  BY <1>1, LibraryStepType DEF LibraryNext
<1>3. PICK text \in Texts : text.tools = proc[p].run.tools /\ Write(proc[p].name, text)
  BY <1>1, CreateEffect
<1>4. proc[p].pc = "create" /\ proc[p].name \in Slugs
  BY <1>1, CreateEffect
<1>5. LearnedAreDisjoint'
  BY <1>1, <1>3, <1>4, LearnedWrite DEF Writable
<1>6. proc'[p].pc = "settle"
  BY <1>1, CreateEffect, BecomeEffect
<1>7. Writable(proc[p])'
  BY <1>6 DEF Writable
<1> QED
  BY <1>2, <1>5, <1>7 DEF LearnedInv

\* What the user writes is not learned, and what is removed is none the less.
LEMMA UserLearned ==
  ASSUME LearnedInv, LibraryTypeOK', UserWrites \/ UserDeletes, proc' = proc
  PROVE  LearnedInv'
<1>1. LibraryTypeOK /\ LearnedAreDisjoint /\ \A p \in Proc : Writable(proc[p])
  BY DEF LearnedInv
<1>2. LearnedAreDisjoint' /\ \A s, tools : FreeOf(s, tools) => FreeOf(s, tools)'
  <2>1. CASE UserWrites
    <3>1. PICK s \in Slugs, text \in Texts : text.origin # "learned" /\ Write(s, text)
      BY <2>1 DEF UserWrites
    <3>2. /\ Places' = Places \cup {s} /\ skill'[s] = text
          /\ \A t \in Places \ {s} : skill'[t] = skill[t]
      BY <1>1, <3>1, WriteEffect
    <3> QED
      BY <3>1, <3>2, LearnedWrite DEF FreeOf
  <2>2. CASE UserDeletes
    <3>1. Places' \subseteq Places /\ \A t \in Places' : skill'[t] = skill[t]
      BY <2>2 DEF UserDeletes, Places
    <3> QED
      BY <1>1, <3>1 DEF LearnedAreDisjoint, FreeOf
  <2> QED
    BY <2>1, <2>2
<1>3. ASSUME NEW p \in Proc PROVE Writable(proc[p])'
  BY <1>1, <1>2 DEF Writable
<1> QED
  BY <1>2, <1>3 DEF LearnedInv

LEMMA LibraryStepLearned ==
  ASSUME NEW p, Proc = {p}
  PROVE  LearnedInv /\ [LibraryNext]_libraryVars => LearnedInv'
<1> SUFFICES ASSUME LearnedInv, [LibraryNext]_libraryVars PROVE LearnedInv'
  OBVIOUS
<1>1. LibraryTypeOK'
  BY LibraryStepType DEF LearnedInv
<1>2. CASE UNCHANGED libraryVars
  BY <1>1, <1>2 DEF libraryVars, LearnedInv, LearnedAreDisjoint, Writable, FreeOf, Places
<1>3. CASE \E q \in Proc : Quiet(q) \/ Update(q) \/ Create(q)
  BY <1>3, QuietLearned, UpdateLearned, CreateLearned
<1>4. CASE (\E name \in Asked : CreateByName(name)) \/ WriteByHand \/ DeleteByHand
  BY <1>1, <1>4, UserEffect, UserLearned
<1> QED
  BY <1>2, <1>3, <1>4 DEF LibraryNext, Quiet

\* With one terminal at which runs learn, and whatever the user writes or removes at
\* whatever time, no tool belongs to two learned skills (best_skill_match,
\* consolidate_skill_with_binding).
THEOREM LearnedStayDisjoint ==
  ASSUME NEW p, Proc = {p}
  PROVE  LibrarySpec => []LearnedAreDisjoint
<1>1. LearnedInv => LearnedAreDisjoint
  BY DEF LearnedInv
<1> QED
  BY <1>1, LibraryInitLearned, LibraryStepLearned, PTL DEF LibrarySpec

-----------------------------------------------------------------------------
(* Library: learning only adds.                                              *)

\* Nothing has changed since a terminal looked: the name it picked is free, and the
\* text it read is the one that is there.
UpToDate(c) ==
  /\ c.pc \in {"named", "bound", "create"} => c.name \notin Places
  /\ c.pc = "read" => c.target \in Places /\ c.text[1] = skill[c.target]

LearningInv ==
  /\ LibraryTypeOK
  /\ \A p \in Proc : UpToDate(proc[p])

LEMMA LibraryInitLearning == LibraryInit => LearningInv
<1> SUFFICES ASSUME LibraryInit PROVE LearningInv
  OBVIOUS
<1>1. ASSUME NEW p \in Proc PROVE UpToDate(proc[p])
  BY IdleType DEF LibraryInit, UpToDate
<1> QED
  BY <1>1, LibraryInitType DEF LearningInv

\* A step of the only terminal that leaves the files alone.
LEMMA QuietLearning ==
  ASSUME LearningInv, NEW p, Proc = {p}, Quiet(p)
  PROVE  LearningInv'
<1>1. LibraryTypeOK /\ UpToDate(proc[p]) /\ p \in Proc
  BY DEF LearningInv
<1>2. LibraryTypeOK' /\ skill' = skill /\ Places' = Places
  BY <1>1, QuietEffect, LibraryStepType DEF LibraryNext, Quiet, Places
<1>3. ASSUME NEW c, Become(p, c) PROVE proc'[p] = c
  BY <1>1, <1>3 DEF Become, LibraryTypeOK
<1>4. ASSUME NEW c, Become(p, c), UpToDate(c) PROVE UpToDate(proc[p])'
  BY <1>2, <1>3, <1>4 DEF UpToDate
<1>5. Quit(p) => UpToDate(proc[p])'
  BY <1>3, IdleType DEF Quit, UpToDate
<1>6. RunEnds(p) => UpToDate(proc[p])'
  <2>1. ASSUME NEW run, NEW name, IsFree(run.base, name),
               Become(p, [Idle EXCEPT !.pc = "named", !.run = run, !.name = name])
        PROVE  UpToDate(proc[p])'
    <3> DEFINE c == [Idle EXCEPT !.pc = "named", !.run = run, !.name = name]
    <3>1. c.pc = "named" /\ c.name = name /\ name \notin Places
      BY <2>1 DEF Idle, IsFree
    <3>2. UpToDate(c)
      BY <3>1 DEF UpToDate
    <3> QED
      BY <1>4, <2>1, <3>2
  <2> QED
    BY <1>5, <2>1 DEF RunEnds
<1>7. Bind(p) => UpToDate(proc[p])'
  <2>1. ASSUME NEW b \in BOOLEAN, proc[p].pc = "named",
               Become(p, [proc[p] EXCEPT !.pc = "bound", !.bound = b])
        PROVE  UpToDate(proc[p])'
    <3> DEFINE c == [proc[p] EXCEPT !.pc = "bound", !.bound = b]
    <3>1. c.pc = "bound" /\ c.name = proc[p].name
      BY <1>1 DEF LibraryTypeOK, Terminals
    <3>2. UpToDate(c)
      BY <1>1, <2>1, <3>1 DEF UpToDate
    <3> QED
      BY <1>4, <2>1, <3>2
  <2> QED
    BY <2>1 DEF Bind
<1>8. Decide(p) => UpToDate(proc[p])'
  <2> SUFFICES ASSUME Decide(p) PROVE UpToDate(proc[p])'
    OBVIOUS
  <2>1. proc[p].pc = "bound" /\ proc[p] \in Terminals
    BY <1>1 DEF Decide, LibraryTypeOK
  <2>2. ASSUME NEW s, Become(p, [proc[p] EXCEPT !.pc = "update", !.target = s])
        PROVE  UpToDate(proc[p])'
    <3>1. proc'[p].pc = "update"
      BY <1>3, <2>1, <2>2 DEF Terminals
    <3> QED
      BY <3>1 DEF UpToDate
  <2>3. ASSUME Become(p, [proc[p] EXCEPT !.pc = "create"])
        PROVE  UpToDate(proc[p])'
    <3> DEFINE c == [proc[p] EXCEPT !.pc = "create"]
    <3>1. c.pc = "create" /\ c.name = proc[p].name
      BY <2>1 DEF Terminals
    <3>2. UpToDate(c)
      BY <1>1, <2>1, <3>1 DEF UpToDate
    <3> QED
      BY <1>4, <2>3, <3>2
  <2> QED
    BY <1>5, <2>2, <2>3 DEF Decide
<1>9. Read(p) => UpToDate(proc[p])'
  <2> SUFFICES ASSUME Read(p), ~Quit(p) PROVE UpToDate(proc[p])'
    BY <1>5
  <2> DEFINE c == [proc[p] EXCEPT !.pc = "read", !.text = <<skill[proc[p].target]>>]
  <2>1. Become(p, c) /\ proc[p].target \in Places /\ proc[p] \in Terminals
    BY <1>1 DEF Read, LibraryTypeOK
  <2>2. c.pc = "read" /\ c.text[1] = skill[proc[p].target] /\ c.target = proc[p].target
    BY <2>1 DEF Terminals
  <2>3. UpToDate(c)
    BY <2>1, <2>2 DEF UpToDate
  <2> QED
    BY <1>4, <2>1, <2>3
<1>10. UpToDate(proc[p])'
  BY <1>5, <1>6, <1>7, <1>8, <1>9 DEF Quiet, Settle
<1> QED
  BY <1>2, <1>10 DEF LearningInv

\* While the terminal is at work, the user waits.
LEMMA UserLearning ==
  ASSUME LearningInv, LibraryTypeOK', Alone, Waiting, proc' = proc
  PROVE  LearningInv'
<1>1. ASSUME NEW p \in Proc PROVE UpToDate(proc[p])'
  <2>1. proc'[p].pc = "idle"
    BY DEF Waiting
  <2> QED
    BY <2>1 DEF UpToDate
<1> QED
  BY <1>1 DEF LearningInv

LEMMA LibraryStepLearning ==
  ASSUME NEW p, Proc = {p}, Alone
  PROVE  LearningInv /\ [LibraryNext]_libraryVars => LearningInv'
<1> SUFFICES ASSUME LearningInv, [LibraryNext]_libraryVars PROVE LearningInv'
  OBVIOUS
<1>1. LibraryTypeOK /\ LibraryTypeOK'
  BY LibraryStepType DEF LearningInv
<1>2. CASE UNCHANGED libraryVars
  BY <1>1, <1>2 DEF libraryVars, LearningInv, UpToDate, Places
<1>3. CASE Update(p) \/ Create(p)
  <2>1. proc'[p].pc \in {"settle", "idle"}
    BY <1>1, <1>3, UpdateEffect, CreateEffect, BecomeEffect
  <2> QED
    BY <1>1, <2>1 DEF LearningInv, UpToDate
<1>4. CASE Quiet(p)
  BY <1>4, QuietLearning
<1>5. CASE (\E name \in Asked : CreateByName(name)) \/ WriteByHand \/ DeleteByHand
  BY <1>1, <1>5, UserEffect, UserLearning
<1> QED
  BY <1>2, <1>3, <1>4, <1>5 DEF LibraryNext, Quiet

\* A write that adds, or none, is all that a terminal does to the files.
LEMMA LearningAdded ==
  ASSUME LearningInv, NEW p, Proc = {p}, [LibraryNext]_libraryVars,
         proc'[p].pc # proc[p].pc, NEW s \in Places
  PROVE  OnlyAdds(s)
<1>1. LibraryTypeOK /\ UpToDate(proc[p]) /\ p \in Proc /\ skill[s] \in Texts
  BY DEF LearningInv, LibraryTypeOK
<1>2. ASSUME s \in DOMAIN skill', skill'[s] = skill[s]
      PROVE  OnlyAdds(s)
  <2>1. skill[s].updates \in Seq(STRING)
    BY <1>1 DEF Texts
  <2>2. IsPrefix(skill[s].updates, skill[s].updates)
    BY <2>1 DEF IsPrefix
  <2> QED
    BY <1>2, <2>2 DEF OnlyAdds
<1>3. CASE Quiet(p)
  BY <1>1, <1>2, <1>3, QuietEffect DEF Places
<1>4. CASE Create(p)
  <2>1. PICK text \in Texts : Write(proc[p].name, text)
    BY <1>1, <1>4, CreateEffect
  <2>2. proc[p].name \in Slugs /\ proc[p].name \notin Places
    BY <1>1, <1>4, CreateEffect DEF UpToDate
  <2>3. s \in DOMAIN skill' /\ skill'[s] = skill[s]
    BY <1>1, <2>1, <2>2, WriteEffect DEF Places
  <2> QED
    BY <1>2, <2>3
<1>5. CASE Update(p)
  <2>1. /\ proc[p].pc = "read" /\ proc[p].target \in Slugs
        /\ proc[p].text[1] = skill[proc[p].target] /\ proc[p].text[1] \in Texts
        /\ proc[p].run.id \in STRING
    BY <1>1, <1>5, UpdateEffect, BusyType DEF UpToDate
  <2> DEFINE text == Learnt(proc[p].text[1], proc[p].run.id)
  <2>2. /\ text \in Texts
        /\ [text EXCEPT !.updates = <<>>, !.section = FALSE, !.quotes = {}]
             = [skill[proc[p].target]
                  EXCEPT !.updates = <<>>, !.section = FALSE, !.quotes = {}]
        /\ IsPrefix(skill[proc[p].target].updates, text.updates)
    <3>1. /\ text \in Texts
          /\ [text EXCEPT !.updates = <<>>, !.section = FALSE, !.quotes = {}]
               = [proc[p].text[1] EXCEPT !.updates = <<>>, !.section = FALSE, !.quotes = {}]
          /\ IsPrefix(proc[p].text[1].updates, text.updates)
      BY <2>1, LearntEffect
    <3> HIDE DEF text
    <3> QED
      BY ONLY <2>1, <3>1
  <2>3. skill' = skill \/ Write(proc[p].target, text)
    BY <1>1, <1>5, UpdateEffect
  <2> HIDE DEF text
  <2>4. CASE skill' = skill
    BY <1>2, <2>4 DEF Places
  <2>5. CASE Write(proc[p].target, text)
    <3>1. /\ s \in DOMAIN skill' /\ skill'[proc[p].target] = text
          /\ s # proc[p].target => skill'[s] = skill[s]
      BY <1>1, <2>1, <2>2, <2>5, WriteEffect DEF Places
    <3>2. CASE s = proc[p].target
      BY <2>2, <3>1, <3>2 DEF OnlyAdds
    <3> QED
      BY <1>2, <3>1, <3>2
  <2> QED
    BY <2>3, <2>4, <2>5
<1>6. CASE proc' = proc
  BY <1>6
<1> QED
  BY <1>3, <1>4, <1>5, <1>6, UserEffect DEF LibraryNext, Quiet, libraryVars

\* When the user waits for a run to end, and one runs at a time, the write that ends
\* its learning neither removes nor replaces a skill and loses no earlier update
\* (unique_skill_name, create_skill_with_binding, append_learned_update).
THEOREM LearningOnlyAdds ==
  ASSUME NEW only, Proc = {only}, Alone
  PROVE  LibrarySpec => LearningAdds
<1>1. LearningInv /\ [LibraryNext]_libraryVars =>
        \A p \in Proc :
          proc[p].pc \in {"create", "read"} /\ proc'[p].pc # proc[p].pc
            => \A s \in Places : OnlyAdds(s)
  BY LearningAdded
<1>2. LearningInv /\ [LibraryNext]_libraryVars => LearningInv'
  BY LibraryStepLearning
<1> QED
  BY <1>1, <1>2, LibraryInitLearning, PTL DEF LibrarySpec, LearningAdds

-----------------------------------------------------------------------------
(* Library: what the program wrote is found again.                           *)

\* A text read from a file the program made goes back to a file of its name.
Brought(c) ==
  c.pc = "read" /\ c.text[1].origin # "hand" => LiesAtItsName(c.target, c.text[1])

ReachInv ==
  /\ LibraryTypeOK /\ IsFiniteSet(Places)
  /\ \A s \in Places : Made(s) => LiesAtItsName(s, skill[s])
  /\ \A p \in Proc : Brought(proc[p])

LEMMA LibraryInitReach == LibraryInit => ReachInv
<1> SUFFICES ASSUME LibraryInit PROVE ReachInv
  OBVIOUS
<1>1. IsFiniteSet(Places) /\ \A s \in Places : LiesAtItsName(s, skill[s])
  BY LibraryAssumptions DEF LibraryAssumptions, LibraryInit, Places
<1>2. ASSUME NEW p \in Proc PROVE Brought(proc[p])
  BY IdleType DEF LibraryInit, Brought
<1> QED
  BY <1>1, <1>2, LibraryInitType DEF ReachInv

\* A step of a terminal that leaves the files alone: only a read brings a text.
LEMMA QuietReach ==
  ASSUME ReachInv, NEW p \in Proc, Quiet(p)
  PROVE  \A q \in Proc : Brought(proc[q])'
<1>1. LibraryTypeOK /\ \A q \in Proc : Brought(proc[q])
  BY DEF ReachInv
<1>2. ASSUME NEW c, Become(p, c) PROVE proc'[p] = c /\ \A q \in Proc \ {p} : proc'[q] = proc[q]
  BY <1>1, <1>2 DEF Become, LibraryTypeOK
<1>3. ASSUME NEW c, Become(p, c), c.pc # "read" PROVE Brought(proc[p])'
  BY <1>2, <1>3 DEF Brought
<1>4. Quit(p) => Brought(proc[p])'
  BY <1>3, IdleType DEF Quit
<1>5. RunEnds(p) => Brought(proc[p])'
  <2>1. ASSUME NEW run, NEW name, Become(p, [Idle EXCEPT !.pc = "named", !.run = run, !.name = name])
        PROVE  Brought(proc[p])'
    BY <1>3, <2>1 DEF Idle
  <2> QED
    BY <1>4, <2>1 DEF RunEnds
<1>6. Bind(p) => Brought(proc[p])'
  <2>1. ASSUME NEW b, Become(p, [proc[p] EXCEPT !.pc = "bound", !.bound = b])
        PROVE  Brought(proc[p])'
    <3>1. [proc[p] EXCEPT !.pc = "bound", !.bound = b].pc = "bound"
      BY <1>1 DEF LibraryTypeOK, Terminals
    <3> QED
      BY <1>3, <2>1, <3>1
  <2> QED
    BY <2>1 DEF Bind
<1>7. Decide(p) => Brought(proc[p])'
  <2>1. ASSUME NEW s, Become(p, [proc[p] EXCEPT !.pc = "update", !.target = s])
        PROVE  Brought(proc[p])'
    <3>1. [proc[p] EXCEPT !.pc = "update", !.target = s].pc = "update"
      BY <1>1 DEF LibraryTypeOK, Terminals
    <3> QED
      BY <1>3, <2>1, <3>1
  <2>2. ASSUME Become(p, [proc[p] EXCEPT !.pc = "create"]) PROVE Brought(proc[p])'
    <3>1. [proc[p] EXCEPT !.pc = "create"].pc = "create"
      BY <1>1 DEF LibraryTypeOK, Terminals
    <3> QED
      BY <1>3, <2>2, <3>1
  <2> QED
    BY <1>4, <2>1, <2>2 DEF Decide
<1>8. Read(p) => Brought(proc[p])'
  <2> SUFFICES ASSUME Read(p), ~Quit(p) PROVE Brought(proc[p])'
    BY <1>4
  <2> DEFINE c == [proc[p] EXCEPT !.pc = "read", !.text = <<skill[proc[p].target]>>]
  <2>1. Become(p, c) /\ proc[p].target \in Places /\ proc[p] \in Terminals
    BY <1>1 DEF Read, LibraryTypeOK
  <2>2. c.text[1] = skill[proc[p].target] /\ c.target = proc[p].target
    BY <2>1 DEF Terminals
  <2>3. Brought(c)
    BY <2>1, <2>2 DEF Brought, ReachInv, Made
  <2> HIDE DEF c
  <2>4. proc'[p] = c
    BY <1>2, <2>1
  <2> QED
    BY <2>3, <2>4 DEF Brought
<1>9. Brought(proc[p])'
  BY <1>4, <1>5, <1>6, <1>7, <1>8 DEF Quiet, Settle
<1>10. ASSUME NEW q \in Proc \ {p} PROVE Brought(proc[q])'
  <2>1. proc'[q] = proc[q]
    BY <1>1, <1>2, QuietEffect
  <2> QED
    BY <1>1, <2>1 DEF Brought
<1> QED
  BY <1>9, <1>10

\* A text of its name, or one by hand, is written.
LEMMA WriteReach ==
  ASSUME ReachInv, NEW s \in Slugs, NEW text \in Texts, Write(s, text),
         text.origin # "hand" => LiesAtItsName(s, text)
  PROVE  /\ IsFiniteSet(Places')
         /\ \A t \in Places' : Made(t)' => LiesAtItsName(t, skill'[t])
<1>1. /\ LibraryTypeOK /\ IsFiniteSet(Places)
      /\ \A t \in Places : Made(t) => LiesAtItsName(t, skill[t])
  BY DEF ReachInv
<1>2. /\ Places' = Places \cup {s} /\ skill'[s] = text
      /\ \A t \in Places \ {s} : skill'[t] = skill[t]
  BY <1>1, WriteEffect
<1>3. IsFiniteSet(Places \cup {s})
  BY <1>1, FS_AddElement
<1>4. ASSUME NEW t \in Places', Made(t)' PROVE LiesAtItsName(t, skill'[t])
  <2>1. CASE t = s
    BY <1>2, <1>4, <2>1 DEF Made
  <2>2. CASE t # s
    <3>1. t \in Places /\ skill'[t] = skill[t]
      BY <1>2, <2>2
    <3>2. Made(t)
      BY <1>4, <3>1 DEF Made
    <3> QED
      BY <1>1, <3>1, <3>2
  <2> QED
    BY <2>1, <2>2
<1> QED
  BY <1>2, <1>3, <1>4

\* A reflection lies at the slug of its name, an update where the text lay.
LEMMA ReflectionLies ==
  ASSUME NEW run, NEW name, NEW bound, NEW origin
  PROVE  LiesAtItsName(Slug[name], Reflection(run, name, bound, origin))
BY DEF LiesAtItsName, Reflection

LEMMA LearntLies ==
  ASSUME NEW t \in Texts, NEW u \in STRING
  PROVE  Learnt(t, u).front = t.front /\ Learnt(t, u).heading = t.heading
<1>1. Learnt(t, u) \in Texts
      /\ [Learnt(t, u) EXCEPT !.updates = <<>>, !.section = FALSE, !.quotes = {}]
           = [t EXCEPT !.updates = <<>>, !.section = FALSE, !.quotes = {}]
  BY LearntEffect
<1> DEFINE x == Learnt(t, u)
<1>2. x \in Texts
  BY <1>1
<1> HIDE DEF x
<1>3. /\ [x EXCEPT !.updates = <<>>, !.section = FALSE, !.quotes = {}].front = x.front
      /\ [x EXCEPT !.updates = <<>>, !.section = FALSE, !.quotes = {}].heading = x.heading
  BY <1>2 DEF Texts
<1>4. /\ [t EXCEPT !.updates = <<>>, !.section = FALSE, !.quotes = {}].front = t.front
      /\ [t EXCEPT !.updates = <<>>, !.section = FALSE, !.quotes = {}].heading = t.heading
  BY DEF Texts
<1> QED
  BY <1>1, <1>3, <1>4 DEF x

LEMMA UpdateReach ==
  ASSUME ReachInv, NEW p \in Proc, Update(p)
  PROVE  ReachInv'
<1>1. LibraryTypeOK /\ Brought(proc[p]) /\ \A q \in Proc : Brought(proc[q])
  BY DEF ReachInv
<1>2. LibraryTypeOK'
  BY <1>1, LibraryStepType DEF LibraryNext
<1> DEFINE s    == proc[p].target
           read == proc[p].text[1]
           text == Learnt(read, proc[p].run.id)
<1>3. proc[p].pc = "read" /\ s \in Slugs /\ read \in Texts /\ proc[p].run.id \in STRING
  BY <1>1, UpdateEffect, BusyType
<1>4. /\ text \in Texts /\ text.origin = read.origin
      /\ text.front = read.front /\ text.heading = read.heading
  BY <1>3, LearntEffect, LearntLies
<1>5. text.origin # "hand" => LiesAtItsName(s, text)
  BY <1>1, <1>3, <1>4 DEF Brought, LiesAtItsName
<1>6. skill' = skill \/ Write(s, text)
  BY <1>1, UpdateEffect
<1>7. /\ IsFiniteSet(Places')
      /\ \A t \in Places' : Made(t)' => LiesAtItsName(t, skill'[t])
  <2>1. CASE Write(s, text)
    <3> HIDE DEF text, s
    <3> QED
      BY <1>3, <1>4, <1>5, <2>1, WriteReach
  <2>2. CASE skill' = skill
    BY <2>2 DEF ReachInv, Places, Made
  <2> QED
    BY <1>6, <2>1, <2>2
<1>8. ASSUME NEW q \in Proc PROVE Brought(proc[q])'
  <2>1. PICK c \in Terminals : Equipped(c) /\ c.pc \in {"settle", "idle"} /\ Become(p, c)
    BY <1>1, UpdateEffect
  <2>2. proc'[p].pc # "read" /\ (q # p => proc'[q] = proc[q])
    BY <1>1, <2>1, BecomeEffect
  <2> QED
    BY <1>1, <2>2 DEF Brought
<1> QED
  BY <1>2, <1>7, <1>8 DEF ReachInv

LEMMA CreateReach ==
  ASSUME ReachInv, NEW p \in Proc, Create(p)
  PROVE  ReachInv'
<1>1. LibraryTypeOK /\ \A q \in Proc : Brought(proc[q])
  BY DEF ReachInv
<1>2. LibraryTypeOK'
  BY <1>1, LibraryStepType DEF LibraryNext
<1>3. PICK c \in Terminals : Equipped(c) /\ c.pc = "settle" /\ Become(p, c)
  BY <1>1, CreateEffect
<1>4. proc[p].pc = "create" /\ proc[p].name \in Slugs
  BY <1>1, CreateEffect
<1>5. proc[p] \in Terminals /\ proc[p].run \in Runs
  BY <1>1, <1>4, BusyType
<1> DEFINE text == Reflection(proc[p].run, proc[p].name, proc[p].bound, "learned")
<1>6. Write(Slug[proc[p].name], text)
  BY DEF Create
<1>7. proc[p].name \in Names /\ Slug[proc[p].name] \in Slugs /\ proc[p].bound \in BOOLEAN
  BY <1>4, <1>5, SlugOfSlug, LibraryAssumptions DEF Terminals
<1>8. text \in Texts
  BY <1>5, <1>7, ReflectionType, LibraryAssumptions
<1>9. LiesAtItsName(Slug[proc[p].name], text)
  BY ReflectionLies
<1> HIDE DEF text
<1>10. /\ IsFiniteSet(Places')
       /\ \A t \in Places' : Made(t)' => LiesAtItsName(t, skill'[t])
  BY <1>6, <1>7, <1>8, <1>9, WriteReach
<1>11. ASSUME NEW q \in Proc PROVE Brought(proc[q])'
  <2>1. proc'[p].pc # "read" /\ (q # p => proc'[q] = proc[q])
    BY <1>1, <1>3, BecomeEffect
  <2> QED
    BY <1>1, <2>1 DEF Brought
<1> QED
  BY <1>2, <1>10, <1>11 DEF ReachInv

LEMMA UserReach ==
  ASSUME ReachInv, (\E name \in Asked : CreateByName(name)) \/ WriteByHand \/ DeleteByHand
  PROVE  ReachInv'
<1>1. LibraryTypeOK /\ \A q \in Proc : Brought(proc[q])
  BY DEF ReachInv
<1>2. LibraryTypeOK'
  BY <1>1, LibraryStepType DEF LibraryNext
<1>3. ASSUME NEW q \in Proc PROVE Brought(proc[q])'
  <2>1. proc' = proc
    BY UserEffect
  <2> QED
    BY <1>1, <2>1 DEF Brought
<1>4. /\ IsFiniteSet(Places')
      /\ \A t \in Places' : Made(t)' => LiesAtItsName(t, skill'[t])
  <2>1. ASSUME NEW name \in Asked, CreateByName(name)
        PROVE  \E s \in Slugs, text \in Texts : Write(s, text) /\ LiesAtItsName(s, text)
    <3>1. PICK run \in Runs, b \in BOOLEAN :
            Write(Slug[name], Reflection(run, name, b, "created"))
      BY <2>1 DEF CreateByName
    <3>2. name \in Names /\ Slug[name] \in Slugs
      BY LibraryAssumptions DEF LibraryAssumptions, Slugs
    <3>3. Reflection(run, name, b, "created") \in Texts
      BY <3>2, ReflectionType, LibraryAssumptions
    <3> QED
      BY <3>1, <3>2, <3>3, ReflectionLies
  <2>2. ASSUME WriteByHand
        PROVE  \E s \in Slugs, text \in Texts : Write(s, text) /\ text.origin = "hand"
    <3>1. PICK hand \in ByHand : Write(hand[1], hand[2])
      BY <2>2 DEF WriteByHand
    <3>2. hand[1] \in Slugs /\ hand[2] \in Texts /\ hand[2].origin = "hand"
      BY LibraryAssumptions DEF LibraryAssumptions
    <3> QED
      BY <3>1, <3>2
  <2>3. CASE DeleteByHand
    <3>1. PICK s \in Places : skill' = [t \in Places \ {s} |-> skill[t]]
      BY <2>3 DEF DeleteByHand
    <3>2. Places' = Places \ {s} /\ \A t \in Places' : skill'[t] = skill[t]
      BY <3>1 DEF Places
    <3>3. IsFiniteSet(Places')
      BY <3>2, FS_Subset DEF ReachInv
    <3> QED
      BY <3>2, <3>3 DEF ReachInv, Made
  <2> QED
    BY <2>1, <2>2, <2>3, WriteReach
<1> QED
  BY <1>2, <1>3, <1>4 DEF ReachInv

LEMMA LibraryStepReach == ReachInv /\ [LibraryNext]_libraryVars => ReachInv'
<1> SUFFICES ASSUME ReachInv, [LibraryNext]_libraryVars PROVE ReachInv'
  OBVIOUS
<1>1. LibraryTypeOK'
  BY LibraryStepType DEF ReachInv
<1>2. CASE UNCHANGED libraryVars
  BY <1>1, <1>2 DEF libraryVars, ReachInv, Brought, Made, Places
<1>3. ASSUME NEW p \in Proc, Quiet(p) PROVE ReachInv'
  <2>1. skill' = skill /\ Places' = Places
    BY <1>3, QuietEffect DEF ReachInv, Places
  <2> QED
    BY <1>1, <1>3, <2>1, QuietReach DEF ReachInv, Made
<1> QED
  BY <1>2, <1>3, UpdateReach, CreateReach, UserReach DEF LibraryNext, Quiet

\* A skill of its name is listed under a name whose slug is its directory, and indexed
\* under a title with that slug.
LEMMA NameLies ==
  ASSUME LibraryTypeOK, NEW s \in Places
  PROVE  /\ NameOf(s) \in Names /\ Title(s) \in Names
         /\ LiesAtItsName(s, skill[s]) => Slug[NameOf(s)] = s /\ Slug[Title(s)] = s
<1>1. skill[s] \in Texts /\ s \in Slugs
  BY DEF LibraryTypeOK
<1>2. skill[s].front \in Names \cup {None} /\ skill[s].heading \in Names \cup {None}
  BY <1>1 DEF Texts
<1>3. s \in Names /\ Slug[s] = s
  BY <1>1, SlugOfSlug, LibraryAssumptions
<1>4. NameOf(s) \in ({skill[s].front, skill[s].heading} \ {None}) \cup {s}
  BY DEF NameOf
<1>5. Title(s) \in ({skill[s].front, skill[s].heading} \ {None}) \cup {s}
  BY DEF Title
<1> QED
  BY <1>2, <1>3, <1>4, <1>5 DEF LiesAtItsName

\* In a directory no name is taken by another skill than one by hand.
LEMMA NoOtherOfItsName ==
  ASSUME ReachInv, NEW s \in Places, Made(s), ~Shadowed(s), NEW t \in Places \ {s}
  PROVE  Slug[NameOf(s)] = s /\ Slug[Title(s)] = s
         /\ Slug[NameOf(t)] # s /\ Slug[Title(t)] # s
<1>1. LibraryTypeOK /\ \A u \in Places : Made(u) => LiesAtItsName(u, skill[u])
  BY DEF ReachInv
<1>2. Slug[NameOf(s)] = s /\ Slug[Title(s)] = s
  BY <1>1, NameLies
<1>3. CASE Made(t)
  <2>1. Slug[NameOf(t)] = t /\ Slug[Title(t)] = t
    BY <1>1, <1>3, NameLies
  <2> QED
    BY <1>2, <2>1
<1>4. CASE ~Made(t)
  BY <1>2, <1>4 DEF Shadowed
<1> QED
  BY <1>2, <1>3, <1>4

\* fetch_skill opens it under its name, and under its slug.
LEMMA FetchedByName ==
  ASSUME ReachInv, NEW s \in Places, Made(s), ~Shadowed(s), NEW wanted \in {NameOf(s), s}
  PROVE  FetchSkill(wanted) = s
<1> DEFINE hits == {t \in Places : NameOf(t) = wanted \/ Slug[NameOf(t)] = Slug[wanted]}
<1>1. LibraryTypeOK /\ Slug[NameOf(s)] = s /\ Slug[s] = s
  <2>1. LibraryTypeOK /\ LiesAtItsName(s, skill[s]) /\ s \in Slugs
    BY DEF ReachInv, LibraryTypeOK
  <2> QED
    BY <2>1, NameLies, SlugOfSlug, LibraryAssumptions
<1>2. Slug[wanted] = s
  BY <1>1
<1>3. hits = {s}
  <2>1. s \in hits
    BY <1>1, <1>2
  <2>2. ASSUME NEW t \in Places \ {s} PROVE t \notin hits
    <3>1. Slug[NameOf(t)] # s
      BY NoOtherOfItsName
    <3> QED
      BY <1>2, <3>1
  <2> QED
    BY <2>1, <2>2
<1>4. FetchSkill(wanted)
        = IF hits = {} THEN None ELSE CHOOSE t \in hits : \A u \in hits \ {t} : Before(t, u)
  BY DEF FetchSkill
<1> HIDE DEF hits
<1>5. (CHOOSE t \in hits : \A u \in hits \ {t} : Before(t, u)) \in hits
  <2>1. \E t \in hits : \A u \in hits \ {t} : Before(t, u)
    BY <1>3
  <2> QED
    BY <2>1
<1> QED
  BY <1>3, <1>4, <1>5

\* A limit of one result or more.
LEMMA LimitType ==
  ASSUME NEW limit \in Nat
  PROVE  Max({limit, 1}) \in Nat
<1>1. \E x \in {limit, 1} : \A y \in {limit, 1} : x >= y
  OBVIOUS
<1>2. Max({limit, 1}) \in {limit, 1}
  BY <1>1 DEF Max
<1> QED
  BY <1>2

\* What lacks a word of the query is found with fewer of them.
LEMMA FewerWords ==
  ASSUME NEW query, IsFiniteSet(query), NEW full, query \subseteq full, NEW other
  PROVE  /\ Cardinality(query \cap other) \in Nat /\ Cardinality(query \cap full) \in Nat
         /\ ~ (query \subseteq other)
              => Cardinality(query \cap full) > Cardinality(query \cap other)
<1>1. query \cap full = query
  OBVIOUS
<1>2. IsFiniteSet(query \cap other) /\ Cardinality(query \cap other) \in Nat
      /\ Cardinality(query) \in Nat
  BY FS_Subset, FS_CardinalityType
<1>3. ASSUME ~ (query \subseteq other)
      PROVE  Cardinality(query) > Cardinality(query \cap other)
  <2>1. query \cap other \subseteq query /\ query \cap other # query
    BY <1>3
  <2>2. /\ Cardinality(query \cap other) <= Cardinality(query)
        /\ Cardinality(query \cap other) # Cardinality(query)
    BY <2>1, FS_Subset
  <2> QED
    BY <1>2, <2>2
<1> QED
  BY <1>1, <1>2, <1>3

\* search_skill_infos: what comes before a skill that has every word of the query comes
\* before everything that lacks one.
LEMMA ShownByName ==
  ASSUME LibraryTypeOK, IsFiniteSet(Places), NEW s \in Places, NEW limit \in Nat
  PROVE  SkillIsShown(s, limit)
<1> DEFINE words == Words[NameOf(s)]
           found == [t \in Places |-> Cardinality(words \cap Haystack(t))]
           hits  == {t \in Places : words = {} \/ found[t] > 0}
           ahead(t) == {u \in hits \ {t} : found[u] > found[t] \/ (found[u] = found[t] /\ Before(u, t))}
           most == Max({limit, 1})
           shown == {t \in hits : Cardinality(ahead(t)) < most}
<1>1. SearchSkills(words, limit) = shown
  BY DEF SearchSkills
<1>2. IsFiniteSet(words)
  BY NameLies, LibraryAssumptions DEF LibraryAssumptions
<1>3. words \subseteq Haystack(s)
  BY DEF Haystack, Tags
<1>4. ASSUME NEW t \in Places
      PROVE  /\ found[t] \in Nat
             /\ ~ (words \subseteq Haystack(t)) => found[s] > found[t]
  <2>1. found[t] = Cardinality(words \cap Haystack(t))
        /\ found[s] = Cardinality(words \cap Haystack(s))
    OBVIOUS
  <2> HIDE DEF found, words
  <2> QED
    BY <1>2, <1>3, <2>1, FewerWords
<1>5. s \in hits
  <2>1. CASE words = {}
    BY <2>1
  <2>2. CASE words # {}
    <3>1. Cardinality(words \cap Haystack(s)) > Cardinality(words \cap {})
      <4>1. ~ (words \subseteq {})
        BY <2>2
      <4> HIDE DEF words
      <4> QED
        BY <1>2, <1>3, <4>1, FewerWords
    <3>2. Cardinality(words \cap {}) = 0
      BY FS_EmptySet
    <3> QED
      BY <3>1, <3>2
  <2> QED
    BY <2>1, <2>2
<1>6. most \in Nat
  BY LimitType
<1>7. ASSUME NEW t \in Places PROVE Cardinality(ahead(t)) \in Nat /\ IsFiniteSet(ahead(t))
  <2>1. ahead(t) \subseteq Places
    OBVIOUS
  <2> HIDE DEF ahead
  <2> QED
    BY <2>1, FS_Subset, FS_CardinalityType
<1>8. ASSUME s \notin shown, NEW t \in shown, ~ (words \subseteq Haystack(t))
      PROVE  FALSE
  <2>1. t \in Places /\ found[s] > found[t] /\ found[s] \in Nat /\ found[t] \in Nat
    BY <1>4, <1>8
  <2>2. ahead(s) \subseteq ahead(t)
    <3> SUFFICES ASSUME NEW u \in ahead(s) PROVE u \in ahead(t)
      OBVIOUS
    <3>1. u \in hits /\ u \in Places /\ found[u] >= found[s]
      <4>1. u \in Places
        OBVIOUS
      <4>2. found[u] \in Nat
        BY <1>4, <4>1
      <4> HIDE DEF found
      <4> QED
        BY <2>1, <4>2
    <3>2. found[u] \in Nat
      BY <1>4, <3>1
    <3> HIDE DEF found
    <3>3. found[u] > found[t]
      BY <2>1, <3>1, <3>2
    <3>4. u # t
      BY <2>1, <3>2, <3>3
    <3> QED
      BY <3>1, <3>3, <3>4
  <2>3. Cardinality(ahead(s)) <= Cardinality(ahead(t))
    <3>1. IsFiniteSet(ahead(t))
      BY <1>7, <2>1
    <3> HIDE DEF ahead
    <3> QED
      BY <2>2, <3>1, FS_Subset
  <2>4. Cardinality(ahead(t)) < most /\ ~ (Cardinality(ahead(s)) < most)
    BY <1>5, <1>8
  <2>5. Cardinality(ahead(s)) \in Nat /\ Cardinality(ahead(t)) \in Nat
    BY <1>7, <2>1
  <2> HIDE DEF ahead, most
  <2> QED
    BY <1>6, <2>3, <2>4, <2>5
<1> HIDE DEF shown, words
<1>9. s \in shown \/ \A t \in shown : words \subseteq Haystack(t)
  BY <1>8
<1> QED
  BY <1>1, <1>9 DEF SkillIsShown, words

\* search_index: an entry that has every word of its title is ahead of those which lack one.
LEMMA ShownByTitle ==
  ASSUME LibraryTypeOK, NEW s \in Places, LiesAtItsName(s, skill[s]), NEW limit \in Nat
  PROVE  EntryIsShown(s, limit)
<1> DEFINE words == Words[Title(s)]
           has(e) == e.keywords \cup Words[e.id]
           score == [e \in Fresh |-> IF words = {} THEN 1 ELSE Mentions(words, e)]
           hits == {e \in Fresh : score[e] > 0}
<1>1. SUFFICES ASSUME NEW shown \in SearchIndex(Fresh, words, limit), Entry(s) \notin shown,
                      NEW e \in shown, ~ (words \subseteq has(e))
               PROVE  FALSE
  BY DEF EntryIsShown
<1>2. /\ shown \subseteq hits
      /\ \A x \in shown, y \in hits \ shown :
           score[x] > score[y] \/ (score[x] = score[y] /\ Rank(x.id) <= Rank(y.id))
  BY <1>1 DEF SearchIndex
<1>3. IsFiniteSet(words)
  BY NameLies, LibraryAssumptions DEF LibraryAssumptions
<1>4. Entry(s) \in Fresh /\ words \subseteq has(Entry(s))
  BY DEF Fresh, Entry
<1>5. words # {}
  BY <1>1
<1>6. \A x \in Fresh : score[x] = Cardinality(words \cap has(x))
  BY <1>5 DEF Mentions
<1>7. e \in Fresh
  BY <1>2
<1> HIDE DEF score, words, has
<1>8. /\ score[e] \in Nat /\ score[Entry(s)] \in Nat
      /\ score[Entry(s)] > score[e]
  BY <1>1, <1>3, <1>4, <1>6, <1>7, FewerWords
<1>9. Entry(s) \in hits
  BY <1>4, <1>8
<1> QED
  BY <1>1, <1>2, <1>8, <1>9

\* fetch_memory: no other entry has its id.
LEMMA MatchedById ==
  ASSUME ReachInv, NEW s \in Places, Made(s), ~Shadowed(s)
  PROVE  Matches(Fresh, Slug[Title(s)]) = {Entry(s)}
<1>1. LibraryTypeOK /\ LiesAtItsName(s, skill[s])
  BY DEF ReachInv
<1>2. Slug[Title(s)] = s
  BY <1>1, NameLies
<1>3. ASSUME NEW t \in Places, Entry(t).id = s PROVE t = s
  <2>1. Slug[Title(t)] = s
    BY <1>3 DEF Entry
  <2> QED
    BY <2>1, NoOtherOfItsName
<1>4. Entry(s).id = s
  BY <1>2 DEF Entry
<1> QED
  BY <1>2, <1>3, <1>4 DEF Matches, Fresh

LEMMA ReachableMade == ReachInv => MadeAreReachable
<1> SUFFICES ASSUME ReachInv, Readable, NEW s \in Places, Made(s), ~Shadowed(s)
             PROVE  MadeIsReachable(s)
  BY DEF MadeAreReachable
<1>1. LibraryTypeOK /\ IsFiniteSet(Places) /\ LiesAtItsName(s, skill[s])
  BY DEF ReachInv
<1>2. FetchSkill(NameOf(s)) = s /\ FetchSkill(s) = s
  BY FetchedByName
<1>3. ASSUME NEW limit \in 1 .. Cardinality(Places)
      PROVE  SkillIsShown(s, limit) /\ EntryIsShown(s, limit)
  <2>1. limit \in Nat
    OBVIOUS
  <2> QED
    BY <1>1, <2>1, ShownByName, ShownByTitle
<1>4. ASSUME NEW kinds, Route(kinds) = s
      PROVE  RoutedForPlanner(kinds) = RoutedForCodex(kinds)
  BY <1>2, <1>4 DEF RoutedForPlanner, RoutedForCodex
<1> QED
  BY <1>2, <1>3, <1>4, MatchedById DEF MadeIsReachable

\* Whatever is learned, written by name or by hand and removed, with any number of
\* terminals and without any lock: what the program wrote is found again by fetch_skill,
\* search_skill_infos, search_index, fetch_memory and the two routes of a recipe.
THEOREM MadeStayReachable == LibrarySpec => []MadeAreReachable
BY LibraryInitReach, LibraryStepReach, ReachableMade, PTL DEF LibrarySpec
=============================================================================
