------------------------------ MODULE AgentLoop ------------------------------
(***************************************************************************)
(* One agent run: the turn loop of agent-runtime                            *)
(* (run_agent_loop_with_state_planner_retries) driven by agent-cli's        *)
(* drive_planner_loop, with its failure budget, the parent's signals, the   *)
(* retries of the planner and the cache of pure reads.                      *)
(*                                                                         *)
(* The loop is sequential; what happens around it is not.  The planner      *)
(* answers, garbles its answer, loses the connection or breaks; a tool      *)
(* succeeds or fails; and the parent of a subagent may drop a signal file   *)
(* between any two steps.                                                   *)
(*                                                                         *)
(* A tool call is known by whether it counts as exploration and whether it  *)
(* is declared a pure read; a result by its success and by whether it came  *)
(* from the cache.  The texts of hints, summaries and answers and the       *)
(* key_info signal, which only adds a line to the working memory, are left  *)
(* out; so is the duration of the backoff.                                  *)
(***************************************************************************)
EXTENDS Integers, Sequences, FiniteSets

CONSTANTS
  MaxTurns,          \* max_turns, after max(1); 24 by default
  ParseRetries,      \* DEFAULT_PLANNER_PARSE_RETRIES, 1
  TransportRetries,  \* DEFAULT_PLANNER_TRANSPORT_RETRIES, 2
  MaxFailures,       \* max_consecutive_failures, 5 by default
  ExplorationLimit   \* the streak at which exploring is forbidden, 7

ASSUME AgentLoopAssumptions ==
  /\ MaxTurns \in Nat \ {0}
  /\ {ParseRetries, TransportRetries, MaxFailures} \subseteq Nat
  /\ ExplorationLimit \in Nat \ {0}

VARIABLES
  pc,             \* where the loop is
  turn,           \* next_turn
  parseLeft,      \* retries left in this turn
  transportLeft,
  hint,           \* recovery_hint; while the planner thinks, what it was told
  call,           \* the tool call the planner has chosen
  observations,   \* what the tools answered, one entry per call
  failureStreak,  \* drive_planner_loop's count of failures in a row
  signals,        \* the signal files in the watch directory
  lateTools       \* (history) tool calls chosen while a stop signal was waiting

vars == <<pc, turn, parseLeft, transportLeft, hint, call, observations,
          failureStreak, signals, lateTools>>

Ended == {"finished", "exceeded", "failed"}

Hints == {"none", "stop_exploring", "parse", "transport", "intervene"}

Calls == [explores : BOOLEAN, pure : BOOLEAN]

NoCall == [explores |-> FALSE, pure |-> FALSE]

Observation == [call : Calls, ok : BOOLEAN, cached : BOOLEAN]

-----------------------------------------------------------------------------
(* The turn loop *)

\* exploration_streak_len: the run of exploring calls at the end.
ExploringSince(k) == \A i \in k..Len(observations) : observations[i].call.explores

ExplorationStreakReached ==
  /\ Len(observations) >= ExplorationLimit
  /\ ExploringSince(Len(observations) - ExplorationLimit + 1)

Init ==
  /\ pc = "turn"
  /\ turn = 0
  /\ parseLeft = 0
  /\ transportLeft = 0
  /\ hint = "none"
  /\ call = NoCall
  /\ observations = << >>
  /\ failureStreak = 0
  /\ signals = {}
  /\ lateTools = 0

\* for turn in 1..=max_turns
Mutant_TurnsLeft == turn <= MaxTurns

Mutant_TurnsLeftShort == turn < MaxTurns - 1

TurnsLeft == turn < MaxTurns

\* prepare_turn and the retry budgets of the turn.
TurnHint == IF ExplorationStreakReached THEN "stop_exploring" ELSE "none"

PrepareTurn ==
  /\ pc = "turn"
  /\ TurnsLeft
  /\ turn' = turn + 1
  /\ hint' = TurnHint
  /\ parseLeft' = ParseRetries
  /\ transportLeft' = TransportRetries
  /\ pc' = "plan"
  /\ UNCHANGED <<call, observations, failureStreak, signals, lateTools>>

\* The for loop runs out of turns.
ExceedTurns ==
  /\ pc = "turn"
  /\ ~TurnsLeft
  /\ pc' = "exceeded"
  /\ UNCHANGED <<turn, parseLeft, transportLeft, hint, call, observations,
                 failureStreak, signals, lateTools>>

-----------------------------------------------------------------------------
(* The planner closure of drive_planner_loop *)

\* The check of the failure budget comes first in every attempt.
Abort ==
  /\ pc = "plan"
  /\ failureStreak >= MaxFailures
  /\ pc' = "failed"
  /\ UNCHANGED <<turn, parseLeft, transportLeft, hint, call, observations,
                 failureStreak, signals, lateTools>>

\* apply_subagent_signals consumes every signal file.  A stop becomes a finish
\* action, and the loop treats it as the planner's.
Mutant_Stopped == signals = {"stop"}

Stopped == "stop" \in signals

ObeyStop ==
  /\ pc = "plan"
  /\ failureStreak < MaxFailures
  /\ Stopped
  /\ signals' = {}
  /\ hint' = "none"
  /\ pc' = "finished"
  /\ UNCHANGED <<turn, parseLeft, transportLeft, call, observations,
                 failureStreak, lateTools>>

CallPlanner ==
  /\ pc = "plan"
  /\ failureStreak < MaxFailures
  /\ ~Stopped
  /\ hint' = IF "intervene" \in signals THEN "intervene" ELSE hint
  /\ signals' = {}
  /\ pc' = "planner"
  /\ UNCHANGED <<turn, parseLeft, transportLeft, call, observations,
                 failureStreak, lateTools>>

-----------------------------------------------------------------------------
(* The planner's answer *)

ChooseTool(c) ==
  /\ pc = "planner"
  /\ hint' = "none"
  /\ call' = c
  /\ pc' = "tool"
  /\ lateTools' = IF "stop" \in signals THEN lateTools + 1 ELSE lateTools
  /\ UNCHANGED <<turn, parseLeft, transportLeft, observations, failureStreak,
                 signals>>

Finish ==
  /\ pc = "planner"
  /\ hint' = "none"
  /\ pc' = "finished"
  /\ UNCHANGED <<turn, parseLeft, transportLeft, call, observations,
                 failureStreak, signals, lateTools>>

\* InvalidPlannerJson: tried again at once, with a hint about the error.
RetryParse ==
  /\ pc = "planner"
  /\ parseLeft > 0
  /\ parseLeft' = parseLeft - 1
  /\ hint' = "parse"
  /\ pc' = "plan"
  /\ UNCHANGED <<turn, transportLeft, call, observations, failureStreak,
                 signals, lateTools>>

\* RuntimeError::Planner: tried again after a backoff.
Mutant_TransportBudget == transportLeft

TransportBudget == transportLeft - 1

RetryTransport ==
  /\ pc = "planner"
  /\ transportLeft > 0
  /\ transportLeft' = TransportBudget
  /\ hint' = "transport"
  /\ pc' = "plan"
  /\ UNCHANGED <<turn, parseLeft, call, observations, failureStreak, signals,
                 lateTools>>

\* Any other error, or one whose budget is used up, ends the run.
PlannerFails(error) ==
  /\ pc = "planner"
  /\ error = "parse" => parseLeft = 0
  /\ error = "transport" => transportLeft = 0
  /\ pc' = "failed"
  /\ UNCHANGED <<turn, parseLeft, transportLeft, hint, call, observations,
                 failureStreak, signals, lateTools>>

-----------------------------------------------------------------------------
(* The tool closure of run_goal *)

\* The cache holds the successful results of pure reads of this run, by name
\* and arguments; a call of this kind may be one that was made before.
Cached(c) ==
  c.pure /\ \E i \in 1..Len(observations) :
              observations[i] = [call |-> c, ok |-> TRUE, cached |-> FALSE]

\* A hit is a success, but no progress: it leaves the streak alone.
Mutant_StreakAfter(ok, cached) == IF ok THEN 0 ELSE failureStreak + 1

StreakAfter(ok, cached) ==
  IF cached THEN failureStreak
  ELSE IF ok THEN 0
  ELSE failureStreak + 1

RunTool(ok, cached) ==
  /\ pc = "tool"
  /\ cached => ok /\ Cached(call)
  /\ observations' = Append(observations, [call |-> call, ok |-> ok, cached |-> cached])
  /\ failureStreak' = StreakAfter(ok, cached)
  /\ call' = NoCall
  /\ pc' = "turn"
  /\ UNCHANGED <<turn, parseLeft, transportLeft, hint, signals, lateTools>>

-----------------------------------------------------------------------------
(* The parent: subagent_nudge *)

Nudge(s) ==
  /\ signals' = signals \cup {s}
  /\ UNCHANGED <<pc, turn, parseLeft, transportLeft, hint, call, observations,
                 failureStreak, lateTools>>

-----------------------------------------------------------------------------
Loop == PrepareTurn \/ ExceedTurns \/ Abort \/ ObeyStop \/ CallPlanner

Answer ==
  \/ \E c \in Calls : ChooseTool(c)
  \/ Finish
  \/ RetryParse
  \/ RetryTransport
  \/ \E error \in {"parse", "transport", "fatal"} : PlannerFails(error)

Tool == \E ok, cached \in BOOLEAN : RunTool(ok, cached)

Next == Loop \/ Answer \/ Tool \/ \E s \in {"stop", "intervene"} : Nudge(s)

Spec == Init /\ [][Next]_vars

\* The loop runs, a planner call returns or times out, and so does a tool.
\* Nothing is assumed of the parent.
FairSpec == Spec /\ WF_vars(Loop) /\ WF_vars(Answer) /\ WF_vars(Tool)

-----------------------------------------------------------------------------
(* Properties *)

TypeOK ==
  /\ pc \in {"turn", "plan", "planner", "tool"} \cup Ended
  /\ turn \in 0..MaxTurns
  /\ parseLeft \in 0..ParseRetries
  /\ transportLeft \in 0..TransportRetries
  /\ hint \in Hints
  /\ call \in Calls
  /\ observations \in Seq(Observation)
  /\ failureStreak \in Nat
  /\ signals \subseteq {"stop", "intervene"}
  /\ lateTools \in Nat

\* The failure budget counts exactly the failures since the last success that
\* was not served from the cache: looking again at something already read
\* does not hide that the run is stuck.
FreshFailures ==
  {i \in 1..Len(observations) :
     /\ ~observations[i].ok
     /\ \A j \in i..Len(observations) : observations[j].ok => observations[j].cached}

StreakIsExact == failureStreak = Cardinality(FreshFailures)

\* "child finishes at end of its current turn": once the parent has asked it
\* to stop, a subagent runs at most the one tool its planner was choosing.
StopIsPrompt == lateTools <= 1

\* Whatever the planner, the tools and the parent do, a run ends: by a finish,
\* by a stop, by the turn budget or by an error.
Terminates == <>(pc \in Ended)

\* The loop keeps the contract of RunContract.
Contract == INSTANCE RunContract
              WITH outcome <- IF pc \in Ended THEN pc ELSE "running",
                   ran <- Len(observations)

ImplementsContract == Contract!Spec

-----------------------------------------------------------------------------
(* What the comments say, and the code does not do *)

\* prepare_turn: at a streak of 7 "we copy the imperative form into
\* `recovery_hint` so it lands as a prepended system instruction (same channel
\* as parse-retry guidance), which the LLM does not get to opt out of": every
\* planner call of such a turn carries it.
OverrideStands ==
  pc = "planner" /\ ExplorationStreakReached => hint = "stop_exploring"
=============================================================================
