---------------------------- MODULE WorkingMemory ----------------------------
(***************************************************************************)
(* What a run remembers between its turns and shows to the planner:         *)
(* agent-runtime's WorkingMemory (the turns so far, the key facts, the      *)
(* skills, an open long-term settlement, the guard hints), the tier of the  *)
(* tool catalogue, the routing rules and the budget its goal is given.      *)
(*                                                                         *)
(* Everything here is an operator: the loop that applies them is the        *)
(* subject of PlannerTurns.  A turn's summary is known by its turn, a fact  *)
(* or a skill by a model value, a hint or a rule by its name; the texts     *)
(* and their truncation are left out.                                       *)
(***************************************************************************)
EXTENDS Integers, Sequences, FiniteSets

CONSTANTS
  HistoryMax,    \* 30: turns told one by one
  EarlierMax,    \* 20: lines about the turns before those
  FactsMax,      \* 20: key_info and related_skills
  FewFacts,      \* 3: fewer facts than this call for a checkpoint
  NudgeEvery,    \* 3
  GuardEvery,    \* 7
  RefreshEvery,  \* 10
  StreakHint,    \* 5: exploring calls in a row before a hint
  StreakStop,    \* 7: and before the override
  NamesOnlyFrom  \* 5: the turn from which tools are listed by name alone

ASSUME WorkingMemoryAssumptions ==
  /\ {HistoryMax, EarlierMax, FactsMax, NudgeEvery, GuardEvery, RefreshEvery,
      StreakHint, StreakStop, NamesOnlyFrom} \subseteq Nat \ {0}
  /\ FewFacts \in Nat

-----------------------------------------------------------------------------
(* Lists with a limit *)

\* items.drain(0..extra) of a list that has become too long.
Newest(items, limit) ==
  IF Len(items) > limit
  THEN SubSeq(items, Len(items) - limit + 1, Len(items))
  ELSE items

RepeatsLast(items, value) == items # << >> /\ items[Len(items)] = value

PushLimited(items, value, limit) ==
  IF RepeatsLast(items, value) THEN items ELSE Newest(Append(items, value), limit)

\* fold_earlier_entries: one entry that leaves the history is kept as it is,
\* several become one line about the first and the last of them.
FoldEarlier(earlier, drained) ==
  IF drained = << >> THEN earlier
  ELSE Newest(Append(earlier, <<drained[1], drained[Len(drained)]>>), EarlierMax)

Mutant_Drained(items, limit) == << >>

\* push_history_with_fold: the entries which leave the history are folded.
Drained(items, limit) ==
  SubSeq(items, 1, IF Len(items) > limit THEN Len(items) - limit ELSE 0)

-----------------------------------------------------------------------------
(* The memory *)

None == "none"

EmptyMemory ==
  [history |-> << >>, earlier |-> << >>, facts |-> << >>, skills |-> << >>,
   settlement |-> None]

RecordSummary(memory, turn) ==
  IF RepeatsLast(memory.history, turn) THEN memory
  ELSE LET turns == Append(memory.history, turn)
       IN [memory EXCEPT !.history = Newest(turns, HistoryMax),
                         !.earlier = FoldEarlier(memory.earlier,
                                                 Drained(turns, HistoryMax))]

\* An observation tells the tool, what it was called with and whether it
\* succeeded.  A checkpoint may name a fact, a skill, or both.
Learnt(memory, call) ==
  [memory EXCEPT
     !.facts = IF call.fact = None THEN @
               ELSE PushLimited(memory.facts, call.fact, FactsMax),
     !.skills = IF call.skill = None THEN @
                ELSE PushLimited(memory.skills, call.skill, FactsMax)]

\* observe_tool_result: the settlement opens, closes with a fact, or a
\* checkpoint is noted.  A call that failed leaves no mark.
Observe(memory, call, ok) ==
  CASE ~ok -> memory
    [] ok /\ call.name = "start_long_term_update" ->
         [memory EXCEPT !.settlement = call.fact]
    [] ok /\ call.name = "complete_long_term_update" ->
         [memory EXCEPT !.settlement = None,
                        !.facts = PushLimited(@, call.fact, FactsMax)]
    [] ok /\ call.name = "update_working_checkpoint" -> Learnt(memory, call)
    [] OTHER -> memory

\* from_observations: the memory of a run, made anew from what its tools
\* answered.
FromObservations(observations) ==
  LET Upto[k \in 0..Len(observations)] ==
        IF k = 0 THEN EmptyMemory
        ELSE LET o == observations[k]
             IN Observe(RecordSummary(Upto[k - 1], o.turn), o.call, o.ok)
  IN Upto[Len(observations)]

-----------------------------------------------------------------------------
(* The guard hints *)

ExploringTools ==
  {"read_file", "read_files", "memory_search", "memory_fetch", "skill_search",
   "skill_list", "skill_fetch", "repoprompt_call", "repoprompt_exec",
   "repoprompt_tools"}

\* A shell command explores unless it begins with a verb that writes (or is
\* cargo, git, npm, make, ...).
Explores(call) ==
  \/ call.name \in ExploringTools
  \/ call.name = "run_shell" /\ ~call.mutates

\* How many marks at the end are all true.
TrailingRun(marks) ==
  Cardinality({k \in DOMAIN marks : \A j \in k..Len(marks) : marks[j]})

ExplorationStreak(observations) ==
  TrailingRun([k \in DOMAIN observations |-> Explores(observations[k].call)])

Failures(observations) ==
  TrailingRun([k \in DOMAIN observations |-> ~observations[k].ok])

RepeatedCall(observations) ==
  LET n == Len(observations)
  IN n >= 2 /\ observations[n].call = observations[n - 1].call

Every(turn, period) == turn > 1 /\ turn % period = 0

\* Which of the hints about the end of the run a turn gets.
EndHint(turn, maxTurns) ==
  CASE maxTurns > 1 /\ turn >= maxTurns -> "final_turn"
    [] maxTurns > 2 /\ turn + 1 = maxTurns -> "near_max_turns"
    [] maxTurns > 5 /\ turn + 3 >= maxTurns /\ turn + 1 < maxTurns -> "budget"
    [] OTHER -> None

GuardHints(facts, observations, turn, maxTurns) ==
  {hint \in {"failures"} : Failures(observations) >= 2}
  \cup {hint \in {"repeated"} : RepeatedCall(observations)}
  \cup {hint \in {"every_seven"} : Every(turn, GuardEvery)}
  \cup {hint \in {"checkpoint"} :
          /\ turn >= NudgeEvery /\ turn % NudgeEvery = 0
          /\ Len(facts) < FewFacts
          /\ observations # << >>}
  \cup {hint \in {"exploring"} : ExplorationStreak(observations) >= StreakHint}
  \cup {hint \in {"refresh"} : Every(turn, RefreshEvery)}
  \cup ({EndHint(turn, maxTurns)} \ {None})

\* prepare_turn: the hint has been ignored for long enough.
Override(observations) ==
  IF ExplorationStreak(observations) >= StreakStop THEN "stop_exploring" ELSE None

-----------------------------------------------------------------------------
(* The prompt *)

\* is_read_only_analysis_goal, is_deep_analysis_goal: a goal is known by the
\* kinds of words it holds.
GoalKind(words) ==
  CASE "analysis" \notin words \/ "implementation" \in words -> "action"
    [] "deep" \in words -> "deep"
    [] OTHER -> "light"

\* The calls for evidence that the guidance of the goal allows.
Budget(goal) == CASE goal = "deep" -> 8 [] goal = "light" -> 5 [] OTHER -> 0

\* The catalogue: with descriptions and schemas, or names and the advice to
\* ask tool_describe.
Catalogue(turn) == IF turn >= NamesOnlyFrom THEN "names" ELSE "described"

\* planner_tool_routing_block
Rules(tools) ==
  {rule \in {"explore"} : "repoprompt_call" \in tools}
  \cup {rule \in {"edit"} : /\ "repoprompt_call" \in tools
                            /\ {"patch_file", "write_file"} \cap tools # {}}
  \cup {rule \in {"git"} : {"repoprompt_call", "run_shell"} \subseteq tools}
  \cup {rule \in {"delegate_to_repoprompt"} :
          {"spawn_subagent", "repoprompt_call"} \subseteq tools}
  \cup {rule \in {"delegate_to_subagent"} :
          "spawn_subagent" \in tools /\ "repoprompt_call" \notin tools}
  \cup {rule \in {"ask"} : "ask_user" \in tools}
  \cup {rule \in {"batch"} : {"read_file", "read_files"} \subseteq tools}

\* The tools the prompt tells the planner to use, beside those it lists.
Advised(turn) == IF Catalogue(turn) = "names" THEN {"tool_describe"} ELSE {}

=============================================================================
