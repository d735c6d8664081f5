---------------------------- MODULE MCPlannerTurns ----------------------------
(***************************************************************************)
(* PlannerTurns for TLC: one way to start each kind of planner, the HTTP    *)
(* requests that cannot be sent, five calls and one reply of each class     *)
(* the parser tells apart.  The limits are small, so that lists overflow    *)
(* and every hint comes within four turns.                                  *)
(***************************************************************************)
EXTENDS PlannerTurns

CONSTANTS fact, other, skill

Plain(name) ==
  [name |-> name, fact |-> None, skill |-> None, mutates |-> FALSE, valid |-> TRUE]

MCCalls ==
  {Plain("read_file"),
   [Plain("run_shell") EXCEPT !.mutates = TRUE],
   [Plain("update_working_checkpoint") EXCEPT !.fact = fact, !.skill = skill],
   [Plain("start_long_term_update") EXCEPT !.fact = other],
   [Plain("complete_long_term_update") EXCEPT !.fact = other]}

Reply(action) ==
  [around |-> "bare", slips |-> {}, action |-> action, summary |-> "text",
   tool |-> "name", args |-> "object", answer |-> "text"]

MCAnswers ==
  {Reply("tool"), Reply("finish"),
   [Reply("tool") EXCEPT !.around = "fence", !.slips = {"comma"}],
   [Reply("tool") EXCEPT !.args = "null"]}

Setting(kind) ==
  [kind |-> kind, id |-> None, model |-> None, environment |-> {},
   child |-> FALSE,
   goal |-> {"analysis"}, tools |-> {"read_file", "run_shell"}]

Web(id, model, environment) ==
  [Setting("http") EXCEPT !.id = id, !.model = model, !.environment = environment]

MCSettings ==
  {Setting("oracle"), Setting("agent"),
   [Setting("codex") EXCEPT !.child = TRUE],
   Web("openai", "gpt-5", {"key"}),
   Web("openai", "other", {"key"}), Web("openai", "gpt-5", {}),
   Web("openai_compatible", "gpt-5", {"key", "url"}),
   Web("opencode", "claude-", {"key", "url"}), Web("nobody", "gpt-5", {"key"})}

\* A deep goal that only reads.
MCDeepSettings ==
  {[Setting("codex") EXCEPT !.goal = {"analysis", "deep"}]}

MCReading == {Plain("read_file")}

=============================================================================
