# SeedAgent: a verification project

SeedAgent (`src/`) is a command-line coding agent in Rust: a planner (a language
model) chooses tool calls one at a time, the tools work on files, a durable plan and a
memory directory, and every run is recorded. This directory holds TLA+ models of its
stateful parts, the TLC instances that check them, and TLAPS proofs.

- [The system](#the-system-and-its-parts)
- [What makes it correct](#what-makes-each-part-correct)
- [The modules and the code](#the-modules-and-the-code)
- [Runs](#runs), [bounds](#bounds), [fairness](#fairness)
- [Proofs](#proofs)
- [Where code and documentation disagree](#where-code-and-documentation-disagree)
- [What is not modelled](#what-is-not-modelled), [plan](#plan)

To check a run: `tlc -config <cfg> <module>`; to check proofs: `tlapm <Module>Proofs.tla`.

## The system and its parts

| Part | Source | State | Operations | Model |
|---|---|---|---|---|
| Durable plan store | `agent-plan`, `agent-tools/src/plan.rs`, `agent-cli/src/commands/plan.rs` | `plan.md` (checkbox items), `state.json` (status, attempts, ledger), `verify_context.json` per plan | create, snapshot, list / active brief, complete, append items, record artifact / handoff, write verify context, record verification | `PlanStore`, `PlanGate` |
| Agent turn loop | `agent-runtime` (`run_agent_loop_with_state_planner_retries`), `agent-cli/src/commands/run.rs` | turn counter, retry budgets, recovery hint, observations, failure streak | prepare a turn, ask the planner, retry, run a tool, finish, give up | `AgentLoop`, `RunContract` |
| Tools of a run | `agent-tools` (`files.rs`, `sync.rs`, `memory.rs`, `skills.rs`, `repoprompt_bridge.rs`), `run.rs`, `exec.rs` | read cache, files read, tools permitted by a skill, queued RepoPrompt directory | read, patch, write, fetch memory or a skill, call RepoPrompt | `ToolRun` |
| Subagents | `agent-tools/src/subagent.rs` | queue, workers, child processes, signal files | spawn, spawn map, nudge, consume signals | `Subagents` (and the child's reaction in `AgentLoop`) |
| Processes behind a call | `shell.rs`, `subagent.rs`, `agent-repoprompt` | child, pipes, reader threads | spawn, read, wait with a limit, kill, join | `ChildCall` |
| Codex client | `agent-delegate`, `codex_session.rs` | child process, reader thread, request ids, thread and turn ids, launch fingerprint | ensure, initialize, start a thread / turn, stream, answer a server request, shut down | `CodexClient` |
| Working memory, prompt | `agent-runtime` (`WorkingMemory`), `memory_protocol.rs` | bounded lists of turns, folded turns, facts, skills; an open long-term update; guard hints | record, observe, fold, rebuild from a trace, render | `WorkingMemory`, `PlannerTurns` |
| Planners | `run_planners.rs`, `agent-llm`, `agent-runtime` (parsing of replies) | chat id or session id of a run, a reply being streamed | ask the oracle, steer an agent session, a Codex turn, an HTTP stream; parse, retry | `PlannerTurns`, `PlannerReply`, `LlmProvider` |
| Run records | `agent-core/src/session.rs`, `agent-memory`, `run.rs`, `exec.rs` | one JSONL log per run, `session_archive.jsonl`, `index.json` | open, append, read back, archive, cap, rebuild | `RunRecords` |
| Interactive shell, workspace, RepoPrompt binding | `interactive.rs`, `codex_session.rs`, `sync.rs`, `agent-tools/src/lib.rs` | working directory, provider, model, mode, last goal, kept Codex client, bound window, queued and sticky directories | goals, slash commands, fetch of a skill, routed calls, windows that change | `Workspace` |
| Skills | `agent-skills`, `main.rs` (`consolidate_run_skill`), `agent-memory` (its index) | the `SKILL.md` files | list, search, fetch, route, create, learn from a run | `Library` |
| RepoPrompt client | `agent-repoprompt` | none between calls | run one external command with a time limit | the process in `ChildCall`, the window in `Workspace`, conversations in `PlannerTurns` |
| Import of plans and reviews | `agent-plan`, `plan_repoprompt.rs` | none | markdown to steps and fixes | `PlanImport` |
| Shell classification, evaluation, display, doctor | `shell.rs`, `eval.rs`, `display.rs`, `doctor.rs` | none | text | not modelled |

How they interact. `run_goal` resets the per-run guards, rebuilds the memory index,
starts a session file and hands two closures to the turn loop: the planner closure
(signals, memory context, active plan brief, planner call) and the tool closure (cache,
run mode, guards, tool, index rebuild, failure streak). The tools share thread-local
state (`sync.rs`) and the workspace; the planner sees the result of one call in the next
prompt. A planner may be the Codex app-server, a child process that outlives the goal.
A child run is steered through files in its watch directory. A plan is shared by every
run and command line invocation of the workspace.

What is hard about it: calls that look like reads but write (`snapshot`); a status that
is partly derived and partly sticky; several retry budgets in one turn; signals that
arrive at any moment and files that are consumed while they are written; a cache in
front of tools with side effects; guards that were meant to be consulted each turn; a
server whose late answers arrive in somebody else's turn; pipes, threads and time limits
around child processes. `PROJECT.json` lists these hazards at their lines.

## What makes each part correct

- *Plan store*: a plan is verified only through its gate; attempts, ledger, boxes and
  status tell the same story after any sequence of calls; evidence is never rewritten;
  the index a planner was given keeps naming the same item.
- *Turn loop*: a run ends within its budgets; a stop is obeyed before a second tool; the
  failure budget counts what it says it counts; instructions to the planner arrive.
- *Tools*: no file changes that the run has not read; generated files hold generated
  text, what RepoPrompt and others outside do apart; a read-only run changes nothing but
  through RepoPrompt; a cached answer is a current answer.
- *Subagents*: one entry per task in order; no more children than allowed and none left
  behind; a stop is never lost, a message is applied once; the call returns.
- *Child processes*: the output of a pipe is returned whole or, if it is not text, not at
  all; no pipe blocks for ever; the limit holds.
- *Codex client*: an answer belongs to the prompt; approvals are answered; every prompt
  comes back.
- *Working memory and planners*: what is remembered is what happened, each turn told once
  and in order; a run stays in the conversation RepoPrompt has named.
- *Run records*: log, archive and index tell the same story whoever is killed when; a log
  can be replayed; the archive keeps its cap.
- *Workspace*: a run, its Codex client and its RepoPrompt calls work in the directory the
  user means; nothing of one run leaks into the next.
- *Skills*: what was made can be found again; learning makes no second skill for a tool
  that has one, and loses nothing.
- *Import*: the steps of a plan are those under its headings; fixes stay fixes.

## The modules and the code

`PlanStore.tla` is `PlanStore` of `agent-plan` with the tools and CLI commands made of
it. A plan is its sequence of items (kind and box), its status, its attempts, its ledger
of verdicts and its artifacts; an action is one call of the store as the code makes it,
including the snapshot that ends most of them and rewrites `state.json`. `plan_verify`
is two actions (before and after the verifier runs), since other calls can come between.
`PlanGate.tla` is the abstract promise for one plan: work, verification, verdict, and
the statuses a reader may see. `PlanStore` implements it (`ImplementsGate`, a refinement
mapping per plan). `MCPlanStore.tla` gives the constants.

`AgentLoop.tla` is the loop of `agent-runtime` with the closures of `run.rs`: `pc` is
the place in one turn (`turn`, `plan`, `planner`, `tool`), the answers of planner and
tools are chosen freely, signals arrive at any moment. Each retry counter, the recovery
hint with its several writers, and the failure streak (a cell shared by both closures)
are variables. `RunContract.tla` is what a caller sees: a bounded number of observations
and one of three endings. `AgentLoop` implements it (`ImplementsContract`).

`ToolRun.tla` is what lies between the planner's call and the file system: the cache of
declared pure reads, the run mode, `durable_write_guard`, `read_paths_guard`, the tools
themselves, the rebuild of the index after a durable write, `skill_tools_guard` and the
directory queue of `repoprompt_sync`. A file is a text out of a small set; others may
change or remove it between two calls (`outside`). `repoprompt_call` passes any tool of
RepoPrompt on, `apply_edits` and `file_actions` too, past every guard and in every run
mode: `RepoPromptEdits` creates, rewrites, removes or moves files, and `delegated`
remembers which. `MCToolRun.tla` gives files and skills.

`CodexClient.tla` is `CodexAppServerClient` and the `CodexSession` that keeps it. The
lines on their way are in `out` (about to be written), `stdin`, `stdout` and `rx` (the
channel of the reader thread); `pc` is the request waited for, or the stream of a turn.
Requests carry ids, messages of a turn its turn. The server is external: it answers in
order, reports on a turn only after it answered for it, asks for an approval whenever it
likes and dies whenever it likes. A turn the client gave up goes on in the server.

`Subagents.tla` is `spawn_subagent_map` (a worker is a thread of the scope, `queue` and
`results` are behind their locks), `spawn_one_subagent` (refusal, start, end, kill) and
the file protocol: `Open`/`Fill` are the two halves of `fs::write`, `Read`/`Unlink` the
two halves of the consumer, so both sides interleave inside a file. A directory is named
by the clock, as `simple_id` does. `MCSubagents.tla` gives the names of the text signals.

`ChildCall.tla` is the pattern three places share: spawn, one reader per pipe,
`wait_timeout`, `kill`, join. Descendants that inherit a pipe are in `holders`. A reader
keeps what it read (`kept`) only if all of it was UTF-8: `read_to_string` fails otherwise,
and its error is dropped. `ShownOf` and `WasTruncated` are what `run_shell` tells of it.

`RunRecords.tla` is everything a run writes about itself, as run_goal and
`execute_call_with_turn` write it, by several processes in one project. A log line is two
writes, so that a file is `torn` in between (or for good, when its writer is killed);
`Rebuild` reads the newest logs one after the other and fails on a torn one; an archive
record is two writes, and the rotation a read, a truncation and a write. Each process has
the place it is at (`pc`), for each way a run may end. `MCRunRecords.tla` adds symmetry.

`Workspace.tla` is the shell. `flags` is how it was started: with `--codex` a goal goes to
Codex as it is, whatever the provider is, with `--record-only` (alone) to nobody. `cwd`, `args`, `lastGoal` and `client` are its state, `bound`,
`override`, `sticky` and `narrowed` the thread's state in `sync.rs` and the skill guard,
`serves` the windows of the RepoPrompt app. An action is a slash command, the start or
end of a goal (with all resets, `CodexSession::ensure` and the poll for a sticky
directory), a fetch, or a RepoPrompt call with its resolution of directory and window.

`WorkingMemory.tla`, `PlannerReply.tla` and `LlmProvider.tla` are operators: the bounded
lists with their folding, the anchor and the hints; from a reply to an action, with the
repairs of its JSON; which HTTP request can be sent at all. `PlannerTurns.tla` composes
them into the turns of a run with each of the four kinds of planner: asking (a new or the
old conversation), an answer that names its conversation or does not, and comes from it or
from another (`heard`; the oracle follows every id, the agent keeps the first, Codex
starts a thread per prompt and keeps none), a reply that arrives in pieces and may break off, a status that is not
"completed", retries and their hint, and the tool whose outcome is remembered.
Where `AgentLoop` counts budgets and signals, `PlannerTurns` has what is said.

`Library.tla` is the skills directory. A text is known by the terms that are compared and
by the headings it has or quotes. Looking up (`SearchSkills`, `FetchSkill`, `Route`,
`SearchIndex`) are operators that say what is shown by what comes before it in the order of
the code, and learning is the actions from `RunEnds` to
`Settle`: a free name, RepoPrompt's answer, the decision, and then a read and a write, or
the creation. `PlanImport.tla` is the same kind of thing for markdown: a document is a
sequence of lines by their mark and keywords; `MCPlanStore` derives from it the steps and
fixes that `PlanStore` runs with, and compares it with a reference definition.

The modules meet in their alphabets rather than in one composition: what `Subagents`
delivers are the signals of `AgentLoop`; a child's life in `Subagents` (`Exit`,
`TimesOut`) is a call of `ChildCall`; a tool's answer in `AgentLoop` (ok, error, cached)
is what a call of `ToolRun` ends with; an answer of the planner is a prompt of
`CodexClient` that comes back.

## Runs

| Run | Shows |
|---|---|
| `PlanStore` | one plan, every call: invariants, action properties and the refinement of `PlanGate`; the import of plans and reviews against its reference (`ASSUME ImportIsRead`) |
| `AgentLoop` | every run of up to four turns ends, obeys stops, counts failures, implements `RunContract` |
| `ToolRun` | no sequence of calls of the file tools changes an unread file or falsifies a generated one, whatever RepoPrompt edits in between |
| `ToolRunReadOnly` | in a read-only run only RepoPrompt's tools change files; a queued directory serves one call |
| `CodexClient` | late answers, stale events, approvals and a dying child: the answer is the prompt's own and the prompt comes back |
| `Subagents` | three tasks, two workers, one nudge: order, no child left, no stop lost, nothing applied twice, the call returns |
| `ChildCall` | two pipes, descendants and a time limit: a pipe's output comes whole or not at all, no pipe stays full |
| `RunRecords` | two processes without locks, one killed anywhere: the three records of a run agree, logs replay, the archive keeps its cap |
| `Workspace` | goals and slash commands in any order, with and without `--codex` and `--record-only`: runs, the kept client and RepoPrompt calls are where the user is |
| `PlannerTurns` | runs with each kind of planner, answers late, garbled, cut or refused: memory and anchor stand, and so does a conversation that was named |
| `Library` | skills made, learned, written and deleted: reachable, disjoint, and nothing lost by learning |
| `ToolRunRead` | a violation: see [below](#where-code-and-documentation-disagree) |

`PlanStorePair.cfg` (module `MCPlanStore`) checks two plans side by side in the same way:
a call about one, or without an id, or over all plans, keeps each to `PlanGate`.

Every property of a passing run has a mutant, an operator `Mutant_X` beside the
definition `X` it replaces: a plausible slip in that piece of code, under which TLC finds
the property violated.

`CHECK_DEADLOCK FALSE` is set where the system may stop: a run that ended, a call that
returned, or all of the bounded inputs used up.

## Bounds

- *Plans*: four items (a step, the gate, and two that are appended) and three
  verifications are enough for a pass after a fail, a second fail, work after a verdict,
  and a fix placed before and behind the gate. The pair is smaller in each plan.
- *Import*: all documents of up to four lines of eight kinds: a heading that opens, one
  that closes, a list item in between and one behind.
- *Turn loop*: four turns, one retry of an unparsable answer and two of the transport, a
  failure budget of two, exploration cut off after two reads. The limits are compared,
  never computed with, and each is passed from both sides.
- *Tools*: a source file and a generated file of durable memory with texts of up to two
  blocks; in the read-only run two skills and the directory of one. Guards ask about one
  file at a time, and the cache needs two calls about one; it holds one answer (two in
  the read-only run).
- *Codex*: two prompts, one delta per turn, pipes of one line, two fingerprints. The
  hazards are between one prompt and the next: a turn given up, and its successor.
- *Subagents*: three tasks on two workers (one worker is reused, one waits), one nudge
  of a message and a stop, a clock that ticks twice, so that two directories may or may
  not coincide.
- *Child*: two pipes of two chunks, four chunks each: a full pipe, a chunk in flight, a
  chunk written after the kill by a descendant; any chunk may spoil the text of its pipe.
- *Records*: two processes, two sessions (one may be a parent's, one its child's), one
  call each, one kill; the rebuild reads two logs and the archive keeps one record, so
  that both limits are passed.
- *Workspace*: two directories, two windows, a sticky and a narrowing skill, a read-only
  goal and one that writes, a model and none. Every piece of state has two values to
  disagree about; commands come in any number.
- *Planner turns*: four turns; a history of one, one folded line and two facts, so that
  each list overflows; hints every two to four turns; one retry of each kind; a stream of
  two pieces; every kind of planner, and the HTTP requests that cannot be sent.
- *Library*: one goal whose runs differ in tools, quotes and outcome; names that share a
  slug or have none; a skill by hand that goes by a taken name, and one that cannot be
  read. One terminal, whose user waits for the end of a run (`Alone`); what happens
  otherwise is below.

## Fairness

- `AgentLoop`: weak fairness of the loop itself. A planner call is bounded by
  `turn_timeout_secs` and a tool by its own limits; a tool that asks the user assumes an
  answer. Nothing is assumed of the parent that sends signals.
- `CodexClient`: of the client, its deadlines and its reader thread; of the server only
  that it reads its stdin. `send` has no deadline, so without that a prompt longer than
  the pipe can block for ever; this is listed as a hazard.
- `Subagents`: every worker thread runs, and a child's time limit passes
  (`timeout_secs` is clamped to an hour). Nothing is assumed of the children.
- `ChildCall`: the reader threads run and the limit passes. Nothing is assumed of the
  child and its descendants: `ReturnsWhenClosed` says what follows once they let go.

## Proofs

The theorems hold for every value of the constants that meets the assumption named in
the module (`PlanAssumptions` and the like: bounds are natural numbers, names differ).

- `PlanStoreProofs`: `TypeCorrect`, `AttemptsAgree`, `StatusAgrees`, `FailedIsExplained`.
  The inductive invariant is `Frame` (the shape of the whole state, ids, clock) and
  `EveryPlan` (per plan: types, attempts and ledger in step, boxes and status, the reason
  of a failure). It is needed because `record_verification` passes through `complete`,
  which reloads the state: only with attempts and ledger tied together is the reload
  harmless. One lemma per call of the store says that the plan it writes is well formed.
  `LedgersOnlyGrow`, `PlacesKept` and `KeepsGate` (the refinement of `PlanGate`: initial
  states map to initial states, steps to steps or stutters) follow from what each call
  does to one plan; a plan that is absent has no items, so that making it loses none.
- `AgentLoopProofs`: `TypeCorrect`, `StopObeyed`, `BudgetExact`, and `KeepsContract`, the
  refinement of `RunContract` (initial states map to initial states, steps to steps or
  stutters). The invariant adds `Progress` (the turn number is the number of
  observations, up to the place in the turn) and `LateIsWaiting` (a stop one tool was
  late for is still in its file): the contract bounds observations, the code bounds turns.
- `ToolRunProofs`: `TypeCorrect`, `UnreadSurvive`, `GeneratedStays`,
  `OtherwiseReadOnly`, `OneCallPerFetch`. The lemma `CallTouches` says for every tool which files it can change;
  the invariant `FilesInv` relates files, files read and the files that RepoPrompt or
  others changed (`Foreign`), of which nothing is claimed. `OneLookEach`
  says that the looks taken with a skill's directory and the directory still queued are
  together no more than the fetches that reached the skill, which the cache remembers.
  Its last section is about `ChildCall`: `CallTypeCorrect` and `OutputStaysWhole`. The
  invariant adds `DoneIsClosed`: a reader that is done has left an empty pipe that nobody
  holds; that the readers were joined says nothing about the output without it.
- `CodexClientProofs`: `AnswerStaysOwn`, `ThreadStaysOwn`, `ApprovalsStayAnswered`. The
  invariant reads the pipes and the queue behind the reader thread as one line of
  messages in their order. The thread and the turn a prompt waits for are given by ids
  that nobody has used before, so that what is still on its way from an earlier prompt
  carries an older one; of the own turn the deltas that were taken and those still on the
  way make up what the server has said, each once and in order. An approval is one token:
  the turn that waits for it has a request on the way or an answer on the way back.
- `WorkspaceProofs`: `TypeCorrect`, `WorksWhereAsked`, `CallsAreOfRun`, `ClientIsUsed`,
  for any flags the shell was started with.
  The invariant adds to the types `DirectoryIsKept` (between two goals the shell is where
  the user asked, and the directory a sticky fetch left is one the user asked for),
  `ClientIsConfigured` (what the kept client was started with) and `QueueIsOfRun` (the
  directories queued for RepoPrompt come from the run or from skills it fetched): what a
  run finds was left by commands given long before it.
- `SubagentsProofs`: `ChildrenHaveWorkers` and `StopIsNotLost`. The invariant of the pool
  says that a task is started once: what is in the queue or about to be started has no
  child and nobody else holds it. That of the signals says that a directory that was
  `Stopped` still has its stop, where a stop counts from the moment a child has removed a
  file whose writer is not done with it: by the time the nudge returns the child may have
  acted on it. `SignalsApplyOnce` rests on the texts being distinct: what a child took is
  older than every nudge that comes, and in no file. `AnswersInOrder` counts: a task is in
  the queue, in the hands of one worker, or has one entry (`OnePlace`), and a sorted list
  with one entry for each of the tasks 1 to n has entry k at place k.
- `RunRecordsProofs`: `RecordsStayTrue`, `LogsStayTraces`, `ArchiveStaysBounded`, for any
  finite number of processes. The invariant holds each process against its own log
  (`Sound`, `Fits`): the place it is at says what the log holds by then, whether a call is
  owed its result, whether the run has ended. No two processes share a log (`Apart`) and a
  log only grows (`Extends`), so that what one process has read of another's log stays
  true when it writes it down later. The bound of the archive is a count (`ArchiveCount`):
  a record counts once its newline is out or its writer is gone, and for every line beyond
  the cap there is a process on its way to the rotation, or one that was killed there.
- `PlannerTurnsProofs`: `OneConversation` and `AnchorIsComplete`. The first is about
  RepoPrompt's two planners, as long as RepoPrompt keeps to a conversation and has named
  it (`~strayed`), and rests on `SpokeHere`: what was acted upon and what is about to be
  read come from the conversation that is kept. The invariant of the
  second, `Telling`, says what the memory tells at every place of the turn, so that a
  failed attempt changes nothing. Its heart is `SummaryTells`: a list that has reached its
  limit loses one turn for each that comes, which is why the line above the history is
  about that turn alone and no turn falls between the two lists. `MemoryIsTheTrace` is
  about `from_observations`, a recursive function. The provers have no induction for it, so
  the proof takes the least number of observations that has no replay, or for which two
  replays differ, and contradicts it (`ReplayExists`, `ReplaysAgree`); what remains is one
  equation per observation (`RebuiltFromOneMore`), and the invariant `Rebuilt` uses it once,
  where a tool has answered.

- `AgentLoopProofs`, second half, about `Library` (the modules share no state; what a run
  does while it lives comes first, what it leaves behind second): `LibraryTypeCorrect` for
  any number of terminals, `LearnedStayDisjoint` and `LearningOnlyAdds` for one at which
  runs learn. `LearnedStayDisjoint` needs no more, and the user may write and remove skills at any
  time: what is about to be written (`Writable`) shares no tool with what is learned
  elsewhere, a new skill because one shared tool would have made the other similar
  (`SharedToolIsSimilar`), an old text that comes back because nothing else was learned
  since it was read. `LearningOnlyAdds` needs a user who waits (`Alone`): then the name picked is
  still free and the text read is still the one on disk (`UpToDate`); without it the run
  `LibraryLearningAdds` below loses a skill. `MadeStayReachable` needs neither: whoever
  overwrites whom, a text the program made lies in the directory of its name
  (`LiesAtItsName`), and so does one that is read and written back later (`Brought`). So no
  second made skill can take a name, and everything that lacks a word of it is found behind
  it (`FewerWords`, `ShownByName`, `ShownByTitle`). Of the skills that ship it is assumed
  that they lie at their names, as those under `src/skills` do.

Every safety invariant and every action property that a passing run checks is stated by a
theorem. Only model-checked: liveness and everything with fairness (the prover has no
ENABLED); and what the operators of `PlanImport`, `PlannerReply` and `LlmProvider` compute
for every input: they filter and fold sequences, `SelectSeq` has no definition the provers
can open, and a fold is reached only by an induction over its data.

## Where code and documentation disagree

Each is a property that states what a document, a comment or a message of the program
says, violated by the model. `ToolRunRead` is a run of
the list above; the other configurations can be run in the same way. A `...Divergences.cfg` names several properties, of which one at a time
is to be left uncommented.

| Configuration | Property | What happens |
|---|---|---|
| `PlanDivergences` | `VerifiedByVerifier` | `plan_complete` ticks the `[VERIFY]` box and the plan is verified without a verdict |
| `ToolRunRead` | `CachedReadIsCurrent` | `read_file` after a write of the same run shows the old text |
| `SubagentsDivergences` | `MessageStands` | a child that looks between truncation and filling removes the message |
| `ChildCallDivergences` | `SliceIsTold` | "emit truncation metadata so the planner can tell when it's only seeing a slice" (`shell.rs` 274-275): one byte that is not UTF-8 empties the output, and nothing is said |
| `ChildCallDivergences` | `TimeoutBounds` | a process left in the background holds the call beyond its limit |
| `PlanDivergences` | `VerifiedPromptTrue` | "returned PASS" for a report without a verdict when every box is ticked |
| `PlanDivergences` | `FixIsNext` | the next item after a FAIL is the gate, not the `[FIX]` item |
| `PlanDefault` | `DefaultPlanIsActive` | a call without an id answers for the directory modified last, which may be a finished plan |
| `PlanDivergences` | `GuardAfterVerified` | the guard for a verified plan asks `active_brief`, which never returns one |
| `AgentLoopOverride` | `OverrideStands` | a retry or an intervene message replaces the "stop exploring" instruction |
| `ToolRunDivergences` | `NarrowingApplies` | a fetched skill narrows no tool of the run that fetched it |
| `ToolRunReadOnlyMutates` | `ReadOnlyMutatesNothing` | "Whether a run is allowed to mutate the project" (`agent-core` 9): a read-only run edits files through `repoprompt_call` |
| `ToolRunReadOnlyMutates` | `GeneratedIsReadOnly` | "generated indexes (L1) are read-only from the tool layer" (`README.md` 84-85): not for `repoprompt_call` |
| `ToolRunDivergences` | `FetchCountsAsRead` | `memory_fetch` shows a file but does not count as reading it |
| `ToolRunDivergences` | `LastSkillWins` | a skill fetched again comes from the cache and does not take effect again |
| `ToolRunDivergences` | `OverrideConsumedByNextCall` | a cached RepoPrompt look does not consume the queued directory |
| `CodexDivergences` | `TokensAreOwn` | the token usage of a turn given up is counted for the next |
| `CodexDivergences` | `EnsuredIsLive` | a client whose child has died is kept until `/new` |
| `SubagentsDivergences` | `OwnDirectory` | two children started at the same clock reading share a directory |
| `RunRecordsDivergences` | `FreshIsKept` | "doesn't lose the freshly-recorded session" (`agent-memory` 697-699): a rotation begun by another process, or cut off after its truncation, drops it |
| `RunRecordsDivergences` | `CallsAreAnswered` | "replayable end-to-end" (`exec.rs` 3): the rebuild behind a durable write meets another process's half line, and the call has no result in the log |
| `WorkspaceDivergences` | `CacheIsOfBind` | the cached window is "from the last successful bind" (`sync.rs` 130): after a call that named a window it is that one |
| `WorkspaceDivergences` | `StickyIsApplied` | "workspace.cwd after current turn" (`skills.rs` 188): a fetch in a goal started by `/retry` is dropped by the next goal |
| `WorkspaceDivergences` | `RecordOnlyStartsNothing` | "Record goals locally without invoking an LLM" (`main.rs` 87): with `--codex` too, Codex gets the goal |
| `PlannerDivergences` | `SteersOneSession` | "Subsequent turns: steer on the same session" (`run_planners.rs` 191-192): when the answer named no session the next turn starts another, after an action was carried out |
| `PlannerDivergences` | `RejectionIsFatal` | "4xx, auth rejection" is fatal (`RuntimeError`): every error of an HTTP provider is one that is retried with a pause |
| `PlannerDivergences` | `AdviceIsOffered` | the prompt of a late turn advises `tool_describe` to runs that do not offer it |
| `PlannerDivergences` | `EarlyTurnsAreKept` | "keep some signal of early-turn context": turns are dropped once the folded list is full |
| `PlannerDivergences` | `PartialIsDiscarded` | "Partial output is discarded": a stream that ends early without an error is parsed |
| `PlannerBudgetStands` | `BudgetStands` | "Deep goals get a larger exploration budget": the streak limit stops them before it is spent |
| `LibraryDivergences` | `SettledIsWritten` | `changed: true` is logged although a heading that is only quoted swallowed the update |
| `LibraryDivergences` | `UpdatedIsSimilar` | "updates a similar existing one" (`README.md` 122): one tool in common is similar enough |
| `LibraryDivergences` | `CreatedIsNew` | the same sentence: a goal repeated without tools makes a second skill, since terms keep hyphens |
| `LibraryDivergences` | `FetchGivesNamed` | a name without letters of a slug matches every other such name |
| `LibraryLearningAdds` | `LearningAdds` | two terminals: a skill written between the choice of a name, or the reading, and the write is overwritten |

Smaller ones, met while modelling and without a property: the planner's cached memory
(`agent-memory` 281-284) is never used by a run, since the rebuild before it changes the
file times it is stored under; a torn log among the 20 newest keeps every `seed run` of
the project from starting; a `#` comment in a fenced script of a plan counts as a
heading and ends the plan, and a step whose text contains `[VERIFY]` becomes a gate
(`PlanImport`); one skill file that is not UTF-8 fails every listing and every rebuild.

## What is not modelled

- Wording: prompts, rendering, truncation, secrets detection, the classification of shell
  commands, the characters of JSON and markdown. What the parsers tell apart is kept.
- Files below a call in `PlanStore`: one call is one step. A crash between the two files
  of a plan leaves boxes without their status; the next snapshot infers the status from
  the boxes, so only a sticky status or a ledger entry can be lost. Two processes on one
  plan lose updates; the code has no lock and promises none.
- Tools of a run that only read or delegate (search, web, ask user) beyond the loop.
- Subagents that share their parent's memory are two processes of `RunRecords`; their
  nesting depth is not modelled.
- What an approval of the Codex server answers under which mode; launch commands.
- Command line, terminal output, evaluation and benchmarks.

## Plan

Done, in this order: plan store and its gate, turn loop and its contract, tools of a
run, Codex client, subagents, child processes, run records, workspace, working memory
and planners, skills, import. Left, in the order of importance:

1. `PlanFiles`: the calls of `PlanStore` at the level of reading and writing `plan.md` and
   `state.json`, by two processes, with crashes, and that one process alone refines
   `PlanStore`.
2. A composition of `AgentLoop` with `ToolRun`, so that the failure streak and the read
   cache are one state.
