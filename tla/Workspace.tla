------------------------------ MODULE Workspace ------------------------------
(***************************************************************************)
(* The interactive shell (run_interactive) and the four places that know    *)
(* where the agent works: SeedWorkspace.cwd, the configuration of the kept  *)
(* Codex client, the window RepoPrompt was bound to, and the directories a  *)
(* fetched skill asked for.  They are brought together lazily: by the reset *)
(* at the start of a goal, by CodexSession::ensure, by the next RepoPrompt  *)
(* call and by the poll behind a typed goal.                                *)
(*                                                                         *)
(* The user types goals and slash commands in any order; inside a run the   *)
(* planner fetches skills and calls RepoPrompt; in the RepoPrompt app       *)
(* windows are opened and closed at any time.  The shell may also have been *)
(* started with --codex, when each goal goes straight to Codex, or with     *)
(* --record-only, when a goal is only recorded.  What a run answers, and    *)
(* what commands print, is left out.  A list of working directories is its  *)
(* one member.                                                              *)
(***************************************************************************)
EXTENDS Integers, FiniteSets

CONSTANTS
  Dirs,      \* directories with a project
  Windows,   \* RepoPrompt windows
  Goals,     \* goals the user types
  Models,    \* models the user may name
  Skills,    \* skills with RepoPrompt frontmatter
  SkillDir,  \* their first working directory
  Sticky,    \* those with sticky_cwd: true
  Narrows,   \* those with allowed-tools
  ReadGoals, \* the goals classify_run_mode calls read-only
  None       \* Option::None

ASSUME WorkspaceAssumptions ==
  /\ SkillDir \in [Skills -> Dirs]
  /\ Sticky \subseteq Skills /\ Narrows \subseteq Skills /\ ReadGoals \subseteq Goals
  /\ None \notin Dirs \cup Windows \cup Goals \cup Models

VARIABLES
  flags,     \* --codex and --record-only, as the shell was started
  cwd,       \* SeedWorkspace.cwd
  args,      \* what slash commands change: provider, model, mode
  lastGoal,  \* ReplState.last_goal
  client,    \* CodexSession.inner: the configuration of the kept client
  run,       \* the goal under way, None at the prompt
  override,  \* SyncState.pending_override
  bound,     \* SyncState.bound
  sticky,    \* SyncState.pending_sticky_cwd
  narrowed,  \* skill_tools_guard
  serves,    \* the directory each RepoPrompt window shows
  open,      \* the shell is running
  asked,     \* (history) the directory last asked for, by /cd or a typed goal's skill
  fetched,   \* (history) the skills fetched in this run
  call       \* (history) the last RepoPrompt call of this run

sync == <<override, bound, sticky>>
vars == <<flags, cwd, args, lastGoal, client, run, sync, narrowed, serves, open,
          asked, fetched, call>>

Modes == {"auto", "read", "write"}
Providers == {"codex", "openai"}
AtPrompt == open /\ run = None
InRun == open /\ run # None

\* use_codex comes before use_llm, which asks for neither flag: a goal is given to
\* Codex as it is, or to a planner of the provider, or is only recorded.
UsesPlanner == flags = {}
UsesClient == "codex" \in flags \/ (UsesPlanner /\ args.provider = "codex")

-----------------------------------------------------------------------------
(* Slash commands *)

\* /cd with a path that resolve_cd_target accepts: the directory changes and the
\* bound window is forgotten; Codex learns of it with its next turn.
Cd(d) ==
  /\ AtPrompt /\ d # cwd
  /\ cwd' = d /\ bound' = None /\ asked' = d
  /\ UNCHANGED <<flags, args, lastGoal, client, run, override, sticky, narrowed,
                 serves,
                 open, fetched, call>>

\* The client outlives a change of the provider.
Mutant_Provider(id) ==
  /\ AtPrompt /\ id # args.provider
  /\ args' = [args EXCEPT !.provider = id]
  /\ UNCHANGED <<flags, cwd, lastGoal, client, run, sync, narrowed, serves, open,
                 asked,
                 fetched, call>>

\* /provider: the kept client is dropped when Codex is left.
Provider(id) ==
  /\ AtPrompt /\ id # args.provider
  /\ args' = [args EXCEPT !.provider = id]
  /\ client' = IF args.provider = "codex" THEN None ELSE client
  /\ UNCHANGED <<flags, cwd, lastGoal, run, sync, narrowed, serves, open, asked,
                 fetched, call>>

\* /model <id> and /model none
Model(m) ==
  /\ AtPrompt /\ args' = [args EXCEPT !.model = m]
  /\ UNCHANGED <<flags, cwd, lastGoal, client, run, sync, narrowed, serves, open,
                 asked,
                 fetched, call>>

\* /effort <level> and /effort none; the level itself is left out
Effort(set) ==
  /\ AtPrompt /\ args' = [args EXCEPT !.effort = set]
  /\ UNCHANGED <<flags, cwd, lastGoal, client, run, sync, narrowed, serves, open,
                 asked,
                 fetched, call>>

\* /mode auto|read|write
Mode(m) ==
  /\ AtPrompt /\ args' = [args EXCEPT !.mode = m]
  /\ UNCHANGED <<flags, cwd, lastGoal, client, run, sync, narrowed, serves, open,
                 asked,
                 fetched, call>>

\* /sync drops what is pending and pushes the directory into the client.
Sync ==
  /\ AtPrompt
  /\ override' = None /\ bound' = None /\ sticky' = None
  /\ client' = IF client = None THEN None ELSE [client EXCEPT !.cwd = cwd]
  /\ UNCHANGED <<flags, cwd, args, lastGoal, run, narrowed, serves, open, asked,
                 fetched, call>>

\* /new forgets the goal and the client, nothing else.
New ==
  /\ AtPrompt
  /\ lastGoal' = None /\ client' = None
  /\ UNCHANGED <<flags, cwd, args, run, sync, narrowed, serves, open, asked,
                 fetched, call>>

\* /exit, and every command whose error handle_interactive_command passes on with
\* `?`: /doctor, /skills, /memory, /plan, /plans, /compact and /model list.  The
\* error is printed only after the shell is left.
Leave ==
  /\ AtPrompt
  /\ open' = FALSE /\ client' = None
  /\ UNCHANGED <<flags, cwd, args, lastGoal, run, sync, narrowed, serves, asked,
                 fetched, call>>

-----------------------------------------------------------------------------
(* A goal *)

RunMode(goal) ==
  CASE args.mode = "read"  -> "ReadOnly"
    [] args.mode = "write" -> "Implementation"
    [] OTHER -> IF goal \in ReadGoals THEN "ReadOnly" ELSE "Implementation"

\* run_goal: an unset effort is "low" in a read-only run.
RunEffort(goal) == IF args.effort THEN "set"
                   ELSE IF RunMode(goal) = "ReadOnly" THEN "low" ELSE "default"

\* A client that is there gets only the directory.
Mutant_Ensured(goal) ==
  IF client # None THEN [client EXCEPT !.cwd = cwd]
  ELSE [cwd |-> cwd, model |-> args.model, effort |-> RunEffort(goal)]

\* CodexSession::ensure.  What the shell cannot change (plugins, MCP, the daemon)
\* makes the fingerprint, so a client that is there is reused and its per-turn
\* fields are replaced.
Ensured(goal) == [cwd |-> cwd, model |-> args.model, effort |-> RunEffort(goal)]

\* A goal keeps what is pending.
Mutant_StartRun(goal, typed) ==
  /\ run' = [goal |-> goal, cwd |-> cwd, mode |-> RunMode(goal), typed |-> typed]
  /\ narrowed' = {}
  /\ client' = IF UsesClient THEN Ensured(goal) ELSE client
  /\ fetched' = {} /\ call' = None
  /\ UNCHANGED <<flags, cwd, args, override, bound, sticky, serves, open, asked>>

\* run_goal: what earlier runs left pending is dropped, then the client is ensured,
\* for the goal itself with --codex, for its planner if the provider is Codex.
StartRun(goal, typed) ==
  /\ run' = [goal |-> goal, cwd |-> cwd, mode |-> RunMode(goal), typed |-> typed]
  /\ override' = None /\ bound' = None /\ sticky' = None /\ narrowed' = {}
  /\ client' = IF UsesClient THEN Ensured(goal) ELSE client
  /\ fetched' = {} /\ call' = None
  /\ UNCHANGED <<flags, cwd, args, serves, open, asked>>

Goal(goal) == AtPrompt /\ StartRun(goal, TRUE) /\ lastGoal' = goal

Retry == AtPrompt /\ lastGoal # None /\ StartRun(lastGoal, FALSE) /\ UNCHANGED lastGoal

\* skill_fetch, queue_skill_repoprompt_binding.  Tools are called by the planner's
\* loop only.
Fetch(s) ==
  /\ InRun /\ UsesPlanner
  /\ override' = SkillDir[s] /\ bound' = None
  /\ sticky' = IF s \in Sticky THEN SkillDir[s] ELSE sticky
  /\ narrowed' = IF s \in Narrows THEN {s} ELSE {}
  /\ fetched' = fetched \cup {s}
  /\ asked' = IF s \in Sticky /\ run.typed THEN SkillDir[s] ELSE asked
  /\ UNCHANGED <<flags, cwd, args, lastGoal, client, run, serves, open, call>>

\* default_repoprompt_working_dirs: without directories of its own a call takes the
\* skill's, once, or the run's.
DefaultDir == IF override # None THEN override ELSE run.cwd

\* repoprompt_client for a call that names directory d, or none: the cached window
\* when it was recorded for the directory, else bind_context, which finds a window
\* that shows it or opens one.
Routed(d) ==
  LET dir == IF d = None THEN DefaultDir ELSE d
      cached == bound # None /\ bound.dir = dir
  IN /\ InRun /\ UsesPlanner
     /\ override' = IF d = None THEN None ELSE override
     /\ \E w \in Windows :
          /\ IF cached THEN w = bound.window /\ UNCHANGED serves
             ELSE /\ serves[w] \in {dir, None}
                  /\ serves' = [serves EXCEPT ![w] = dir]
          /\ bound' = [dir |-> dir, window |-> w,
                       by |-> IF cached THEN bound.by ELSE "bind"]
          /\ call' = [dir |-> dir, named |-> d # None,
                      by |-> IF cached THEN bound.by ELSE "bind"]
     /\ UNCHANGED <<flags, cwd, args, lastGoal, client, run, sticky, narrowed, open,
                    asked, fetched>>

\* The same call with a window_id: nothing is bound, but the window is recorded
\* for the directory all the same.
ToWindow(w) ==
  /\ InRun /\ UsesPlanner
  /\ override' = None
  /\ bound' = [dir |-> DefaultDir, window |-> w, by |-> "hand"]
  /\ call' = [dir |-> DefaultDir, named |-> FALSE, by |-> "hand"]
  /\ UNCHANGED <<flags, cwd, args, lastGoal, client, run, sticky, narrowed,
                 serves, open,
                 asked, fetched>>

\* The bind fails: the skill's directory is spent.
BindFails ==
  /\ InRun /\ UsesPlanner /\ ~(bound # None /\ bound.dir = DefaultDir)
  /\ override' = None
  /\ UNCHANGED <<flags, cwd, args, lastGoal, client, run, bound, sticky,
                 narrowed, serves,
                 open, asked, fetched, call>>

\* The run is over, well or not.  Only behind a typed goal does the shell poll the
\* sticky directory (poll_sticky_cwd_into_workspace).
EndRun ==
  /\ InRun /\ run' = None /\ fetched' = {} /\ call' = None
  /\ IF run.typed /\ sticky # None
     THEN /\ cwd' = sticky /\ sticky' = None
          /\ bound' = IF sticky = cwd THEN bound ELSE None
          /\ client' = IF client = None \/ sticky = cwd THEN client
                       ELSE [client EXCEPT !.cwd = sticky]
     ELSE UNCHANGED <<cwd, sticky, bound, client>>
  /\ UNCHANGED <<flags, args, lastGoal, override, narrowed, serves, open, asked>>

\* In the RepoPrompt app a window is closed, or shows another directory.
WindowChanges(w, d) ==
  /\ serves' = [serves EXCEPT ![w] = d]
  /\ UNCHANGED <<flags, cwd, args, lastGoal, client, run, sync, narrowed, open,
                 asked,
                 fetched, call>>

-----------------------------------------------------------------------------

Init ==
  /\ flags \in SUBSET {"codex", "record-only"}
  /\ cwd \in Dirs /\ asked = cwd
  /\ args \in [provider : Providers, model : {None}, mode : {"auto"}, effort : {FALSE}]
  /\ lastGoal = None /\ client = None /\ run = None
  /\ override = None /\ bound = None /\ sticky = None /\ narrowed = {}
  /\ serves = [w \in Windows |-> None]
  /\ open = TRUE /\ fetched = {} /\ call = None

Next ==
  \/ \E d \in Dirs : Cd(d)
  \/ \E id \in Providers : Provider(id)
  \/ \E m \in Models \cup {None} : Model(m)
  \/ \E set \in BOOLEAN : Effort(set)
  \/ \E m \in Modes : Mode(m)
  \/ Sync \/ New \/ Leave
  \/ \E goal \in Goals : Goal(goal)
  \/ Retry
  \/ \E s \in Skills : Fetch(s)
  \/ \E d \in Dirs \cup {None} : Routed(d)
  \/ \E w \in Windows : ToWindow(w)
  \/ BindFails \/ EndRun
  \/ \E w \in Windows, d \in Dirs \cup {None} : WindowChanges(w, d)

Spec == Init /\ [][Next]_vars

-----------------------------------------------------------------------------
(* Properties *)

TypeOK ==
  /\ flags \subseteq {"codex", "record-only"} /\ {cwd, asked} \subseteq Dirs
  /\ args \in [provider : Providers, model : Models \cup {None},
               mode : Modes, effort : BOOLEAN]
  /\ lastGoal \in Goals \cup {None}
  /\ client = None \/ client \in [cwd : Dirs, model : Models \cup {None},
                                  effort : {"set", "low", "default"}]
  /\ run = None \/ run \in [goal : Goals, cwd : Dirs, typed : BOOLEAN,
                            mode : {"ReadOnly", "Implementation"}]
  /\ {override, sticky} \subseteq Dirs \cup {None}
  /\ bound = None \/ bound \in [dir : Dirs, window : Windows, by : {"bind", "hand"}]
  /\ narrowed \subseteq Narrows /\ serves \in [Windows -> Dirs \cup {None}]
  /\ open \in BOOLEAN /\ fetched \subseteq Skills
  /\ call = None \/ call \in [dir : Dirs, named : BOOLEAN, by : {"bind", "hand"}]

\* A run works where the user last said, by /cd or through a sticky skill of a typed
\* goal, and so does the Codex client it uses, with the model and the effort asked
\* for (CodexSession::ensure, poll_sticky_cwd_into_workspace).  Whatever the shell
\* did in between: retries, /sync, /new, another provider and back.  With --codex the
\* client is used whatever the provider is.
RunsWhereAsked ==
  InRun /\ fetched = {} =>
    /\ run.cwd = asked
    /\ UsesClient =>
         client = [cwd |-> asked, model |-> args.model, effort |-> RunEffort(run.goal)]

\* A RepoPrompt call without directories of its own goes to the run's directory or
\* to that of a skill fetched in the same run, never to what an earlier run queued
\* or the user has left (run_goal's resets); nor do an earlier run's skills narrow
\* the tools.
CallsStayInRun ==
  InRun =>
    /\ call # None /\ ~call.named =>
         call.dir \in {run.cwd} \cup {SkillDir[s] : s \in fetched}
    /\ narrowed \subseteq fetched

\* A kept client has a use: while goals go to the planner of another provider, or are
\* only recorded, none is alive, since nothing would reuse it before the shell ends
\* (handle_provider_command, "non-codex runs would never reuse it").
ClientIsOfUse == client # None => open /\ UsesClient

\* What sync.rs lines 130-133 say of the cached pair: it is "from the last successful
\* bind_context".  It fails once a call has named a window.
CacheIsOfBind == bound # None => bound.by = "bind"

\* What skills.rs line 188 answers a sticky fetch: "workspace.cwd after current turn".
\* It fails for a fetch in a retried goal, whose directory the next goal drops.
StickyIsApplied == ~open \/ run # None \/ sticky = None

\* What main.rs line 87 says of --record-only: "Record goals locally without invoking
\* an LLM".  It fails when --codex is given too.
RecordOnlyStartsNothing == "record-only" \in flags => client = None
=============================================================================
