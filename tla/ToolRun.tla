------------------------------- MODULE ToolRun -------------------------------
(***************************************************************************)
(* The tool calls of one agent run and the state they share: the workspace  *)
(* files, and four things kept in the process from one call to the next:    *)
(*                                                                         *)
(*   cache       run_goal's memo of the tools declared pure reads           *)
(*   readPaths   read_paths_guard, the files this run has read              *)
(*   permitted   skill_tools_guard, the tools the last fetched skill allows *)
(*   override    repoprompt_sync's working directory for the next           *)
(*               RepoPrompt call                                            *)
(*                                                                         *)
(* A file is a sequence of blocks of text; a patch replaces one block.  Of  *)
(* the RepoPrompt tools two things are kept: the directory they look at,    *)
(* and that repoprompt_call can change files (apply_edits, file_actions).   *)
(* Files also change behind the run's back: the user's editor, a subagent,  *)
(* an agent that RepoPrompt runs, a shell command.                          *)
(***************************************************************************)
EXTENDS Naturals, Sequences, FiniteSets

CONSTANTS
  Paths,           \* files of the workspace
  DurablePaths,    \* those under memory/ and skills/
  LayoutPaths,     \* those ensure_memory_layout creates when they are missing
  GeneratedPaths,  \* memory/index.json and memory/l1_insight.md
  Blocks,          \* blocks of text
  Rendered,        \* the block the program itself writes to a file of LayoutPaths
  MaxBlocks,       \* bound: blocks of one file
  MaxCached,       \* bound: pure reads kept in the cache
  Skills,
  SkillTools,      \* the allowed-tools of each skill; {} is no restriction
  SkillDir,        \* the working directory a skill asks for, or Cwd for none
  Allowed          \* the tools of the run's mode, fixed when it starts

Cwd == "cwd"

PureReads == {"read_file", "read_files", "memory_fetch", "skill_fetch",
              "repoprompt_codemap"}

Writes == {"patch_file", "write_file"}

Tools == PureReads \cup Writes \cup {"repoprompt_call"}

RepoPromptTools == {"repoprompt_codemap", "repoprompt_call"}

ASSUME ToolRunAssumptions ==
  /\ GeneratedPaths \subseteq LayoutPaths
  /\ LayoutPaths \subseteq DurablePaths
  /\ DurablePaths \subseteq Paths
  /\ Rendered \in Blocks
  /\ {MaxBlocks, MaxCached} \subseteq Nat
  /\ MaxBlocks > 0
  /\ SkillTools \in [Skills -> SUBSET Tools]
  /\ DOMAIN SkillDir = Skills
  /\ Allowed \subseteq Tools

VARIABLES
  present,    \* the files that exist
  text,       \* what is in each file; << >> when it does not exist
  cache,      \* the results of pure reads so far
  readPaths,
  permitted,
  override,
  reply,      \* the result of the last call
  fetched,    \* (history) files shown to the planner by memory_fetch
  looks,      \* (history) RepoPrompt calls that looked at a skill's directory
  outside,    \* (history) files changed behind the run's back
  delegated,  \* (history) files RepoPrompt changed because the run asked it to
  atStart     \* (history) the files when the run began

vars == <<present, text, cache, readPaths, permitted, override, reply, fetched,
          looks, outside, delegated, atStart>>

others == <<outside, delegated, atStart>>

Texts == UNION {[1..n -> Blocks] : n \in 0..MaxBlocks}

-----------------------------------------------------------------------------
(* Results.  "shown" is what a read shows of each file it was asked for,    *)
(* "dir" the directory a RepoPrompt call looked at, "why" the refusal, and  *)
(* "within" whether the skill's tools included this one when it ran.        *)

Nothing == [p \in {} |-> << >>]

Result(tool, arg, ok, shown, dir, why) ==
  [tool |-> tool, arg |-> arg, ok |-> ok, shown |-> shown, dir |-> dir,
   why |-> why, within |-> tool \in permitted]

Refused(tool, arg, why) == Result(tool, arg, FALSE, Nothing, Cwd, why)

Done(tool, arg) == Result(tool, arg, TRUE, Nothing, Cwd, "")

Shown(tool, ps) ==
  Result(tool, ps, TRUE, [p \in ps |-> text[p]], Cwd, "")

-----------------------------------------------------------------------------
(* The closure of run_goal: a hit in the cache is returned as it is; a tool *)
(* outside the run's mode is refused; a successful pure read is kept.       *)

Hit(tool, arg) == {r \in cache : r.tool = tool /\ r.arg = arg}

ServeCached(tool, arg) ==
  /\ \E r \in Hit(tool, arg) : reply' = r
  /\ UNCHANGED <<present, text, cache, readPaths, permitted, override, fetched,
                 looks, others>>

Mutant_Fresh(tool, arg) ==
  /\ Hit(tool, arg) = {}
  /\ tool \in PureReads => Cardinality(cache) < MaxCached

Fresh(tool, arg) ==
  /\ tool \in Allowed
  /\ Hit(tool, arg) = {}
  /\ tool \in PureReads => Cardinality(cache) < MaxCached

Answer(r) ==
  /\ reply' = r
  /\ cache' = IF r.ok /\ r.tool \in PureReads THEN cache \cup {r} ELSE cache

NotAllowed(tool) ==
  /\ tool \notin Allowed
  /\ Answer(Refused(tool, {}, "mode"))
  /\ UNCHANGED <<present, text, readPaths, permitted, override, fetched, looks, others>>

-----------------------------------------------------------------------------
(* The memory directory: ensure_memory_layout creates what is missing, and   *)
(* rebuild_index then writes the generated files anew.                       *)

LaidOut(f, have) ==
  [q \in Paths |-> IF q \in LayoutPaths \ have THEN <<Rendered>> ELSE f[q]]

Rebuilt(f, have) ==
  [q \in Paths |-> IF q \in GeneratedPaths THEN <<Rendered>> ELSE LaidOut(f, have)[q]]

-----------------------------------------------------------------------------
(* Reads *)

\* read_file: a file that cannot be read is an error.
ReadFile(p) ==
  /\ Fresh("read_file", {p})
  /\ IF p \in present
     THEN /\ readPaths' = readPaths \cup {p}
          /\ Answer(Shown("read_file", {p}))
     ELSE /\ readPaths' = readPaths
          /\ Answer(Refused("read_file", {p}, "missing"))
  /\ UNCHANGED <<present, text, permitted, override, fetched, looks, others>>

\* read_files succeeds even when some or all of its files cannot be read.
ReadFiles(ps) ==
  /\ Fresh("read_files", ps)
  /\ readPaths' = readPaths \cup (ps \cap present)
  /\ Answer(Shown("read_files", ps))
  /\ UNCHANGED <<present, text, permitted, override, fetched, looks, others>>

\* memory_fetch shows a file of the index, which has none of the generated
\* files, and does not record it as read.  A missing index is rebuilt first.
MemoryFetch(p, indexed) ==
  /\ p \in DurablePaths \ GeneratedPaths
  /\ Fresh("memory_fetch", {p})
  /\ present' = present \cup LayoutPaths
  /\ text' = IF GeneratedPaths \subseteq present THEN LaidOut(text, present)
             ELSE Rebuilt(text, present)
  /\ IF indexed /\ p \in present'
     THEN /\ fetched' = fetched \cup {p}
          /\ Answer(Result("memory_fetch", {p}, TRUE, [q \in {p} |-> text'[q]], Cwd, ""))
     ELSE /\ fetched' = fetched
          /\ Answer(Refused("memory_fetch", {p}, "missing"))
  /\ UNCHANGED <<readPaths, permitted, override, looks, others>>

-----------------------------------------------------------------------------
(* Writes *)

\* durable_write_guard; "clean" when the new text breaks no rule of memory.
Mutant_DurableRefusal(p, mode, clean) == p \in DurablePaths /\ ~clean

DurableRefusal(p, mode, clean) ==
  /\ p \in DurablePaths
  /\ \/ p \in GeneratedPaths
     \/ mode = "overwrite" /\ text[p] # << >>
     \/ ~clean

\* check_read_before_write
Mutant_Unread(p) == FALSE

Unread(p) == p \in present /\ p \notin readPaths

\* The tool has written t to p; after a write to memory/ or skills/
\* execute_call_with_turn rebuilds the index, and if that fails reports an
\* error although the file is written.
Written(tool, p, t, indexOk) ==
  LET after == [text EXCEPT ![p] = t]
      have == present \cup {p}
  IN IF p \notin DurablePaths
     THEN /\ present' = have
          /\ text' = after
          /\ Answer(Done(tool, {p}))
     ELSE /\ present' = have \cup LayoutPaths
          /\ text' = IF indexOk THEN Rebuilt(after, have) ELSE LaidOut(after, have)
          /\ Answer(IF indexOk THEN Done(tool, {p}) ELSE Refused(tool, {p}, "index"))

Rejected(tool, p, why) ==
  /\ Answer(Refused(tool, {p}, why))
  /\ UNCHANGED <<present, text>>

\* patch_file: the old block must occur exactly once.
Places(p, old) == {i \in 1..Len(text[p]) : text[p][i] = old}

PatchFile(p, old, new, clean, indexOk) ==
  /\ Fresh("patch_file", {p})
  /\ \/ /\ Cardinality(Places(p, old)) # 1
        /\ Rejected("patch_file", p, "not unique")
     \/ /\ Cardinality(Places(p, old)) = 1
        /\ DurableRefusal(p, "patch", clean)
        /\ Rejected("patch_file", p, "durable")
     \/ /\ Cardinality(Places(p, old)) = 1
        /\ ~DurableRefusal(p, "patch", clean)
        /\ Unread(p)
        /\ Rejected("patch_file", p, "unread")
     \/ /\ Cardinality(Places(p, old)) = 1
        /\ ~DurableRefusal(p, "patch", clean)
        /\ ~Unread(p)
        /\ \E i \in Places(p, old) :
             Written("patch_file", p, [text[p] EXCEPT ![i] = new], indexOk)
  /\ UNCHANGED <<readPaths, permitted, override, fetched, looks, others>>

\* write_file
NewText(p, mode, b) ==
  CASE mode = "overwrite" -> <<b>>
    [] mode = "append"    -> Append(text[p], b)
    [] mode = "prepend"   -> <<b>> \o text[p]

WriteFile(p, mode, b, clean, indexOk) ==
  /\ Fresh("write_file", {p})
  /\ Len(NewText(p, mode, b)) <= MaxBlocks
  /\ \/ /\ DurableRefusal(p, mode, clean)
        /\ Rejected("write_file", p, "durable")
     \/ /\ ~DurableRefusal(p, mode, clean)
        /\ Unread(p)
        /\ Rejected("write_file", p, "unread")
     \/ /\ ~DurableRefusal(p, mode, clean)
        /\ ~Unread(p)
        /\ Written("write_file", p, NewText(p, mode, b), indexOk)
  /\ UNCHANGED <<readPaths, permitted, override, fetched, looks, others>>

-----------------------------------------------------------------------------
(* Skills and RepoPrompt *)

\* skill_fetch, a declared pure read, narrows the tools and queues the skill's
\* directory.
SkillFetch(s, found) ==
  /\ Fresh("skill_fetch", {s})
  /\ \/ /\ found
        /\ permitted' = IF SkillTools[s] = {} THEN Tools ELSE SkillTools[s]
        /\ override' = IF SkillDir[s] = Cwd THEN override ELSE SkillDir[s]
        /\ Answer(Done("skill_fetch", {s}))
     \/ /\ ~found
        /\ Answer(Refused("skill_fetch", {s}, "missing"))
        /\ UNCHANGED <<permitted, override>>
  /\ UNCHANGED <<present, text, readPaths, fetched, looks, others>>

\* take_pending_override
Mutant_Consumed == override

Consumed == Cwd

\* The files as somebody else leaves them: one written, one removed, or one moved
\* to a new place.
Put(p, t) ==
  /\ present' = present \cup {p}
  /\ text' = [text EXCEPT ![p] = t]

Remove(p) ==
  /\ p \in present
  /\ present' = present \ {p}
  /\ text' = [text EXCEPT ![p] = << >>]

Move(p, q) ==
  /\ p \in present /\ q \notin present
  /\ present' = (present \ {p}) \cup {q}
  /\ text' = [text EXCEPT ![p] = << >>, ![q] = text[p]]

\* repoprompt_call takes every tool of RepoPrompt, apply_edits and file_actions
\* among them.  None of the guards of the file tools sees the call, and no rebuild
\* of the index follows it.
RepoPromptEdits ==
  \/ \E p \in Paths :
       /\ Remove(p) \/ \E t \in Texts : Put(p, t)
       /\ delegated' = delegated \cup {p}
  \/ \E p, q \in Paths :
       /\ Move(p, q)
       /\ delegated' = delegated \cup {p, q}

\* A RepoPrompt call that names its directories leaves the queue alone; one
\* that does not looks at the queued directory, which it consumes even if
\* RepoPrompt then fails, or at the cwd.
RepoPrompt(tool, named, works) ==
  LET arg == IF named THEN {"working_dirs"} ELSE {}
      dir == IF named THEN "named" ELSE override
  IN /\ Fresh(tool, arg)
     /\ override' = IF named THEN override ELSE Consumed
     /\ looks' = IF named \/ override = Cwd THEN looks ELSE looks + 1
     /\ Answer(IF works THEN Result(tool, arg, TRUE, Nothing, dir, "")
               ELSE Refused(tool, arg, "repoprompt"))
     /\ \/ UNCHANGED <<present, text, delegated>>
        \/ tool = "repoprompt_call" /\ works /\ RepoPromptEdits
     /\ UNCHANGED <<readPaths, permitted, fetched, outside, atStart>>

-----------------------------------------------------------------------------
(* Behind the run's back *)

ChangedElsewhere(p, t) ==
  /\ Put(p, t)
  /\ outside' = outside \cup {p}
  /\ UNCHANGED <<cache, readPaths, permitted, override, reply, fetched, looks,
                 delegated, atStart>>

RemovedElsewhere(p) ==
  /\ Remove(p)
  /\ outside' = outside \cup {p}
  /\ UNCHANGED <<cache, readPaths, permitted, override, reply, fetched, looks,
                 delegated, atStart>>

-----------------------------------------------------------------------------
\* run_goal resets the three guards, rebuilds the index and makes an empty cache.
Init ==
  /\ present \in SUBSET Paths
  /\ text \in [Paths -> Texts]
  /\ LayoutPaths \subseteq present
  /\ \A p \in Paths \ present : text[p] = << >>
  /\ \A p \in GeneratedPaths : text[p] = <<Rendered>>
  /\ cache = {}
  /\ readPaths = {}
  /\ permitted = Tools
  /\ override = Cwd
  /\ reply = [tool |-> "none", arg |-> {}, ok |-> TRUE, shown |-> Nothing,
              dir |-> Cwd, why |-> "", within |-> TRUE]
  /\ fetched = {}
  /\ looks = 0
  /\ outside = {}
  /\ delegated = {}
  /\ atStart = [present |-> present, text |-> text]

ToolCall ==
  \/ \E r \in cache : ServeCached(r.tool, r.arg)
  \/ \E tool \in Tools : NotAllowed(tool)
  \/ \E p \in Paths : ReadFile(p)
  \/ \E p \in Paths, indexed \in BOOLEAN : MemoryFetch(p, indexed)
  \/ \E ps \in (SUBSET Paths) \ {{}} : ReadFiles(ps)
  \/ \E p \in Paths, old, new \in Blocks, clean, indexOk \in BOOLEAN :
       PatchFile(p, old, new, clean, indexOk)
  \/ \E p \in Paths, mode \in {"overwrite", "append", "prepend"}, b \in Blocks,
        clean, indexOk \in BOOLEAN :
       WriteFile(p, mode, b, clean, indexOk)
  \/ \E s \in Skills, found \in BOOLEAN : SkillFetch(s, found)
  \/ \E tool \in RepoPromptTools, named, works \in BOOLEAN :
       RepoPrompt(tool, named, works)

Elsewhere ==
  \E p \in Paths : RemovedElsewhere(p) \/ \E t \in Texts : ChangedElsewhere(p, t)

\* A run that has the workspace to itself, and one that does not.
SoleSpec == Init /\ [][ToolCall]_vars

Spec == Init /\ [][ToolCall \/ Elsewhere]_vars

-----------------------------------------------------------------------------
(* Properties *)

IsResult(r) ==
  /\ r.tool \in Tools \cup {"none"}
  /\ \A p \in DOMAIN r.shown : p \in Paths /\ r.shown[p] \in Texts
  /\ r.ok \in BOOLEAN
  /\ r.within \in BOOLEAN

TypeOK ==
  /\ present \subseteq Paths
  /\ text \in [Paths -> Texts]
  /\ \A r \in cache : IsResult(r) /\ r.ok /\ r.tool \in PureReads
  /\ readPaths \subseteq Paths
  /\ permitted \subseteq Tools
  /\ override \in {Cwd} \cup {SkillDir[s] : s \in Skills}
  /\ IsResult(reply)
  /\ fetched \subseteq DurablePaths
  /\ looks \in Nat
  /\ outside \cup delegated \subseteq Paths
  /\ atStart.present \subseteq Paths
  /\ atStart.text \in [Paths -> Texts]

\* What the run's own tools did not change.
Foreign == outside \cup delegated

\* read_paths_guard: "only writes to files that ALREADY EXIST on disk and
\* weren't read this run are blocked".  Over a whole run, a file that was there
\* at the start and that the run never read is still what it was, whatever the
\* sequence of calls, unless somebody else or RepoPrompt changed it; the generated
\* files, which the index rebuild rewrites, apart.
UnreadFilesSurvive ==
  \A p \in atStart.present \ (readPaths \cup Foreign \cup GeneratedPaths) :
    p \in present /\ text[p] = atStart.text[p]

\* durable_write_guard: index.json and l1_insight.md only ever hold what the
\* index rebuild wrote, unless somebody else or RepoPrompt wrote them.
GeneratedIsGenerated ==
  \A p \in GeneratedPaths \ Foreign : p \in present /\ text[p] = <<Rendered>>

\* planner_tool_infos_for_mode: in a run whose mode has none of the write tools,
\* RepoPrompt is the only way to change a file.  No other file is touched, whatever
\* tools the skills it fetches ask for, and whatever is missing from the memory
\* directory when it is searched.
OnlyRepoPromptWrites ==
  Writes \cap Allowed = {} =>
    \A p \in atStart.present \ Foreign : p \in present /\ text[p] = atStart.text[p]

\* "bindings stay transient": a skill's directory serves at most one RepoPrompt
\* call, so there are no more such calls than skills fetched with a directory.
DirFetches == {r \in cache : \E s \in Skills : r.arg = {s} /\ SkillDir[s] # Cwd}

OverrideIsOneShot == looks <= Cardinality(DirFetches)

-----------------------------------------------------------------------------
(* What comments and prompts say, and the code does not do *)

\* RunMode (agent-core): "Whether a run is allowed to mutate the project".  A run
\* that is not (its mode has none of the write tools) leaves the files alone.
ReadOnlyMutatesNothing ==
  Writes \cap Allowed = {} =>
    \A p \in atStart.present \ outside : p \in present /\ text[p] = atStart.text[p]

\* README: "generated indexes (L1) are read-only from the tool layer".
GeneratedIsReadOnly ==
  \A p \in GeneratedPaths \ outside : p \in present /\ text[p] = <<Rendered>>

\* impl_pure_read: a tool is declared a pure read only if it "is pure within a
\* run - same inputs => same output".  With nobody else writing, what a call
\* shows is what is in the file.
CachedReadIsCurrent ==
  \A p \in DOMAIN reply.shown : reply.shown[p] = text[p]

\* start_long_term_update: "first_step": "memory_fetch id=global-facts or
\* read_file", "write_step": "patch_file/write_file".  A write to a file that was
\* fetched is not refused as unread.
FetchCountsAsRead ==
  reply.why = "unread" => ~(reply.arg \subseteq fetched)

\* skill_fetch: "Last-skill-wins semantics - fetching a different skill
\* replaces".
LastSkillWins ==
  reply.tool = "skill_fetch" /\ reply.ok =>
    \A s \in Skills : reply.arg = {s} =>
      permitted = IF SkillTools[s] = {} THEN Tools ELSE SkillTools[s]

\* skill_fetch: narrowed_tools applies to "subsequent planner turns until /new or
\* skill_fetch of another skill".
NarrowingApplies == reply.ok /\ reply.tool # "skill_fetch" => reply.within

\* queue_skill_repoprompt_binding: "the very next rp tool call consumes it".
OverrideConsumedByNextCall ==
  [][ /\ reply' # reply
      /\ reply'.tool \in RepoPromptTools
      /\ reply'.arg = {}
      /\ reply'.why # "mode"
      => override' = Cwd ]_vars
=============================================================================
