----------------------------- MODULE RunRecords -----------------------------
(***************************************************************************)
(* What runs leave on disk, and what they read of it: the session logs      *)
(* (agent-core's SessionStore), the memory index and the session archive    *)
(* (agent-memory), written by run_goal, `seed tool` and the tools of a run. *)
(*                                                                         *)
(* Several processes work in one project: two terminals, or a parent and    *)
(* its inheriting child.  Nothing is locked.  A log line is written to an   *)
(* unbuffered file piece by piece, so that for a while the file ends in     *)
(* half a line; rebuilding the index reads the newest logs and fails on     *)
(* such a line; an archive record is two writes; and rotating the archive   *)
(* is a read, a truncation and a write.  A process may be killed between    *)
(* any two of these.                                                        *)
(*                                                                         *)
(* An event is known by its kind; the lines that only keep the books of a   *)
(* run (retries, turn summaries, timings) are left out.  Of the index only  *)
(* the sessions and the learned skills are kept; what the memory tree holds *)
(* besides is the subject of Library.  The answers of planner and tools are *)
(* nondeterministic.                                                        *)
(***************************************************************************)
EXTENDS Integers, Sequences, FiniteSets, SequencesExt

CONSTANTS
  Proc,         \* processes working in the project
  MaxSessions,  \* bound of the model: session files opened
  MaxCalls,     \* bound of the model: tool calls of one run
  MaxCrashes,   \* bound of the model: processes killed
  Newest,       \* session files a rebuild reads, 20
  Cap           \* session_archive_cap(), 500

ASSUME RunRecordsAssumptions ==
  /\ IsFiniteSet(Proc)
  /\ {MaxSessions, MaxCalls, MaxCrashes} \subseteq Nat
  /\ {Newest, Cap} \subseteq Nat \ {0}

VARIABLES
  log,      \* one sequence of events per session file, in the order they opened
  torn,     \* the session files that end in half a line
  recent,   \* the session files, the one written last at the end
  archive,  \* the lines of session_archive.jsonl; the last has no newline yet
  skills,   \* the sessions a skill was learned from
  index,    \* what memory/index.json says
  proc,     \* what each process does
  crashes,  \* (bound) processes killed so far
  unrotated \* (history) records whose writer was killed before the rotation

files == <<log, torn, recent, archive, skills, index>>
vars == <<files, proc, crashes, unrotated>>

Kinds == {"llm", "codex", "seed", "tool", "note"}

\* A process: the place it is at, the kind of run and whether it learns, its
\* session (0 before it is open); while it rebuilds the index, the files still to
\* be read, the entries collected and the place to go on at; and the archive lines
\* it has read for the rotation.
Idle == [pc |-> "idle", kind |-> "note", learn |-> FALSE, mine |-> 0,
         todo |-> <<>>, found |-> {}, back |-> "open", copy |-> <<>>]

At(p, place) == proc[p].pc = place
Mine(p) == proc[p].mine

\* The process goes on at a place; a rebuild it was in is over.
Go(p, place) ==
  proc' = [proc EXCEPT ![p] = IF place = "idle" THEN Idle
                              ELSE [@ EXCEPT !.pc = place, !.back = "open",
                                             !.todo = <<>>, !.found = {}]]

Sessions == 1 .. Len(log)

\* The statuses a RunFinished event carries
Closing == {"completed", "failed", "exceeded", "recorded"}

\* session_summary: a log tells its goal, and its summary once it is finished.
Entry(s) == [session |-> s, finished |-> \E e \in Closing : Contains(log[s], e)]

-----------------------------------------------------------------------------
(* The session log *)

\* The session file s is now the one written last.
Touched(s) ==
  LET k == CHOOSE k \in DOMAIN recent : recent[k] = s
  IN [i \in DOMAIN recent |-> IF i < k THEN recent[i]
                              ELSE IF i < Len(recent) THEN recent[i + 1] ELSE s]

\* SessionWriter::append: serde_json writes the record into the open file token
\* by token; the line is whole when the newline is out.
BeginLine(p, place) ==
  /\ torn' = torn \cup {Mine(p)}
  /\ recent' = Touched(Mine(p))
  /\ Go(p, place)
  /\ UNCHANGED <<log, archive, skills, index, crashes, unrotated>>

EndLine(p, event, place) ==
  /\ Mine(p) \in torn
  /\ log' = [log EXCEPT ![Mine(p)] = Append(@, event)]
  /\ torn' = torn \ {Mine(p)}
  /\ recent' = Touched(Mine(p))
  /\ Go(p, place)
  /\ UNCHANGED <<archive, skills, index, crashes, unrotated>>

\* One event between two places: the line is begun, then ended.
Write(p, from, event, to) ==
  \/ At(p, from) /\ Mine(p) \notin torn /\ BeginLine(p, from)
  \/ At(p, from) /\ EndLine(p, event, to)

\* SessionStore::start: a new file under a fresh id.
Start(p) ==
  /\ At(p, "open")
  /\ log' = Append(log, <<>>)
  /\ recent' = Append(recent, Len(log) + 1)
  /\ proc' = [proc EXCEPT ![p].pc = "start", ![p].mine = Len(log) + 1]
  /\ UNCHANGED <<torn, archive, skills, index, crashes, unrotated>>

-----------------------------------------------------------------------------
(* The memory index *)

\* rebuild_index, collect_session_archive: the directory is listed once, the
\* newest files first; whether a file can be parsed shows when its turn comes.
Listing == SubSeq(Reverse(recent), 1, IF Len(recent) < Newest THEN Len(recent) ELSE Newest)

Rebuild(p, place) ==
  proc' = [proc EXCEPT ![p].pc = "scan", ![p].back = place, ![p].todo = Listing]

\* session_summary of the next file.  A file without a RunStarted tells nothing.
ReadLog(p) ==
  /\ At(p, "scan") /\ proc[p].todo # <<>> /\ Head(proc[p].todo) \notin torn
  /\ LET s == Head(proc[p].todo)
     IN proc' = [proc EXCEPT ![p].todo = Tail(@),
                             ![p].found = @ \cup IF log[s] = <<>> THEN {} ELSE {Entry(s)}]
  /\ UNCHANGED <<files, crashes, unrotated>>

\* serde_json::from_str(&line)?: half a line fails the rebuild.  Before the
\* session is open, after the archive record and in `seed tool` the `?` ends the
\* run; in the loop it becomes the call's error, after its effect.
CannotRead(p) ==
  /\ At(p, "scan") /\ proc[p].todo # <<>> /\ Head(proc[p].todo) \in torn
  /\ Go(p, CASE proc[p].back = "answer" -> "answer"
             [] proc[p].back = "wrote" /\ proc[p].kind = "llm" -> "plan"
             [] OTHER -> "idle")
  /\ UNCHANGED <<files, crashes, unrotated>>

\* write_index and write_l1_insight
WriteIndex(p) ==
  /\ At(p, "scan") /\ proc[p].todo = <<>>
  /\ index' = [sessions |-> proc[p].found, skills |-> skills]
  /\ Go(p, IF proc[p].back = "wrote" THEN "answer" ELSE proc[p].back)
  /\ UNCHANGED <<log, torn, recent, archive, skills, crashes, unrotated>>

-----------------------------------------------------------------------------
(* The session archive *)

Lines == IF Last(archive) = <<>> THEN Front(archive) ELSE archive

\* append_session_archive_record: writeln! hands the record and the newline to
\* the file in two writes, each at the end of the file.
Record(p) ==
  /\ At(p, "archive")
  /\ archive' = [archive EXCEPT ![Len(archive)] = Append(@, Mine(p))]
  /\ Go(p, "newline")
  /\ UNCHANGED <<log, torn, recent, skills, index, crashes, unrotated>>

Newline(p) ==
  /\ At(p, "newline")
  /\ archive' = Append(archive, <<>>)
  /\ Go(p, "cap")
  /\ UNCHANGED <<log, torn, recent, skills, index, crashes, unrotated>>

\* The rotation leaves one line too many.
Mutant_Measure(p) ==
  /\ At(p, "cap")
  /\ IF Len(Lines) <= Cap + 1
     THEN Go(p, "archived")
     ELSE proc' = [proc EXCEPT ![p].pc = "truncate",
                               ![p].copy = SubSeq(Lines, Len(Lines) - Cap + 1, Len(Lines))]
  /\ UNCHANGED <<files, crashes, unrotated>>

\* enforce_session_archive_cap: nothing to do, or the lines to keep are read.
Measure(p) ==
  /\ At(p, "cap")
  /\ IF Len(Lines) <= Cap
     THEN Go(p, "archived")
     ELSE proc' = [proc EXCEPT ![p].pc = "truncate",
                               ![p].copy = SubSeq(Lines, Len(Lines) - Cap + 1, Len(Lines))]
  /\ UNCHANGED <<files, crashes, unrotated>>

\* fs::write: the file is opened truncated, then written from its start, over
\* whatever another process has appended in between (records of one length).
Truncate(p) ==
  /\ At(p, "truncate")
  /\ archive' = << <<>> >>
  /\ Go(p, "rewrite")
  /\ UNCHANGED <<log, torn, recent, skills, index, crashes, unrotated>>

Rewrite(p) ==
  /\ At(p, "rewrite")
  /\ archive' = IF Len(archive) <= Len(proc[p].copy)
                THEN Append(proc[p].copy, <<>>)
                ELSE proc[p].copy \o SubSeq(archive, Len(proc[p].copy) + 1, Len(archive))
  /\ proc' = [proc EXCEPT ![p].pc = "archived", ![p].copy = <<>>]
  /\ UNCHANGED <<log, torn, recent, skills, index, crashes, unrotated>>

\* The write fails after the truncation; the error is ignored.
RewriteFails(p) ==
  /\ At(p, "rewrite")
  /\ proc' = [proc EXCEPT ![p].pc = "archived", ![p].copy = <<>>]
  /\ UNCHANGED <<files, crashes, unrotated>>

-----------------------------------------------------------------------------
(* One run *)

Opening == {p \in Proc : ~At(p, "idle") /\ Mine(p) = 0}

\* run_goal, or `seed tool`, which opens its session without a rebuild.
Begin(p, kind, learn) ==
  /\ At(p, "idle") /\ Len(log) + Cardinality(Opening) < MaxSessions
  /\ learn => kind = "llm"
  /\ proc' = [proc EXCEPT ![p] =
       [Idle EXCEPT !.kind = kind, !.learn = learn,
                    !.pc = IF kind = "tool" THEN "open" ELSE "scan",
                    !.todo = IF kind = "tool" THEN <<>> ELSE Listing]]
  /\ UNCHANGED <<files, crashes, unrotated>>

FirstStep(p) == CASE proc[p].kind = "llm"   -> "plan"
                  [] proc[p].kind = "codex" -> "setup"
                  [] proc[p].kind = "note"  -> "note"
                  [] OTHER                 -> "call"

Started(p) == Write(p, "start", "started", FirstStep(p))

Calls(p) == Len(SelectSeq(log[Mine(p)], LAMBDA e : e = "call"))

\* The result of a call that was refused unlogged is logged.
Mutant_Plan(p) ==
  /\ At(p, "plan")
  /\ \/ Go(p, "broken") \/ Go(p, "reflect") \/ Go(p, "give_up")
     \/ Calls(p) < MaxCalls /\ (Go(p, "call") \/ Go(p, "answer"))
  /\ UNCHANGED <<files, crashes, unrotated>>

\* The planner of run_goal: it is not available or breaks, it calls a tool, it
\* answers, or the turns are used up.
Plan(p) ==
  /\ At(p, "plan")
  /\ \/ Go(p, "broken") \/ Go(p, "reflect") \/ Go(p, "give_up")
     \/ Calls(p) < MaxCalls /\ Go(p, "call")
  /\ UNCHANGED <<files, crashes, unrotated>>

\* execute_call_with_turn: the call is logged, the tool runs, then its result is
\* logged.  memory_search rebuilds the index inside the tool, a write below
\* memory/ or skills/ after it.
Execute(p) ==
  /\ At(p, "tool")
  /\ \/ Go(p, "answer") \/ Go(p, "remember")
     \/ Rebuild(p, "answer") \/ Rebuild(p, "wrote")
  /\ UNCHANGED <<files, crashes, unrotated>>

\* A checkpoint or a long-term update has an event of its own between the two.
Remember(p) == Write(p, "remember", "remembered", "answer")

Call(p) == Write(p, "call", "call", "tool")

Answer(p) == Write(p, "answer", "result",
                   IF proc[p].kind = "llm" THEN "plan" ELSE "close")

\* finalize_llm_run_outcome, record_codex_fast_path_outcome and the other ends of
\* run_goal and run_tool.  Setting Codex up may fail with a bare `?`.
Setup(p) ==
  /\ At(p, "setup")
  /\ \E place \in {"idle", "reflect", "broken"} : Go(p, place)
  /\ UNCHANGED <<files, crashes, unrotated>>

\* An incomplete run is archived as well.
Mutant_Close(p) ==
  \/ Write(p, "broken", "failed", "idle")
  \/ Write(p, "give_up", "exceeded", "archive")
  \/ Write(p, "reflect", "reflection", "close")
  \/ Write(p, "close", "completed",
           IF proc[p].kind = "llm" THEN "archive" ELSE "idle")
  \/ Write(p, "note", "checkpoint", "noted")
  \/ Write(p, "noted", "recorded", "idle")

Close(p) ==
  \/ Write(p, "broken", "failed", "idle")
  \/ Write(p, "give_up", "exceeded", "idle")
  \/ Write(p, "reflect", "reflection", "close")
  \/ Write(p, "close", "completed",
           IF proc[p].kind = "llm" THEN "archive" ELSE "idle")
  \/ Write(p, "note", "checkpoint", "noted")
  \/ Write(p, "noted", "recorded", "idle")

\* The index is rebuilt once the record is archived, and once more after a skill
\* was learned; then the learning is logged, behind the end of the run.
Archived(p) ==
  /\ At(p, "archived")
  /\ Rebuild(p, IF proc[p].learn THEN "learn" ELSE "idle")
  /\ UNCHANGED <<files, crashes, unrotated>>

Learn(p) ==
  /\ At(p, "learn")
  /\ skills' = skills \cup {Mine(p)}
  /\ Rebuild(p, "learned")
  /\ UNCHANGED <<log, torn, recent, archive, index, crashes, unrotated>>

Learned(p) == \/ Write(p, "learned", "checkpoint", "settle")
              \/ Write(p, "settle", "settled", "idle")

\* A process is killed; another takes its place.
Crash(p) ==
  /\ ~At(p, "idle") /\ crashes < MaxCrashes
  /\ crashes' = crashes + 1
  /\ unrotated' = unrotated +
                    (IF proc[p].pc \in {"newline", "cap", "truncate"} THEN 1 ELSE 0)
  /\ Go(p, "idle")
  /\ UNCHANGED files

-----------------------------------------------------------------------------

Init ==
  /\ log = <<>> /\ torn = {} /\ recent = <<>>
  /\ archive = << <<>> >> /\ skills = {}
  /\ index = [sessions |-> {}, skills |-> {}]
  /\ proc = [p \in Proc |-> Idle]
  /\ crashes = 0 /\ unrotated = 0

Step(p) ==
  \/ Start(p) \/ Started(p) \/ Plan(p) \/ Call(p) \/ Execute(p)
  \/ Remember(p) \/ Answer(p)
  \/ Setup(p) \/ Close(p)
  \/ ReadLog(p) \/ CannotRead(p) \/ WriteIndex(p)
  \/ Record(p) \/ Newline(p) \/ Measure(p) \/ Truncate(p) \/ Rewrite(p)
  \/ RewriteFails(p)
  \/ Archived(p) \/ Learn(p) \/ Learned(p)

Next == \E p \in Proc :
          \/ Step(p) \/ Crash(p)
          \/ \E kind \in Kinds, learn \in BOOLEAN : Begin(p, kind, learn)

Spec == Init /\ [][Next]_vars

-----------------------------------------------------------------------------
(* Properties *)

\* What the three kinds of file say of a run agrees: an archived run is one whose
\* own log says that it was completed, and the index never lists a session that
\* has no goal, nor calls one finished that is not, whoever wrote it and whenever
\* (append_session_archive_record, collect_session_archive).
RecordsAgree ==
  /\ \A i \in DOMAIN archive : \A s \in Range(archive[i]) :
       s \in Sessions /\ Contains(log[s], "completed")
  /\ \A e \in index.sessions :
       /\ e.session \in Sessions /\ Contains(log[e.session], "started")
       /\ e.finished => Entry(e.session).finished
  /\ index.skills \subseteq skills
  /\ \A s \in skills : Contains(log[s], "completed")

\* A log can be replayed: it starts with the goal, no result comes before its call,
\* it has at most one end, and behind the end only what was learned from the run;
\* what a call remembers stands right behind it (execute_call_with_turn, finalize_llm_run_outcome).
LogsAreTraces ==
  \A s \in Sessions :
    LET Where(E) == {i \in DOMAIN log[s] : log[s][i] \in E}
        Before(E, i) == Cardinality({k \in Where(E) : k <= i})
    IN /\ log[s] # <<>> => log[s][1] = "started"
       /\ Cardinality(Where(Closing)) <= 1
       /\ \A i \in DOMAIN log[s] :
            Before({"result"}, i) <= Before({"call"}, i)
       /\ \A i \in Where(Closing), k \in DOMAIN log[s] :
            k > i => log[s][k] \in {"checkpoint", "settled"}
       /\ \A i \in Where({"remembered"}) : log[s][i - 1] = "call"

\* The archive stays within its cap but for the records whose writers have not come
\* to rotate it yet, or were killed before they could (append_session_archive_record
\* and enforce_session_archive_cap, lines 695-700 of agent-memory).
ArchiveBounded ==
  Len(Lines) <= Cap + unrotated
     + Cardinality({p \in Proc : proc[p].pc \in {"newline", "cap", "truncate"}})

\* What lines 697-700 of agent-memory promise: a failing rotation never loses the
\* record just written.  It fails for a write that stops after the truncation, and
\* for a rotation that another process began before the record was there.
FreshIsKept ==
  \A p \in Proc : proc[p].pc \in {"cap", "archived"} =>
    \E i \in DOMAIN archive : Mine(p) \in Range(archive[i])

\* What exec.rs line 3 promises, "replayable end-to-end": a run that goes on after a
\* call has its result in the log.  It fails when the rebuild behind a durable write
\* meets a line another process is just writing.
CallsAreAnswered ==
  \A p \in Proc : At(p, "plan") /\ Mine(p) # 0 =>
    Calls(p) = Len(SelectSeq(log[Mine(p)], LAMBDA e : e = "result"))
=============================================================================
