------------------------------ MODULE ChildCall ------------------------------
(***************************************************************************)
(* A call that runs a child process with a time limit and returns what it   *)
(* printed: run_shell (agent-tools, shell.rs), the RepoPrompt command line   *)
(* (agent-repoprompt, run) and the process of a subagent                     *)
(* (spawn_one_subagent, which pipes stdout only).                            *)
(*                                                                           *)
(* One thread per pipe reads it to its end while the caller waits for the    *)
(* child; at the time limit the caller kills the child, and in either case   *)
(* it joins the readers.  Pipes are bounded, and processes the child started *)
(* inherit them: a pipe ends when none of them holds it.                     *)
(*                                                                           *)
(* Output is counted in chunks, in order by nature of a pipe.  A chunk may   *)
(* hold bytes that are not UTF-8; then read_to_string keeps nothing of all   *)
(* that it has read, and its error is dropped.  The decoding of JSON is left *)
(* out.                                                                      *)
(***************************************************************************)
EXTENDS Naturals

CONSTANTS
  Streams,   \* the pipes: stdout, stderr
  PipeSize,  \* chunks a pipe holds
  MaxShown,  \* chunks of one pipe that a result shows
  MaxChunks  \* bound: chunks written to a pipe

ASSUME ChildCallAssumptions ==
  /\ PipeSize \in Nat \ {0}
  /\ {MaxShown, MaxChunks} \subseteq Nat

VARIABLES
  pc,       \* of the caller: "wait", "join" or "returned"
  timedOut,
  child,    \* "running", "exited" or "killed"
  holders,  \* the pipes that descendants of the child hold
  written, pipe, read, \* chunks: written so far, in the pipe, read
  garbled,  \* the pipes that something other than UTF-8 was written to
  reader,   \* per pipe: "reading" or "done"
  kept,     \* per pipe: the chunks its reader hands over
  result

caller == <<pc, timedOut, result>>
processes == <<child, holders>>
output == <<written, pipe, read, garbled, reader, kept>>
callVars == <<caller, processes, output>>

NoOutput == [s \in Streams |-> 0]

CallInit ==
  /\ pc = "wait" /\ timedOut = FALSE /\ result = "none"
  /\ child = "running" /\ holders = {}
  /\ written = NoOutput /\ pipe = NoOutput /\ read = NoOutput /\ kept = NoOutput
  /\ garbled = {}
  /\ reader = [s \in Streams |-> "reading"]

-----------------------------------------------------------------------------
(* The child and the processes it started *)

Fork ==
  /\ child = "running"
  /\ \E inherited \in SUBSET Streams : holders' = holders \cup inherited
  /\ UNCHANGED <<caller, child, output>>

\* The caller itself keeps no handle to the end its child writes to.
Mutant_Held(s) == TRUE

Held(s) == child = "running" \/ s \in holders

\* A writer blocks while the pipe is full.
Write(s, utf8) ==
  /\ Held(s)
  /\ written[s] < MaxChunks
  /\ pipe[s] < PipeSize
  /\ written' = [written EXCEPT ![s] = @ + 1]
  /\ pipe' = [pipe EXCEPT ![s] = @ + 1]
  /\ garbled' = IF utf8 THEN garbled ELSE garbled \cup {s}
  /\ UNCHANGED <<caller, processes, read, reader, kept>>

Close(s) ==
  /\ s \in holders
  /\ holders' = holders \ {s}
  /\ UNCHANGED <<caller, child, output>>

Exit ==
  /\ child = "running"
  /\ child' = "exited"
  /\ UNCHANGED <<caller, holders, output>>

-----------------------------------------------------------------------------
(* The reader threads: read_pipe *)

\* Each pipe has a thread of its own; nobody waits for another pipe to end.
Mutant_MayRead(s) ==
  LET first == CHOOSE r \in Streams : TRUE
  IN  reader[s] = "reading" /\ (s = first \/ reader[first] = "done")

MayRead(s) == reader[s] = "reading"

ReadChunk(s) ==
  /\ MayRead(s)
  /\ pipe[s] > 0
  /\ pipe' = [pipe EXCEPT ![s] = @ - 1]
  /\ read' = [read EXCEPT ![s] = @ + 1]
  /\ UNCHANGED <<caller, processes, written, garbled, reader, kept>>

\* The pipe is empty, and nobody can write to it any more.
Mutant_AtEnd(s) == child # "running"

AtEnd(s) == pipe[s] = 0 /\ ~Held(s)

\* read_to_string reads to the end and only then looks whether it is UTF-8.
Decoded(s) == IF s \in garbled THEN 0 ELSE read[s]

ReadEnd(s) ==
  /\ reader[s] = "reading"
  /\ AtEnd(s)
  /\ reader' = [reader EXCEPT ![s] = "done"]
  /\ kept' = [kept EXCEPT ![s] = Decoded(s)]
  /\ UNCHANGED <<caller, processes, written, pipe, read, garbled>>

-----------------------------------------------------------------------------
(* The caller *)

\* wait_timeout returns the status.
Waited ==
  /\ pc = "wait"
  /\ child # "running"
  /\ pc' = "join"
  /\ UNCHANGED <<timedOut, result, processes, output>>

\* kill and wait; a child that has ended meanwhile keeps its status.
AfterKill == IF child = "running" THEN "killed" ELSE child

TimesOut ==
  /\ pc = "wait"
  /\ timedOut' = TRUE
  /\ child' = AfterKill
  /\ pc' = "join"
  /\ UNCHANGED <<result, holders, output>>

\* Success is exit code 0 within the limit.
Return ==
  /\ pc = "join"
  /\ \A s \in Streams : reader[s] = "done"
  /\ pc' = "returned"
  /\ \/ result' = "error"
     \/ child = "exited" /\ ~timedOut /\ result' = "success"
  /\ UNCHANGED <<timedOut, processes, output>>

\* truncate_middle_with_stats: what a result shows of a pipe, and whether it says
\* that something was left out.
ShownOf(s) == IF kept[s] > MaxShown THEN MaxShown ELSE kept[s]

WasTruncated(s) == kept[s] > MaxShown

-----------------------------------------------------------------------------

CallNext ==
  \/ Fork \/ Exit
  \/ \E s \in Streams : (\E utf8 \in BOOLEAN : Write(s, utf8)) \/ Close(s) \/ ReadChunk(s) \/ ReadEnd(s)
  \/ Waited \/ TimesOut \/ Return

CallSpec == CallInit /\ [][CallNext]_callVars

\* The threads run and the time limit passes; nothing is assumed of the child
\* and its descendants.
FairCallSpec ==
  /\ CallSpec
  /\ \A s \in Streams : WF_callVars(ReadChunk(s)) /\ WF_callVars(ReadEnd(s))
  /\ WF_callVars(Waited \/ TimesOut)
  /\ WF_callVars(Return)

-----------------------------------------------------------------------------
(* Properties *)

\* What the caller gets of a pipe is all that was ever written to it, also what
\* was still in it when the child exited or was killed, and what descendants
\* wrote; or, when any of that was not UTF-8, nothing.  A part of the output is
\* never taken for the whole, and what one pipe lost the other still has.
OutputIsWhole ==
  pc = "returned" =>
    \A s \in Streams :
      pipe[s] = 0 /\ kept[s] = IF s \in garbled THEN 0 ELSE written[s]

\* Chunks are neither lost nor doubled on the way, and the caller is past its
\* wait only when the child is gone.
CallTypeOK ==
  /\ pc \in {"wait", "join", "returned"} /\ timedOut \in BOOLEAN
  /\ child \in {"running", "exited", "killed"} /\ holders \subseteq Streams
  /\ \A s \in Streams : written[s] = pipe[s] + read[s] /\ pipe[s] \in 0 .. PipeSize
  /\ pc # "wait" => child # "running"

\* The child is never blocked on a full pipe for ever, whatever the other pipe
\* does: this is why there are two reader threads, started before the wait.
PipesDrain == \A s \in Streams : (pipe[s] = PipeSize) ~> (pipe[s] < PipeSize)

\* Once the limit has passed or the child has exited, and its descendants have
\* let go of the pipes, the call returns.
ReturnsWhenClosed == (pc # "wait" /\ holders = {}) ~> (pc = "returned")

\* "Emit truncation metadata so the planner can tell when it's only seeing a slice
\* of the real output" (shell.rs): what is not shown is told.
SliceIsTold ==
  pc = "returned" =>
    \A s \in Streams : ShownOf(s) < written[s] => WasTruncated(s)

\* What run_shell is described by (descriptions/run_shell.md): "Run a shell
\* command in a working directory with a timeout."
TimeoutBounds == <>(pc = "returned")
=============================================================================
