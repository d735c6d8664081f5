----------------------------- MODULE CodexClient -----------------------------
(***************************************************************************)
(* The client of the Codex app-server (agent-delegate) and the session that *)
(* keeps it between goals (agent-cli, CodexSession).  The server is a child *)
(* process; the client writes JSON lines to its stdin, a reader thread      *)
(* moves the lines of its stdout to a channel, and the one caller takes     *)
(* them from there.                                                         *)
(*                                                                         *)
(* A prompt is a fixed sequence of requests (initialize once per child,     *)
(* thread/start, turn/start) and then a stream of notifications.  Requests  *)
(* time out, a turn times out on the client but goes on in the server, the  *)
(* server asks for approvals whenever it likes, and it may die.             *)
(*                                                                         *)
(* The server is external and modelled from what the client expects: it     *)
(* answers a request before it reports on it, and ids are unique.  Texts    *)
(* are numbered deltas, a token count is the turn it is about; models and   *)
(* directories are left out.                                                *)
(***************************************************************************)
EXTENDS Naturals, Sequences

CONSTANTS
  Launches,    \* launch fingerprints a goal may ask for
  MaxPrompts,  \* bound: prompts
  MaxDeltas,   \* bound: deltas of one turn
  PipeSize     \* lines a pipe holds

ASSUME CodexAssumptions ==
  /\ "none" \notin Launches
  /\ {MaxPrompts, MaxDeltas} \subseteq Nat
  /\ PipeSize \in Nat \ {0}

VARIABLES
  pc,           \* "idle", the request waited for, or "stream"
  asked,        \* prompts so far
  thread, turn, \* ids of the current prompt
  text,         \* the deltas streamed so far
  tokens,       \* the turn of the last token usage seen, or 0
  result,       \* what the last prompt returned
  fingerprint,  \* of the client that is kept, or "none"
  initialized,
  nextId,
  out,          \* lines the client is about to write
  stdin, stdout,
  rx,           \* the channel filled by the reader thread
  server,       \* the child process: "none", "up" or "dead"
  threads,      \* by thread id, the prompt it was started for
  turns         \* by turn id

prompt == <<asked, thread, turn, text, tokens, result>>
client == <<fingerprint, initialized, nextId>>
child == <<server, threads, turns>>
vars == <<pc, prompt, client, out, stdin, stdout, rx, child>>

Requests == {"initialize", "thread", "turn"}

\* To the server, and from it.
Line(kind, id) ==
  [kind |-> kind, id |-> id, prompt |-> asked, thread |-> 0, turn |-> 0]

Message(kind, id, t, n) == [kind |-> kind, id |-> id, turn |-> t, n |-> n]

Error == [kind |-> "error", turn |-> 0, text |-> << >>, tokens |-> 0]

-----------------------------------------------------------------------------
(* CodexSession::ensure, and run_prompt up to its first request *)

Init ==
  /\ pc = "idle"
  /\ asked = 0 /\ thread = 0 /\ turn = 0 /\ text = << >> /\ tokens = 0
  /\ result = Error
  /\ fingerprint = "none" /\ initialized = FALSE /\ nextId = 1
  /\ out = << >> /\ stdin = << >> /\ stdout = << >> /\ rx = << >>
  /\ server = "none" /\ threads = << >> /\ turns = << >>

\* The turns of a process that is no more never move again.
Gone == [t \in DOMAIN turns |->
           IF turns[t].status \in {"running", "asked"}
           THEN [turns[t] EXCEPT !.status = "gone"]
           ELSE turns[t]]

\* A client whose fingerprint matches is kept, whatever became of its child;
\* start() spawns a child only where there was none.
Kept(f) == f = fingerprint

Ask(f) ==
  /\ pc = "idle"
  /\ asked < MaxPrompts
  /\ asked' = asked + 1
  /\ LET first == IF Kept(f) /\ initialized THEN "thread" ELSE "initialize"
         id    == IF Kept(f) THEN nextId ELSE 1
     IN  /\ pc' = first
         /\ nextId' = id + 1
         /\ out' = <<[Line(first, id) EXCEPT !.prompt = asked']>>
  /\ fingerprint' = f
  /\ IF Kept(f)
     THEN /\ server' = IF server = "none" THEN "up" ELSE server
          /\ UNCHANGED <<initialized, stdin, stdout, rx, turns>>
     ELSE /\ server' = "up"
          /\ initialized' = FALSE
          /\ stdin' = << >> /\ stdout' = << >> /\ rx' = << >>
          /\ turns' = Gone
  /\ UNCHANGED <<thread, turn, text, tokens, result, threads>>

\* The command cannot be started: the client stays, without a child.
SpawnFails(f) ==
  /\ pc = "idle"
  /\ asked < MaxPrompts
  /\ ~Kept(f) \/ server = "none"
  /\ asked' = asked + 1
  /\ result' = Error
  /\ fingerprint' = f /\ initialized' = FALSE /\ nextId' = 1
  /\ server' = "none"
  /\ stdin' = << >> /\ stdout' = << >> /\ rx' = << >>
  /\ turns' = Gone
  /\ UNCHANGED <<pc, thread, turn, text, tokens, out, threads>>

\* /new, and /provider when it leaves codex: the child is killed.
Shutdown ==
  /\ pc = "idle"
  /\ fingerprint # "none"
  /\ fingerprint' = "none" /\ initialized' = FALSE /\ nextId' = 1
  /\ server' = "none"
  /\ stdin' = << >> /\ stdout' = << >> /\ rx' = << >>
  /\ turns' = Gone
  /\ UNCHANGED <<pc, prompt, out, threads>>

-----------------------------------------------------------------------------
(* send and recv *)

Fail ==
  /\ result' = Error
  /\ pc' = "idle"

\* send blocks while the pipe is full.
Write ==
  /\ out # << >>
  /\ server = "up"
  /\ Len(stdin) < PipeSize
  /\ stdin' = Append(stdin, Head(out))
  /\ out' = Tail(out)
  /\ initialized' = (initialized \/ Head(out).kind = "initialized")
  /\ UNCHANGED <<pc, prompt, fingerprint, nextId, stdout, rx, child>>

WriteFails ==
  /\ out # << >>
  /\ server = "dead"
  /\ out' = << >>
  /\ Fail
  /\ UNCHANGED <<asked, thread, turn, text, tokens, client, stdin, stdout, rx, child>>

\* The reader thread.
Read ==
  /\ stdout # << >>
  /\ rx' = Append(rx, Head(stdout))
  /\ stdout' = Tail(stdout)
  /\ UNCHANGED <<pc, prompt, client, out, stdin, child>>

Waiting == pc # "idle" /\ out = << >>

\* The channel is closed when the child is gone and all it wrote was taken.
Closed ==
  /\ Waiting
  /\ server = "dead"
  /\ stdout = << >> /\ rx = << >>
  /\ Fail
  /\ UNCHANGED <<asked, thread, turn, text, tokens, client, out, stdin, stdout, rx, child>>

Mutant_Patient == pc = "stream"

Patient == FALSE

TimesOut ==
  /\ Waiting
  /\ ~Patient
  /\ Fail
  /\ UNCHANGED <<asked, thread, turn, text, tokens, client, out, stdin, stdout, rx, child>>

Take == Waiting /\ rx # << >> /\ rx' = Tail(rx)

\* handle_server_request, in request() and in stream_turn() alike.
Mutant_IsServerRequest(m) == m.kind = "approve" /\ pc = "stream"

IsServerRequest(m) == m.kind = "approve"

Approve ==
  /\ Take
  /\ IsServerRequest(Head(rx))
  /\ out' = <<[Line("approval", 0) EXCEPT !.turn = Head(rx).turn]>>
  /\ UNCHANGED <<pc, prompt, client, stdin, stdout, child>>

-----------------------------------------------------------------------------
(* request *)

Mutant_IsAnswer(m) == m.kind \in {"ok", "refused"}

IsAnswer(m) == m.kind \in {"ok", "refused"} /\ m.id = nextId - 1

Send(lines) ==
  /\ out' = lines
  /\ nextId' = nextId + 1

\* initialize() ends with a notification, and thread/start follows.
Initialized ==
  /\ pc = "initialize"
  /\ pc' = "thread"
  /\ Send(<<Line("initialized", 0), Line("thread", nextId)>>)
  /\ UNCHANGED prompt

ThreadStarted(m) ==
  /\ pc = "thread"
  /\ pc' = "turn"
  /\ thread' = m.n
  /\ Send(<<[Line("turn", nextId) EXCEPT !.thread = m.n]>>)
  /\ UNCHANGED <<asked, turn, text, tokens, result>>

TurnStarted(m) ==
  /\ pc = "turn"
  /\ pc' = "stream"
  /\ turn' = m.turn
  /\ text' = << >>
  /\ tokens' = 0
  /\ UNCHANGED <<asked, thread, result, out, nextId>>

Answered ==
  /\ Take
  /\ pc \in Requests
  /\ IsAnswer(Head(rx))
  /\ IF Head(rx).kind = "ok"
     THEN Initialized \/ ThreadStarted(Head(rx)) \/ TurnStarted(Head(rx))
     ELSE Fail /\ UNCHANGED <<asked, thread, turn, text, tokens, out, nextId>>
  /\ UNCHANGED <<fingerprint, initialized, stdin, stdout, child>>

-----------------------------------------------------------------------------
(* stream_turn *)

\* matches_turn
Mutant_MatchesTurn(m) == TRUE

MatchesTurn(m) == m.turn = turn

Delta ==
  /\ Take
  /\ pc = "stream"
  /\ Head(rx).kind = "delta" /\ MatchesTurn(Head(rx))
  /\ text' = Append(text, <<Head(rx).turn, Head(rx).n>>)
  /\ UNCHANGED <<pc, asked, thread, turn, tokens, result, client, out, stdin, stdout, child>>

\* A token usage is taken from any turn.
Usage ==
  /\ Take
  /\ pc = "stream"
  /\ Head(rx).kind = "usage"
  /\ tokens' = Head(rx).turn
  /\ UNCHANGED <<pc, asked, thread, turn, text, result, client, out, stdin, stdout, child>>

Completed ==
  /\ Take
  /\ pc = "stream"
  /\ Head(rx).kind = "completed" /\ Head(rx).turn = turn
  /\ result' = [kind |-> "answer", turn |-> turn, text |-> text, tokens |-> tokens]
  /\ pc' = "idle"
  /\ UNCHANGED <<asked, thread, turn, text, tokens, client, out, stdin, stdout, child>>

\* An error notification ends the prompt, whichever turn it is about.
TurnError ==
  /\ Take
  /\ pc = "stream"
  /\ Head(rx).kind = "error"
  /\ Fail
  /\ UNCHANGED <<asked, thread, turn, text, tokens, client, out, stdin, stdout, child>>

\* Everything else is dropped: late answers, and what earlier turns still say.
Dropped(m) ==
  /\ ~IsServerRequest(m)
  /\ pc \in Requests => ~IsAnswer(m)
  /\ pc = "stream" =>
       /\ m.kind = "delta" => ~MatchesTurn(m)
       /\ m.kind = "completed" => m.turn # turn
       /\ m.kind \notin {"usage", "error"}

Drop ==
  /\ Take
  /\ Dropped(Head(rx))
  /\ UNCHANGED <<pc, prompt, client, out, stdin, stdout, child>>

Receive == Approve \/ Answered \/ Delta \/ Usage \/ Completed \/ TurnError \/ Drop

-----------------------------------------------------------------------------
(* The app-server *)

Say(m) == Len(stdout) < PipeSize /\ stdout' = Append(stdout, m)

Serve ==
  /\ server = "up"
  /\ stdin # << >>
  /\ stdin' = Tail(stdin)
  /\ LET l == Head(stdin)
     IN  \/ /\ l.kind = "initialize"
            /\ Say(Message("ok", l.id, 0, 0))
            /\ UNCHANGED <<threads, turns>>
         \/ /\ l.kind = "thread"
            /\ threads' = Append(threads, l.prompt)
            /\ Say(Message("ok", l.id, 0, Len(threads) + 1))
            /\ UNCHANGED turns
         \/ /\ l.kind = "turn"
            /\ turns' = Append(turns, [thread |-> l.thread, deltas |-> 0, asks |-> TRUE,
                                       counted |-> FALSE, status |-> "running"])
            /\ Say(Message("ok", l.id, Len(turns) + 1, 0))
            /\ UNCHANGED threads
         \/ /\ l.kind \in Requests
            /\ Say(Message("refused", l.id, 0, 0))
            /\ UNCHANGED <<threads, turns>>
         \/ /\ l.kind = "initialized"
            /\ UNCHANGED <<stdout, threads, turns>>
         \/ /\ l.kind = "approval"
            /\ turns' = [turns EXCEPT ![l.turn].status = "running"]
            /\ UNCHANGED <<stdout, threads>>
  /\ UNCHANGED <<pc, prompt, client, out, rx, server>>

\* A turn streams, counts its tokens once and may ask for an approval once; it
\* completes or fails.
Work(t) ==
  /\ server = "up"
  /\ turns[t].status = "running"
  /\ \/ /\ turns[t].deltas < MaxDeltas
        /\ turns' = [turns EXCEPT ![t].deltas = @ + 1]
        /\ Say(Message("delta", 0, t, turns[t].deltas + 1))
     \/ /\ turns[t].asks
        /\ turns' = [turns EXCEPT ![t].asks = FALSE, ![t].status = "asked"]
        /\ Say(Message("approve", 0, t, 0))
     \/ /\ ~turns[t].counted
        /\ turns' = [turns EXCEPT ![t].counted = TRUE]
        /\ Say(Message("usage", 0, t, 0))
     \/ \E end \in {"completed", "error"} :
          /\ turns' = [turns EXCEPT ![t].status = end]
          /\ Say(Message(end, 0, t, 0))
  /\ UNCHANGED <<pc, prompt, client, out, stdin, rx, server, threads>>

\* What it had written can still be read.
Dies ==
  /\ server = "up"
  /\ server' = "dead"
  /\ stdin' = << >>
  /\ turns' = Gone
  /\ UNCHANGED <<pc, prompt, client, out, stdout, rx, threads>>

-----------------------------------------------------------------------------

Next ==
  \/ \E f \in Launches : Ask(f) \/ SpawnFails(f)
  \/ Shutdown
  \/ Write \/ WriteFails \/ Read
  \/ Receive \/ Closed \/ TimesOut
  \/ Serve \/ Dies
  \/ \E t \in DOMAIN turns : Work(t)

Spec == Init /\ [][Next]_vars

\* The deadlines of the client (request_timeout_secs, turn_timeout_secs) and
\* its reader thread; and, of the server, only that it reads its stdin, for
\* send has no deadline.
FairSpec ==
  /\ Spec
  /\ WF_vars(Write \/ WriteFails)
  /\ WF_vars(Read)
  /\ WF_vars(Serve)
  /\ WF_vars(Closed)
  /\ WF_vars(TimesOut)

-----------------------------------------------------------------------------
(* Properties *)

\* The state has its shape, an idle client has nothing left to write, and only
\* a client whose child was asked to initialize counts as initialized
\* (ensure_ready).
TypeOK ==
  /\ pc \in Requests \cup {"idle", "stream"}
  /\ asked \in 0 .. MaxPrompts
  /\ fingerprint \in Launches \cup {"none"}
  /\ server \in {"none", "up", "dead"}
  /\ nextId \in Nat \ {0}
  /\ {thread} \subseteq 0 .. Len(threads)
  /\ {turn, tokens, result.turn, result.tokens} \subseteq 0 .. Len(turns)
  /\ \A t \in DOMAIN turns : turns[t].thread \in DOMAIN threads
  /\ Len(stdin) <= PipeSize /\ Len(stdout) <= PipeSize
  /\ pc = "idle" => out = << >>
  /\ initialized => fingerprint # "none" /\ nextId > 1

\* An answer is the answer to the prompt that was asked: of a turn of its own
\* thread that is completed, with every delta of that turn once and in order,
\* whatever earlier turns still stream and whichever requests were given up
\* before (the ids of request, matches_turn).
AnswerIsOwn ==
  pc = "idle" /\ result.kind = "answer" =>
    LET t == turns[result.turn]
    IN  /\ threads[t.thread] = asked
        /\ t.status = "completed"
        /\ result.text = [n \in 1 .. t.deltas |-> <<result.turn, n>>]

\* A turn is started in the thread that was started for this prompt: the late
\* answer to the thread/start of an earlier prompt is not taken for it.
ThreadIsOwn ==
  pc \in {"turn", "stream"} =>
    thread \in DOMAIN threads /\ threads[thread] = asked

\* While the server lives, a turn that waits for an approval has its request on
\* the way to the client or the answer on the way back: requests of the server
\* are answered at any point of a prompt, not only while a turn is streamed.
ApprovalsAnswered ==
  \A t \in DOMAIN turns :
    server = "up" /\ turns[t].status = "asked" =>
      \/ \E i \in DOMAIN stdout : stdout[i].kind = "approve" /\ stdout[i].turn = t
      \/ \E i \in DOMAIN rx : rx[i].kind = "approve" /\ rx[i].turn = t
      \/ \E i \in DOMAIN out : out[i].kind = "approval" /\ out[i].turn = t
      \/ \E i \in DOMAIN stdin : stdin[i].kind = "approval" /\ stdin[i].turn = t

\* Every prompt comes back, with an answer or an error, also when the server
\* falls silent or dies in the middle of a turn.
PromptEnds == pc # "idle" ~> pc = "idle"

\* What the comment at stream_turn says of the token usage it keeps: "the most
\* recent token-usage notification for this turn".
TokensAreOwn ==
  pc = "idle" /\ result.kind = "answer" => result.tokens \in {0, result.turn}

\* What the comment at CodexSession::ensure says of the client it returns: "a
\* live client with a matching launch fingerprint", or a fresh one.
EnsuredIsLive == [][asked' # asked /\ pc' # "idle" => server' = "up"]_vars
=============================================================================
