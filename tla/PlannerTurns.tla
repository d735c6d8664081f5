----------------------------- MODULE PlannerTurns -----------------------------
(***************************************************************************)
(* The turns of a run as its planner sees them: what each request tells,    *)
(* what becomes of it with each kind of planner (RepoPrompt's oracle,       *)
(* RepoPrompt's agent mode, the Codex app-server, an HTTP provider), and    *)
(* what the run remembers afterwards.                                       *)
(*                                                                         *)
(* AgentLoop has the budget of failures, the parent's signals and the       *)
(* contract of the loop; here a parent only adds facts.  What the services  *)
(* do is open: they answer, garble, refuse, stay silent or break off, and   *)
(* RepoPrompt may or may not name the conversation it answers in, and may   *)
(* leave the one it was asked to go on with.  A stream is ReplyChunks       *)
(* deltas long when it is whole.                                            *)
(***************************************************************************)
EXTENDS WorkingMemory, PlannerReply, LlmProvider

CONSTANTS
  Settings,          \* how runs are started: planner, model, environment, goal,
                     \* tools, and whether a parent agent watches
  Calls,             \* the tool calls the planner may choose
  Answers,           \* the replies it may give
  MaxTurns,          \* max_turns, after max(1)
  ParseRetries,      \* 1
  TransportRetries,  \* 2
  ReplyChunks,       \* deltas in a whole stream
  MaxTold            \* bound: facts a parent adds

ASSUME PlannerTurnsAssumptions ==
  /\ {MaxTurns, ReplyChunks} \subseteq Nat \ {0}
  /\ {ParseRetries, TransportRetries, MaxTold} \subseteq Nat
  /\ Answers \subseteq Replies

VARIABLES
  setting,        \* the planner and the goal of the run
  pc,             \* where the loop is
  turn,           \* next_turn
  parseLeft,      \* retries left in this turn
  transportLeft,
  hint,           \* recovery_hint
  memory,         \* working_memory
  hints,          \* and its guard hints
  observations,   \* what the tools answered
  told,           \* (history) facts that came from a parent
  conversation,   \* chat_id or session_id, 0 while none is kept
  heard,          \* the conversation the last answer came from
  strayed,        \* (history) RepoPrompt did not keep to a conversation, or
                  \* never said which it is
  reply,          \* the reply being received or read
  sent,           \* deltas of it that have arrived
  completed,      \* response.completed has arrived
  rejected,       \* (history) a request could not be sent or was refused
  spoke           \* (history) the conversation last acted upon

loopVars == <<turn, memory, hints, observations, told, spoke>>
serviceVars == <<conversation, heard, strayed>>
streamVars == <<reply, sent, completed>>
vars == <<setting, pc, parseLeft, transportLeft, hint, rejected, loopVars,
          serviceVars, streamVars>>

NoReply == "no reply"

Ended == {"finished", "exceeded", "failed"}

Kind == setting.kind

Init ==
  /\ setting \in Settings
  /\ pc = "build"
  /\ turn = 0 /\ parseLeft = 0 /\ transportLeft = 0
  /\ hint = None
  /\ memory = EmptyMemory /\ hints = {} /\ observations = << >> /\ told = 0
  /\ conversation = 0 /\ heard = 0 /\ strayed = FALSE
  /\ reply = NoReply /\ sent = 0 /\ completed = FALSE
  /\ rejected = FALSE
  /\ spoke = 0

-----------------------------------------------------------------------------
(* build_planner *)

\* RepoPrompt's CLI may be missing, the window of the workspace unknown, the
\* app-server not to be started; the HTTP planner is built without a look.
Build ==
  /\ pc = "build"
  /\ pc' \in IF Kind = "http" THEN {"turn"} ELSE {"turn", "failed"}
  /\ UNCHANGED <<setting, parseLeft, transportLeft, hint, rejected, loopVars,
                 serviceVars, streamVars>>

-----------------------------------------------------------------------------
(* The turn *)

PrepareTurn ==
  /\ pc = "turn"
  /\ turn < MaxTurns
  /\ turn' = turn + 1
  /\ hints' = GuardHints(memory.facts, observations, turn + 1, MaxTurns)
  /\ hint' = Override(observations)
  /\ parseLeft' = ParseRetries
  /\ transportLeft' = TransportRetries
  /\ pc' = "ask"
  /\ UNCHANGED <<setting, memory, observations, told, spoke, rejected,
                 serviceVars, streamVars>>

ExceedTurns ==
  /\ pc = "turn"
  /\ turn = MaxTurns
  /\ pc' = "exceeded"
  /\ UNCHANGED <<setting, parseLeft, transportLeft, hint, rejected, loopVars,
                 serviceVars, streamVars>>

\* apply_subagent_signals: the parent's facts go behind the others, without
\* the limit the run's own facts have.
HearParent(fact) ==
  /\ pc = "ask"
  /\ setting.child
  /\ fact # None /\ told < MaxTold
  /\ told' = told + 1
  /\ memory' = [memory EXCEPT !.facts = Append(@, fact)]
  /\ UNCHANGED <<setting, pc, turn, hints, observations, spoke, parseLeft,
                 transportLeft, hint, rejected, serviceVars, streamVars>>

\* What is sent: the catalogue and the rules of the tools the run offers, the
\* memory, the hints and the override.
Prompt ==
  [catalogue |-> Catalogue(turn), advised |-> Advised(turn),
   rules |-> Rules(setting.tools), budget |-> Budget(GoalKind(setting.goal)),
   memory |-> memory, hints |-> hints, override |-> hint]

-----------------------------------------------------------------------------
(* What an attempt comes to *)

\* RuntimeError::Planner: once more, as long as the turn has retries.
Transient ==
  /\ pc' = IF transportLeft > 0 THEN "ask" ELSE "failed"
  /\ transportLeft' = IF transportLeft > 0 THEN transportLeft - 1 ELSE 0
  /\ hint' = IF transportLeft > 0 THEN "transport" ELSE hint
  /\ UNCHANGED <<setting, parseLeft, loopVars>>

\* RuntimeError::PlannerFatal
Fatal ==
  /\ pc' = "failed"
  /\ UNCHANGED <<setting, parseLeft, transportLeft, hint, loopVars>>

Receive(r) ==
  /\ reply' = r
  /\ pc' = "parse"
  /\ UNCHANGED <<setting, parseLeft, transportLeft, hint, rejected, loopVars>>

Mutant_NewConversation == TRUE

\* is_first_turn, or no session_id yet: the prompt opens a conversation.
NewConversation == conversation = 0

\* A conversation that knows nothing of the run; which number it has is of no matter.
Opened == CHOOSE c \in 1..3 : c \notin {conversation, spoke}

\* Where the answer comes from: a new conversation when one was asked for, else the
\* one that was named, or a new one all the same.
Places == {Opened} \cup (IF NewConversation THEN {} ELSE {conversation})

\* An answer that will be read.
HeardIn(place) ==
  /\ heard' = place
  /\ strayed' = \/ strayed \/ conversation' = 0
                 \/ (~NewConversation /\ place # conversation)

-----------------------------------------------------------------------------
(* RepoPrompt's oracle: the chat whose id came with the last answer *)

Oracle == pc = "ask" /\ Kind = "oracle"

\* The CLI cannot be run.
OracleUnreachable == Oracle /\ Transient /\ UNCHANGED <<rejected, serviceVars, streamVars>>

\* The CLI exits with an error, is killed at the timeout, or says no in JSON.
OracleRefuses ==
  /\ Oracle
  /\ Fatal
  /\ rejected' = TRUE
  /\ UNCHANGED <<serviceVars, streamVars>>

\* The chat id is kept before the answer is read, if there is one, and replaces any
\* other.
OracleAnswers(r) ==
  /\ Oracle
  /\ \E place \in Places, named \in BOOLEAN :
       /\ conversation' = IF named THEN place ELSE conversation
       /\ HeardIn(place)
  /\ Receive(r)
  /\ UNCHANGED <<sent, completed>>

-----------------------------------------------------------------------------
(* RepoPrompt's agent mode: start, then steer the session that was named *)

Agent == pc = "ask" /\ Kind = "agent"

\* The first session id that comes with an answer is kept, and no other.
Session(place, named) ==
  IF conversation = 0 /\ named THEN place ELSE conversation

\* A start that is lost, or killed at the timeout, may have opened a session
\* nobody will steer.
AgentSilent ==
  /\ Agent
  /\ Transient
  /\ UNCHANGED <<rejected, serviceVars, streamVars>>

\* It answers, but is still running, or without text.
AgentUnready ==
  /\ Agent
  /\ Transient
  /\ \E place \in Places, named \in BOOLEAN :
       conversation' = Session(place, named)
  /\ UNCHANGED <<heard, strayed, rejected, streamVars>>

\* It failed, or waits for input nobody will give.
AgentFails ==
  /\ Agent
  /\ Fatal
  /\ \E place \in Places, named \in BOOLEAN :
       conversation' = Session(place, named)
  /\ rejected' = TRUE
  /\ UNCHANGED <<heard, strayed, streamVars>>

AgentAnswers(r) ==
  /\ Agent
  /\ \E place \in Places, named \in BOOLEAN :
       /\ conversation' = Session(place, named)
       /\ HeardIn(place)
  /\ Receive(r)
  /\ UNCHANGED <<sent, completed>>

-----------------------------------------------------------------------------
(* Codex, whose thread and turns are the subject of CodexClient: every prompt starts *)
(* a thread of its own, and none is kept                                            *)

Codex == pc = "ask" /\ Kind = "codex"

CodexFails == Codex /\ Transient /\ UNCHANGED <<rejected, serviceVars, streamVars>>

CodexAnswers(r) ==
  /\ Codex
  /\ heard' = Opened
  /\ Receive(r)
  /\ UNCHANGED <<conversation, strayed, sent, completed>>

-----------------------------------------------------------------------------
(* An HTTP provider *)

Http == pc = "ask" /\ Kind = "http"

Known == setting.id \in ProviderIds

CanSend == Sendable(setting.id, setting.model, setting.environment)

UnknownProvider ==
  /\ Http
  /\ ~Known
  /\ Fatal
  /\ rejected' = TRUE
  /\ UNCHANGED <<serviceVars, streamVars>>

\* Every error of the client counts as transient: no key, no URL, no such
\* route, a status 4xx ...
HttpRejected ==
  /\ Http
  /\ Known
  /\ Transient
  /\ rejected' = TRUE
  /\ UNCHANGED <<serviceVars, streamVars>>

\* ... and no connection or a status 5xx.
HttpUnreachable ==
  /\ Http
  /\ Known /\ CanSend
  /\ Transient
  /\ UNCHANGED <<rejected, serviceVars, streamVars>>

\* A 2xx: the stream begins.
HttpOpens(r) ==
  /\ Http
  /\ Known /\ CanSend
  /\ reply' = r
  /\ sent' = 0
  /\ completed' = FALSE
  /\ pc' = "stream"
  /\ UNCHANGED <<setting, parseLeft, transportLeft, hint, rejected, loopVars,
                 serviceVars>>

Streaming == pc = "stream"

Delta ==
  /\ Streaming
  /\ sent < ReplyChunks /\ ~completed
  /\ sent' = sent + 1
  /\ UNCHANGED <<setting, pc, parseLeft, transportLeft, hint, rejected,
                 loopVars, serviceVars, reply, completed>>

\* response.completed, after every delta or (a backend that does not stream)
\* after none.
Completed ==
  /\ Streaming
  /\ sent \in {0, ReplyChunks} /\ ~completed
  /\ completed' = TRUE
  /\ UNCHANGED <<setting, pc, parseLeft, transportLeft, hint, rejected,
                 loopVars, serviceVars, reply, sent>>

\* response.error, or the connection breaks: what has arrived is dropped.
StreamBreaks ==
  /\ Streaming
  /\ Transient
  /\ UNCHANGED <<rejected, serviceVars, streamVars>>

\* The text that has arrived when the stream ends: the deltas, or else the
\* final response.  A stream that ends early (response.incomplete and
\* response.failed are ignored) leaves a text that is cut.
TextOf(r) ==
  IF sent \in 1..ReplyChunks - 1 THEN [r EXCEPT !.slips = @ \cup {"cut"}] ELSE r

StreamEnds ==
  /\ Streaming
  /\ sent > 0 \/ completed
  /\ Receive(TextOf(reply))
  /\ UNCHANGED <<serviceVars, sent, completed>>

\* The stream ends and there is no text at all.
StreamEndsEmpty ==
  /\ Streaming
  /\ sent = 0 /\ ~completed
  /\ Transient
  /\ UNCHANGED <<rejected, serviceVars, streamVars>>

-----------------------------------------------------------------------------
(* The reply *)

NotParsed ==
  /\ pc = "parse"
  /\ ~Accepted(reply)
  /\ pc' = IF parseLeft > 0 THEN "ask" ELSE "failed"
  /\ parseLeft' = IF parseLeft > 0 THEN parseLeft - 1 ELSE 0
  /\ hint' = IF parseLeft > 0 THEN "parse" ELSE hint
  /\ UNCHANGED <<setting, transportLeft, rejected, loopVars, serviceVars,
                 streamVars>>

Parsed ==
  /\ pc = "parse"
  /\ Accepted(reply)
  /\ hint' = None
  /\ spoke' = heard

Summarized == RecordSummary(memory, turn)

Finish ==
  /\ Parsed
  /\ reply.action = "finish"
  /\ memory' = Summarized
  /\ pc' = "finished"
  /\ UNCHANGED <<setting, turn, hints, observations, told, parseLeft,
                 transportLeft, rejected, serviceVars, streamVars>>

\* complete_long_term_update wants one of its decisions, and a target for a
\* change; the rest of the tools may succeed or fail.
Results(call) ==
  IF call.name = "complete_long_term_update" THEN {call.valid} ELSE BOOLEAN

Mutant_Remembered(call, ok) == Observe(Summarized, call, TRUE)

Remembered(call, ok) == Observe(Summarized, call, ok)

UseTool(call) ==
  /\ Parsed
  /\ reply.action = "tool"
  /\ \E ok \in Results(call) :
       /\ memory' = Remembered(call, ok)
       /\ observations' =
            Append(observations, [turn |-> turn, call |-> call, ok |-> ok])
  /\ pc' = "turn"
  /\ UNCHANGED <<setting, turn, hints, told, parseLeft, transportLeft,
                 rejected, serviceVars, streamVars>>

Done == pc \in Ended /\ UNCHANGED vars

Next ==
  \/ Build \/ PrepareTurn \/ ExceedTurns
  \/ \E call \in Calls : HearParent(call.fact)
  \/ OracleUnreachable \/ OracleRefuses
  \/ AgentSilent \/ AgentUnready \/ AgentFails
  \/ CodexFails
  \/ UnknownProvider \/ HttpRejected \/ HttpUnreachable
  \/ \E r \in Answers :
       OracleAnswers(r) \/ AgentAnswers(r) \/ CodexAnswers(r) \/ HttpOpens(r)
  \/ Delta \/ Completed \/ StreamBreaks \/ StreamEnds \/ StreamEndsEmpty
  \/ NotParsed \/ Finish
  \/ \E call \in Calls : UseTool(call)
  \/ Done

Spec == Init /\ [][Next]_vars

-----------------------------------------------------------------------------
(* Properties *)

TypeOK ==
  /\ setting \in Settings
  /\ pc \in {"build", "turn", "ask", "stream", "parse"} \cup Ended
  /\ turn \in 0..MaxTurns
  /\ parseLeft \in 0..ParseRetries /\ transportLeft \in 0..TransportRetries
  /\ hint \in {None, "stop_exploring", "parse", "transport"}
  /\ {conversation, heard, spoke} \subseteq 0..3
  /\ told \in 0..MaxTold /\ sent \in 0..ReplyChunks
  /\ {completed, rejected, strayed} \subseteq BOOLEAN

\* The memory a run has built step by step is the one its trace gives when it
\* is made anew: no call is noted twice, early, or although it failed.  (What
\* a parent added is in no trace.)
MemoryIsRebuilt ==
  pc = "ask" /\ told = 0 => memory = FromObservations(observations)

\* The anchor tells the turns that are over, each once and in their order:
\* the newest HistoryMax in the history, the EarlierMax before them above it.
AnchorTellsTheTurns ==
  pc = "ask" =>
    LET over == turn - 1
        folded == IF over > HistoryMax THEN over - HistoryMax ELSE 0
        dropped == IF folded > EarlierMax THEN folded - EarlierMax ELSE 0
    IN /\ memory.history = [k \in 1..over - folded |-> folded + k]
       /\ memory.earlier =
            [k \in 1..folded - dropped |-> <<dropped + k, dropped + k>>]

\* All the actions a run carries out with one of RepoPrompt's planners come from one
\* conversation, as long as RepoPrompt keeps to it and has said which it is: a retry, a
\* garbled answer or a lost one never moves the run to a conversation which knows
\* nothing of the turns before.  (With Codex every turn is a thread of its own.)
ConversationStands ==
  [][~strayed /\ spoke # 0 /\ Kind \in {"oracle", "agent"} => spoke' = spoke]_vars

\* "First turn: start, returns session_id.  Subsequent turns: steer on the same
\* session" (run_planners.rs lines 191-192): after the first action the prompt is a
\* steer.  It fails when the answer did not name its session.
SteersOneSession == Agent /\ spoke # 0 => ~NewConversation

\* "Use for `the request completed but the response says no' (4xx, auth
\* rejection)": a planner that says no is not asked again.
RejectionIsFatal == rejected => pc \in Ended

\* "Partial output is discarded rather than silently returned."
PartialIsDiscarded ==
  pc = "parse" /\ Kind = "http" => sent \in {0, ReplyChunks}

\* "Long runs keep some signal of early-turn context instead of dropping it
\* entirely": every turn that is over is told somewhere.
EarlyTurnsAreKept ==
  pc = "ask" =>
    \A t \in 1..turn - 1 :
      \/ \E k \in 1..Len(memory.history) : memory.history[k] = t
      \/ \E k \in 1..Len(memory.earlier) :
           t \in memory.earlier[k][1]..memory.earlier[k][2]

\* "If the planner needs a forgotten description on a late turn, it calls
\* tool_describe": the prompt advises only tools that the run offers.
AdviceIsOffered == pc = "ask" => Prompt.advised \subseteq setting.tools

\* "Deep goals get a larger exploration budget": nobody is told to stop
\* before the budget in the same prompt is spent.
BudgetStands ==
  pc = "ask" /\ Prompt.override = "stop_exploring" =>
    Len(observations) >= Prompt.budget

=============================================================================
