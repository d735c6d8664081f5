-------------------------- MODULE PlannerTurnsProofs --------------------------
(***************************************************************************)
(* PlannerTurns proved for any limits of the memory, any planner and any    *)
(* replies: a run stays in the conversation RepoPrompt has named, and what  *)
(* the prompt tells of the turns before is complete and in order.           *)
(***************************************************************************)
EXTENDS PlannerTurns, SequenceTheorems, WellFoundedInduction, TLAPS

-----------------------------------------------------------------------------
(* The conversation *)

\* As long as RepoPrompt keeps to a conversation it has named, what was acted upon and
\* what is about to be read come from the one that is kept.
SpokeHere ==
  /\ Streaming => Kind = "http"
  /\ ~strayed /\ Kind \in {"oracle", "agent"} =>
       /\ spoke # 0 => spoke = conversation
       /\ pc = "parse" => heard = conversation /\ conversation # 0

\* Steps that leave the conversation alone: an answer is read only after one came, and
\* what is streamed is of no conversation.
LEMMA QuietSteps ==
  Next => \/ \E r \in Answers : OracleAnswers(r) \/ AgentAnswers(r)
          \/ AgentUnready \/ AgentFails
          \/ \E r \in Answers : CodexAnswers(r) \/ HttpOpens(r)
          \/ Finish \/ \E call \in Calls : UseTool(call)
          \/ /\ UNCHANGED <<setting, conversation, heard, strayed, spoke>>
             /\ pc' = "parse" => pc \in {"stream", "parse"}
             /\ pc' = "stream" => pc = "stream"
BY DEF Next, Build, PrepareTurn, ExceedTurns, HearParent, OracleUnreachable, OracleRefuses,
       AgentSilent, CodexFails, UnknownProvider, HttpRejected, HttpUnreachable, Delta,
       Completed, StreamBreaks, StreamEnds, StreamEndsEmpty, NotParsed, Done, vars,
       serviceVars, loopVars, Transient, Fatal, Receive, Oracle, Agent, Codex, Http,
       Streaming, Ended

\* An answer comes in the conversation that was asked for, and the run keeps it.
LEMMA AnswersHere ==
  ASSUME SpokeHere, NEW r, OracleAnswers(r) \/ AgentAnswers(r)
  PROVE  SpokeHere' /\ spoke' = spoke
<1>1. PICK place \in Places, named \in BOOLEAN :
        /\ \/ conversation' = IF named THEN place ELSE conversation
           \/ conversation' = IF conversation = 0 /\ named THEN place ELSE conversation
        /\ HeardIn(place)
  BY DEF OracleAnswers, AgentAnswers, Session
<1>2. spoke' = spoke /\ setting' = setting /\ pc' = "parse"
  BY DEF OracleAnswers, AgentAnswers, Receive, loopVars
<1>3. heard' = place
  BY <1>1 DEF HeardIn
<1>4. ASSUME ~strayed' PROVE conversation' = place /\ place # 0 /\ ~strayed
  <2>1. ~strayed /\ conversation' # 0 /\ ~ (conversation # 0 /\ place # conversation)
    BY <1>1, <1>4 DEF HeardIn, NewConversation
  <2> QED BY <1>1, <2>1
<1>5. ASSUME ~strayed', spoke # 0, Kind \in {"oracle", "agent"} PROVE spoke = conversation'
  <2>1. spoke = conversation
    BY <1>4, <1>5 DEF SpokeHere
  <2>2. conversation' = conversation
    BY <1>1, <1>4, <1>5, <2>1 DEF HeardIn, NewConversation
  <2> QED BY <2>1, <2>2
<1> QED BY <1>2, <1>3, <1>4, <1>5 DEF SpokeHere, Streaming, Kind

LEMMA SpokeStep ==
  SpokeHere /\ [Next]_vars
    => SpokeHere' /\ (~strayed /\ spoke # 0 /\ Kind \in {"oracle", "agent"} => spoke' = spoke)
<1> SUFFICES ASSUME SpokeHere, [Next]_vars
             PROVE  /\ SpokeHere'
                    /\ ~strayed /\ spoke # 0 /\ Kind \in {"oracle", "agent"} => spoke' = spoke
  OBVIOUS
<1>1. CASE \E r \in Answers : OracleAnswers(r) \/ AgentAnswers(r)
  BY <1>1, AnswersHere
<1>2. CASE AgentUnready \/ AgentFails
  <2>1. /\ UNCHANGED <<setting, heard, strayed, spoke>>
        /\ pc' \notin {"parse", "stream"}
        /\ conversation # 0 => conversation' = conversation
    BY <1>2 DEF AgentUnready, AgentFails, Transient, Fatal, loopVars, Session
  <2> QED BY <2>1 DEF SpokeHere, Streaming, Kind
<1>3. CASE \E r \in Answers : CodexAnswers(r) \/ HttpOpens(r)
  <2>1. /\ UNCHANGED <<setting, spoke>>
        /\ Kind \notin {"oracle", "agent"}
        /\ pc' = "stream" => Kind = "http"
    BY <1>3 DEF CodexAnswers, HttpOpens, Receive, loopVars, Codex, Http
  <2> QED BY <2>1 DEF SpokeHere, Streaming, Kind
<1>4. CASE Finish \/ \E call \in Calls : UseTool(call)
  <2>1. /\ UNCHANGED <<setting, conversation, heard, strayed>>
        /\ pc = "parse" /\ pc' \notin {"parse", "stream"} /\ spoke' = heard
    BY <1>4 DEF Finish, UseTool, Parsed, serviceVars
  <2> QED BY <2>1 DEF SpokeHere, Streaming, Kind
<1>5. CASE /\ UNCHANGED <<setting, conversation, heard, strayed, spoke>>
           /\ pc' = "parse" => pc \in {"stream", "parse"}
           /\ pc' = "stream" => pc = "stream"
  BY <1>5 DEF SpokeHere, Streaming, Kind
<1>6. CASE UNCHANGED vars
  BY <1>6 DEF SpokeHere, Streaming, Kind, vars, loopVars, serviceVars
<1> QED BY <1>1, <1>2, <1>3, <1>4, <1>5, <1>6, QuietSteps

\* All the actions of a run with one of RepoPrompt's planners come from one conversation,
\* whatever is retried, garbled or lost in between, as long as RepoPrompt keeps to it and
\* has named it (the chat_id and session_id of run_planners).
THEOREM OneConversation == Spec => ConversationStands
<1>1. Init => SpokeHere
  BY DEF Init, SpokeHere, Streaming
<1>2. SpokeHere /\ [Next]_vars
        => [~strayed /\ spoke # 0 /\ Kind \in {"oracle", "agent"} => spoke' = spoke]_vars
  BY SpokeStep
<1> QED BY <1>1, <1>2, SpokeStep, PTL DEF Spec, ConversationStands

-----------------------------------------------------------------------------
(* The lists of the memory *)

\* A list of the turns after f up to n, and a list of lines about one turn each.
Turns(s, f, n) ==
  /\ s \in Seq(Nat) /\ Len(s) = n - f
  /\ \A k \in 1 .. n - f : s[k] = f + k

Line == Nat \X Nat

Lines(s, f, n) ==
  /\ s \in Seq(Line) /\ Len(s) = n - f
  /\ \A k \in 1 .. n - f : s[k] = <<f + k, f + k>>

\* The limits are positive.
LEMMA Limits == HistoryMax \in Nat \ {0} /\ EarlierMax \in Nat \ {0}
  BY WorkingMemoryAssumptions

\* A list that has grown by one and is within its limit stays as it is.
LEMMA WithinLimit ==
  ASSUME NEW S, NEW more \in Seq(S), NEW limit \in Nat, Len(more) <= limit
  PROVE  Newest(more, limit) = more /\ Drained(more, limit) = << >>
<1>1. Len(more) \in Nat
  BY LenProperties
<1>2. ~(Len(more) > limit)
  BY <1>1
<1>3. Newest(more, limit) = more
  BY <1>2 DEF Newest
<1>4. Drained(more, limit) = SubSeq(more, 1, 0)
  BY <1>2 DEF Drained
<1>5. SubSeq(more, 1, 0) = << >>
  BY SubSeqEmpty
<1> QED BY <1>3, <1>4, <1>5

\* A list that has grown by one beyond its limit loses its first element.
LEMMA BeyondLimit ==
  ASSUME NEW S, NEW more \in Seq(S), NEW limit \in Nat, Len(more) = limit + 1
  PROVE  /\ Newest(more, limit) \in Seq(S) /\ Len(Newest(more, limit)) = limit
         /\ \A k \in 1 .. limit : Newest(more, limit)[k] = more[k + 1]
         /\ Drained(more, limit) \in Seq(S) /\ Len(Drained(more, limit)) = 1
         /\ Drained(more, limit)[1] = more[1]
<1>1. Len(more) > limit /\ Len(more) - limit + 1 = 2 /\ Len(more) - limit = 1
  OBVIOUS
<1>2. Newest(more, limit) = SubSeq(more, 2, Len(more))
  BY <1>1 DEF Newest
<1>3. Drained(more, limit) = SubSeq(more, 1, 1)
  BY <1>1 DEF Drained
<1>4. \A i \in 1 .. Len(more) : more[i] \in S
  BY ElementOfSeq
<1>5. /\ SubSeq(more, 2, Len(more)) \in Seq(S)
      /\ Len(SubSeq(more, 2, Len(more)))
           = IF 2 <= Len(more) THEN Len(more) - 2 + 1 ELSE 0
      /\ \A k \in 1 .. Len(more) - 2 + 1 : SubSeq(more, 2, Len(more))[k] = more[2 + k - 1]
  <2>1. \A i \in 2 .. Len(more) : more[i] \in S
    BY <1>4
  <2> QED BY <2>1, SubSeqProperties
<1>6. /\ SubSeq(more, 1, 1) \in Seq(S) /\ Len(SubSeq(more, 1, 1)) = 1
      /\ SubSeq(more, 1, 1)[1] = more[1]
  <2>1. \A i \in 1 .. 1 : more[i] \in S
    BY <1>4
  <2> QED BY <2>1, SubSeqProperties
<1> QED BY <1>2, <1>3, <1>5, <1>6

\* The next turn comes behind the others, and the oldest goes if the limit is reached.
LEMMA NextTurn ==
  ASSUME NEW s, NEW f \in Nat, NEW n \in Nat, f <= n, Turns(s, f, n),
         NEW limit \in Nat \ {0}
  PROVE  LET more == Append(s, n + 1)
         IN  /\ n - f < limit =>
                  Turns(Newest(more, limit), f, n + 1) /\ Drained(more, limit) = << >>
             /\ n - f = limit =>
                  /\ Turns(Newest(more, limit), f + 1, n + 1)
                  /\ Turns(Drained(more, limit), f, f + 1)
<1> DEFINE x == n + 1
           more == Append(s, x)
<1>1. s \in Seq(Nat) /\ x \in Nat /\ Len(s) = n - f
  BY DEF Turns
<1>2. /\ more \in Seq(Nat) /\ Len(more) = n - f + 1
      /\ \A k \in 1 .. n - f : more[k] = s[k]
      /\ more[n - f + 1] = x
  <2>1. /\ more \in Seq(Nat) /\ Len(more) = Len(s) + 1
        /\ \A k \in 1 .. Len(s) : more[k] = s[k]
        /\ more[Len(s) + 1] = x
    <3>1. s \in Seq(Nat) /\ x \in Nat
      BY <1>1
    <3> HIDE DEF x
    <3> QED BY ONLY <3>1, AppendProperties
  <2> HIDE DEF more, x
  <2> QED BY <1>1, <2>1
<1>3. Turns(more, f, n + 1)
  <2>1. \A k \in 1 .. n - f : s[k] = f + k
    BY DEF Turns
  <2>2. x = n + 1
    OBVIOUS
  <2> HIDE DEF more, x
  <2>3. ASSUME NEW k \in 1 .. n - f + 1 PROVE more[k] = f + k
    <3>1. CASE k = n - f + 1
      <4>1. f + k = n + 1
        BY <3>1
      <4> QED BY <1>2, <2>2, <3>1, <4>1
    <3>2. CASE k # n - f + 1
      <4>1. k \in 1 .. n - f
        BY <3>2
      <4> QED BY <1>2, <2>1, <4>1
    <3> QED BY <3>1, <3>2
  <2>4. n + 1 - f = n - f + 1
    OBVIOUS
  <2> QED BY <1>2, <2>3, <2>4 DEF Turns
<1>4. CASE n - f < limit
  <2>1. Newest(more, limit) = more /\ Drained(more, limit) = << >>
    <3>1. more \in Seq(Nat) /\ Len(more) <= limit
      BY <1>2, <1>4
    <3> HIDE DEF more
    <3> QED BY ONLY <3>1, limit \in Nat \ {0}, WithinLimit
  <2> HIDE DEF more
  <2>2. Turns(Newest(more, limit), f, n + 1)
    BY <1>3, <2>1
  <2> QED BY <1>4, <2>1, <2>2 DEF more
<1>5. CASE n - f = limit
  <2>1. /\ Newest(more, limit) \in Seq(Nat) /\ Len(Newest(more, limit)) = limit
        /\ \A k \in 1 .. limit : Newest(more, limit)[k] = more[k + 1]
        /\ Drained(more, limit) \in Seq(Nat) /\ Len(Drained(more, limit)) = 1
        /\ Drained(more, limit)[1] = more[1]
    <3>1. more \in Seq(Nat) /\ Len(more) = limit + 1
      BY <1>2, <1>5
    <3> HIDE DEF more
    <3> QED BY ONLY <3>1, limit \in Nat \ {0}, BeyondLimit
  <2> HIDE DEF more
  <2>2. \A k \in 1 .. n - f + 1 : more[k] = f + k
    <3>1. n + 1 - f = n - f + 1
      OBVIOUS
    <3> QED BY <1>3, <3>1 DEF Turns
  <2>3. Turns(Newest(more, limit), f + 1, n + 1)
    <3>1. n + 1 - (f + 1) = limit
      BY <1>5
    <3>2. ASSUME NEW k \in 1 .. limit PROVE Newest(more, limit)[k] = f + 1 + k
      <4>1. k + 1 \in 1 .. n - f + 1 /\ f + (k + 1) = f + 1 + k
        BY <1>5
      <4> QED BY <2>1, <2>2, <4>1
    <3> QED BY <2>1, <3>1, <3>2 DEF Turns
  <2>4. Turns(Drained(more, limit), f, f + 1)
    <3>1. f + 1 - f = 1 /\ 1 \in 1 .. n - f + 1
      OBVIOUS
    <3>2. more[1] = f + 1
      BY <2>2, <3>1
    <3> QED BY <2>1, <3>1, <3>2 DEF Turns
  <2> QED BY <1>5, <2>3, <2>4 DEF more
<1> QED BY <1>4, <1>5 DEF more

\* The same for the lines.
LEMMA NextLine ==
  ASSUME NEW s, NEW f \in Nat, NEW n \in Nat, f <= n, Lines(s, f, n),
         NEW limit \in Nat \ {0}
  PROVE  LET more == Append(s, <<n + 1, n + 1>>)
         IN  /\ n - f < limit =>
                  Lines(Newest(more, limit), f, n + 1) /\ Drained(more, limit) = << >>
             /\ n - f = limit =>
                  /\ Lines(Newest(more, limit), f + 1, n + 1)
                  /\ Lines(Drained(more, limit), f, f + 1)
<1> DEFINE x == <<n + 1, n + 1>>
           more == Append(s, x)
<1>1. s \in Seq(Line) /\ x \in Line /\ Len(s) = n - f
  BY DEF Lines, Line
<1>2. /\ more \in Seq(Line) /\ Len(more) = n - f + 1
      /\ \A k \in 1 .. n - f : more[k] = s[k]
      /\ more[n - f + 1] = x
  <2>1. /\ more \in Seq(Line) /\ Len(more) = Len(s) + 1
        /\ \A k \in 1 .. Len(s) : more[k] = s[k]
        /\ more[Len(s) + 1] = x
    <3>1. s \in Seq(Line) /\ x \in Line
      BY <1>1
    <3> HIDE DEF x
    <3> QED BY ONLY <3>1, AppendProperties
  <2> HIDE DEF more, x
  <2> QED BY <1>1, <2>1
<1>3. Lines(more, f, n + 1)
  <2>1. \A k \in 1 .. n - f : s[k] = <<f + k, f + k>>
    BY DEF Lines
  <2>2. x = <<n + 1, n + 1>>
    OBVIOUS
  <2> HIDE DEF more, x
  <2>3. ASSUME NEW k \in 1 .. n - f + 1 PROVE more[k] = <<f + k, f + k>>
    <3>1. CASE k = n - f + 1
      <4>1. f + k = n + 1
        BY <3>1
      <4> QED BY <1>2, <2>2, <3>1, <4>1
    <3>2. CASE k # n - f + 1
      <4>1. k \in 1 .. n - f
        BY <3>2
      <4> QED BY <1>2, <2>1, <4>1
    <3> QED BY <3>1, <3>2
  <2>4. n + 1 - f = n - f + 1
    OBVIOUS
  <2> QED BY <1>2, <2>3, <2>4 DEF Lines
<1>4. CASE n - f < limit
  <2>1. Newest(more, limit) = more /\ Drained(more, limit) = << >>
    <3>1. more \in Seq(Line) /\ Len(more) <= limit
      BY <1>2, <1>4
    <3> HIDE DEF more
    <3> QED BY ONLY <3>1, limit \in Nat \ {0}, WithinLimit
  <2> HIDE DEF more
  <2>2. Lines(Newest(more, limit), f, n + 1)
    BY <1>3, <2>1
  <2> QED BY <1>4, <2>1, <2>2 DEF more
<1>5. CASE n - f = limit
  <2>1. /\ Newest(more, limit) \in Seq(Line) /\ Len(Newest(more, limit)) = limit
        /\ \A k \in 1 .. limit : Newest(more, limit)[k] = more[k + 1]
        /\ Drained(more, limit) \in Seq(Line) /\ Len(Drained(more, limit)) = 1
        /\ Drained(more, limit)[1] = more[1]
    <3>1. more \in Seq(Line) /\ Len(more) = limit + 1
      BY <1>2, <1>5
    <3> HIDE DEF more
    <3> QED BY ONLY <3>1, limit \in Nat \ {0}, BeyondLimit
  <2> HIDE DEF more
  <2>2. \A k \in 1 .. n - f + 1 : more[k] = <<f + k, f + k>>
    <3>1. n + 1 - f = n - f + 1
      OBVIOUS
    <3> QED BY <1>3, <3>1 DEF Lines
  <2>3. Lines(Newest(more, limit), f + 1, n + 1)
    <3>1. n + 1 - (f + 1) = limit
      BY <1>5
    <3>2. ASSUME NEW k \in 1 .. limit PROVE Newest(more, limit)[k] = <<f + 1 + k, f + 1 + k>>
      <4>1. k + 1 \in 1 .. n - f + 1 /\ f + (k + 1) = f + 1 + k
        BY <1>5
      <4> QED BY <2>1, <2>2, <4>1
    <3> QED BY <2>1, <3>1, <3>2 DEF Lines
  <2>4. Lines(Drained(more, limit), f, f + 1)
    <3>1. f + 1 - f = 1 /\ 1 \in 1 .. n - f + 1
      OBVIOUS
    <3>2. more[1] = <<f + 1, f + 1>>
      BY <2>2, <3>1
    <3> QED BY <2>1, <3>1, <3>2 DEF Lines
  <2> QED BY <1>5, <2>3, <2>4 DEF more
<1> QED BY <1>4, <1>5 DEF more

-----------------------------------------------------------------------------
(* The memory of a run *)

Excess(n, limit) == IF n > limit THEN n - limit ELSE 0

\* The first n turns are told: the newest in the history, those before them in a line
\* of their own above it.
Tells(m, n) ==
  LET folded == Excess(n, HistoryMax)
  IN  Turns(m.history, folded, n) /\ Lines(m.earlier, Excess(folded, EarlierMax), folded)

\* The memory is a record: it has the fields EmptyMemory has.
IsMemory(m) ==
  m = [history |-> m.history, earlier |-> m.earlier, facts |-> m.facts,
       skills |-> m.skills, settlement |-> m.settlement]

\* What one more turn adds to the excess.
LEMMA ExcessGrows ==
  ASSUME NEW n \in Nat, NEW limit \in Nat \ {0}
  PROVE  /\ Excess(n, limit) \in Nat /\ Excess(n, limit) <= n
         /\ n < limit => n - Excess(n, limit) < limit /\ Excess(n + 1, limit) = Excess(n, limit)
         /\ n >= limit => n - Excess(n, limit) = limit
                           /\ Excess(n + 1, limit) = Excess(n, limit) + 1
  BY DEF Excess

\* A turn that has left the history is a line above it.
LEMMA FoldTells ==
  ASSUME NEW earlier, NEW out, NEW f \in Nat,
         Lines(earlier, Excess(f, EarlierMax), f), Turns(out, f, f + 1)
  PROVE  Lines(FoldEarlier(earlier, out), Excess(f + 1, EarlierMax), f + 1)
<1> DEFINE dropped == Excess(f, EarlierMax)
           more == Append(earlier, <<f + 1, f + 1>>)
<1>1. /\ EarlierMax \in Nat \ {0} /\ dropped \in Nat /\ dropped <= f
      /\ f < EarlierMax => f - dropped < EarlierMax /\ Excess(f + 1, EarlierMax) = dropped
      /\ f >= EarlierMax => f - dropped = EarlierMax /\ Excess(f + 1, EarlierMax) = dropped + 1
  BY Limits, ExcessGrows
<1>2. FoldEarlier(earlier, out) = Newest(more, EarlierMax)
  <2>1. f + 1 - f = 1 /\ 1 \in 1 .. 1
    OBVIOUS
  <2>2. out \in Seq(Nat) /\ Len(out) = 1 /\ out[1] = f + 1
    BY <2>1 DEF Turns
  <2>3. out # << >>
    <3>1. Len(<< >>) = 0
      BY EmptySeq
    <3>2. out = << >> => Len(out) = 0
      BY ONLY <3>1, Zenon
    <3> QED BY ONLY <2>2, <3>2
  <2> QED BY <2>2, <2>3 DEF FoldEarlier
<1>3. Lines(earlier, dropped, f)
  OBVIOUS
<1> HIDE DEF dropped
<1>4. CASE f < EarlierMax
  <2>1. Lines(Newest(more, EarlierMax), dropped, f + 1)
    BY <1>1, <1>3, <1>4, NextLine
  <2> HIDE DEF more
  <2> QED BY <1>1, <1>2, <1>4, <2>1
<1>5. CASE f >= EarlierMax
  <2>1. Lines(Newest(more, EarlierMax), dropped + 1, f + 1)
    BY <1>1, <1>3, <1>5, NextLine
  <2> HIDE DEF more
  <2> QED BY <1>1, <1>2, <1>5, <2>1
<1> QED BY <1>1, <1>4, <1>5

\* A summary tells one turn more.
LEMMA SummaryTells ==
  ASSUME NEW m, IsMemory(m), NEW n \in Nat, Tells(m, n)
  PROVE  IsMemory(RecordSummary(m, n + 1)) /\ Tells(RecordSummary(m, n + 1), n + 1)
<1> DEFINE folded == Excess(n, HistoryMax)
           turns == Append(m.history, n + 1)
<1>1. /\ HistoryMax \in Nat \ {0} /\ folded \in Nat /\ folded <= n
      /\ n < HistoryMax =>
           n - folded < HistoryMax /\ Excess(n + 1, HistoryMax) = folded
      /\ n >= HistoryMax =>
           n - folded = HistoryMax /\ Excess(n + 1, HistoryMax) = folded + 1
  BY Limits, ExcessGrows
<1>2. /\ Turns(m.history, folded, n)
      /\ Lines(m.earlier, Excess(folded, EarlierMax), folded)
  BY DEF Tells
<1> HIDE DEF folded
<1>3. ~RepeatsLast(m.history, n + 1)
  <2> DEFINE last == Len(m.history)
  <2>1. /\ m.history \in Seq(Nat) /\ last = n - folded
        /\ \A k \in 1 .. n - folded : m.history[k] = folded + k
    BY <1>2 DEF Turns
  <2>2. ASSUME m.history # << >> PROVE m.history[last] # n + 1
    <3>1. last \in Nat \ {0}
      BY <2>1, <2>2, EmptySeq
    <3>2. last \in 1 .. n - folded /\ folded + last = n
      BY <1>1, <2>1, <3>1
    <3> HIDE DEF last
    <3> QED BY <2>1, <3>2
  <2> QED BY <2>2 DEF RepeatsLast
<1>4. RecordSummary(m, n + 1)
        = [m EXCEPT !.history = Newest(turns, HistoryMax),
                    !.earlier = FoldEarlier(m.earlier, Drained(turns, HistoryMax))]
  BY <1>3 DEF RecordSummary
<1>5. /\ RecordSummary(m, n + 1).history = Newest(turns, HistoryMax)
      /\ RecordSummary(m, n + 1).earlier = FoldEarlier(m.earlier, Drained(turns, HistoryMax))
      /\ IsMemory(RecordSummary(m, n + 1))
  <2> HIDE DEF turns
  <2> QED BY <1>4 DEF IsMemory
<1>6. CASE n < HistoryMax
  <2>1. Turns(Newest(turns, HistoryMax), folded, n + 1) /\ Drained(turns, HistoryMax) = << >>
    BY <1>1, <1>2, <1>6, NextTurn
  <2> HIDE DEF turns
  <2>2. FoldEarlier(m.earlier, Drained(turns, HistoryMax)) = m.earlier
    BY <2>1 DEF FoldEarlier
  <2>3. Excess(n + 1, HistoryMax) = folded
    BY <1>1, <1>6
  <2> QED BY <1>2, <1>5, <2>1, <2>2, <2>3 DEF Tells
<1>7. CASE n >= HistoryMax
  <2>1. /\ Turns(Newest(turns, HistoryMax), folded + 1, n + 1)
        /\ Turns(Drained(turns, HistoryMax), folded, folded + 1)
    BY <1>1, <1>2, <1>7, NextTurn
  <2> HIDE DEF turns
  <2>2. Lines(FoldEarlier(m.earlier, Drained(turns, HistoryMax)),
              Excess(folded + 1, EarlierMax), folded + 1)
    BY <1>1, <1>2, <2>1, FoldTells
  <2>3. Excess(n + 1, HistoryMax) = folded + 1
    BY <1>1, <1>7
  <2> QED BY <1>5, <2>1, <2>2, <2>3 DEF Tells
<1> QED BY <1>1, <1>6, <1>7

\* What a tool answers, or a parent adds, leaves the turns as they are told.
SameTurns(m, n) == IsMemory(n) /\ n.history = m.history /\ n.earlier = m.earlier

LEMMA ObserveKeepsTurns ==
  ASSUME NEW m, IsMemory(m), NEW call, NEW ok
  PROVE  SameTurns(m, Observe(m, call, ok))
<1>1. SameTurns(m, m)
  BY DEF SameTurns
<1>2. SameTurns(m, Learnt(m, call))
  <2>1. ASSUME NEW facts, NEW skills, NEW n,
               n = [m EXCEPT !.facts = facts, !.skills = skills]
        PROVE  SameTurns(m, n)
    BY <2>1 DEF SameTurns, IsMemory
  <2> QED BY ONLY <2>1, Zenon DEF Learnt
<1>3. SameTurns(m, [m EXCEPT !.settlement = call.fact])
  BY DEF SameTurns, IsMemory
<1>4. SameTurns(m, [m EXCEPT !.settlement = None,
                             !.facts = PushLimited(m.facts, call.fact, FactsMax)])
  <2>1. ASSUME NEW settlement, NEW facts, NEW n,
               n = [m EXCEPT !.settlement = settlement, !.facts = facts]
        PROVE  SameTurns(m, n)
    BY <2>1 DEF SameTurns, IsMemory
  <2> QED BY ONLY <2>1, Zenon
<1>5. CASE ~ok
  <2>1. Observe(m, call, ok) = m
    BY <1>5 DEF Observe
  <2> QED BY <1>1, <2>1
<1>6. CASE ok /\ call.name = "start_long_term_update"
  <2>1. Observe(m, call, ok) = [m EXCEPT !.settlement = call.fact]
    BY <1>6 DEF Observe
  <2> QED BY <1>3, <2>1
<1>7. CASE ok /\ call.name = "complete_long_term_update"
  <2>1. Observe(m, call, ok)
          = [m EXCEPT !.settlement = None,
                      !.facts = PushLimited(m.facts, call.fact, FactsMax)]
    BY <1>7 DEF Observe
  <2> QED BY <1>4, <2>1
<1>8. CASE ok /\ call.name = "update_working_checkpoint"
  <2>1. Observe(m, call, ok) = Learnt(m, call)
    BY <1>8 DEF Observe
  <2> QED BY <1>2, <2>1
<1>9. CASE ok /\ call.name \notin {"start_long_term_update", "complete_long_term_update",
                                   "update_working_checkpoint"}
  <2>1. Observe(m, call, ok) = m
    BY <1>9 DEF Observe
  <2> QED BY <1>1, <2>1
<1> QED BY <1>5, <1>6, <1>7, <1>8, <1>9

Asking == {"ask", "stream", "parse"}

\* Between its turns a run has told them all; in a turn, all but this one.
Telling ==
  /\ turn \in Nat /\ IsMemory(memory)
  /\ pc \in {"build", "turn"} => Tells(memory, turn)
  /\ pc \in Asking => turn - 1 \in Nat /\ Tells(memory, turn - 1)

LEMMA TellingInit == Init => Telling
<1> SUFFICES ASSUME Init PROVE Telling
  OBVIOUS
<1>1. turn = 0 /\ pc = "build" /\ memory = EmptyMemory
  BY DEF Init
<1>2. Excess(0, HistoryMax) = 0 /\ Excess(0, EarlierMax) = 0
  BY Limits DEF Excess
<1>3. /\ IsMemory(EmptyMemory) /\ EmptyMemory.history = << >> /\ EmptyMemory.earlier = << >>
  BY DEF EmptyMemory, IsMemory
<1>4. Turns(<< >>, 0, 0) /\ Lines(<< >>, 0, 0)
  BY EmptySeq DEF Turns, Lines
<1>5. Tells(EmptyMemory, 0)
  BY <1>2, <1>3, <1>4 DEF Tells
<1> QED BY <1>1, <1>3, <1>5 DEF Telling, Asking

\* An attempt leaves the memory and the turn as they are.
Attempt ==
  /\ pc \in Asking /\ pc' \in Asking \cup Ended
  /\ turn' = turn /\ memory' = memory

LEMMA StepsOfARun ==
  Next => \/ Build \/ PrepareTurn \/ ExceedTurns
          \/ \E call \in Calls : HearParent(call.fact)
          \/ Attempt \/ Finish
          \/ \E call \in Calls : UseTool(call)
          \/ Done
<1> USE DEF Attempt, Asking, Ended, loopVars, Transient, Fatal, Receive
<1>1. OracleUnreachable \/ OracleRefuses => Attempt
  BY DEF OracleUnreachable, OracleRefuses, Oracle
<1>2. AgentSilent \/ AgentUnready \/ AgentFails => Attempt
  BY DEF AgentSilent, AgentUnready, AgentFails, Agent
<1>3. CodexFails => Attempt
  BY DEF CodexFails, Codex
<1>4. UnknownProvider \/ HttpRejected \/ HttpUnreachable => Attempt
  BY DEF UnknownProvider, HttpRejected, HttpUnreachable, Http
<1>5. (\E r \in Answers : OracleAnswers(r) \/ AgentAnswers(r) \/ CodexAnswers(r) \/ HttpOpens(r))
        => Attempt
  BY DEF OracleAnswers, AgentAnswers, CodexAnswers, HttpOpens, Oracle, Agent, Codex, Http
<1>6. Delta \/ Completed \/ StreamBreaks \/ StreamEnds \/ StreamEndsEmpty => Attempt
  BY DEF Delta, Completed, StreamBreaks, StreamEnds, StreamEndsEmpty, Streaming
<1>7. NotParsed => Attempt
  BY DEF NotParsed
<1> QED BY <1>1, <1>2, <1>3, <1>4, <1>5, <1>6, <1>7 DEF Next

LEMMA TellingStep == Telling /\ [Next]_vars => Telling'
<1> SUFFICES ASSUME Telling, [Next]_vars PROVE Telling'
  OBVIOUS
<1>1. \A m, n : SameTurns(m, n) => \A k : Tells(m, k) => Tells(n, k)
  BY DEF SameTurns, Tells
<1>2. CASE Build
  BY <1>2 DEF Build, Telling, Asking, loopVars, Tells
<1>3. CASE PrepareTurn
  <2>1. turn' = turn + 1 /\ memory' = memory /\ pc = "turn" /\ pc' = "ask" /\ turn \in Nat
    BY <1>3 DEF PrepareTurn, Telling
  <2>2. turn' - 1 = turn /\ turn' \in Nat
    BY <2>1
  <2>3. Tells(memory, turn) /\ IsMemory(memory)
    BY <2>1 DEF Telling
  <2>4. Tells(memory', turn' - 1) /\ IsMemory(memory')
    BY <2>1, <2>2, <2>3
  <2> QED BY <2>1, <2>2, <2>4 DEF Telling, Asking
<1>4. CASE ExceedTurns
  BY <1>4 DEF ExceedTurns, Telling, Asking, loopVars
<1>5. CASE \E call \in Calls : HearParent(call.fact)
  <2>1. PICK call \in Calls : HearParent(call.fact)
    BY <1>5
  <2>2. /\ pc = "ask" /\ pc' = pc /\ turn' = turn
        /\ memory' = [memory EXCEPT !.facts = Append(@, call.fact)]
    BY <2>1 DEF HearParent
  <2>3. SameTurns(memory, memory')
    <3>1. IsMemory(memory)
      BY DEF Telling
    <3> QED BY <2>2, <3>1 DEF SameTurns, IsMemory
  <2>4. turn \in Nat /\ turn - 1 \in Nat /\ Tells(memory, turn - 1)
    BY <2>2 DEF Telling, Asking
  <2>5. Tells(memory', turn - 1) /\ IsMemory(memory')
    BY <1>1, <2>3, <2>4 DEF SameTurns
  <2>6. Tells(memory', turn' - 1)
    BY <2>2, <2>5
  <2> QED BY <2>2, <2>4, <2>5, <2>6 DEF Telling, Asking
<1>6. CASE Attempt
  BY <1>6 DEF Attempt, Telling, Asking, Ended
<1>7. CASE Finish
  <2>1. /\ pc = "parse" /\ pc' = "finished" /\ turn' = turn
        /\ memory' = RecordSummary(memory, turn)
    BY <1>7 DEF Finish, Parsed, Summarized
  <2>2. turn \in Nat /\ turn - 1 \in Nat /\ Tells(memory, turn - 1) /\ IsMemory(memory)
    BY <2>1 DEF Telling, Asking
  <2>3. (turn - 1) + 1 = turn
    BY <2>2
  <2>4. IsMemory(RecordSummary(memory, (turn - 1) + 1))
    BY <2>2, SummaryTells
  <2>5. IsMemory(memory')
    BY <2>1, <2>3, <2>4
  <2> QED BY <2>1, <2>2, <2>5 DEF Telling, Asking
<1>8. CASE \E call \in Calls : UseTool(call)
  <2>1. PICK call \in Calls : UseTool(call)
    BY <1>8
  <2>2. PICK ok \in Results(call) :
          memory' = Observe(RecordSummary(memory, turn), call, ok)
    BY <2>1 DEF UseTool, Remembered, Summarized
  <2>3. pc = "parse" /\ pc' = "turn" /\ turn' = turn
    BY <2>1 DEF UseTool, Parsed
  <2>4. turn \in Nat /\ turn - 1 \in Nat /\ Tells(memory, turn - 1) /\ IsMemory(memory)
    BY <2>3 DEF Telling, Asking
  <2> DEFINE summarized == RecordSummary(memory, turn)
  <2>5. (turn - 1) + 1 = turn
    BY <2>4
  <2>6. IsMemory(RecordSummary(memory, (turn - 1) + 1))
        /\ Tells(RecordSummary(memory, (turn - 1) + 1), (turn - 1) + 1)
    BY <2>4, SummaryTells
  <2>7. IsMemory(summarized) /\ Tells(summarized, turn)
    BY <2>5, <2>6
  <2>8. memory' = Observe(summarized, call, ok)
    BY <2>2
  <2> HIDE DEF summarized
  <2>9. SameTurns(summarized, memory')
    BY <2>7, <2>8, ObserveKeepsTurns
  <2>10. Tells(memory', turn) /\ IsMemory(memory')
    BY <1>1, <2>7, <2>9 DEF SameTurns
  <2>11. Tells(memory', turn')
    BY <2>3, <2>10
  <2> QED BY <2>3, <2>4, <2>10, <2>11 DEF Telling, Asking
<1>9. CASE Done \/ UNCHANGED vars
  <2>1. pc' = pc /\ turn' = turn /\ memory' = memory
    BY <1>9 DEF Done, vars, loopVars
  <2> QED BY <2>1 DEF Telling
<1> QED BY <1>2, <1>3, <1>4, <1>5, <1>6, <1>7, <1>8, <1>9, StepsOfARun

LEMMA TellingIsAnchor == Telling => AnchorTellsTheTurns
<1> SUFFICES ASSUME Telling, pc = "ask"
             PROVE  LET over == turn - 1
                        folded == Excess(over, HistoryMax)
                        dropped == Excess(folded, EarlierMax)
                    IN /\ memory.history = [k \in 1 .. over - folded |-> folded + k]
                       /\ memory.earlier =
                            [k \in 1 .. folded - dropped |-> <<dropped + k, dropped + k>>]
  BY DEF AnchorTellsTheTurns, Excess
<1> DEFINE over == turn - 1
           folded == Excess(over, HistoryMax)
           dropped == Excess(folded, EarlierMax)
<1>1. Turns(memory.history, folded, over) /\ Lines(memory.earlier, dropped, folded)
  BY DEF Telling, Asking, Tells
<1> HIDE DEF over, folded, dropped
<1>2. memory.history = [k \in 1 .. over - folded |-> folded + k]
  <2>1. /\ memory.history \in Seq(Nat) /\ Len(memory.history) = over - folded
        /\ \A k \in 1 .. over - folded : memory.history[k] = folded + k
    BY <1>1 DEF Turns
  <2>2. /\ DOMAIN memory.history = 1 .. over - folded
        /\ memory.history = [k \in DOMAIN memory.history |-> memory.history[k]]
    BY <2>1, LenProperties
  <2> QED BY <2>1, <2>2
<1>3. memory.earlier = [k \in 1 .. folded - dropped |-> <<dropped + k, dropped + k>>]
  <2>1. /\ memory.earlier \in Seq(Line) /\ Len(memory.earlier) = folded - dropped
        /\ \A k \in 1 .. folded - dropped : memory.earlier[k] = <<dropped + k, dropped + k>>
    BY <1>1 DEF Lines
  <2>2. /\ DOMAIN memory.earlier = 1 .. folded - dropped
        /\ memory.earlier = [k \in DOMAIN memory.earlier |-> memory.earlier[k]]
    BY <2>1, LenProperties
  <2> QED BY <2>1, <2>2
<1> QED BY <1>2, <1>3 DEF over, folded, dropped

\* The prompt of every turn tells the turns before it, each once, in their order, the
\* newest in full and those before them as a line (push_history_with_fold), whatever is
\* retried and whatever tools or a parent add to the memory.
THEOREM AnchorIsComplete == Spec => []AnchorTellsTheTurns
<1> QED BY TellingInit, TellingStep, TellingIsAnchor, PTL DEF Spec

-----------------------------------------------------------------------------
(* from_observations: the memory made anew from the trace                  *)

\* The order of the numbers has no infinite descent; its library theorems name an
\* operator, so they are cited here once.
LEMMA NatOrder ==
  \E R : /\ IsWellFoundedOn(R, Nat)
         /\ \A x, y \in Nat : <<x, y>> \in R <=> x < y
<1>1. \A x, y \in Nat : <<x, y>> \in OpToRel(<, Nat) <=> x < y
  BY DEF OpToRel
<1> QED BY <1>1, NatLessThanWellFounded

LEMMA MinimalElement ==
  \A R, U : IsWellFoundedOn(R, U) =>
    \A T \in SUBSET U : T # {} => \E x \in T : \A y \in T : ~ (<<y, x>> \in R)
<1>1. ASSUME NEW R, NEW U, IsWellFoundedOn(R, U), NEW T, T \subseteq U, T # {}
      PROVE  \E x \in T : \A y \in T : ~ (<<y, x>> \in R)
  BY <1>1, WFMin
<1> QED BY <1>1

\* A set of numbers that is not empty has a least one.
LEMMA LeastNumber ==
  ASSUME NEW T, T \subseteq Nat, T # {}
  PROVE  \E x \in T : \A y \in T : x <= y
<1>1. PICK R : /\ IsWellFoundedOn(R, Nat)
               /\ \A x, y \in Nat : <<x, y>> \in R <=> x < y
  BY NatOrder
<1>2. PICK x \in T : \A y \in T : ~ (<<y, x>> \in R)
  <2>1. T \in SUBSET Nat /\ IsWellFoundedOn(R, Nat)
    BY <1>1
  <2> QED BY ONLY <2>1, T # {}, MinimalElement
<1>3. ASSUME NEW y \in T PROVE x <= y
  <2>1. x \in Nat /\ y \in Nat /\ ~ (y < x)
    BY <1>1, <1>2
  <2> QED BY <2>1
<1> QED BY <1>3

\* The memory after one more observation.
After(m, o) == Observe(RecordSummary(m, o.turn), o.call, o.ok)

\* g tells the memory after each of the first n observations of s.
Replays(s, n, g) ==
  g = [k \in 0 .. n |-> IF k = 0 THEN EmptyMemory ELSE After(g[k - 1], s[k])]

\* from_observations is the end of the replay of all of them.
LEMMA ReplayedMemory ==
  ASSUME NEW s
  PROVE  FromObservations(s) = (CHOOSE g : Replays(s, Len(s), g))[Len(s)]
BY DEF FromObservations, Replays, After

\* A replay begins with nothing and goes from observation to observation.
LEMMA ReplaysMean ==
  ASSUME NEW s, NEW n \in Nat, NEW g, Replays(s, n, g)
  PROVE  /\ g[0] = EmptyMemory
         /\ \A k \in 1 .. n : g[k] = After(g[k - 1], s[k])
<1>1. \A k \in 0 .. n : g[k] = IF k = 0 THEN EmptyMemory ELSE After(g[k - 1], s[k])
  BY DEF Replays
<1>2. g[0] = EmptyMemory
  BY <1>1
<1>3. ASSUME NEW k \in 1 .. n PROVE g[k] = After(g[k - 1], s[k])
  <2>1. k \in 0 .. n /\ k # 0
    OBVIOUS
  <2> QED BY <1>1, <2>1
<1> QED BY <1>2, <1>3

\* Two replays of traces that begin alike begin alike.
LEMMA ReplaysAgree ==
  ASSUME NEW s, NEW n \in Nat, NEW g, Replays(s, n, g),
         NEW t, NEW m \in Nat, NEW h, Replays(t, m, h),
         n <= m, \A k \in 1 .. n : s[k] = t[k]
  PROVE  \A k \in 0 .. n : g[k] = h[k]
<1> DEFINE T == {k \in 0 .. n : g[k] # h[k]}
<1>1. CASE T = {}
  BY <1>1
<1>2. CASE T # {}
  <2>1. T \subseteq Nat
    OBVIOUS
  <2>2. PICK x \in T : \A y \in T : x <= y
    <3> HIDE DEF T
    <3> QED BY <1>2, <2>1, LeastNumber
  <2>3. /\ g[0] = EmptyMemory /\ \A k \in 1 .. n : g[k] = After(g[k - 1], s[k])
        /\ h[0] = EmptyMemory /\ \A k \in 1 .. m : h[k] = After(h[k - 1], t[k])
    BY ReplaysMean
  <2>4. x \in 1 .. n /\ x \in 1 .. m /\ x - 1 \in 0 .. n /\ ~ (x <= x - 1)
    BY <2>3
  <2>5. g[x - 1] = h[x - 1]
    BY <2>2, <2>4
  <2>6. g[x] = h[x]
    BY <2>3, <2>4, <2>5
  <2> QED BY <2>2, <2>6
<1> QED BY <1>1, <1>2

\* A replay of n observations is continued by one more.
LEMMA ReplayGrows ==
  ASSUME NEW s, NEW n \in Nat, NEW g, Replays(s, n, g)
  PROVE  \E h : Replays(s, n + 1, h)
<1> DEFINE h == [k \in 0 .. n + 1 |-> IF k = n + 1 THEN After(g[n], s[n + 1]) ELSE g[k]]
<1>1. /\ g[0] = EmptyMemory
      /\ \A k \in 1 .. n : g[k] = After(g[k - 1], s[k])
  BY ReplaysMean
<1>2. ASSUME NEW k \in 0 .. n + 1
      PROVE  (IF k = n + 1 THEN After(g[n], s[n + 1]) ELSE g[k])
               = IF k = 0 THEN EmptyMemory ELSE After(h[k - 1], s[k])
  <2>1. CASE k = 0
    BY <1>1, <2>1
  <2>2. CASE k \in 1 .. n
    <3>1. k # 0 /\ k # n + 1 /\ k - 1 # n + 1 /\ k - 1 \in 0 .. n + 1
      BY <2>2
    <3>2. h[k - 1] = g[k - 1]
      BY <3>1
    <3> HIDE DEF h
    <3> QED BY <1>1, <2>2, <3>1, <3>2
  <2>3. CASE k = n + 1
    <3>1. k # 0 /\ k - 1 = n /\ n # n + 1 /\ n \in 0 .. n + 1
      BY <2>3
    <3>2. h[n] = g[n]
      BY <3>1
    <3> HIDE DEF h
    <3> QED BY <2>3, <3>1, <3>2
  <2> QED BY <2>1, <2>2, <2>3
<1>3. h = [k \in 0 .. n + 1 |-> IF k = 0 THEN EmptyMemory ELSE After(h[k - 1], s[k])]
  BY <1>2, Zenon
<1> QED BY <1>3 DEF Replays

\* Every number of observations has its replay: the least one without would follow one
\* that has it.
LEMMA ReplayExists ==
  ASSUME NEW s, NEW n \in Nat
  PROVE  \E g : Replays(s, n, g)
<1> DEFINE T == {k \in Nat : ~ \E g : Replays(s, k, g)}
<1>1. CASE T = {}
  BY <1>1
<1>2. CASE T # {}
  <2>1. PICK x \in T : \A y \in T : x <= y
    <3>1. T \subseteq Nat
      OBVIOUS
    <3> HIDE DEF T
    <3> QED BY <1>2, <3>1, LeastNumber
  <2>2. x # 0
    <3> DEFINE h == [k \in 0 .. 0 |-> EmptyMemory]
    <3>1. \A k \in 0 .. 0 : k = 0
      OBVIOUS
    <3>2. h = [k \in 0 .. 0 |-> IF k = 0 THEN EmptyMemory ELSE After(h[k - 1], s[k])]
      BY <3>1
    <3>3. Replays(s, 0, h)
      BY <3>2 DEF Replays
    <3> QED BY <2>1, <3>3
  <2>3. x - 1 \in Nat /\ ~ (x <= x - 1) /\ (x - 1) + 1 = x
    BY <2>2
  <2>4. PICK g : Replays(s, x - 1, g)
    BY <2>1, <2>3
  <2>5. \E h : Replays(s, (x - 1) + 1, h)
    BY <2>3, <2>4, ReplayGrows
  <2> QED BY <2>1, <2>3, <2>5
<1> QED BY <1>1, <1>2

LEMMA RebuiltReplays ==
  ASSUME NEW s, Len(s) \in Nat
  PROVE  \E g : Replays(s, Len(s), g) /\ FromObservations(s) = g[Len(s)]
<1> DEFINE g == CHOOSE h : Replays(s, Len(s), h)
<1>1. Replays(s, Len(s), g)
  BY ReplayExists
<1> QED BY <1>1, ReplayedMemory

\* A run that has observed nothing has an empty memory.
LEMMA RebuiltFromNothing == FromObservations(<< >>) = EmptyMemory
<1>1. Len(<< >>) = 0
  BY EmptySeq
<1>2. PICK g : Replays(<< >>, 0, g) /\ FromObservations(<< >>) = g[0]
  BY <1>1, RebuiltReplays
<1> QED BY <1>2, ReplaysMean

\* One more observation is one more step of the memory.
LEMMA RebuiltFromOneMore ==
  ASSUME NEW S, NEW s \in Seq(S), NEW o \in S
  PROVE  FromObservations(Append(s, o)) = After(FromObservations(s), o)
<1> DEFINE t == Append(s, o)
           n == Len(s)
<1>1. n \in Nat /\ Len(t) = n + 1 /\ t[n + 1] = o /\ \A k \in 1 .. n : s[k] = t[k]
  BY AppendProperties, LenProperties
<1>2. PICK g : Replays(s, n, g) /\ FromObservations(s) = g[n]
  BY <1>1, RebuiltReplays
<1> HIDE DEF n, t
<1>3. PICK h : Replays(t, n + 1, h) /\ FromObservations(t) = h[n + 1]
  BY <1>1, RebuiltReplays
<1>4. g[n] = h[n]
  <2>1. n + 1 \in Nat /\ n <= n + 1 /\ n \in 0 .. n
    BY <1>1
  <2> QED BY <1>1, <1>2, <1>3, <2>1, ReplaysAgree
<1>5. h[n + 1] = After(h[n], t[n + 1])
  <2>1. n + 1 \in Nat /\ n + 1 \in 1 .. n + 1 /\ (n + 1) - 1 = n
    BY <1>1
  <2> QED BY <1>3, <2>1, ReplaysMean
<1> QED BY <1>1, <1>2, <1>3, <1>4, <1>5 DEF t

-----------------------------------------------------------------------------
(* The memory of a run is the one its trace gives *)

Observation == [turn : Nat, call : Calls, ok : UNION {Results(call) : call \in Calls}]

Running == {"build", "turn"} \cup Asking

\* In a run to which no parent has spoken, the memory is the replay of the trace.
Rebuilt ==
  /\ told \in Nat /\ observations \in Seq(Observation)
  /\ pc \in Running /\ told = 0 => memory = FromObservations(observations)

LEMMA RebuiltInit == Init => Rebuilt
<1>1. << >> \in Seq(Observation)
  BY EmptySeq
<1> QED BY <1>1, RebuiltFromNothing DEF Init, Rebuilt

\* An attempt adds nothing to the trace and nothing of the parent's.
LEMMA StepsOfATrace ==
  Next => \/ \E call \in Calls : HearParent(call.fact)
          \/ \E call \in Calls : UseTool(call)
          \/ observations' = observations /\ told' = told
BY DEF Next, Build, PrepareTurn, ExceedTurns, OracleUnreachable, OracleRefuses,
       OracleAnswers, AgentSilent, AgentUnready, AgentFails, AgentAnswers, CodexFails,
       CodexAnswers, UnknownProvider, HttpRejected, HttpUnreachable, HttpOpens, Delta,
       Completed, StreamBreaks, StreamEnds, StreamEndsEmpty, NotParsed, Finish, Done, vars,
       loopVars, Transient, Fatal, Receive

\* And leaves the memory, unless the run is over.
LEMMA StepsOfAMemory ==
  Next => \/ \E call \in Calls : HearParent(call.fact)
          \/ \E call \in Calls : UseTool(call)
          \/ pc' \notin Running
          \/ memory' = memory /\ pc \in Running
          \/ memory' = memory /\ pc' = pc
<1>1. Build \/ PrepareTurn \/ ExceedTurns
        => pc' \notin Running \/ (memory' = memory /\ pc \in Running)
  BY DEF Build, PrepareTurn, ExceedTurns, Running, loopVars
<1>2. Attempt => memory' = memory /\ pc \in Running
  BY DEF Attempt, Running
<1>3. Finish => pc' \notin Running
  BY DEF Finish, Running, Asking
<1>4. Done => memory' = memory /\ pc' = pc
  BY DEF Done, vars, loopVars
<1> QED BY <1>1, <1>2, <1>3, <1>4, StepsOfARun

LEMMA RebuiltStep == Telling /\ Rebuilt /\ [Next]_vars => Rebuilt'
<1> SUFFICES ASSUME Telling, Rebuilt, [Next]_vars PROVE Rebuilt'
  OBVIOUS
<1>1. CASE \E call \in Calls : HearParent(call.fact)
  <2>1. told' = told + 1 /\ observations' = observations /\ told \in Nat
    BY <1>1 DEF HearParent, Rebuilt
  <2>2. told' \in Nat /\ told' # 0
    BY <2>1
  <2> QED BY <2>1, <2>2 DEF Rebuilt
<1>2. CASE \E call \in Calls : UseTool(call)
  <2>1. PICK call \in Calls : UseTool(call)
    BY <1>2
  <2>2. pc = "parse" /\ told' = told
    BY <2>1 DEF UseTool, Parsed
  <2>3. PICK ok \in Results(call) :
          /\ memory' = Observe(RecordSummary(memory, turn), call, ok)
          /\ observations' = Append(observations, [turn |-> turn, call |-> call, ok |-> ok])
    BY <2>1 DEF UseTool, Remembered, Summarized
  <2> DEFINE o == [turn |-> turn, call |-> call, ok |-> ok]
  <2>4. /\ o \in Observation
        /\ memory' = After(memory, o)
    <3>1. turn \in Nat /\ ok \in UNION {Results(c) : c \in Calls}
      BY DEF Telling
    <3> QED BY <2>3, <3>1 DEF Observation, After
  <2>5. observations' = Append(observations, o)
    BY <2>3
  <2>6. observations \in Seq(Observation)
    BY DEF Rebuilt
  <2> HIDE DEF o
  <2>7. FromObservations(observations') = After(FromObservations(observations), o)
    BY <2>4, <2>5, <2>6, RebuiltFromOneMore
  <2>8. observations' \in Seq(Observation)
    BY <2>4, <2>5, <2>6, AppendProperties
  <2>9. told = 0 => memory' = FromObservations(observations')
    BY <2>2, <2>4, <2>7 DEF Rebuilt, Running, Asking
  <2>10. told' \in Nat
    BY <2>2 DEF Rebuilt
  <2> QED BY <2>2, <2>8, <2>9, <2>10 DEF Rebuilt
<1>3. CASE UNCHANGED vars
  <2>1. pc' = pc /\ memory' = memory /\ observations' = observations /\ told' = told
    BY <1>3 DEF vars, loopVars
  <2> QED BY <2>1 DEF Rebuilt
<1>4. CASE /\ Next
           /\ ~ \E call \in Calls : HearParent(call.fact)
           /\ ~ \E call \in Calls : UseTool(call)
  <2>1. observations' = observations /\ told' = told
    BY <1>4, StepsOfATrace
  <2>2. \/ pc' \notin Running
        \/ memory' = memory /\ pc \in Running
        \/ memory' = memory /\ pc' = pc
    BY <1>4, StepsOfAMemory
  <2> QED BY <2>1, <2>2 DEF Rebuilt
<1> QED BY <1>1, <1>2, <1>3, <1>4

\* The memory a run has built call by call is the one from_observations makes of its trace:
\* no call is noted twice, early, or although it failed, whatever is retried.
THEOREM MemoryIsTheTrace == Spec => []MemoryIsRebuilt
<1>1. Rebuilt => MemoryIsRebuilt
  BY DEF Rebuilt, MemoryIsRebuilt, Running, Asking
<1> QED BY <1>1, RebuiltInit, RebuiltStep, TellingInit, TellingStep, PTL DEF Spec
=============================================================================
