-------------------------- MODULE CodexClientProofs --------------------------
(***************************************************************************)
(* Proofs about CodexClient, for any number of prompts, deltas and pipe     *)
(* sizes: answers belong to the prompt that was asked, turns to its thread, *)
(* and no approval is lost while the server lives.                         *)
(*                                                                         *)
(* The argument is about what is under way.  A line goes from out to stdin  *)
(* and a message from stdout to rx, so both ways are one queue each: lines  *)
(* and wire.  What a line or message under way says of the current request, *)
(* of its turn and of the text streamed so far is the inductive invariant.  *)
(***************************************************************************)
EXTENDS CodexClient, SequenceTheorems, TLAPS

wire  == rx \o stdout
lines == stdin \o out

-----------------------------------------------------------------------------
(* The shape of the state.                                                 *)

LineKinds == Requests \cup {"initialized", "approval"}
MsgKinds  == {"ok", "refused", "delta", "approve", "usage", "completed", "error"}

LineType == [kind : LineKinds, id : Nat, prompt : Nat, thread : Nat, turn : Nat]
MsgType  == [kind : MsgKinds, id : Nat, turn : Nat, n : Nat]
TurnType == [thread : Nat, deltas : Nat, asks : BOOLEAN, counted : BOOLEAN,
             status : {"running", "asked", "gone", "completed", "error"}]
Delta2   == Nat \X Nat
Answers  == [kind : {"error", "answer"}, turn : Nat, text : Seq(Delta2), tokens : Nat]

Shape ==
  /\ pc \in Requests \cup {"idle", "stream"}
  /\ asked \in Nat /\ thread \in Nat /\ turn \in Nat /\ tokens \in Nat
  /\ text \in Seq(Delta2)
  /\ result \in Answers
  /\ fingerprint \in Launches \cup {"none"}
  /\ initialized \in BOOLEAN
  /\ nextId \in Nat \ {0}
  /\ out \in Seq(LineType) /\ stdin \in Seq(LineType)
  /\ stdout \in Seq(MsgType) /\ rx \in Seq(MsgType)
  /\ server \in {"none", "up", "dead"}
  /\ threads \in Seq(Nat)
  /\ turns \in Seq(TurnType)
  /\ \A t \in 1..Len(turns) : turns[t].thread \in 1..Len(threads)

\* An idle client has nothing to write, a child that is not there has no pipes, and
\* only a child that lives has turns that go on.
Quiescent ==
  /\ pc = "idle" => out = << >>
  /\ pc \in Requests => nextId > 1
  /\ server = "none" => stdin = << >> /\ Len(wire) = 0
  /\ server # "up" => /\ stdin = << >>
                      /\ \A t \in 1..Len(turns) :
                           turns[t].status \in {"gone", "completed", "error"}

-----------------------------------------------------------------------------
(* What is under way.                                                      *)

\* The request the client waits for.
Current(id) == pc \in Requests /\ id = nextId - 1

LineOK(l) ==
  /\ l.id < nextId
  /\ l.kind \in Requests /\ Current(l.id) =>
       /\ l.kind = pc /\ l.prompt = asked
       /\ pc = "turn" => l.thread = thread
  /\ l.kind = "turn" => l.thread \in 1..Len(threads)
  /\ l.kind = "approval" =>
       /\ l.turn \in 1..Len(turns)
       /\ server = "up" => turns[l.turn].status = "asked"

MsgOK(m) ==
  /\ m.id < nextId
  /\ m.kind = "ok" /\ Current(m.id) =>
       /\ pc = "thread" => m.n \in 1..Len(threads) /\ threads[m.n] = asked
       /\ pc = "turn" => m.turn \in 1..Len(turns) /\ turns[m.turn].thread = thread
  /\ m.kind \notin {"ok", "refused"} => m.turn \in 1..Len(turns)
  /\ m.kind = "delta" => m.n \in 1..turns[m.turn].deltas
  /\ m.kind = "approve" => (server = "up" => turns[m.turn].status = "asked")
  /\ m.kind = "completed" => turns[m.turn].status = "completed"

LinesOK == \A i \in 1..Len(lines) : LineOK(lines[i])

WireOK == \A i \in 1..Len(wire) : MsgOK(wire[i])

IsDelta(m, t) == m.kind = "delta" /\ m.turn = t

\* Of two messages of one turn: deltas are in order, and none comes after the end of
\* the turn; an approval is asked for once.
InOrder(m1, m2) ==
  m1.turn = m2.turn =>
    /\ ~(m1.kind = "approve" /\ m2.kind = "approve")
    /\ m1.kind = "delta" /\ m2.kind = "delta" => m1.n < m2.n
    /\ ~(m1.kind = "completed" /\ m2.kind = "delta")

WireOrdered == \A i, j \in 1..Len(wire) : i < j => InOrder(wire[i], wire[j])

Apart(l1, l2) == ~(l1.kind = "approval" /\ l2.kind = "approval" /\ l1.turn = l2.turn)

LinesOrdered == \A i, j \in 1..Len(lines) : i < j => Apart(lines[i], lines[j])

\* An approval is not asked for and answered at once.
Across ==
  \A i \in 1..Len(wire), j \in 1..Len(lines) :
    ~(wire[i].kind = "approve" /\ lines[j].kind = "approval" /\ wire[i].turn = lines[j].turn)

-----------------------------------------------------------------------------
(* The prompt.                                                             *)

OfThisPrompt ==
  pc \in {"turn", "stream"} => thread \in 1..Len(threads) /\ threads[thread] = asked

\* The deltas of the turn that were not yet taken are under way, and only those.
Streaming ==
  pc = "stream" =>
    /\ turn \in 1..Len(turns) /\ turns[turn].thread = thread
    /\ Len(text) <= turns[turn].deltas
    /\ \A n \in 1..Len(text) : text[n] = <<turn, n>>
    /\ \A i \in 1..Len(wire) : IsDelta(wire[i], turn) => wire[i].n > Len(text)
    /\ \A n \in 1..turns[turn].deltas :
         n > Len(text) =>
           \E i \in 1..Len(wire) : IsDelta(wire[i], turn) /\ wire[i].n = n

\* The turn reports nothing before the answer that names it.
Starting ==
  pc = "turn" =>
    \A i \in 1..Len(wire) :
      wire[i].kind = "ok" /\ wire[i].id = nextId - 1 =>
        \A n \in 1..turns[wire[i].turn].deltas :
          \E j \in 1..Len(wire) :
            j > i /\ IsDelta(wire[j], wire[i].turn) /\ wire[j].n = n

AnswerStands ==
  pc = "idle" /\ result.kind = "answer" =>
    /\ result.turn \in 1..Len(turns)
    /\ threads[turns[result.turn].thread] = asked
    /\ turns[result.turn].status = "completed"
    /\ Len(result.text) = turns[result.turn].deltas
    /\ \A n \in 1..turns[result.turn].deltas : result.text[n] = <<result.turn, n>>

ApprovalUnderWay ==
  \A t \in 1..Len(turns) :
    server = "up" /\ turns[t].status = "asked" =>
      \/ \E i \in 1..Len(wire) : wire[i].kind = "approve" /\ wire[i].turn = t
      \/ \E i \in 1..Len(lines) : lines[i].kind = "approval" /\ lines[i].turn = t

IInv ==
  /\ Shape /\ Quiescent
  /\ LinesOK /\ WireOK /\ WireOrdered /\ LinesOrdered /\ Across
  /\ OfThisPrompt /\ Streaming /\ Starting
  /\ AnswerStands /\ ApprovalUnderWay

-----------------------------------------------------------------------------
(* Queues.                                                                 *)

\* new is a stretch of old that begins after its first k elements.
Stretch(new, old, k) ==
  /\ Len(new) + k <= Len(old)
  /\ \A i \in 1..Len(new) : new[i] = old[i + k]

\* new begins with old.
Longer(new, old) ==
  /\ Len(old) <= Len(new)
  /\ \A i \in 1..Len(old) : new[i] = old[i]

LEMMA Joined ==
  ASSUME NEW S, NEW a \in Seq(S), NEW b \in Seq(S)
  PROVE  /\ a \o b \in Seq(S)
         /\ Len(a) \in Nat /\ Len(b) \in Nat
         /\ Len(a \o b) = Len(a) + Len(b)
         /\ \A i \in 1..Len(a) : (a \o b)[i] = a[i]
         /\ \A i \in 1..Len(b) : (a \o b)[Len(a) + i] = b[i]
BY ConcatProperties, LenProperties

LEMMA Ends ==
  ASSUME NEW S, NEW a \in Seq(S), a # << >>
  PROVE  /\ Head(a) \in S /\ Head(a) = a[1]
         /\ Tail(a) \in Seq(S) /\ Len(Tail(a)) = Len(a) - 1
         /\ Len(a) \in Nat \ {0}
         /\ \A i \in 1..(Len(a) - 1) : Tail(a)[i] = a[i + 1]
BY HeadTailProperties, EmptySeq, LenProperties

\* What a reader moves from one queue to the next leaves the two as they were.
LEMMA MovedOn ==
  ASSUME NEW S, NEW a \in Seq(S), NEW b \in Seq(S), b # << >>
  PROVE  Append(a, Head(b)) \o Tail(b) = a \o b
<1> DEFINE c == Append(a, Head(b))
           d == Tail(b)
<1>1. /\ Head(b) \in S /\ Head(b) = b[1]
      /\ d \in Seq(S) /\ Len(d) = Len(b) - 1 /\ Len(b) \in Nat \ {0}
      /\ \A i \in 1..(Len(b) - 1) : d[i] = b[i + 1]
  BY Ends
<1>2. /\ c \in Seq(S) /\ Len(c) = Len(a) + 1 /\ Len(a) \in Nat
      /\ \A i \in 1..Len(a) : c[i] = a[i]
      /\ c[Len(a) + 1] = b[1]
  BY <1>1, AppendProperties, LenProperties
<1> HIDE DEF c, d
<1>3. /\ c \o d \in Seq(S) /\ Len(c \o d) = Len(c) + Len(d)
      /\ \A i \in 1..Len(c) : (c \o d)[i] = c[i]
      /\ \A i \in 1..Len(d) : (c \o d)[Len(c) + i] = d[i]
  <2>1. c \in Seq(S) /\ d \in Seq(S)
    BY <1>1, <1>2
  <2>. QED  BY ONLY <2>1, Joined
<1>4. /\ a \o b \in Seq(S) /\ Len(a \o b) = Len(a) + Len(b)
      /\ \A i \in 1..Len(a) : (a \o b)[i] = a[i]
      /\ \A i \in 1..Len(b) : (a \o b)[Len(a) + i] = b[i]
  BY Joined
<1>5. Len(c \o d) = Len(a) + Len(b)
  BY <1>1, <1>2, <1>3
<1>6. ASSUME NEW i \in 1..(Len(a) + Len(b))
      PROVE  (c \o d)[i] = (a \o b)[i]
  <2>1. CASE i \in 1..Len(a)
    BY <1>2, <1>3, <1>4, <2>1
  <2>2. CASE i = Len(a) + 1
    BY <1>1, <1>2, <1>3, <1>4, <2>2
  <2>3. CASE i > Len(a) + 1
    <3> DEFINE j == i - (Len(a) + 1)
    <3>1. /\ j \in 1..Len(d) /\ j \in 1..(Len(b) - 1) /\ j + 1 \in 1..Len(b)
          /\ i = Len(c) + j /\ i = Len(a) + (j + 1)
      BY <1>1, <1>2, <2>3
    <3> HIDE DEF j
    <3>2. (c \o d)[i] = b[j + 1]
      BY <1>1, <1>3, <3>1
    <3>3. (a \o b)[i] = b[j + 1]
      BY <1>4, <3>1
    <3>. QED  BY <3>2, <3>3
  <2>4. i \in 1..Len(a) \/ i = Len(a) + 1 \/ i > Len(a) + 1
    BY <1>1, <1>2
  <2>. QED  BY ONLY <2>1, <2>2, <2>3, <2>4
<1>. QED  BY <1>3, <1>4, <1>5, <1>6, SeqEqual DEF c, d

\* What is taken leaves a stretch.
LEMMA TakenAway ==
  ASSUME NEW S, NEW a \in Seq(S), NEW b \in Seq(S), a # << >>
  PROVE  /\ Stretch(Tail(a) \o b, a \o b, 1)
         /\ Len(Tail(a) \o b) = Len(a \o b) - 1
         /\ Len(a \o b) \in Nat \ {0}
         /\ (a \o b)[1] = Head(a)
<1>1. /\ Head(a) = a[1] /\ Tail(a) \in Seq(S) /\ Len(Tail(a)) = Len(a) - 1
      /\ Len(a) \in Nat \ {0}
      /\ \A i \in 1..(Len(a) - 1) : Tail(a)[i] = a[i + 1]
  BY Ends
<1>2. /\ Len(a \o b) = Len(a) + Len(b) /\ Len(b) \in Nat
      /\ \A i \in 1..Len(a) : (a \o b)[i] = a[i]
      /\ \A i \in 1..Len(b) : (a \o b)[Len(a) + i] = b[i]
  BY Joined
<1>3. /\ Len(Tail(a) \o b) = Len(a) - 1 + Len(b)
      /\ \A i \in 1..(Len(a) - 1) : (Tail(a) \o b)[i] = Tail(a)[i]
      /\ \A i \in 1..Len(b) : (Tail(a) \o b)[Len(a) - 1 + i] = b[i]
  BY <1>1, Joined
<1>4. ASSUME NEW i \in 1..(Len(a) - 1 + Len(b))
      PROVE  (Tail(a) \o b)[i] = (a \o b)[i + 1]
  <2>1. CASE i \in 1..(Len(a) - 1)
    BY <1>1, <1>2, <1>3, <2>1
  <2>2. CASE i > Len(a) - 1
    <3> DEFINE j == i - (Len(a) - 1)
    <3>1. j \in 1..Len(b) /\ i = Len(a) - 1 + j /\ i + 1 = Len(a) + j
      BY <1>1, <1>2, <2>2
    <3> HIDE DEF j
    <3>2. (Tail(a) \o b)[i] = b[j]
      BY <1>3, <3>1
    <3>3. (a \o b)[i + 1] = b[j]
      BY <1>2, <3>1
    <3>. QED  BY <3>2, <3>3
  <2>3. i \in 1..(Len(a) - 1) \/ i > Len(a) - 1
    BY <1>1, <1>2
  <2>. QED  BY ONLY <2>1, <2>2, <2>3
<1>. QED  BY <1>1, <1>2, <1>3, <1>4 DEF Stretch

\* What is put at the end.
LEMMA PutLast ==
  ASSUME NEW S, NEW a \in Seq(S), NEW b \in Seq(S), NEW x \in S
  PROVE  /\ Longer(a \o Append(b, x), a \o b)
         /\ Len(a \o Append(b, x)) = Len(a \o b) + 1
         /\ Len(a \o b) \in Nat
         /\ (a \o Append(b, x))[Len(a \o b) + 1] = x
<1>1. /\ Append(b, x) \in Seq(S) /\ Len(Append(b, x)) = Len(b) + 1
      /\ \A i \in 1..Len(b) : Append(b, x)[i] = b[i]
      /\ Append(b, x)[Len(b) + 1] = x
  BY AppendProperties
<1>2. /\ Len(a \o b) = Len(a) + Len(b) /\ Len(b) \in Nat /\ Len(a) \in Nat
      /\ \A i \in 1..Len(a) : (a \o b)[i] = a[i]
      /\ \A i \in 1..Len(b) : (a \o b)[Len(a) + i] = b[i]
  BY Joined
<1>3. /\ Len(a \o Append(b, x)) = Len(a) + (Len(b) + 1)
      /\ \A i \in 1..Len(a) : (a \o Append(b, x))[i] = a[i]
      /\ \A i \in 1..(Len(b) + 1) : (a \o Append(b, x))[Len(a) + i] = Append(b, x)[i]
  BY <1>1, Joined
<1>4. (a \o Append(b, x))[Len(a \o b) + 1] = x
  <2>1. Len(a \o b) + 1 = Len(a) + (Len(b) + 1) /\ Len(b) + 1 \in 1..(Len(b) + 1)
    BY <1>2
  <2>. QED  BY <1>1, <1>3, <2>1
<1>5. ASSUME NEW i \in 1..(Len(a) + Len(b))
      PROVE  (a \o Append(b, x))[i] = (a \o b)[i]
  <2>1. CASE i \in 1..Len(a)
    BY <1>2, <1>3, <2>1
  <2>2. CASE i > Len(a)
    <3> DEFINE j == i - Len(a)
    <3>1. j \in 1..Len(b) /\ i = Len(a) + j
      BY <1>2, <2>2
    <3> HIDE DEF j
    <3>2. (a \o Append(b, x))[i] = b[j]
      BY <1>1, <1>2, <1>3, <3>1
    <3>3. (a \o b)[i] = b[j]
      BY <1>2, <3>1
    <3>. QED  BY <3>2, <3>3
  <2>3. i \in 1..Len(a) \/ i > Len(a)
    BY <1>2
  <2>. QED  BY ONLY <2>1, <2>2, <2>3
<1>. QED  BY <1>2, <1>3, <1>4, <1>5 DEF Longer

LEMMA NoElements == Len(<< >>) = 0 /\ \A S : << >> \in Seq(S)
BY EmptySeq

-----------------------------------------------------------------------------
(* Types of what the steps make.                                           *)

LEMMA GoneTurns ==
  ASSUME Shape
  PROVE  /\ Gone \in Seq(TurnType) /\ Len(Gone) = Len(turns) /\ Len(turns) \in Nat
         /\ \A t \in 1..Len(turns) :
              /\ Gone[t].thread = turns[t].thread /\ Gone[t].deltas = turns[t].deltas
              /\ Gone[t].status \in {"gone", "completed", "error"}
              /\ turns[t].status = "completed" => Gone[t].status = "completed"
<1> DEFINE r(t) == IF turns[t].status \in {"running", "asked"}
                   THEN [turns[t] EXCEPT !.status = "gone"] ELSE turns[t]
<1>1. turns \in Seq(TurnType) /\ DOMAIN turns = 1..Len(turns) /\ Len(turns) \in Nat
  BY LenProperties DEF Shape
<1>2. \A t \in 1..Len(turns) : turns[t] \in TurnType
  BY <1>1, ElementOfSeq
<1>3. \A t \in 1..Len(turns) :
        /\ r(t) \in TurnType
        /\ r(t).thread = turns[t].thread /\ r(t).deltas = turns[t].deltas
        /\ r(t).status \in {"gone", "completed", "error"}
        /\ turns[t].status = "completed" => r(t).status = "completed"
  BY <1>2 DEF TurnType
<1>4. Gone = [t \in 1..Len(turns) |-> r(t)]
  BY <1>1 DEF Gone
<1> HIDE DEF r
<1>. QED  BY <1>1, <1>3, <1>4

\* One turn of ts is changed.
LEMMA TurnChanged ==
  ASSUME NEW ts \in Seq(TurnType), NEW t \in 1..Len(ts), NEW r \in TurnType
  PROVE  /\ [ts EXCEPT ![t] = r] \in Seq(TurnType)
         /\ Len([ts EXCEPT ![t] = r]) = Len(ts)
         /\ [ts EXCEPT ![t] = r][t] = r
         /\ \A u \in 1..Len(ts) : u # t => [ts EXCEPT ![t] = r][u] = ts[u]
BY ExceptSeq, LenProperties, ElementOfSeq

LEMMA LineTypes ==
  ASSUME Shape, NEW k \in LineKinds, NEW id \in Nat
  PROVE  /\ Line(k, id) \in LineType
         /\ Line(k, id).kind = k /\ Line(k, id).id = id /\ Line(k, id).prompt = asked
BY DEF Line, LineType, Shape

\* A line in which one field is set.
LEMMA LineSet ==
  ASSUME NEW l \in LineType, NEW n \in Nat
  PROVE  /\ [l EXCEPT !.prompt = n] \in LineType
         /\ [l EXCEPT !.prompt = n].kind = l.kind
         /\ [l EXCEPT !.prompt = n].id = l.id
         /\ [l EXCEPT !.prompt = n].prompt = n
         /\ [l EXCEPT !.thread = n] \in LineType
         /\ [l EXCEPT !.thread = n].kind = l.kind
         /\ [l EXCEPT !.thread = n].id = l.id
         /\ [l EXCEPT !.thread = n].prompt = l.prompt
         /\ [l EXCEPT !.thread = n].thread = n
         /\ [l EXCEPT !.turn = n] \in LineType
         /\ [l EXCEPT !.turn = n].kind = l.kind
         /\ [l EXCEPT !.turn = n].id = l.id
         /\ [l EXCEPT !.turn = n].turn = n
BY DEF LineType

LEMMA MessageTypes ==
  \A k \in MsgKinds, id \in Nat, t \in Nat, n \in Nat :
    /\ Message(k, id, t, n) \in MsgType
    /\ Message(k, id, t, n).kind = k /\ Message(k, id, t, n).id = id
    /\ Message(k, id, t, n).turn = t /\ Message(k, id, t, n).n = n
BY DEF Message, MsgType

LEMMA ErrorType == Error \in Answers /\ Error.kind = "error"
BY EmptySeq DEF Error, Answers

LEMMA OneElement ==
  ASSUME NEW S, NEW x \in S
  PROVE  <<x>> \in Seq(S) /\ Len(<<x>>) = 1 /\ <<x>>[1] = x
OBVIOUS

LEMMA TwoElements ==
  ASSUME NEW S, NEW x \in S, NEW y \in S
  PROVE  <<x, y>> \in Seq(S) /\ Len(<<x, y>>) = 2 /\ <<x, y>>[1] = x /\ <<x, y>>[2] = y
OBVIOUS

\* What is under way is well typed.
LEMMA UnderWayTypes ==
  ASSUME Shape
  PROVE  /\ wire \in Seq(MsgType) /\ Len(wire) \in Nat
         /\ lines \in Seq(LineType) /\ Len(lines) \in Nat
         /\ \A i \in 1..Len(wire) : wire[i] \in MsgType
         /\ \A i \in 1..Len(lines) : lines[i] \in LineType
<1>1. wire \in Seq(MsgType) /\ lines \in Seq(LineType)
  BY Joined DEF Shape, wire, lines
<1>. QED  BY <1>1, LenProperties, ElementOfSeq

LEMMA UnderWayTypesNext ==
  ASSUME Shape'
  PROVE  /\ wire' \in Seq(MsgType) /\ Len(wire') \in Nat
         /\ lines' \in Seq(LineType) /\ Len(lines') \in Nat
         /\ \A i \in 1..Len(wire') : wire'[i] \in MsgType
         /\ \A i \in 1..Len(lines') : lines'[i] \in LineType
<1>1. wire' \in Seq(MsgType) /\ lines' \in Seq(LineType)
  BY Joined DEF Shape, wire, lines
<1>. QED  BY <1>1, LenProperties, ElementOfSeq

\* The heads of the queues.
LEMMA FirstMessage ==
  ASSUME Shape, rx # << >>
  PROVE  /\ Head(rx) = wire[1] /\ Head(rx) \in MsgType /\ Len(wire) \in Nat \ {0}
         /\ Tail(rx) \in Seq(MsgType)
         /\ Stretch(Tail(rx) \o stdout, wire, 1)
         /\ Len(Tail(rx) \o stdout) = Len(wire) - 1
BY Ends, TakenAway DEF Shape, wire

LEMMA FirstLine ==
  ASSUME Shape, stdin # << >>
  PROVE  /\ Head(stdin) = lines[1] /\ Head(stdin) \in LineType /\ Len(lines) \in Nat \ {0}
         /\ Tail(stdin) \in Seq(LineType)
         /\ Stretch(Tail(stdin) \o out, lines, 1)
         /\ Len(Tail(stdin) \o out) = Len(lines) - 1
BY Ends, TakenAway DEF Shape, lines

-----------------------------------------------------------------------------
(* What a step does to the queues.                                         *)

LEMMA TakeEffect ==
  ASSUME Shape, Take, stdout' = stdout
  PROVE  /\ Head(rx) = wire[1] /\ Head(rx) \in MsgType
         /\ Len(wire) \in Nat \ {0}
         /\ rx' \in Seq(MsgType)
         /\ Stretch(wire', wire, 1) /\ Len(wire') = Len(wire) - 1
         /\ out = << >> /\ pc # "idle"
<1>1. rx # << >> /\ rx' = Tail(rx) /\ out = << >> /\ pc # "idle"
  BY DEF Take, Waiting
<1>2. wire' = Tail(rx) \o stdout
  BY <1>1 DEF wire
<1>. QED  BY <1>1, <1>2, FirstMessage

LEMMA SayEffect ==
  ASSUME Shape, NEW m \in MsgType, Say(m), rx' = rx
  PROVE  /\ stdout' \in Seq(MsgType)
         /\ Longer(wire', wire) /\ Len(wire') = Len(wire) + 1 /\ Len(wire) \in Nat
         /\ wire'[Len(wire) + 1] = m
<1>1. stdout' = Append(stdout, m) /\ stdout \in Seq(MsgType) /\ rx \in Seq(MsgType)
  BY DEF Say, Shape
<1>2. wire' = rx \o Append(stdout, m)
  BY <1>1 DEF wire
<1>3. stdout' \in Seq(MsgType)
  BY <1>1, AppendProperties
<1>4. /\ Longer(rx \o Append(stdout, m), rx \o stdout)
      /\ Len(rx \o Append(stdout, m)) = Len(rx \o stdout) + 1
      /\ Len(rx \o stdout) \in Nat
      /\ (rx \o Append(stdout, m))[Len(rx \o stdout) + 1] = m
  BY <1>1, PutLast
<1>. QED  BY <1>2, <1>3, <1>4 DEF wire

LEMMA SendEffect ==
  ASSUME Shape, out = << >>, stdin' = stdin, out' \in Seq(LineType)
  PROVE  /\ Longer(lines', lines)
         /\ Len(lines') = Len(lines) + Len(out') /\ Len(out') \in Nat /\ Len(lines) \in Nat
         /\ \A i \in 1..Len(out') : lines'[Len(lines) + i] = out'[i]
         /\ lines = stdin
<1>1. lines = stdin /\ stdin \in Seq(LineType)
  BY ConcatEmptySeq DEF lines, Shape
<1>2. lines' = stdin \o out'
  BY DEF lines
<1>3. /\ Len(stdin \o out') = Len(stdin) + Len(out') /\ Len(out') \in Nat /\ Len(stdin) \in Nat
      /\ \A i \in 1..Len(stdin) : (stdin \o out')[i] = stdin[i]
      /\ \A i \in 1..Len(out') : (stdin \o out')[Len(stdin) + i] = out'[i]
  BY <1>1, Joined
<1>. QED  BY <1>1, <1>2, <1>3 DEF Longer

LEMMA SameWire ==
  ASSUME Shape, wire' = wire
  PROVE  Stretch(wire', wire, 0)
BY UnderWayTypes DEF Stretch

LEMMA SameLines ==
  ASSUME Shape, lines' = lines
  PROVE  Stretch(lines', lines, 0)
BY UnderWayTypes DEF Stretch

LEMMA EmptyStretch ==
  ASSUME NEW s, NEW t, Len(s) = 0, Len(t) \in Nat
  PROVE  Stretch(s, t, 0)
BY DEF Stretch

-----------------------------------------------------------------------------
(* The order of what is under way.                                         *)

Ordered == WireOrdered /\ LinesOrdered /\ Across

LEMMA OrderedShrinks ==
  ASSUME Shape, Shape', Ordered, NEW j \in Nat, NEW k \in Nat,
         Stretch(wire', wire, j), Stretch(lines', lines, k)
  PROVE  Ordered'
<1>1. /\ Len(wire) \in Nat /\ Len(lines) \in Nat /\ Len(wire') \in Nat /\ Len(lines') \in Nat
  BY UnderWayTypes, UnderWayTypesNext
<1>2. /\ \A i \in 1..Len(wire') : wire'[i] = wire[i + j] /\ i + j \in 1..Len(wire)
      /\ \A i \in 1..Len(lines') : lines'[i] = lines[i + k] /\ i + k \in 1..Len(lines)
  BY <1>1 DEF Stretch
<1>3. WireOrdered'
  <2> SUFFICES ASSUME NEW a \in 1..Len(wire'), NEW b \in 1..Len(wire'), a < b
               PROVE  InOrder(wire'[a], wire'[b])
    BY DEF WireOrdered, InOrder
  <2>1. a + j < b + j
    BY <1>1
  <2>. QED  BY <1>2, <2>1 DEF Ordered, WireOrdered
<1>4. LinesOrdered'
  <2> SUFFICES ASSUME NEW a \in 1..Len(lines'), NEW b \in 1..Len(lines'), a < b
               PROVE  Apart(lines'[a], lines'[b])
    BY DEF LinesOrdered, Apart
  <2>1. a + k < b + k
    BY <1>1
  <2>. QED  BY <1>2, <2>1 DEF Ordered, LinesOrdered
<1>5. Across'
  BY <1>2, ZenonT(30) DEF Ordered, Across
<1>. QED  BY <1>3, <1>4, <1>5 DEF Ordered

\* A message is added.
LEMMA OrderedHears ==
  ASSUME Shape, Shape', Ordered, NEW m, NEW k \in Nat,
         Longer(wire', wire), Len(wire') = Len(wire) + 1, wire'[Len(wire) + 1] = m,
         Stretch(lines', lines, k),
         \A i \in 1..Len(wire) : InOrder(wire[i], m),
         m.kind = "approve" =>
           \A i \in 1..Len(lines) : ~(lines[i].kind = "approval" /\ lines[i].turn = m.turn)
  PROVE  Ordered'
<1>1. /\ Len(wire) \in Nat /\ Len(lines) \in Nat /\ Len(wire') \in Nat /\ Len(lines') \in Nat
  BY UnderWayTypes, UnderWayTypesNext
<1>2. /\ \A i \in 1..Len(wire) : wire'[i] = wire[i]
      /\ \A i \in 1..Len(lines') : lines'[i] = lines[i + k] /\ i + k \in 1..Len(lines)
      /\ \A i \in 1..Len(wire') : i \in 1..Len(wire) \/ i = Len(wire) + 1
  BY <1>1 DEF Stretch, Longer
<1>3. WireOrdered'
  <2> SUFFICES ASSUME NEW a \in 1..Len(wire'), NEW b \in 1..Len(wire'), a < b
               PROVE  InOrder(wire'[a], wire'[b])
    BY DEF WireOrdered, InOrder
  <2>1. a \in 1..Len(wire)
    BY <1>1
  <2>2. CASE b \in 1..Len(wire)
    BY <1>2, <2>1, <2>2 DEF Ordered, WireOrdered
  <2>3. CASE b = Len(wire) + 1
    BY <1>2, <2>1, <2>3
  <2>. QED  BY <1>2, <2>2, <2>3
<1>4. LinesOrdered'
  <2> SUFFICES ASSUME NEW a \in 1..Len(lines'), NEW b \in 1..Len(lines'), a < b
               PROVE  Apart(lines'[a], lines'[b])
    BY DEF LinesOrdered, Apart
  <2>1. a + k < b + k
    BY <1>1
  <2>. QED  BY <1>2, <2>1 DEF Ordered, LinesOrdered
<1>5. Across'
  <2> SUFFICES ASSUME NEW a \in 1..Len(wire'), NEW b \in 1..Len(lines')
               PROVE  ~(wire'[a].kind = "approve" /\ lines'[b].kind = "approval"
                          /\ wire'[a].turn = lines'[b].turn)
    BY DEF Across
  <2>1. CASE a \in 1..Len(wire)
    <3>1. b + k \in 1..Len(lines) /\ lines'[b] = lines[b + k] /\ wire'[a] = wire[a]
      BY <1>2, <2>1
    <3>2. \A i \in 1..Len(wire), n \in 1..Len(lines) :
            ~(wire[i].kind = "approve" /\ lines[n].kind = "approval" /\ wire[i].turn = lines[n].turn)
      BY DEF Ordered, Across
    <3>. QED  BY ONLY <2>1, <3>1, <3>2, Zenon
  <2>2. CASE a = Len(wire) + 1
    BY <1>2, <2>2
  <2>. QED  BY <1>2, <2>1, <2>2
<1>. QED  BY <1>3, <1>4, <1>5 DEF Ordered

\* Lines are added, none of them an approval but for one that is not under way.
LEMMA OrderedSends ==
  ASSUME Shape, Shape', Ordered, NEW j \in Nat,
         Stretch(wire', wire, j), Longer(lines', lines),
         \A i \in 1..Len(lines') : i > Len(lines) =>
           \/ lines'[i].kind # "approval"
           \/ /\ Len(lines') = Len(lines) + 1
              /\ \A a \in 1..Len(wire') :
                   ~(wire'[a].kind = "approve" /\ wire'[a].turn = lines'[i].turn)
              /\ \A a \in 1..Len(lines) :
                   ~(lines[a].kind = "approval" /\ lines[a].turn = lines'[i].turn)
  PROVE  Ordered'
<1>1. /\ Len(wire) \in Nat /\ Len(lines) \in Nat /\ Len(wire') \in Nat /\ Len(lines') \in Nat
  BY UnderWayTypes, UnderWayTypesNext
<1>2. /\ \A i \in 1..Len(wire') : wire'[i] = wire[i + j] /\ i + j \in 1..Len(wire)
      /\ \A i \in 1..Len(lines) : lines'[i] = lines[i]
  BY <1>1 DEF Stretch, Longer
<1>3. WireOrdered'
  <2> SUFFICES ASSUME NEW a \in 1..Len(wire'), NEW b \in 1..Len(wire'), a < b
               PROVE  InOrder(wire'[a], wire'[b])
    BY DEF WireOrdered, InOrder
  <2>1. a + j < b + j
    BY <1>1
  <2>. QED  BY <1>2, <2>1 DEF Ordered, WireOrdered
<1>4. LinesOrdered'
  <2> SUFFICES ASSUME NEW a \in 1..Len(lines'), NEW b \in 1..Len(lines'), a < b
               PROVE  Apart(lines'[a], lines'[b])
    BY DEF LinesOrdered, Apart
  <2>1. CASE b \in 1..Len(lines)
    <3>1. a \in 1..Len(lines)
      BY <1>1, <2>1
    <3>. QED  BY <1>2, <2>1, <3>1 DEF Ordered, LinesOrdered
  <2>2. CASE b > Len(lines)
    <3>1. CASE lines'[b].kind # "approval"
      BY <3>1 DEF Apart
    <3>2. CASE Len(lines') = Len(lines) + 1
      <4>1. a \in 1..Len(lines) /\ lines'[a] = lines[a]
        BY <1>1, <1>2, <3>2
      <4>. QED  BY <2>2, <4>1 DEF Apart
    <3>. QED  BY <2>2, <3>1, <3>2
  <2>. QED  BY <1>1, <2>1, <2>2
<1>5. Across'
  <2> SUFFICES ASSUME NEW a \in 1..Len(wire'), NEW b \in 1..Len(lines')
               PROVE  ~(wire'[a].kind = "approve" /\ lines'[b].kind = "approval"
                          /\ wire'[a].turn = lines'[b].turn)
    BY DEF Across
  <2>1. CASE b \in 1..Len(lines)
    BY <1>2, <2>1 DEF Ordered, Across
  <2>2. CASE b > Len(lines)
    BY <2>2
  <2>. QED  BY <1>1, <2>1, <2>2
<1>. QED  BY <1>3, <1>4, <1>5 DEF Ordered

-----------------------------------------------------------------------------
(* What is said by what is under way.                                      *)

LEMMA WireStays ==
  ASSUME Shape, Shape', WireOK, NEW k \in Nat, Stretch(wire', wire, k),
         \A m \in MsgType : MsgOK(m) => MsgOK(m)'
  PROVE  WireOK'
<1>1. /\ Len(wire) \in Nat /\ Len(wire') \in Nat
      /\ \A i \in 1..Len(wire) : wire[i] \in MsgType
  BY UnderWayTypes, UnderWayTypesNext
<1>2. \A i \in 1..Len(wire') : wire'[i] = wire[i + k] /\ i + k \in 1..Len(wire)
  BY <1>1 DEF Stretch
<1>3. \A i \in 1..Len(wire) : MsgOK(wire[i])
  BY DEF WireOK
<1>4. ASSUME NEW i \in 1..Len(wire') PROVE MsgOK(wire[i])'
  <2>1. PICK m \in MsgType : m = wire'[i] /\ MsgOK(m)
    BY <1>1, <1>2, <1>3
  <2>2. MsgOK(m)'
    BY <2>1
  <2>. QED  BY <2>1, <2>2 DEF MsgOK, Current
<1>. QED  BY <1>4 DEF WireOK

LEMMA WireHears ==
  ASSUME Shape, Shape', WireOK, NEW x \in MsgType,
         Longer(wire', wire), Len(wire') = Len(wire) + 1, wire'[Len(wire) + 1] = x,
         \A m \in MsgType : MsgOK(m) => MsgOK(m)',
         MsgOK(x)'
  PROVE  WireOK'
<1>1. /\ Len(wire) \in Nat /\ Len(wire') \in Nat
      /\ \A i \in 1..Len(wire) : wire[i] \in MsgType
  BY UnderWayTypes, UnderWayTypesNext
<1>2. /\ \A i \in 1..Len(wire) : wire'[i] = wire[i]
      /\ \A i \in 1..Len(wire') : i \in 1..Len(wire) \/ i = Len(wire) + 1
  BY <1>1 DEF Longer
<1>3. \A i \in 1..Len(wire) : MsgOK(wire[i])
  BY DEF WireOK
<1>4. ASSUME NEW i \in 1..Len(wire') PROVE MsgOK(wire[i])'
  <2>1. PICK m \in MsgType : m = wire'[i] /\ (MsgOK(m) \/ m = x)
    BY <1>1, <1>2, <1>3
  <2>2. MsgOK(m)'
    BY <2>1 DEF MsgOK, Current
  <2>. QED  BY <2>1, <2>2 DEF MsgOK, Current
<1>. QED  BY <1>4 DEF WireOK

LEMMA LinesStay ==
  ASSUME Shape, Shape', LinesOK, NEW k \in Nat, Stretch(lines', lines, k),
         \A l \in LineType : LineOK(l) => LineOK(l)'
  PROVE  LinesOK'
<1>1. /\ Len(lines) \in Nat /\ Len(lines') \in Nat
      /\ \A i \in 1..Len(lines) : lines[i] \in LineType
  BY UnderWayTypes, UnderWayTypesNext
<1>2. \A i \in 1..Len(lines') : lines'[i] = lines[i + k] /\ i + k \in 1..Len(lines)
  BY <1>1 DEF Stretch
<1>3. \A i \in 1..Len(lines) : LineOK(lines[i])
  BY DEF LinesOK
<1>4. ASSUME NEW i \in 1..Len(lines') PROVE LineOK(lines[i])'
  <2>1. PICK l \in LineType : l = lines'[i] /\ LineOK(l)
    BY <1>1, <1>2, <1>3
  <2>2. LineOK(l)'
    BY <2>1
  <2>. QED  BY <2>1, <2>2 DEF LineOK, Current
<1>. QED  BY <1>4 DEF LinesOK

LEMMA LinesSent ==
  ASSUME Shape, Shape', LinesOK, Longer(lines', lines),
         \A l \in LineType : LineOK(l) => LineOK(l)',
         \A i \in 1..Len(lines') : i > Len(lines) =>
           \E l \in LineType : l = lines'[i] /\ LineOK(l)'
  PROVE  LinesOK'
<1>1. /\ Len(lines) \in Nat /\ Len(lines') \in Nat
      /\ \A i \in 1..Len(lines) : lines[i] \in LineType
  BY UnderWayTypes, UnderWayTypesNext
<1>2. \A i \in 1..Len(lines) : lines'[i] = lines[i]
  BY <1>1 DEF Longer
<1>3. \A i \in 1..Len(lines) : LineOK(lines[i])
  BY DEF LinesOK
<1>4. ASSUME NEW i \in 1..Len(lines') PROVE LineOK(lines[i])'
  <2>1. PICK l \in LineType : l = lines'[i] /\ LineOK(l)'
    <3>1. CASE i \in 1..Len(lines)
      BY <1>1, <1>2, <1>3, <3>1
    <3>2. CASE i > Len(lines)
      BY <3>2
    <3>. QED  BY <1>1, <3>1, <3>2
  <2>. QED  BY <2>1 DEF LineOK, Current
<1>. QED  BY <1>4 DEF LinesOK

-----------------------------------------------------------------------------
(* Steps that move, take or drop what is under way and no more.            *)

\* The first k messages were taken, and the rest is what it was.
Taken(k) ==
  /\ k \in {0, 1}
  /\ Stretch(wire', wire, k)
  /\ Len(wire') = Len(wire) - k

LEMMA TakenFacts ==
  ASSUME Shape, Shape', NEW k, Taken(k)
  PROVE  /\ Len(wire) \in Nat /\ Len(wire') \in Nat /\ k \in Nat
         /\ \A i \in 1..Len(wire') : wire'[i] = wire[i + k] /\ i + k \in 1..Len(wire)
         /\ \A i \in 1..Len(wire) :
              i > k => i - k \in 1..Len(wire') /\ wire'[i - k] = wire[i]
         /\ k = 1 => 1 \in 1..Len(wire)
<1>1. /\ Len(wire) \in Nat /\ Len(wire') \in Nat /\ k \in {0, 1}
      /\ Len(wire') = Len(wire) - k
      /\ \A i \in 1..Len(wire') : wire'[i] = wire[i + k]
  BY UnderWayTypes, UnderWayTypesNext DEF Taken, Stretch
<1>2. \A i \in 1..Len(wire') : i + k \in 1..Len(wire)
  BY <1>1
<1>3. ASSUME NEW i \in 1..Len(wire), i > k
      PROVE  i - k \in 1..Len(wire') /\ wire'[i - k] = wire[i]
  <2>1. i - k \in 1..Len(wire') /\ (i - k) + k = i
    BY <1>1, <1>3
  <2>. QED  BY <1>1, <2>1
<1>. QED  BY <1>1, <1>2, <1>3

LEMMA StreamingStays ==
  ASSUME Shape, Shape', Streaming, NEW k, Taken(k),
         UNCHANGED <<pc, turn, text, thread, turns>>,
         k = 1 /\ pc = "stream" => ~IsDelta(wire[1], turn)
  PROVE  Streaming'
<1> SUFFICES ASSUME pc = "stream" PROVE Streaming'
  BY DEF Streaming
<1>1. /\ Len(wire) \in Nat /\ Len(wire') \in Nat /\ k \in {0, 1}
      /\ \A i \in 1..Len(wire') : wire'[i] = wire[i + k] /\ i + k \in 1..Len(wire)
      /\ \A i \in 1..Len(wire) : i > k => i - k \in 1..Len(wire') /\ wire'[i - k] = wire[i]
  BY TakenFacts DEF Taken
<1>2. /\ turn \in 1..Len(turns) /\ turns[turn].thread = thread
      /\ Len(text) <= turns[turn].deltas
      /\ \A n \in 1..Len(text) : text[n] = <<turn, n>>
  BY DEF Streaming
<1>3. \A i \in 1..Len(wire') : IsDelta(wire'[i], turn) => wire'[i].n > Len(text)
  BY <1>1 DEF Streaming
<1>4. ASSUME NEW n \in 1..turns[turn].deltas, n > Len(text)
      PROVE  \E i \in 1..Len(wire') : IsDelta(wire'[i], turn) /\ wire'[i].n = n
  <2>1. PICK i \in 1..Len(wire) : IsDelta(wire[i], turn) /\ wire[i].n = n
    BY <1>4 DEF Streaming
  <2>2. i > k
    BY <1>1, <2>1
  <2>3. i - k \in 1..Len(wire') /\ wire'[i - k] = wire[i]
    BY <1>1, <2>2
  <2>. QED  BY <2>1, <2>3
<1>. QED  BY <1>2, <1>3, <1>4 DEF Streaming

LEMMA StartingStays ==
  ASSUME Shape, Shape', Starting, NEW k, Taken(k), UNCHANGED <<pc, nextId, turns>>
  PROVE  Starting'
<1> SUFFICES ASSUME pc = "turn", NEW i \in 1..Len(wire'),
                    wire'[i].kind = "ok", wire'[i].id = nextId - 1,
                    NEW n \in 1..turns[wire'[i].turn].deltas
             PROVE  \E j \in 1..Len(wire') :
                      j > i /\ IsDelta(wire'[j], wire'[i].turn) /\ wire'[j].n = n
  BY DEF Starting
<1>1. /\ Len(wire) \in Nat /\ Len(wire') \in Nat /\ k \in {0, 1}
      /\ wire'[i] = wire[i + k] /\ i + k \in 1..Len(wire)
      /\ \A j \in 1..Len(wire) : j > k => j - k \in 1..Len(wire') /\ wire'[j - k] = wire[j]
  BY TakenFacts DEF Taken
<1>2. PICK j \in 1..Len(wire) :
        j > i + k /\ IsDelta(wire[j], wire[i + k].turn) /\ wire[j].n = n
  BY <1>1 DEF Starting
<1>3. j - k \in 1..Len(wire') /\ wire'[j - k] = wire[j] /\ j - k > i
  BY <1>1, <1>2
<1>. QED  BY <1>1, <1>2, <1>3

LEMMA ApprovalStays ==
  ASSUME Shape, Shape', ApprovalUnderWay, NEW k, Taken(k),
         UNCHANGED <<server, turns>>,
         server = "up" => Longer(lines', lines),
         k = 1 => wire[1].kind # "approve"
  PROVE  ApprovalUnderWay'
<1> SUFFICES ASSUME NEW t \in 1..Len(turns), server = "up", turns[t].status = "asked"
             PROVE  \/ \E i \in 1..Len(wire') : wire'[i].kind = "approve" /\ wire'[i].turn = t
                    \/ \E i \in 1..Len(lines') :
                         lines'[i].kind = "approval" /\ lines'[i].turn = t
  BY DEF ApprovalUnderWay
<1>1. /\ Len(wire) \in Nat /\ Len(wire') \in Nat /\ k \in {0, 1}
      /\ \A i \in 1..Len(wire) : i > k => i - k \in 1..Len(wire') /\ wire'[i - k] = wire[i]
      /\ Len(lines) \in Nat /\ Len(lines') \in Nat
  BY TakenFacts, UnderWayTypes, UnderWayTypesNext DEF Taken
<1>2. CASE \E i \in 1..Len(wire) : wire[i].kind = "approve" /\ wire[i].turn = t
  <2>1. PICK i \in 1..Len(wire) : wire[i].kind = "approve" /\ wire[i].turn = t
    BY <1>2
  <2>2. i > k
    BY <1>1, <2>1
  <2>. QED  BY <1>1, <2>1, <2>2
<1>3. CASE \E i \in 1..Len(lines) : lines[i].kind = "approval" /\ lines[i].turn = t
  <2>1. PICK i \in 1..Len(lines) : lines[i].kind = "approval" /\ lines[i].turn = t
    BY <1>3
  <2>2. i \in 1..Len(lines') /\ lines'[i] = lines[i]
    BY <1>1 DEF Longer
  <2>. QED  BY <2>1, <2>2
<1>. QED  BY <1>2, <1>3 DEF ApprovalUnderWay

\* A message that says nothing to the prompt is dropped, or nothing is taken at all.
LEMMA NothingToThePrompt ==
  ASSUME IInv, Shape', Quiescent', NEW k, Taken(k), lines' = lines,
         UNCHANGED <<pc, asked, thread, turn, text, result, nextId, server, threads, turns>>,
         k = 1 => /\ wire[1].kind # "approve"
                  /\ pc = "stream" => ~IsDelta(wire[1], turn)
  PROVE  IInv'
<1>1. Shape /\ k \in Nat /\ Stretch(wire', wire, k) /\ Stretch(lines', lines, 0)
  BY SameLines DEF IInv, Taken
<1>2. Ordered'
  BY <1>1, OrderedShrinks DEF IInv, Ordered
<1>3. \A m \in MsgType : MsgOK(m) => MsgOK(m)'
  BY DEF MsgOK, Current
<1>4. \A l \in LineType : LineOK(l) => LineOK(l)'
  BY DEF LineOK, Current
<1>5. WireOK' /\ LinesOK'
  BY <1>1, <1>3, <1>4, WireStays, LinesStay DEF IInv
<1>6. Streaming'
  BY StreamingStays DEF IInv
<1>7. Starting'
  BY StartingStays DEF IInv
<1>8. ApprovalUnderWay'
  <2>1. Longer(lines', lines)
    BY <1>1, UnderWayTypes DEF Longer
  <2>. QED  BY <2>1, ApprovalStays DEF IInv
<1>9. OfThisPrompt' /\ AnswerStands'
  BY DEF IInv, OfThisPrompt, AnswerStands
<1>. QED  BY <1>2, <1>5, <1>6, <1>7, <1>8, <1>9 DEF IInv, Ordered

\* The prompt ends.
LEMMA PromptReturns ==
  ASSUME IInv, Shape', Quiescent', NEW k, Taken(k), NEW j \in Nat, Stretch(lines', lines, j),
         UNCHANGED <<asked, thread, turn, text, nextId, server, threads, turns>>,
         pc' = "idle", AnswerStands',
         server = "up" => lines' = lines,
         k = 1 => wire[1].kind # "approve"
  PROVE  IInv'
<1>1. Shape /\ k \in Nat /\ Stretch(wire', wire, k)
  BY DEF IInv, Taken
<1>2. Ordered'
  BY <1>1, OrderedShrinks DEF IInv, Ordered
<1>3. \A m \in MsgType : MsgOK(m) => MsgOK(m)'
  BY DEF MsgOK, Current, Requests
<1>4. \A l \in LineType : LineOK(l) => LineOK(l)'
  BY DEF LineOK, Current, Requests
<1>5. WireOK' /\ LinesOK'
  BY <1>1, <1>3, <1>4, WireStays, LinesStay DEF IInv
<1>6. ApprovalUnderWay'
  <2>1. server = "up" => Longer(lines', lines)
    BY <1>1, UnderWayTypes DEF Longer
  <2>. QED  BY <2>1, ApprovalStays DEF IInv
<1>7. OfThisPrompt' /\ Streaming' /\ Starting'
  BY DEF OfThisPrompt, Streaming, Starting
<1>. QED  BY <1>2, <1>5, <1>6, <1>7 DEF IInv, Ordered

LEMMA WriteStep == ASSUME IInv, Write PROVE IInv'
<1>1. /\ Shape /\ out # << >> /\ stdin \in Seq(LineType) /\ out \in Seq(LineType)
      /\ server = "up" /\ pc # "idle"
  BY DEF IInv, Shape, Write, Quiescent
<1>2. /\ stdin' = Append(stdin, Head(out)) /\ out' = Tail(out)
      /\ UNCHANGED <<pc, prompt, fingerprint, nextId, stdout, rx, child>>
  BY DEF Write
<1>3. lines' = lines /\ wire' = wire
  BY <1>1, <1>2, MovedOn DEF lines, wire
<1>4. stdin' \in Seq(LineType) /\ out' \in Seq(LineType)
  BY <1>1, <1>2, Ends, AppendProperties
<1>5. initialized' \in BOOLEAN
  BY <1>1 DEF Write, Shape
<1>6. Shape'
  BY <1>1, <1>2, <1>4, <1>5 DEF Shape, prompt, child
<1>7. Quiescent'
  BY <1>1, <1>2, <1>3 DEF IInv, Quiescent, child
<1>8. Taken(0)
  BY <1>1, <1>3, SameWire, UnderWayTypes DEF Taken
<1>. QED  BY <1>2, <1>3, <1>6, <1>7, <1>8, NothingToThePrompt DEF prompt, child

LEMMA ReadStep == ASSUME IInv, Read PROVE IInv'
<1>1. Shape /\ stdout # << >> /\ stdout \in Seq(MsgType) /\ rx \in Seq(MsgType)
  BY DEF IInv, Shape, Read
<1>2. /\ rx' = Append(rx, Head(stdout)) /\ stdout' = Tail(stdout)
      /\ UNCHANGED <<pc, prompt, client, out, stdin, child>>
  BY DEF Read
<1>3. lines' = lines /\ wire' = wire
  BY <1>1, <1>2, MovedOn DEF lines, wire
<1>4. stdout' \in Seq(MsgType) /\ rx' \in Seq(MsgType)
  BY <1>1, <1>2, Ends, AppendProperties
<1>5. Shape'
  BY <1>1, <1>2, <1>4 DEF Shape, prompt, client, child
<1>6. Quiescent'
  BY <1>2, <1>3 DEF IInv, Quiescent, child, client
<1>7. Taken(0)
  BY <1>1, <1>3, SameWire, UnderWayTypes DEF Taken
<1>. QED  BY <1>2, <1>3, <1>5, <1>6, <1>7, NothingToThePrompt DEF prompt, client, child

\* A message is taken, and the pipes are otherwise as they were.
LEMMA TakesOne ==
  ASSUME IInv, Take, UNCHANGED <<stdout, stdin, server, turns>>
  PROVE  /\ Taken(1) /\ Head(rx) = wire[1] /\ wire[1] \in MsgType /\ 1 \in 1..Len(wire)
         /\ MsgOK(wire[1]) /\ rx' \in Seq(MsgType)
         /\ pc # "idle" /\ out = << >>
         /\ (pc' = "idle" => out' = << >>) /\ (pc' \in Requests => nextId' > 1) => Quiescent'
<1>1. Shape
  BY DEF IInv
<1>2. /\ Head(rx) = wire[1] /\ Head(rx) \in MsgType
      /\ Len(wire) \in Nat \ {0}
      /\ rx' \in Seq(MsgType)
      /\ Stretch(wire', wire, 1) /\ Len(wire') = Len(wire) - 1
      /\ out = << >> /\ pc # "idle"
  BY <1>1, TakeEffect
<1>3. MsgOK(wire[1]) /\ 1 \in 1..Len(wire)
  BY <1>2 DEF IInv, WireOK
<1>4. server # "none"
  BY <1>2 DEF IInv, Quiescent
<1>5. (pc' = "idle" => out' = << >>) /\ (pc' \in Requests => nextId' > 1) => Quiescent'
  BY <1>4 DEF IInv, Quiescent
<1>. QED  BY <1>2, <1>3, <1>5 DEF Taken

LEMMA DropStep == ASSUME IInv, Drop PROVE IInv'
<1>1. /\ Take /\ Dropped(Head(rx))
      /\ UNCHANGED <<pc, prompt, client, stdin, stdout, child>> /\ out' = out
  BY DEF Drop
<1>2. UNCHANGED <<stdout, stdin, server, turns>> /\ lines' = lines
  BY <1>1 DEF child, lines
<1>3. /\ Taken(1) /\ Head(rx) = wire[1] /\ rx' \in Seq(MsgType) /\ Quiescent'
  BY <1>1, <1>2, TakesOne DEF IInv, Quiescent, client
<1>4. wire[1].kind # "approve" /\ (pc = "stream" => ~IsDelta(wire[1], turn))
  BY <1>1, <1>3 DEF Dropped, IsServerRequest, MatchesTurn, IsDelta
<1>5. Shape'
  BY <1>1, <1>3 DEF IInv, Shape, prompt, client, child
<1>. QED  BY <1>1, <1>2, <1>3, <1>4, <1>5, NothingToThePrompt DEF prompt, client, child

LEMMA UsageStep == ASSUME IInv, Usage PROVE IInv'
<1>1. /\ Take /\ Head(rx).kind = "usage" /\ tokens' = Head(rx).turn
      /\ UNCHANGED <<pc, asked, thread, turn, text, result, client, stdin, stdout, child>>
      /\ out' = out
  BY DEF Usage
<1>2. UNCHANGED <<stdout, stdin, server, turns>> /\ lines' = lines
  BY <1>1 DEF child, lines
<1>3. /\ Taken(1) /\ Head(rx) = wire[1] /\ rx' \in Seq(MsgType) /\ Quiescent'
      /\ wire[1] \in MsgType
  BY <1>1, <1>2, TakesOne DEF IInv, Quiescent, client
<1>4. wire[1].kind # "approve" /\ (pc = "stream" => ~IsDelta(wire[1], turn))
  BY <1>1, <1>3 DEF IsDelta
<1>5. tokens' \in Nat
  BY <1>1, <1>3 DEF MsgType
<1>6. Shape'
  BY <1>1, <1>3, <1>5 DEF IInv, Shape, client, child
<1>. QED  BY <1>1, <1>2, <1>3, <1>4, <1>6, NothingToThePrompt DEF client, child

LEMMA FailedPrompt ==
  ASSUME Fail
  PROVE  pc' = "idle" /\ result' \in Answers /\ AnswerStands'
BY ErrorType DEF Fail, AnswerStands

\* The client gives up with nothing taken: the channel is closed, the time is up, or
\* the line cannot be written.
LEMMA GivesUpStep == ASSUME IInv, Closed \/ TimesOut PROVE IInv'
<1>1. /\ Fail /\ out = << >>
      /\ UNCHANGED <<asked, thread, turn, text, tokens, client, stdin, stdout, rx, child>>
      /\ out' = out
  BY DEF Closed, TimesOut, Waiting
<1>2. lines' = lines /\ wire' = wire /\ pc' = "idle" /\ AnswerStands' /\ result' \in Answers
  BY <1>1, FailedPrompt DEF lines, wire
<1>3. Shape'
  BY <1>1, <1>2 DEF IInv, Shape, client, child
<1>4. Quiescent'
  BY <1>1, <1>2 DEF IInv, Quiescent, child, Requests
<1>5. Taken(0) /\ Stretch(lines', lines, 0)
  BY <1>2, SameWire, SameLines, UnderWayTypes DEF Taken, IInv
<1>. QED  BY <1>1, <1>2, <1>3, <1>4, <1>5, PromptReturns DEF client, child

LEMMA WriteFailsStep == ASSUME IInv, WriteFails PROVE IInv'
<1>1. /\ Fail /\ out' = << >> /\ server = "dead" /\ stdin = << >>
      /\ UNCHANGED <<asked, thread, turn, text, tokens, client, stdin, stdout, rx, child>>
  BY DEF WriteFails, IInv, Quiescent
<1>2. wire' = wire /\ pc' = "idle" /\ AnswerStands' /\ result' \in Answers
  BY <1>1, FailedPrompt DEF wire
<1>3. << >> \in Seq(LineType) /\ Len(<< >>) = 0
  BY EmptySeq
<1>4. Len(lines') = 0
  <2>1. lines' = << >> \o << >>
    BY <1>1 DEF lines
  <2>. QED  BY <1>3, <2>1, ConcatEmptySeq
<1>5. Shape'
  BY <1>1, <1>2, <1>3 DEF IInv, Shape, client, child
<1>6. Quiescent'
  BY <1>1, <1>2 DEF IInv, Quiescent, child, Requests
<1>7. Taken(0) /\ Stretch(lines', lines, 0)
  BY <1>2, <1>4, SameWire, EmptyStretch, UnderWayTypes DEF Taken, IInv
<1>. QED  BY <1>1, <1>2, <1>5, <1>6, <1>7, PromptReturns DEF client, child

LEMMA TurnErrorStep == ASSUME IInv, TurnError PROVE IInv'
<1>1. /\ Take /\ Fail /\ Head(rx).kind = "error"
      /\ UNCHANGED <<asked, thread, turn, text, tokens, client, stdin, stdout, child>>
      /\ out' = out
  BY DEF TurnError
<1>2. UNCHANGED <<stdout, stdin, server, turns>> /\ lines' = lines
  BY <1>1 DEF child, lines
<1>3. pc' = "idle" /\ AnswerStands' /\ result' \in Answers
  BY <1>1, FailedPrompt
<1>4. /\ Taken(1) /\ Head(rx) = wire[1] /\ rx' \in Seq(MsgType) /\ Quiescent'
  BY <1>1, <1>2, <1>3, TakesOne DEF Requests
<1>5. Shape'
  BY <1>1, <1>3, <1>4 DEF IInv, Shape, client, child
<1>6. Stretch(lines', lines, 0)
  BY <1>2, SameLines DEF IInv
<1>. QED  BY <1>1, <1>2, <1>3, <1>4, <1>5, <1>6, PromptReturns DEF client, child

\* When the end of the turn arrives, nothing of its text is still under way.
LEMMA CompletedStep == ASSUME IInv, Completed PROVE IInv'
<1>1. /\ Take /\ pc = "stream" /\ Head(rx).kind = "completed" /\ Head(rx).turn = turn
      /\ result' = [kind |-> "answer", turn |-> turn, text |-> text, tokens |-> tokens]
      /\ pc' = "idle"
      /\ UNCHANGED <<asked, thread, turn, text, tokens, client, stdin, stdout, child>>
      /\ out' = out
  BY DEF Completed
<1>2. UNCHANGED <<stdout, stdin, server, turns>> /\ lines' = lines
  BY <1>1 DEF child, lines
<1>3. /\ Taken(1) /\ Head(rx) = wire[1] /\ rx' \in Seq(MsgType) /\ Quiescent'
      /\ MsgOK(wire[1]) /\ 1 \in 1..Len(wire)
  BY <1>1, <1>2, TakesOne DEF Requests
<1>4. result' \in Answers
  BY <1>1 DEF IInv, Shape, Answers
<1>5. Shape'
  BY <1>1, <1>3, <1>4 DEF IInv, Shape, client, child
<1>6. /\ turn \in 1..Len(turns) /\ turns[turn].thread = thread
      /\ turns[turn].status = "completed"
      /\ thread \in 1..Len(threads) /\ threads[thread] = asked
  BY <1>1, <1>3 DEF IInv, Streaming, OfThisPrompt, MsgOK
<1>7. turns[turn].deltas = Len(text)
  <2>1. Len(text) \in Nat /\ turns[turn].deltas \in Nat /\ Len(text) <= turns[turn].deltas
    <3>1. turns[turn] \in TurnType
      BY <1>6, ElementOfSeq DEF IInv, Shape
    <3>. QED  BY <1>1, <3>1, LenProperties DEF IInv, Shape, Streaming, TurnType
  <2> SUFFICES ASSUME Len(text) < turns[turn].deltas PROVE FALSE
    BY <2>1
  <2>2. turns[turn].deltas \in 1..turns[turn].deltas /\ turns[turn].deltas > Len(text)
    BY <2>1
  <2>3. PICK i \in 1..Len(wire) : IsDelta(wire[i], turn)
    BY <1>1, <2>2 DEF IInv, Streaming
  <2>4. i # 1
    BY <1>1, <1>3, <2>3 DEF IsDelta
  <2>5. 1 < i
    BY <2>3, <2>4, UnderWayTypes DEF IInv
  <2>6. InOrder(wire[1], wire[i])
    BY <1>3, <2>5 DEF IInv, WireOrdered
  <2>. QED  BY <1>1, <1>3, <2>3, <2>6 DEF InOrder, IsDelta
<1>8. AnswerStands'
  <2>1. /\ result'.turn = turn /\ result'.text = text
    BY <1>1
  <2>2. \A n \in 1..Len(text) : text[n] = <<turn, n>>
    BY <1>1 DEF IInv, Streaming
  <2>3. turns' = turns /\ threads' = threads /\ asked' = asked
    BY <1>1 DEF child
  <2>. QED  BY <1>6, <1>7, <2>1, <2>2, <2>3 DEF AnswerStands
<1>9. Stretch(lines', lines, 0)
  BY <1>2, SameLines DEF IInv
<1>. QED  BY <1>1, <1>2, <1>3, <1>5, <1>8, <1>9, PromptReturns DEF client, child

\* The next delta of the turn is the next of its text: those before it were taken, and
\* what is under way is in order.
LEMMA DeltaStep == ASSUME IInv, Delta PROVE IInv'
<1> DEFINE m == wire[1]
<1>1. /\ Take /\ pc = "stream" /\ IsDelta(Head(rx), turn)
      /\ text' = Append(text, <<Head(rx).turn, Head(rx).n>>)
      /\ UNCHANGED <<pc, asked, thread, turn, tokens, result, client, stdin, stdout, child>>
      /\ out' = out
  BY DEF Delta, MatchesTurn, IsDelta
<1>2. UNCHANGED <<stdout, stdin, server, turns>> /\ lines' = lines
  BY <1>1 DEF child, lines
<1>3. /\ Taken(1) /\ Head(rx) = m /\ rx' \in Seq(MsgType) /\ Quiescent'
      /\ MsgOK(m) /\ m \in MsgType /\ 1 \in 1..Len(wire)
  BY <1>1, <1>2, TakesOne DEF Requests
<1> HIDE DEF m
<1>4. /\ m.n \in Nat /\ m.turn = turn /\ turn \in Nat /\ m.kind = "delta"
  BY <1>1, <1>3 DEF MsgType, IsDelta
<1>5. /\ text \in Seq(Delta2) /\ Len(text) \in Nat
      /\ <<turn, m.n>> \in Delta2
      /\ text' = Append(text, <<turn, m.n>>)
  BY <1>1, <1>3, <1>4, LenProperties DEF IInv, Shape, Delta2
<1>6. /\ text' \in Seq(Delta2) /\ Len(text') = Len(text) + 1
      /\ \A n \in 1..Len(text) : text'[n] = text[n]
      /\ text'[Len(text) + 1] = <<turn, m.n>>
  BY <1>5, AppendProperties
<1>7. Shape'
  BY <1>1, <1>3, <1>6 DEF IInv, Shape, client, child
<1>8. Shape /\ Stretch(wire', wire, 1) /\ Stretch(lines', lines, 0)
  BY <1>2, <1>3, SameLines DEF IInv, Taken
<1>9. turns[turn].deltas \in Nat
  <2>1. turn \in 1..Len(turns)
    BY <1>1 DEF IInv, Streaming
  <2>2. turns[turn] \in TurnType
    BY <1>8, <2>1, ElementOfSeq DEF Shape
  <2>. QED  BY <2>2 DEF TurnType
<1>10. m.n \in 1..turns[turn].deltas /\ m.n > Len(text)
  BY <1>1, <1>3, <1>4 DEF IInv, Streaming, MsgOK, IsDelta, m
<1>11. m.n = Len(text) + 1
  <2> SUFFICES ASSUME m.n > Len(text) + 1 PROVE FALSE
    BY <1>4, <1>5, <1>10
  <2>1. Len(text) + 1 \in 1..turns[turn].deltas /\ Len(text) + 1 > Len(text)
    BY <1>4, <1>5, <1>9, <1>10
  <2>2. PICK i \in 1..Len(wire) : IsDelta(wire[i], turn) /\ wire[i].n = Len(text) + 1
    BY <1>1, <2>1 DEF IInv, Streaming
  <2>3. i # 1
    BY <1>4, <1>5, <2>2 DEF m
  <2>4. InOrder(m, wire[i])
    BY <1>3, <1>8, <2>2, <2>3, UnderWayTypes DEF IInv, WireOrdered, m
  <2>. QED  BY <1>4, <1>5, <2>2, <2>4 DEF InOrder, IsDelta
<1>12. Streaming'
  <2>1. /\ Len(wire) \in Nat /\ Len(wire') \in Nat
        /\ \A i \in 1..Len(wire') : wire'[i] = wire[i + 1] /\ i + 1 \in 1..Len(wire)
        /\ \A i \in 1..Len(wire) : i > 1 => i - 1 \in 1..Len(wire') /\ wire'[i - 1] = wire[i]
    BY <1>3, <1>7, <1>8, TakenFacts
  <2>2. /\ turn \in 1..Len(turns) /\ turns[turn].thread = thread
        /\ \A n \in 1..Len(text) : text[n] = <<turn, n>>
        /\ \A i \in 1..Len(wire) : IsDelta(wire[i], turn) => wire[i].n > Len(text)
        /\ \A n \in 1..turns[turn].deltas :
             n > Len(text) => \E i \in 1..Len(wire) : IsDelta(wire[i], turn) /\ wire[i].n = n
    BY <1>1 DEF IInv, Streaming
  <2>3. Len(text') <= turns[turn].deltas
    BY <1>6, <1>10, <1>11
  <2>4. \A n \in 1..Len(text') : text'[n] = <<turn, n>>
    BY <1>5, <1>6, <1>11, <2>2
  <2>5. ASSUME NEW i \in 1..Len(wire'), IsDelta(wire'[i], turn)
        PROVE  wire'[i].n > Len(text')
    <3>1. wire'[i] = wire[i + 1] /\ i + 1 \in 1..Len(wire) /\ 1 < i + 1
      BY <2>1
    <3>2. InOrder(m, wire[i + 1])
      BY <1>3, <3>1 DEF IInv, WireOrdered, m
    <3>. QED  BY <1>4, <1>6, <1>11, <2>5, <3>1, <3>2 DEF InOrder, IsDelta
  <2>6. ASSUME NEW n \in 1..turns[turn].deltas, n > Len(text')
        PROVE  \E i \in 1..Len(wire') : IsDelta(wire'[i], turn) /\ wire'[i].n = n
    <3>1. n > Len(text) /\ n # m.n
      BY <1>5, <1>6, <1>11, <2>6
    <3>2. PICK i \in 1..Len(wire) : IsDelta(wire[i], turn) /\ wire[i].n = n
      BY <2>2, <3>1
    <3>3. i > 1
      BY <2>1, <3>1, <3>2 DEF m
    <3>. QED  BY <2>1, <3>2, <3>3
  <2>7. turn' = turn /\ thread' = thread /\ turns' = turns
    BY <1>1 DEF child
  <2>. QED  BY <2>2, <2>3, <2>4, <2>5, <2>6, <2>7 DEF Streaming
<1>13. Ordered'
  BY <1>7, <1>8, OrderedShrinks DEF IInv, Ordered
<1>14. WireOK' /\ LinesOK'
  <2>1. \A x \in MsgType : MsgOK(x) => MsgOK(x)'
    BY <1>1 DEF MsgOK, Current, client, child
  <2>2. \A l \in LineType : LineOK(l) => LineOK(l)'
    BY <1>1 DEF LineOK, Current, client, child
  <2>. QED  BY <1>7, <1>8, <2>1, <2>2, WireStays, LinesStay DEF IInv
<1>15. ApprovalUnderWay'
  <2>1. Longer(lines', lines)
    BY <1>2, <1>8, UnderWayTypes DEF Longer
  <2>2. wire[1].kind # "approve"
    BY <1>4 DEF m
  <2>. QED  BY <1>2, <1>3, <1>7, <2>1, <2>2, ApprovalStays DEF IInv
<1>16. OfThisPrompt' /\ Starting' /\ AnswerStands'
  BY <1>1 DEF IInv, OfThisPrompt, Starting, AnswerStands, child
<1>. QED  BY <1>3, <1>7, <1>12, <1>13, <1>14, <1>15, <1>16 DEF IInv, Ordered

\* The answer to a request is taken, and the client goes on with lines that are no
\* approvals and know the new request, if there is one.
LEMMA GoesOn ==
  ASSUME IInv, Shape', Take, UNCHANGED <<asked, stdin, stdout, server, threads, turns>>,
         pc' \in {"thread", "turn", "stream"},
         nextId' \in Nat, nextId' >= nextId,
         pc' \in Requests => nextId' = nextId + 1,
         wire[1].kind = "ok",
         \A i \in 1..Len(out') :
           out'[i].kind # "approval" /\ \E l \in LineType : l = out'[i] /\ LineOK(l)'
  PROVE  /\ Quiescent' /\ Ordered' /\ WireOK' /\ LinesOK'
         /\ ApprovalUnderWay' /\ AnswerStands'
         /\ Taken(1)
<1>1. /\ Taken(1) /\ Shape /\ out = << >> /\ Stretch(wire', wire, 1)
      /\ ((pc' = "idle" => out' = << >>) /\ (pc' \in Requests => nextId' > 1)) => Quiescent'
  BY TakesOne DEF IInv, Taken
<1>2. /\ Longer(lines', lines)
      /\ Len(lines') = Len(lines) + Len(out') /\ Len(out') \in Nat /\ Len(lines) \in Nat
      /\ \A i \in 1..Len(out') : lines'[Len(lines) + i] = out'[i]
  <2>1. out' \in Seq(LineType)
    BY DEF Shape
  <2>. QED  BY <1>1, <2>1, SendEffect
<1>3. \A i \in 1..Len(lines') : i > Len(lines) =>
        i - Len(lines) \in 1..Len(out') /\ lines'[i] = out'[i - Len(lines)]
  <2>1. ASSUME NEW i \in 1..Len(lines'), i > Len(lines)
        PROVE  i - Len(lines) \in 1..Len(out') /\ lines'[i] = out'[i - Len(lines)]
    <3>1. i - Len(lines) \in 1..Len(out') /\ i = Len(lines) + (i - Len(lines))
      BY <1>2, <2>1
    <3>. QED  BY <1>2, <3>1
  <2>. QED  BY <2>1
<1>4. Ordered'
  <2>1. Ordered
    BY DEF IInv, Ordered
  <2>2. \A i \in 1..Len(lines') : i > Len(lines) => lines'[i].kind # "approval"
    BY <1>3
  <2>. QED  BY <1>1, <1>2, <2>1, <2>2, OrderedSends
<1>5. nextId \in Nat \ {0}
  BY <1>1 DEF Shape
<1>6. \A m \in MsgType : MsgOK(m) => MsgOK(m)'
  BY <1>5 DEF MsgOK, Current, Requests, MsgType
<1>7. \A l \in LineType : LineOK(l) => LineOK(l)'
  BY <1>5 DEF LineOK, Current, Requests, LineType
<1>8. WireOK' /\ LinesOK'
  <2>1. \A i \in 1..Len(lines') : i > Len(lines) =>
          \E l \in LineType : l = lines'[i] /\ LineOK(l)'
    BY <1>3
  <2>. QED  BY <1>1, <1>2, <1>6, <1>7, <2>1, WireStays, LinesSent DEF IInv
<1>9. ApprovalUnderWay'
  BY <1>1, <1>2, ApprovalStays DEF IInv
<1>10. Quiescent' /\ AnswerStands'
  BY <1>1, <1>5 DEF AnswerStands, Requests
<1>. QED  BY <1>1, <1>4, <1>8, <1>9, <1>10

LEMMA RefusedStep ==
  ASSUME IInv, Answered, Head(rx).kind # "ok"
  PROVE  IInv'
<1>1. /\ Take /\ Fail /\ Head(rx).kind = "refused"
      /\ UNCHANGED <<asked, thread, turn, text, tokens, out, nextId,
                     fingerprint, initialized, stdin, stdout, child>>
  BY DEF Answered, IsAnswer
<1>2. UNCHANGED <<stdout, stdin, server, turns>> /\ lines' = lines
  BY <1>1 DEF child, lines
<1>3. pc' = "idle" /\ AnswerStands' /\ result' \in Answers
  BY <1>1, FailedPrompt
<1>4. /\ Taken(1) /\ Head(rx) = wire[1] /\ rx' \in Seq(MsgType) /\ out = << >>
      /\ Quiescent'
  BY <1>1, <1>2, <1>3, TakesOne DEF Requests
<1>5. Shape'
  BY <1>1, <1>3, <1>4 DEF IInv, Shape, child
<1>6. Stretch(lines', lines, 0)
  BY <1>2, SameLines DEF IInv
<1>. QED  BY <1>1, <1>2, <1>3, <1>4, <1>5, <1>6, PromptReturns DEF child

\* The client that waits for request pc takes an answer that is not a refusal.
LEMMA AnswerTaken ==
  ASSUME IInv, Answered, Head(rx).kind = "ok"
  PROVE  /\ Take /\ pc \in Requests /\ out = << >>
         /\ Head(rx) = wire[1] /\ wire[1] \in MsgType /\ MsgOK(wire[1])
         /\ wire[1].kind = "ok" /\ Current(wire[1].id)
         /\ rx' \in Seq(MsgType) /\ 1 \in 1..Len(wire)
         /\ UNCHANGED <<fingerprint, initialized, stdin, stdout, server, threads, turns>>
         /\ Initialized \/ ThreadStarted(wire[1]) \/ TurnStarted(wire[1])
<1>1. /\ Take /\ pc \in Requests /\ IsAnswer(Head(rx))
      /\ UNCHANGED <<fingerprint, initialized, stdin, stdout, child>>
      /\ Initialized \/ ThreadStarted(Head(rx)) \/ TurnStarted(Head(rx))
  BY DEF Answered
<1>2. UNCHANGED <<server, threads, turns>>
  BY <1>1 DEF child
<1>3. /\ Head(rx) = wire[1] /\ wire[1] \in MsgType /\ MsgOK(wire[1]) /\ 1 \in 1..Len(wire)
      /\ rx' \in Seq(MsgType) /\ out = << >>
  BY <1>1, <1>2, TakesOne
<1>. QED  BY <1>1, <1>2, <1>3 DEF IsAnswer, Current

LEMMA InitializedStep ==
  ASSUME IInv, Answered, Head(rx).kind = "ok", Initialized
  PROVE  IInv'
<1>1. /\ Take /\ wire[1].kind = "ok" /\ rx' \in Seq(MsgType)
      /\ UNCHANGED <<fingerprint, initialized, stdin, stdout, server, threads, turns>>
  BY AnswerTaken
<1>2. /\ pc' = "thread" /\ nextId' = nextId + 1
      /\ out' = <<Line("initialized", 0), Line("thread", nextId)>>
      /\ UNCHANGED <<asked, thread, turn, text, tokens, result>>
  BY DEF Initialized, Send, prompt
<1>3. Shape /\ nextId \in Nat \ {0} /\ asked \in Nat
  BY DEF IInv, Shape
<1>4. PICK l1 \in LineType, l2 \in LineType :
        /\ out' = <<l1, l2>>
        /\ l1.kind = "initialized" /\ l1.id = 0
        /\ l2.kind = "thread" /\ l2.id = nextId /\ l2.prompt = asked
  <2>1. /\ Line("initialized", 0) \in LineType
        /\ Line("initialized", 0).kind = "initialized" /\ Line("initialized", 0).id = 0
    BY <1>3, LineTypes DEF LineKinds
  <2>2. /\ Line("thread", nextId) \in LineType
        /\ Line("thread", nextId).kind = "thread" /\ Line("thread", nextId).id = nextId
        /\ Line("thread", nextId).prompt = asked
    BY <1>3, LineTypes DEF LineKinds, Requests
  <2>. QED  BY <1>2, <2>1, <2>2
<1>5. /\ out' \in Seq(LineType) /\ Len(out') = 2 /\ out'[1] = l1 /\ out'[2] = l2
  BY <1>4, TwoElements
<1>6. Shape'
  BY <1>1, <1>2, <1>3, <1>5 DEF Shape, Requests
<1>7. LineOK(l1)' /\ LineOK(l2)'
  BY <1>2, <1>3, <1>4 DEF LineOK, Current, Requests
<1>8. \A i \in 1..Len(out') :
        out'[i].kind # "approval" /\ \E l \in LineType : l = out'[i] /\ LineOK(l)'
  <2>1. ASSUME NEW i \in 1..Len(out')
        PROVE  out'[i].kind # "approval" /\ \E l \in LineType : l = out'[i] /\ LineOK(l)'
    <3>1. i = 1 \/ i = 2
      BY <1>5
    <3>2. (out'[i] = l1 \/ out'[i] = l2)
      BY <1>5, <3>1
    <3>. QED  BY <1>4, <1>7, <3>2
  <2>. QED  BY <2>1
<1>9. /\ Quiescent' /\ Ordered' /\ WireOK' /\ LinesOK'
      /\ ApprovalUnderWay' /\ AnswerStands'
  BY <1>1, <1>2, <1>3, <1>6, <1>8, GoesOn
<1>10. OfThisPrompt' /\ Streaming' /\ Starting'
  BY <1>2 DEF OfThisPrompt, Streaming, Starting
<1>. QED  BY <1>6, <1>9, <1>10 DEF IInv, Ordered

\* The thread named in the answer is that of this prompt, for its id is the current one.
LEMMA ThreadStartedStep ==
  ASSUME IInv, Answered, Head(rx).kind = "ok", ThreadStarted(wire[1])
  PROVE  IInv'
<1>1. /\ Take /\ wire[1].kind = "ok" /\ rx' \in Seq(MsgType)
      /\ wire[1] \in MsgType /\ MsgOK(wire[1]) /\ Current(wire[1].id)
      /\ UNCHANGED <<fingerprint, initialized, stdin, stdout, server, threads, turns>>
  BY AnswerTaken
<1>2. /\ pc = "thread" /\ pc' = "turn" /\ thread' = wire[1].n
      /\ out' = <<[Line("turn", nextId) EXCEPT !.thread = wire[1].n]>>
      /\ nextId' = nextId + 1
      /\ UNCHANGED <<asked, turn, text, tokens, result>>
  BY DEF ThreadStarted, Send
<1>3. Shape /\ nextId \in Nat \ {0} /\ asked \in Nat /\ wire[1].n \in Nat
  BY <1>1 DEF IInv, Shape, MsgType
<1>4. /\ Line("turn", nextId) \in LineType /\ Line("turn", nextId).kind = "turn"
      /\ Line("turn", nextId).id = nextId /\ Line("turn", nextId).prompt = asked
  BY <1>3, LineTypes DEF LineKinds, Requests
<1>5. PICK l \in LineType :
        /\ out' = <<l>> /\ l.kind = "turn" /\ l.id = nextId /\ l.prompt = asked
        /\ l.thread = wire[1].n
  <2> DEFINE e == [Line("turn", nextId) EXCEPT !.thread = wire[1].n]
  <2>1. /\ e \in LineType /\ e.kind = "turn" /\ e.id = nextId /\ e.prompt = asked
        /\ e.thread = wire[1].n
    BY <1>3, <1>4, LineSet, ZenonT(30)
  <2>2. out' = <<e>>
    BY <1>2
  <2> HIDE DEF e
  <2>. QED  BY <2>1, <2>2
<1>6. out' \in Seq(LineType) /\ Len(out') = 1 /\ out'[1] = l
  BY <1>5, OneElement
<1>7. Shape'
  BY <1>1, <1>2, <1>3, <1>6, SMTT(30) DEF Shape, Requests
<1>8. wire[1].n \in 1..Len(threads) /\ threads[wire[1].n] = asked
  BY <1>1, <1>2 DEF MsgOK
<1>9. LineOK(l)'
  BY <1>1, <1>2, <1>3, <1>5, <1>8 DEF LineOK, Current, Requests
<1>10. \A i \in 1..Len(out') :
         out'[i].kind # "approval" /\ \E x \in LineType : x = out'[i] /\ LineOK(x)'
  <2>1. ASSUME NEW i \in 1..Len(out')
        PROVE  out'[i].kind # "approval" /\ \E x \in LineType : x = out'[i] /\ LineOK(x)'
    <3>1. i = 1
      BY <1>6
    <3>. QED  BY <1>5, <1>6, <1>9, <3>1
  <2>. QED  BY <2>1
<1>11. /\ Quiescent' /\ Ordered' /\ WireOK' /\ LinesOK'
       /\ ApprovalUnderWay' /\ AnswerStands' /\ Taken(1)
  BY <1>1, <1>2, <1>3, <1>7, <1>10, GoesOn, SMTT(30)
<1>12. OfThisPrompt' /\ Streaming'
  BY <1>1, <1>2, <1>8 DEF OfThisPrompt, Streaming
<1>13. Starting'
  <2>1. \A i \in 1..Len(wire') : wire'[i] \in MsgType /\ wire'[i].id < nextId
    <3>1. \A i \in 1..Len(wire') : wire'[i] = wire[i + 1] /\ i + 1 \in 1..Len(wire)
      BY <1>3, <1>7, <1>11, TakenFacts
    <3>. QED  BY <1>3, <3>1, UnderWayTypes DEF IInv, WireOK, MsgOK
  <2>2. \A i \in 1..Len(wire') : wire'[i].id # nextId' - 1
    BY <1>2, <1>3, <2>1 DEF MsgType
  <2>. QED  BY <2>2 DEF Starting
<1>. QED  BY <1>7, <1>11, <1>12, <1>13 DEF IInv, Ordered

LEMMA TurnStartedStep ==
  ASSUME IInv, Answered, Head(rx).kind = "ok", TurnStarted(wire[1])
  PROVE  IInv'
<1> DEFINE m == wire[1]
<1>1. /\ Take /\ m.kind = "ok" /\ rx' \in Seq(MsgType) /\ out = << >>
      /\ m \in MsgType /\ MsgOK(m) /\ Current(m.id) /\ 1 \in 1..Len(wire)
      /\ UNCHANGED <<fingerprint, initialized, stdin, stdout, server, threads, turns>>
  BY AnswerTaken
<1>2. /\ pc = "turn" /\ pc' = "stream" /\ turn' = m.turn /\ text' = << >> /\ tokens' = 0
      /\ UNCHANGED <<asked, thread, result, out, nextId>>
  BY DEF TurnStarted
<1>3. /\ Shape /\ nextId \in Nat \ {0} /\ m.turn \in Nat
      /\ << >> \in Seq(Delta2) /\ Len(<< >>) = 0
  BY <1>1, EmptySeq DEF IInv, Shape, MsgType
<1>4. Shape'
  BY <1>1, <1>2, <1>3 DEF Shape
<1>5. /\ m.turn \in 1..Len(turns) /\ turns[m.turn].thread = thread
      /\ thread \in 1..Len(threads) /\ threads[thread] = asked
      /\ m.id = nextId - 1
  BY <1>1, <1>2 DEF IInv, OfThisPrompt, MsgOK, Current
<1>6. Len(out') = 0
  BY <1>1, <1>2, EmptySeq
<1>7. /\ Quiescent' /\ Ordered' /\ WireOK' /\ LinesOK'
      /\ ApprovalUnderWay' /\ AnswerStands' /\ Taken(1)
  <2>1. \A i \in 1..Len(out') :
          out'[i].kind # "approval" /\ \E x \in LineType : x = out'[i] /\ LineOK(x)'
    BY <1>6
  <2>. QED  BY <1>1, <1>2, <1>3, <1>4, <2>1, GoesOn DEF Requests
<1>8. OfThisPrompt' /\ Starting'
  BY <1>1, <1>2, <1>5 DEF OfThisPrompt, Starting
<1>9. Streaming'
  <2>1. /\ Len(wire) \in Nat /\ Len(wire') \in Nat
        /\ \A i \in 1..Len(wire') : wire'[i] = wire[i + 1] /\ i + 1 \in 1..Len(wire)
        /\ \A i \in 1..Len(wire) : i > 1 => i - 1 \in 1..Len(wire') /\ wire'[i - 1] = wire[i]
    BY <1>3, <1>4, <1>7, TakenFacts
  <2>2. turns[m.turn].deltas \in Nat
    <3>1. turns[m.turn] \in TurnType
      BY <1>3, <1>5, ElementOfSeq DEF Shape
    <3>. QED  BY <3>1 DEF TurnType
  <2>3. \A i \in 1..Len(wire') : IsDelta(wire'[i], m.turn) => wire'[i].n > 0
    <3>1. ASSUME NEW i \in 1..Len(wire'), IsDelta(wire'[i], m.turn)
          PROVE  wire'[i].n > 0
      <4>1. MsgOK(wire[i + 1]) /\ wire'[i] = wire[i + 1]
        BY <2>1 DEF IInv, WireOK
      <4>2. wire'[i].n \in 1..turns[m.turn].deltas
        BY <3>1, <4>1 DEF MsgOK, IsDelta
      <4>. QED  BY <2>2, <4>2
    <3>. QED  BY <3>1
  <2>4. ASSUME NEW n \in 1..turns[m.turn].deltas
        PROVE  \E i \in 1..Len(wire') : IsDelta(wire'[i], m.turn) /\ wire'[i].n = n
    <3>1. PICK j \in 1..Len(wire) : j > 1 /\ IsDelta(wire[j], m.turn) /\ wire[j].n = n
      BY <1>1, <1>2, <1>5 DEF IInv, Starting
    <3>. QED  BY <2>1, <3>1
  <2> HIDE DEF m
  <2>5. Len(text') = 0 /\ turn' = m.turn /\ turns' = turns /\ thread' = thread
    BY <1>1, <1>2, <1>3
  <2>. QED  BY <1>5, <2>2, <2>3, <2>4, <2>5 DEF Streaming
<1>. QED  BY <1>4, <1>7, <1>8, <1>9 DEF IInv, Ordered

LEMMA AnsweredStep == ASSUME IInv, Answered PROVE IInv'
<1>1. CASE Head(rx).kind # "ok"
  BY <1>1, RefusedStep
<1>2. CASE Head(rx).kind = "ok"
  BY <1>2, AnswerTaken, InitializedStep, ThreadStartedStep, TurnStartedStep
<1>. QED  BY <1>1, <1>2

\* The request for an approval becomes the answer to it.
LEMMA ApproveStep == ASSUME IInv, Approve PROVE IInv'
<1> DEFINE m == wire[1]
<1>1. /\ Take /\ Head(rx).kind = "approve"
      /\ out' = <<[Line("approval", 0) EXCEPT !.turn = Head(rx).turn]>>
      /\ UNCHANGED <<pc, prompt, client, stdin, stdout, child>>
  BY DEF Approve, IsServerRequest
<1>2. UNCHANGED <<stdout, stdin, server, turns>>
  BY <1>1 DEF child
<1>3. /\ Taken(1) /\ Head(rx) = m /\ rx' \in Seq(MsgType) /\ pc # "idle" /\ out = << >>
      /\ MsgOK(m) /\ m \in MsgType /\ 1 \in 1..Len(wire)
      /\ ((pc' = "idle" => out' = << >>) /\ (pc' \in Requests => nextId' > 1)) => Quiescent'
  BY <1>1, <1>2, TakesOne
<1>4. Quiescent'
  BY <1>1, <1>3 DEF IInv, Quiescent, client
<1> HIDE DEF m
<1>5. /\ m.turn \in Nat /\ m.kind = "approve" /\ m.turn \in 1..Len(turns)
      /\ server = "up" => turns[m.turn].status = "asked"
  BY <1>1, <1>3 DEF MsgType, MsgOK
<1>6. Shape /\ nextId \in Nat \ {0}
  BY DEF IInv, Shape
<1>7. /\ Line("approval", 0) \in LineType /\ Line("approval", 0).kind = "approval"
      /\ Line("approval", 0).id = 0
  BY <1>6, LineTypes DEF LineKinds
<1>8. PICK l \in LineType :
        out' = <<l>> /\ l.kind = "approval" /\ l.id = 0 /\ l.turn = m.turn
  <2> DEFINE e == [Line("approval", 0) EXCEPT !.turn = m.turn]
  <2>1. e \in LineType /\ e.kind = "approval" /\ e.id = 0 /\ e.turn = m.turn
    BY <1>5, <1>7, LineSet
  <2>2. out' = <<e>>
    BY <1>1, <1>3
  <2> HIDE DEF e
  <2>. QED  BY <2>1, <2>2
<1>9. out' \in Seq(LineType) /\ Len(out') = 1 /\ out'[1] = l
  BY <1>8, OneElement
<1>10. Shape'
  BY <1>1, <1>3, <1>6, <1>9 DEF Shape, prompt, client, child
<1>11. /\ Longer(lines', lines) /\ Len(lines') = Len(lines) + 1 /\ Len(lines) \in Nat
       /\ lines'[Len(lines) + 1] = l
  <2>1. /\ Longer(lines', lines)
        /\ Len(lines') = Len(lines) + Len(out') /\ Len(lines) \in Nat
        /\ \A i \in 1..Len(out') : lines'[Len(lines) + i] = out'[i]
    BY <1>2, <1>3, <1>6, <1>9, SendEffect
  <2>. QED  BY <1>9, <2>1
<1>12. \A i \in 1..Len(lines') : i > Len(lines) => i = Len(lines) + 1 /\ lines'[i] = l
  BY <1>11
<1>13. /\ Len(wire) \in Nat /\ Len(wire') \in Nat
       /\ \A i \in 1..Len(wire') : wire'[i] = wire[i + 1] /\ i + 1 \in 1..Len(wire)
       /\ \A i \in 1..Len(wire) : i > 1 => i - 1 \in 1..Len(wire') /\ wire'[i - 1] = wire[i]
  BY <1>3, <1>6, <1>10, TakenFacts
<1>14. Ordered'
  <2>1. \A a \in 1..Len(wire') : ~(wire'[a].kind = "approve" /\ wire'[a].turn = l.turn)
    <3> SUFFICES ASSUME NEW a \in 1..Len(wire'),
                        wire'[a].kind = "approve", wire'[a].turn = l.turn
                 PROVE  FALSE
      OBVIOUS
    <3>1. 1 < a + 1 /\ a + 1 \in 1..Len(wire) /\ wire'[a] = wire[a + 1]
      BY <1>13
    <3>2. InOrder(wire[1], wire[a + 1])
      BY <1>3, <3>1 DEF IInv, WireOrdered
    <3>. QED  BY <1>5, <1>8, <3>1, <3>2 DEF InOrder, m
  <2>2. \A a \in 1..Len(lines) : ~(lines[a].kind = "approval" /\ lines[a].turn = l.turn)
    BY <1>3, <1>5, <1>8 DEF IInv, Across, m
  <2>3. Ordered /\ Stretch(wire', wire, 1)
    BY <1>3 DEF IInv, Ordered, Taken
  <2>. QED  BY <1>6, <1>10, <1>11, <1>12, <2>1, <2>2, <2>3, OrderedSends
<1>15. WireOK' /\ LinesOK'
  <2>1. \A x \in MsgType : MsgOK(x) => MsgOK(x)'
    BY <1>1 DEF MsgOK, Current, prompt, client, child
  <2>2. \A x \in LineType : LineOK(x) => LineOK(x)'
    BY <1>1 DEF LineOK, Current, prompt, client, child
  <2>3. LineOK(l)'
    BY <1>1, <1>2, <1>5, <1>6, <1>8 DEF LineOK, Current, Requests, client
  <2>4. Stretch(wire', wire, 1)
    BY <1>3 DEF Taken
  <2>5. \A i \in 1..Len(lines') : i > Len(lines) =>
          \E x \in LineType : x = lines'[i] /\ LineOK(x)'
    BY <1>8, <1>12, <2>3
  <2>. QED  BY <1>6, <1>10, <1>11, <2>1, <2>2, <2>4, <2>5, WireStays, LinesSent DEF IInv
<1>16. Streaming'
  <2>1. pc = "stream" => ~IsDelta(wire[1], turn)
    BY <1>5 DEF IsDelta, m
  <2>. QED  BY <1>1, <1>3, <1>10, <2>1, StreamingStays DEF IInv, prompt, child
<1>17. Starting'
  BY <1>1, <1>3, <1>10, StartingStays DEF IInv, client, child
<1>18. ApprovalUnderWay'
  <2> SUFFICES ASSUME NEW t \in 1..Len(turns), server = "up", turns[t].status = "asked"
               PROVE  \/ \E i \in 1..Len(wire') : wire'[i].kind = "approve" /\ wire'[i].turn = t
                      \/ \E i \in 1..Len(lines') :
                           lines'[i].kind = "approval" /\ lines'[i].turn = t
    BY <1>2 DEF ApprovalUnderWay
  <2>1. CASE t = m.turn
    <3>1. Len(lines) + 1 \in 1..Len(lines')
      BY <1>11
    <3>. QED  BY <1>8, <1>11, <2>1, <3>1
  <2>2. CASE \E i \in 1..Len(wire) : wire[i].kind = "approve" /\ wire[i].turn = t /\ i > 1
    BY <1>13, <2>2
  <2>3. CASE \E i \in 1..Len(lines) : lines[i].kind = "approval" /\ lines[i].turn = t
    <3>1. PICK i \in 1..Len(lines) : lines[i].kind = "approval" /\ lines[i].turn = t
      BY <2>3
    <3>2. i \in 1..Len(lines') /\ lines'[i] = lines[i]
      BY <1>11 DEF Longer
    <3>. QED  BY <3>1, <3>2
  <2>4. \/ \E i \in 1..Len(wire) : wire[i].kind = "approve" /\ wire[i].turn = t
        \/ \E i \in 1..Len(lines) : lines[i].kind = "approval" /\ lines[i].turn = t
    BY DEF IInv, ApprovalUnderWay
  <2>5. t # m.turn /\ (\E i \in 1..Len(wire) : wire[i].kind = "approve" /\ wire[i].turn = t)
        => \E i \in 1..Len(wire) : wire[i].kind = "approve" /\ wire[i].turn = t /\ i > 1
    BY <1>13 DEF m
  <2>. QED  BY <2>1, <2>2, <2>3, <2>4, <2>5
<1>19. OfThisPrompt' /\ AnswerStands'
  BY <1>1 DEF IInv, OfThisPrompt, AnswerStands, prompt, child
<1>. QED  BY <1>4, <1>10, <1>14, <1>15, <1>16, <1>17, <1>18, <1>19 DEF IInv, Ordered

-----------------------------------------------------------------------------
(* A new prompt, and the end of a child.                                   *)

\* Empty pipes.
LEMMA EmptyPipes ==
  ASSUME rx' = << >>, stdout' = << >>
  PROVE  Len(wire') = 0 /\ rx' \in Seq(MsgType) /\ stdout' \in Seq(MsgType)
<1>1. << >> \in Seq(MsgType) /\ Len(<< >>) = 0
  BY EmptySeq
<1>2. wire' = << >> \o << >>
  BY DEF wire
<1>. QED  BY <1>1, <1>2, ConcatEmptySeq

\* The types of the turns when the child is no more.
LEMMA TurnsGone ==
  ASSUME Shape, turns' = Gone, threads' = threads
  PROVE  /\ turns' \in Seq(TurnType) /\ Len(turns') = Len(turns)
         /\ \A t \in 1..Len(turns') : turns'[t].thread \in 1..Len(threads')
         /\ \A t \in 1..Len(turns) :
              /\ turns'[t].thread = turns[t].thread /\ turns'[t].deltas = turns[t].deltas
              /\ turns'[t].status \in {"gone", "completed", "error"}
              /\ turns[t].status = "completed" => turns'[t].status = "completed"
BY GoneTurns DEF Shape

\* A client without a child is idle and has nothing under way.
LEMMA NoChildStep ==
  ASSUME IInv, Shape', pc = "idle", pc' = "idle", UNCHANGED <<out, threads>>,
         turns' = Gone, server' = "none", stdin' = << >>, Len(wire') = 0,
         AnswerStands'
  PROVE  IInv'
<1>1. Shape /\ out = << >>
  BY DEF IInv, Quiescent
<1>2. Len(lines') = 0
  <2>1. << >> \in Seq(LineType) /\ Len(<< >>) = 0
    BY EmptySeq
  <2>2. lines' = << >> \o << >>
    BY <1>1 DEF lines
  <2>. QED  BY <2>1, <2>2, ConcatEmptySeq
<1>3. /\ Len(turns') = Len(turns)
      /\ \A t \in 1..Len(turns) : turns'[t].status \in {"gone", "completed", "error"}
  BY <1>1, TurnsGone
<1>4. Quiescent'
  BY <1>1, <1>3 DEF Quiescent, Requests
<1>5. LinesOK' /\ WireOK' /\ WireOrdered' /\ LinesOrdered' /\ Across'
  BY <1>2 DEF LinesOK, WireOK, WireOrdered, LinesOrdered, Across
<1>6. OfThisPrompt' /\ Streaming' /\ Starting' /\ ApprovalUnderWay'
  BY DEF OfThisPrompt, Streaming, Starting, ApprovalUnderWay
<1>. QED  BY <1>4, <1>5, <1>6 DEF IInv

LEMMA SpawnFailsStep ==
  ASSUME IInv, NEW f \in Launches, SpawnFails(f)
  PROVE  IInv'
<1>1. /\ pc = "idle" /\ asked' = asked + 1 /\ result' = Error
      /\ fingerprint' = f /\ initialized' = FALSE /\ nextId' = 1
      /\ server' = "none" /\ stdin' = << >> /\ stdout' = << >> /\ rx' = << >>
      /\ turns' = Gone
      /\ UNCHANGED <<pc, thread, turn, text, tokens, out, threads>>
  BY DEF SpawnFails
<1>2. /\ Shape /\ << >> \in Seq(LineType) /\ result' \in Answers /\ result'.kind = "error"
  BY <1>1, ErrorType, EmptySeq DEF IInv
<1>3. Shape'
  <2>1. /\ turns' \in Seq(TurnType)
        /\ \A t \in 1..Len(turns') : turns'[t].thread \in 1..Len(threads')
        /\ rx' \in Seq(MsgType) /\ stdout' \in Seq(MsgType)
    BY <1>1, <1>2, TurnsGone, EmptyPipes
  <2>2. initialized' \in BOOLEAN
    BY <1>1, Zenon
  <2>3. /\ fingerprint' = f /\ nextId' = 1 /\ server' = "none" /\ asked' = asked + 1
        /\ stdin' = << >> /\ UNCHANGED <<pc, thread, turn, text, tokens, out, threads>>
    BY <1>1
  <2>. QED  BY <1>2, <2>1, <2>2, <2>3 DEF Shape
<1>4. AnswerStands'
  BY <1>2 DEF AnswerStands
<1>. QED  BY <1>1, <1>3, <1>4, EmptyPipes, NoChildStep

LEMMA ShutdownStep == ASSUME IInv, Shutdown PROVE IInv'
<1>1. /\ pc = "idle"
      /\ fingerprint' = "none" /\ initialized' = FALSE /\ nextId' = 1
      /\ server' = "none" /\ stdin' = << >> /\ stdout' = << >> /\ rx' = << >>
      /\ turns' = Gone
      /\ UNCHANGED <<pc, prompt, out, threads>>
  BY DEF Shutdown
<1>2. Shape /\ << >> \in Seq(LineType)
  BY EmptySeq DEF IInv
<1>3. Shape'
  <2>1. /\ turns' \in Seq(TurnType)
        /\ \A t \in 1..Len(turns') : turns'[t].thread \in 1..Len(threads')
        /\ rx' \in Seq(MsgType) /\ stdout' \in Seq(MsgType)
    BY <1>1, <1>2, TurnsGone, EmptyPipes
  <2>2. initialized' \in BOOLEAN
    BY <1>1, Zenon
  <2>3. /\ fingerprint' = "none" /\ nextId' = 1 /\ server' = "none"
        /\ stdin' = << >> /\ UNCHANGED <<pc, prompt, out, threads>>
    BY <1>1
  <2>. QED  BY <1>2, <2>1, <2>2, <2>3 DEF Shape, prompt
<1>4. AnswerStands'
  <2> SUFFICES ASSUME result.kind = "answer" PROVE AnswerStands'
    BY <1>1 DEF AnswerStands, prompt
  <2>1. /\ result.turn \in 1..Len(turns)
        /\ threads[turns[result.turn].thread] = asked
        /\ turns[result.turn].status = "completed"
        /\ Len(result.text) = turns[result.turn].deltas
        /\ \A n \in 1..turns[result.turn].deltas : result.text[n] = <<result.turn, n>>
    BY <1>1 DEF IInv, AnswerStands
  <2>2. /\ Len(turns') = Len(turns)
        /\ turns'[result.turn].thread = turns[result.turn].thread
        /\ turns'[result.turn].deltas = turns[result.turn].deltas
        /\ turns'[result.turn].status = "completed"
    BY <1>1, <1>2, <2>1, TurnsGone
  <2>3. result' = result /\ threads' = threads /\ asked' = asked
    BY <1>1 DEF prompt
  <2>. QED  BY <2>1, <2>2, <2>3 DEF AnswerStands
<1>. QED  BY <1>1, <1>3, <1>4, EmptyPipes, NoChildStep

LEMMA AskStep ==
  ASSUME IInv, NEW f \in Launches, Ask(f)
  PROVE  IInv'
<1> DEFINE first == IF Kept(f) /\ initialized THEN "thread" ELSE "initialize"
           id    == IF Kept(f) THEN nextId ELSE 1
<1>1. /\ pc = "idle" /\ asked' = asked + 1 /\ fingerprint' = f
      /\ pc' = first /\ nextId' = id + 1
      /\ out' = <<[Line(first, id) EXCEPT !.prompt = asked']>>
      /\ UNCHANGED <<thread, turn, text, tokens, result, threads>>
  BY DEF Ask
<1>2. /\ Kept(f) => /\ server' = IF server = "none" THEN "up" ELSE server
                    /\ UNCHANGED <<initialized, stdin, stdout, rx, turns>>
      /\ ~Kept(f) => /\ server' = "up" /\ initialized' = FALSE
                     /\ stdin' = << >> /\ stdout' = << >> /\ rx' = << >>
                     /\ turns' = Gone
  BY DEF Ask
<1>3. /\ Shape /\ out = << >> /\ nextId \in Nat \ {0} /\ asked \in Nat
      /\ id \in Nat \ {0} /\ first \in {"initialize", "thread"}
      /\ Kept(f) => id = nextId
  BY <1>1 DEF IInv, Shape, Quiescent
<1> HIDE DEF id, first
<1>4. PICK l \in LineType :
        out' = <<l>> /\ l.kind = pc' /\ l.id = nextId' - 1 /\ l.prompt = asked'
  <2> DEFINE e == [Line(first, id) EXCEPT !.prompt = asked']
  <2>1. Line(first, id) \in LineType /\ Line(first, id).kind = first /\ Line(first, id).id = id
    BY <1>3, LineTypes DEF LineKinds, Requests
  <2>2. asked' \in Nat
    BY <1>1, <1>3
  <2>3. e \in LineType /\ e.kind = first /\ e.id = id /\ e.prompt = asked'
    BY <2>1, <2>2, LineSet
  <2>4. out' = <<e>>
    BY <1>1
  <2> HIDE DEF e
  <2>5. e.kind = pc' /\ e.id = nextId' - 1 /\ e.prompt = asked'
    <3>1. pc' = first /\ nextId' = id + 1
      BY <1>1
    <3>2. nextId' - 1 = id
      BY <1>3, <3>1
    <3>. QED  BY ONLY <2>3, <3>1, <3>2
  <2>. QED  BY <2>3, <2>4, <2>5
<1>5. out' \in Seq(LineType) /\ Len(out') = 1 /\ out'[1] = l
  BY <1>4, OneElement
<1>6. LineOK(l)'
  BY <1>1, <1>3, <1>4 DEF LineOK, Current
<1>7. pc' \in {"initialize", "thread"} /\ nextId' > 1 /\ nextId' \in Nat \ {0} /\ l.kind # "approval"
  BY <1>1, <1>3, <1>4
<1>8. Shape'
  <2>1. CASE Kept(f)
    BY <1>1, <1>2, <1>3, <1>5, <1>7, <2>1 DEF Shape, Requests
  <2>2. CASE ~Kept(f)
    <3>1. << >> \in Seq(LineType)
      BY EmptySeq
    <3>2. /\ turns' \in Seq(TurnType)
          /\ \A t \in 1..Len(turns') : turns'[t].thread \in 1..Len(threads')
          /\ rx' \in Seq(MsgType) /\ stdout' \in Seq(MsgType)
      BY <1>1, <1>2, <1>3, <2>2, TurnsGone, EmptyPipes
    <3>3. initialized' \in BOOLEAN
      BY <1>2, <2>2, Zenon
    <3>4. stdin' = << >> /\ server' = "up"
      BY <1>2, <2>2
    <3>. QED  BY <1>1, <1>3, <1>5, <1>7, <3>1, <3>2, <3>3, <3>4, SMTT(30) DEF Shape, Requests
  <2>. QED  BY <2>1, <2>2
<1>9. OfThisPrompt' /\ Streaming' /\ Starting' /\ AnswerStands'
  BY <1>7 DEF OfThisPrompt, Streaming, Starting, AnswerStands
<1>10. CASE Kept(f) /\ server # "none"
  <2>1. /\ UNCHANGED <<server, stdin, stdout, rx, turns, threads>> /\ wire' = wire
        /\ nextId' = nextId + 1
    BY <1>1, <1>2, <1>3, <1>10 DEF wire
  <2>2. /\ Longer(lines', lines)
        /\ Len(lines') = Len(lines) + 1 /\ Len(lines) \in Nat
        /\ lines'[Len(lines) + 1] = l
    <3>1. /\ Longer(lines', lines)
          /\ Len(lines') = Len(lines) + Len(out') /\ Len(lines) \in Nat
          /\ \A i \in 1..Len(out') : lines'[Len(lines) + i] = out'[i]
      BY <1>3, <1>5, <2>1, SendEffect
    <3>. QED  BY <1>5, <3>1
  <2>3. \A i \in 1..Len(lines') : i > Len(lines) => lines'[i] = l
    BY <2>2
  <2>4. Taken(0) /\ Stretch(wire', wire, 0)
    BY <1>3, <2>1, SameWire, UnderWayTypes DEF Taken
  <2>5. Ordered'
    <3>1. Ordered /\ \A i \in 1..Len(lines') : i > Len(lines) => lines'[i].kind # "approval"
      BY <1>7, <2>3 DEF IInv, Ordered
    <3>. QED  BY <1>3, <1>8, <2>2, <2>4, <3>1, OrderedSends
  <2>6. \A m \in MsgType : MsgOK(m) => MsgOK(m)'
    BY <1>3, <1>7, <2>1 DEF MsgOK, Current, MsgType
  <2>7. \A x \in LineType : LineOK(x) => LineOK(x)'
    BY <1>3, <1>7, <2>1 DEF LineOK, Current, LineType
  <2>8. WireOK' /\ LinesOK'
    <3>1. \A i \in 1..Len(lines') : i > Len(lines) =>
            \E x \in LineType : x = lines'[i] /\ LineOK(x)'
      BY <1>6, <2>3
    <3>. QED  BY <1>3, <1>8, <2>2, <2>4, <2>6, <2>7, <3>1, WireStays, LinesSent DEF IInv
  <2>9. ApprovalUnderWay'
    BY <1>8, <2>1, <2>2, <2>4, ApprovalStays DEF IInv
  <2>10. Quiescent'
    BY <1>7, <2>1 DEF IInv, Quiescent
  <2>. QED  BY <1>8, <1>9, <2>5, <2>8, <2>9, <2>10 DEF IInv, Ordered
<1>11. CASE ~(Kept(f) /\ server # "none")
  <2>1. /\ server' = "up" /\ Len(wire') = 0 /\ stdin' = << >>
        /\ Len(turns') = Len(turns)
        /\ \A t \in 1..Len(turns) : turns'[t].status \in {"gone", "completed", "error"}
    <3>1. CASE Kept(f)
      BY <1>2, <1>11, <3>1 DEF IInv, Quiescent, wire
    <3>2. CASE ~Kept(f)
      BY <1>1, <1>2, <1>3, <3>2, TurnsGone, EmptyPipes
    <3>. QED  BY <3>1, <3>2
  <2>2. lines' = out'
    <3>1. lines' = << >> \o out'
      BY <2>1 DEF lines
    <3>. QED  BY <1>5, <3>1, ConcatEmptySeq
  <2>3. Len(lines') = 1 /\ lines'[1] = l
    BY <1>5, <2>2
  <2>4. LinesOK'
    <3>1. ASSUME NEW i \in 1..Len(lines') PROVE LineOK(lines[i])'
      <4>1. i = 1
        BY <2>3
      <4>. QED  BY <1>6, <2>3, <4>1 DEF LineOK, Current
    <3>. QED  BY <3>1 DEF LinesOK
  <2>5. WireOK' /\ WireOrdered' /\ Across'
    BY <2>1 DEF WireOK, WireOrdered, Across
  <2>6. LinesOrdered'
    BY <2>3 DEF LinesOrdered
  <2>7. Quiescent'
    BY <1>7, <2>1 DEF Quiescent
  <2>8. ApprovalUnderWay'
    BY <2>1 DEF ApprovalUnderWay
  <2>. QED  BY <1>8, <1>9, <2>4, <2>5, <2>6, <2>7, <2>8 DEF IInv
<1>. QED  BY <1>10, <1>11

LEMMA DiesStep == ASSUME IInv, Dies PROVE IInv'
<1>1. /\ server' = "dead" /\ stdin' = << >> /\ turns' = Gone
      /\ UNCHANGED <<pc, prompt, client, out, stdout, rx, threads>>
  BY DEF Dies
<1>2. /\ Shape /\ << >> \in Seq(LineType) /\ wire' = wire
      /\ stdin \in Seq(LineType) /\ out \in Seq(LineType)
  BY <1>1, EmptySeq DEF IInv, Shape, wire
<1>3. /\ turns' \in Seq(TurnType) /\ Len(turns') = Len(turns)
      /\ \A t \in 1..Len(turns') : turns'[t].thread \in 1..Len(threads')
      /\ \A t \in 1..Len(turns) :
           /\ turns'[t].thread = turns[t].thread /\ turns'[t].deltas = turns[t].deltas
           /\ turns'[t].status \in {"gone", "completed", "error"}
           /\ turns[t].status = "completed" => turns'[t].status = "completed"
  BY <1>1, <1>2, TurnsGone
<1>4. Shape'
  BY <1>1, <1>2, <1>3 DEF Shape, prompt, client
<1>5. lines' = out
  <2>1. lines' = << >> \o out
    BY <1>1 DEF lines
  <2>. QED  BY <1>2, <2>1, ConcatEmptySeq
<1>6. Len(stdin) \in Nat /\ Stretch(lines', lines, Len(stdin))
  <2>1. /\ Len(lines) = Len(stdin) + Len(out) /\ Len(stdin) \in Nat /\ Len(out) \in Nat
        /\ \A i \in 1..Len(out) : lines[Len(stdin) + i] = out[i]
    BY <1>2, Joined DEF lines
  <2>2. \A i \in 1..Len(out) : Len(stdin) + i = i + Len(stdin)
    BY <2>1
  <2>. QED  BY <1>5, <2>1, <2>2 DEF Stretch
<1>7. Taken(0) /\ Stretch(wire', wire, 0)
  BY <1>2, SameWire, UnderWayTypes DEF Taken
<1>8. Ordered'
  BY <1>2, <1>4, <1>6, <1>7, OrderedShrinks DEF IInv, Ordered
<1>9. \A m \in MsgType : MsgOK(m) => MsgOK(m)'
  BY <1>1, <1>3 DEF MsgOK, Current, prompt, client
<1>10. \A l \in LineType : LineOK(l) => LineOK(l)'
  BY <1>1, <1>3 DEF LineOK, Current, prompt, client
<1>11. WireOK' /\ LinesOK'
  BY <1>2, <1>4, <1>6, <1>7, <1>9, <1>10, WireStays, LinesStay DEF IInv
<1>12. OfThisPrompt'
  BY <1>1 DEF IInv, OfThisPrompt, prompt
<1>13. Streaming'
  BY <1>1, <1>2, <1>3 DEF IInv, Streaming, prompt
<1>14. Starting'
  <2> SUFFICES ASSUME pc = "turn", NEW i \in 1..Len(wire), wire[i].kind = "ok",
                      wire[i].id = nextId - 1, NEW n \in 1..turns'[wire[i].turn].deltas
               PROVE  \E j \in 1..Len(wire) :
                        j > i /\ IsDelta(wire[j], wire[i].turn) /\ wire[j].n = n
    BY <1>1, <1>2 DEF Starting, client
  <2>1. wire[i].turn \in 1..Len(turns)
    BY DEF IInv, WireOK, MsgOK, Current, Requests
  <2>2. n \in 1..turns[wire[i].turn].deltas
    BY <1>3, <2>1
  <2>. QED  BY <2>2 DEF IInv, Starting
<1>15. AnswerStands'
  BY <1>1, <1>3 DEF IInv, AnswerStands, prompt
<1>16. Quiescent' /\ ApprovalUnderWay'
  BY <1>1, <1>3 DEF IInv, Quiescent, ApprovalUnderWay, client
<1>. QED  BY <1>4, <1>8, <1>11, <1>12, <1>13, <1>14, <1>15, <1>16 DEF IInv, Ordered

-----------------------------------------------------------------------------
(* The server reads a line.                                                *)

LEMMA ServeEffect ==
  ASSUME IInv, Serve
  PROVE  /\ Shape /\ server = "up" /\ stdin # << >>
         /\ Head(stdin) = lines[1] /\ lines[1] \in LineType /\ LineOK(lines[1])
         /\ 1 \in 1..Len(lines)
         /\ stdin' \in Seq(LineType)
         /\ Stretch(lines', lines, 1) /\ Len(lines') = Len(lines) - 1
         /\ UNCHANGED <<pc, prompt, client, out, rx, server>>
<1>1. /\ Shape /\ server = "up" /\ stdin # << >> /\ stdin' = Tail(stdin)
      /\ UNCHANGED <<pc, prompt, client, out, rx, server>>
  BY DEF IInv, Serve
<1>2. lines' = Tail(stdin) \o out
  BY <1>1 DEF lines
<1>3. /\ Head(stdin) = lines[1] /\ Head(stdin) \in LineType /\ Len(lines) \in Nat \ {0}
      /\ Tail(stdin) \in Seq(LineType)
      /\ Stretch(Tail(stdin) \o out, lines, 1)
      /\ Len(Tail(stdin) \o out) = Len(lines) - 1
  BY <1>1, FirstLine
<1>4. 1 \in 1..Len(lines) /\ LineOK(lines[1])
  BY <1>3 DEF IInv, LinesOK
<1>. QED  BY <1>1, <1>2, <1>3, <1>4

\* Approvals under way that are not the first line stay under way.
LEMMA LaterLines ==
  ASSUME Shape, Shape', Stretch(lines', lines, 1), Len(lines') = Len(lines) - 1,
         NEW i \in 1..Len(lines), i # 1
  PROVE  i - 1 \in 1..Len(lines') /\ lines'[i - 1] = lines[i]
<1>1. Len(lines) \in Nat /\ Len(lines') \in Nat
  BY UnderWayTypes, UnderWayTypesNext
<1>2. i - 1 \in 1..Len(lines') /\ (i - 1) + 1 = i
  BY <1>1
<1>. QED  BY <1>2 DEF Stretch

\* A request is answered or refused; a thread or a turn may have been added.
LEMMA AnswersStep ==
  ASSUME IInv, Shape', Serve, lines[1].kind # "approval",
         Longer(threads', threads), Longer(turns', turns),
         \A t \in 1..Len(turns') : t > Len(turns) => turns'[t].status # "asked",
         NEW m \in MsgType, Say(m), m.kind \in {"ok", "refused"}, MsgOK(m)',
         pc = "turn" /\ m.kind = "ok" /\ m.id = nextId - 1 => turns'[m.turn].deltas = 0
  PROVE  IInv'
<1>1. /\ Shape /\ server = "up" /\ Stretch(lines', lines, 1) /\ Len(lines') = Len(lines) - 1
      /\ UNCHANGED <<pc, prompt, client, out, rx, server>>
  BY ServeEffect
<1>2. /\ Longer(wire', wire) /\ Len(wire') = Len(wire) + 1 /\ Len(wire) \in Nat
      /\ wire'[Len(wire) + 1] = m
  BY <1>1, SayEffect
<1>3. /\ Len(threads) \in Nat /\ Len(turns) \in Nat /\ Len(wire') \in Nat
      /\ Len(threads') \in Nat /\ Len(turns') \in Nat
      /\ \A t \in 1..Len(threads) : t \in 1..Len(threads') /\ threads'[t] = threads[t]
      /\ \A t \in 1..Len(turns) : t \in 1..Len(turns') /\ turns'[t] = turns[t]
      /\ \A t \in 1..Len(turns) : turns[t].thread \in 1..Len(threads)
  <2>1. /\ Len(threads) \in Nat /\ Len(turns) \in Nat /\ Len(wire') \in Nat
        /\ Len(threads') \in Nat /\ Len(turns') \in Nat
    BY <1>1, LenProperties, UnderWayTypesNext DEF Shape
  <2>2. \A t \in 1..Len(threads) : t \in 1..Len(threads') /\ threads'[t] = threads[t]
    <3>1. Longer(threads', threads)
      OBVIOUS
    <3>. QED  BY ONLY <2>1, <3>1 DEF Longer
  <2>3. \A t \in 1..Len(turns) : t \in 1..Len(turns') /\ turns'[t] = turns[t]
    <3>1. Longer(turns', turns)
      OBVIOUS
    <3>. QED  BY ONLY <2>1, <3>1 DEF Longer
  <2>4. \A t \in 1..Len(turns) : turns[t].thread \in 1..Len(threads)
    BY <1>1 DEF Shape
  <2>. QED  BY <2>1, <2>2, <2>3, <2>4
<1>4. Ordered'
  <2>1. \A i \in 1..Len(wire) : InOrder(wire[i], m)
    BY DEF InOrder
  <2>2. m.kind # "approve" /\ Ordered
    BY DEF IInv, Ordered
  <2>. QED  BY <1>1, <1>2, <2>1, <2>2, OrderedHears
<1>5. \A x \in MsgType : MsgOK(x) => MsgOK(x)'
  BY <1>1, <1>3, SMTT(30) DEF MsgOK, Current, prompt, client
<1>6. \A l \in LineType : LineOK(l) => LineOK(l)'
  BY <1>1, <1>3 DEF LineOK, Current, prompt, client
<1>7. WireOK' /\ LinesOK'
  BY <1>1, <1>2, <1>5, <1>6, WireHears, LinesStay DEF IInv
<1>8. /\ \A i \in 1..Len(wire) : i \in 1..Len(wire') /\ wire'[i] = wire[i]
      /\ \A i \in 1..Len(wire') : i \in 1..Len(wire) \/ (i = Len(wire) + 1 /\ wire'[i] = m)
  BY <1>2, <1>3, SMTT(30) DEF Longer
<1>9. OfThisPrompt'
  BY <1>1, <1>3 DEF IInv, OfThisPrompt, prompt
<1>10. Streaming'
  <2>1. ~IsDelta(m, turn)
    BY DEF IsDelta
  <2>. QED  BY <1>1, <1>3, <1>8, <2>1, ZenonT(30) DEF IInv, Streaming, prompt
<1>11. Starting'
  <2> SUFFICES ASSUME pc = "turn", NEW i \in 1..Len(wire'), wire'[i].kind = "ok",
                      wire'[i].id = nextId - 1, NEW n \in 1..turns'[wire'[i].turn].deltas
               PROVE  \E j \in 1..Len(wire') :
                        j > i /\ IsDelta(wire'[j], wire'[i].turn) /\ wire'[j].n = n
    BY <1>1 DEF Starting, client
  <2>1. CASE i \in 1..Len(wire)
    <3>1. wire'[i] = wire[i] /\ wire[i].turn \in 1..Len(turns)
      BY <1>8, <2>1 DEF IInv, WireOK, MsgOK, Current, Requests
    <3>2. n \in 1..turns[wire[i].turn].deltas
      BY <1>3, <3>1
    <3>3. PICK j \in 1..Len(wire) : j > i /\ IsDelta(wire[j], wire[i].turn) /\ wire[j].n = n
      BY <2>1, <3>1, <3>2 DEF IInv, Starting
    <3>. QED  BY <1>8, <3>1, <3>3
  <2>2. CASE wire'[i] = m
    <3>1. n \in 1..0
      BY <2>2
    <3>. QED  BY <3>1
  <2>. QED  BY <1>8, <2>1, <2>2
<1>12. AnswerStands'
  BY <1>1, <1>3 DEF IInv, AnswerStands, prompt
<1>13. ApprovalUnderWay'
  <2> SUFFICES ASSUME NEW t \in 1..Len(turns'), turns'[t].status = "asked"
               PROVE  \/ \E i \in 1..Len(wire') : wire'[i].kind = "approve" /\ wire'[i].turn = t
                      \/ \E i \in 1..Len(lines') :
                           lines'[i].kind = "approval" /\ lines'[i].turn = t
    BY DEF ApprovalUnderWay
  <2>1. t \in 1..Len(turns) /\ turns[t].status = "asked"
    BY <1>3
  <2>2. CASE \E i \in 1..Len(wire) : wire[i].kind = "approve" /\ wire[i].turn = t
    BY <1>8, <2>2
  <2>3. CASE \E i \in 1..Len(lines) : lines[i].kind = "approval" /\ lines[i].turn = t
    <3>1. PICK i \in 1..Len(lines) : lines[i].kind = "approval" /\ lines[i].turn = t
      BY <2>3
    <3>2. i # 1
      BY <3>1
    <3>3. i - 1 \in 1..Len(lines') /\ lines'[i - 1] = lines[i]
      BY <1>1, <3>2, LaterLines
    <3>. QED  BY <3>1, <3>3
  <2>. QED  BY <1>1, <2>1, <2>2, <2>3 DEF IInv, ApprovalUnderWay
<1>14. Quiescent'
  BY <1>1 DEF IInv, Quiescent, client
<1>. QED  BY <1>4, <1>7, <1>9, <1>10, <1>11, <1>12, <1>13, <1>14 DEF IInv, Ordered

\* The end of the initialization is read; there is nothing to say.
LEMMA HeardStep ==
  ASSUME IInv, Serve, lines[1].kind = "initialized", UNCHANGED <<stdout, threads, turns>>
  PROVE  IInv'
<1>1. /\ Shape /\ server = "up" /\ Stretch(lines', lines, 1) /\ Len(lines') = Len(lines) - 1
      /\ stdin' \in Seq(LineType)
      /\ UNCHANGED <<pc, prompt, client, out, rx, server>>
  BY ServeEffect
<1>2. Shape'
  BY <1>1 DEF Shape, prompt, client
<1>3. wire' = wire /\ Taken(0) /\ Stretch(wire', wire, 0)
  <2>1. wire' = wire
    BY <1>1 DEF wire
  <2>. QED  BY <1>1, <2>1, SameWire, UnderWayTypes DEF Taken
<1>4. Ordered'
  BY <1>1, <1>2, <1>3, OrderedShrinks DEF IInv, Ordered
<1>5. \A x \in MsgType : MsgOK(x) => MsgOK(x)'
  BY <1>1 DEF MsgOK, Current, prompt, client
<1>6. \A l \in LineType : LineOK(l) => LineOK(l)'
  BY <1>1 DEF LineOK, Current, prompt, client
<1>7. WireOK' /\ LinesOK'
  BY <1>1, <1>2, <1>3, <1>5, <1>6, WireStays, LinesStay DEF IInv
<1>8. Streaming' /\ Starting'
  BY <1>1, <1>2, <1>3, StreamingStays, StartingStays DEF IInv, prompt, client
<1>9. ApprovalUnderWay'
  <2> SUFFICES ASSUME NEW t \in 1..Len(turns), turns[t].status = "asked"
               PROVE  \/ \E i \in 1..Len(wire) : wire[i].kind = "approve" /\ wire[i].turn = t
                      \/ \E i \in 1..Len(lines') :
                           lines'[i].kind = "approval" /\ lines'[i].turn = t
    BY <1>3 DEF ApprovalUnderWay
  <2>1. CASE \E i \in 1..Len(lines) : lines[i].kind = "approval" /\ lines[i].turn = t
    <3>1. PICK i \in 1..Len(lines) : lines[i].kind = "approval" /\ lines[i].turn = t
      BY <2>1
    <3>2. i - 1 \in 1..Len(lines') /\ lines'[i - 1] = lines[i]
      BY <1>1, <1>2, <3>1, LaterLines
    <3>. QED  BY <3>1, <3>2
  <2>. QED  BY <1>1, <2>1 DEF IInv, ApprovalUnderWay
<1>10. OfThisPrompt' /\ AnswerStands' /\ Quiescent'
  BY <1>1, <1>3 DEF IInv, OfThisPrompt, AnswerStands, Quiescent, prompt, client
<1>. QED  BY <1>2, <1>4, <1>7, <1>8, <1>9, <1>10 DEF IInv, Ordered

LEMMA Added ==
  ASSUME NEW S, NEW a \in Seq(S), NEW x \in S
  PROVE  /\ Append(a, x) \in Seq(S) /\ Len(Append(a, x)) = Len(a) + 1 /\ Len(a) \in Nat
         /\ Longer(Append(a, x), a) /\ Append(a, x)[Len(a) + 1] = x
         /\ Len(a) + 1 \in 1..Len(Append(a, x))
         /\ \A i \in 1..Len(Append(a, x)) : i \in 1..Len(a) \/ i = Len(a) + 1
BY AppendProperties, LenProperties DEF Longer

LEMMA LongerItself ==
  ASSUME NEW S, NEW a \in Seq(S)
  PROVE  Longer(a, a)
BY LenProperties DEF Longer

LEMMA ServedShape ==
  ASSUME IInv, Serve, stdout' \in Seq(MsgType),
         threads' \in Seq(Nat), turns' \in Seq(TurnType),
         \A t \in 1..Len(turns') : turns'[t].thread \in 1..Len(threads')
  PROVE  Shape'
<1>1. /\ Shape /\ stdin' \in Seq(LineType)
      /\ UNCHANGED <<pc, prompt, client, out, rx, server>>
  BY ServeEffect
<1>. QED  BY <1>1 DEF Shape, prompt, client

\* An answer that adds nothing: to initialize, or a refusal.
LEMMA PlainAnswerStep ==
  ASSUME IInv, Serve, lines[1].kind \in Requests, UNCHANGED <<threads, turns>>,
         NEW m \in MsgType, Say(m), m.id = lines[1].id, m.kind \in {"ok", "refused"},
         m.kind = "ok" => lines[1].kind = "initialize"
  PROVE  IInv'
<1>1. /\ Shape /\ LineOK(lines[1]) /\ rx' = rx
      /\ UNCHANGED <<pc, prompt, client, server>>
  BY ServeEffect
<1>2. Shape'
  <2>1. stdout' \in Seq(MsgType)
    BY <1>1, SayEffect
  <2>2. /\ threads' \in Seq(Nat) /\ turns' \in Seq(TurnType)
        /\ \A t \in 1..Len(turns') : turns'[t].thread \in 1..Len(threads')
    BY <1>1 DEF Shape
  <2>. QED  BY <2>1, <2>2, ServedShape
<1>3. pc \in Requests /\ m.kind = "ok" /\ m.id = nextId - 1 => pc = "initialize"
  BY <1>1 DEF LineOK, Current
<1>4. MsgOK(m)'
  BY <1>1, <1>3 DEF MsgOK, Current, LineOK, client
<1>5. Longer(threads', threads) /\ Longer(turns', turns)
  BY <1>1, LongerItself DEF Shape
<1>6. \A t \in 1..Len(turns') : t > Len(turns) => turns'[t].status # "asked"
  BY <1>1, LenProperties DEF Shape
<1>7. pc = "turn" /\ m.kind = "ok" /\ m.id = nextId - 1 => turns'[m.turn].deltas = 0
  BY <1>3 DEF Requests
<1>8. lines[1].kind # "approval"
  BY DEF Requests
<1>. QED  BY <1>2, <1>4, <1>5, <1>6, <1>7, <1>8, AnswersStep

LEMMA ThreadAnswerStep ==
  ASSUME IInv, Serve, lines[1].kind = "thread",
         threads' = Append(threads, lines[1].prompt), turns' = turns,
         NEW m \in MsgType, Say(m), m.id = lines[1].id, m.kind = "ok",
         m.n = Len(threads) + 1
  PROVE  IInv'
<1>1. /\ Shape /\ LineOK(lines[1]) /\ lines[1] \in LineType /\ rx' = rx
      /\ UNCHANGED <<pc, prompt, client, server>>
  BY ServeEffect
<1>2. /\ threads' \in Seq(Nat) /\ Len(threads') = Len(threads) + 1 /\ Len(threads) \in Nat
      /\ Longer(threads', threads) /\ threads'[m.n] = lines[1].prompt
      /\ m.n \in 1..Len(threads')
  <2>1. threads \in Seq(Nat) /\ lines[1].prompt \in Nat
    BY <1>1 DEF Shape, LineType
  <2>. QED  BY <2>1, Added
<1>3. Shape'
  <2>1. stdout' \in Seq(MsgType)
    BY <1>1, SayEffect
  <2>2. turns' \in Seq(TurnType) /\ \A t \in 1..Len(turns') : turns'[t].thread \in 1..Len(threads')
    BY <1>1, <1>2 DEF Shape
  <2>. QED  BY <1>2, <2>1, <2>2, ServedShape
<1>4. pc \in Requests /\ m.id = nextId - 1 => pc = "thread" /\ lines[1].prompt = asked
  BY <1>1 DEF LineOK, Current, Requests
<1>5. MsgOK(m)'
  BY <1>1, <1>2, <1>4 DEF MsgOK, Current, LineOK, client, prompt
<1>6. Longer(turns', turns)
  BY <1>1, LongerItself DEF Shape
<1>7. \A t \in 1..Len(turns') : t > Len(turns) => turns'[t].status # "asked"
  BY <1>1, LenProperties DEF Shape
<1>8. pc = "turn" /\ m.kind = "ok" /\ m.id = nextId - 1 => turns'[m.turn].deltas = 0
  BY <1>4 DEF Requests
<1>. QED  BY <1>2, <1>3, <1>5, <1>6, <1>7, <1>8, AnswersStep

LEMMA TurnAnswerStep ==
  ASSUME IInv, Serve, lines[1].kind = "turn", threads' = threads,
         NEW r \in TurnType, turns' = Append(turns, r), r.thread = lines[1].thread,
         r.deltas = 0, r.status = "running",
         NEW m \in MsgType, Say(m), m.id = lines[1].id, m.kind = "ok",
         m.turn = Len(turns) + 1
  PROVE  IInv'
<1>1. /\ Shape /\ LineOK(lines[1]) /\ lines[1] \in LineType /\ rx' = rx
      /\ UNCHANGED <<pc, prompt, client, server>>
  BY ServeEffect
<1>2. /\ turns' \in Seq(TurnType) /\ Len(turns') = Len(turns) + 1 /\ Len(turns) \in Nat
      /\ Longer(turns', turns) /\ turns'[m.turn] = r
      /\ m.turn \in 1..Len(turns')
      /\ \A t \in 1..Len(turns') : t \in 1..Len(turns) \/ t = Len(turns) + 1
  <2>1. turns \in Seq(TurnType)
    BY <1>1 DEF Shape
  <2>. QED  BY <2>1, Added
<1>3. lines[1].thread \in 1..Len(threads)
  BY <1>1 DEF LineOK
<1>4. Shape'
  <2>1. stdout' \in Seq(MsgType)
    BY <1>1, SayEffect
  <2>2. ASSUME NEW t \in 1..Len(turns') PROVE turns'[t].thread \in 1..Len(threads')
    <3>1. CASE t = Len(turns) + 1
      BY <1>2, <1>3, <3>1
    <3>2. CASE t \in 1..Len(turns)
      <4>1. turns'[t] = turns[t]
        BY <1>2, <3>2 DEF Longer
      <4>. QED  BY <1>1, <3>2, <4>1 DEF Shape
    <3>. QED  BY <1>2, <3>1, <3>2
  <2>3. threads' \in Seq(Nat)
    BY <1>1 DEF Shape
  <2>. QED  BY <1>2, <2>1, <2>2, <2>3, ServedShape
<1>5. pc \in Requests /\ m.id = nextId - 1 => pc = "turn" /\ lines[1].thread = thread
  BY <1>1 DEF LineOK, Current, Requests
<1>6. MsgOK(m)'
  BY <1>1, <1>2, <1>5 DEF MsgOK, Current, LineOK, client, prompt
<1>7. Longer(threads', threads)
  BY <1>1, LongerItself DEF Shape
<1>8. \A t \in 1..Len(turns') : t > Len(turns) => turns'[t].status # "asked"
  BY <1>2
<1>. QED  BY <1>2, <1>4, <1>6, <1>7, <1>8, AnswersStep

\* Of one turn only the status changes.
LEMMA StatusSet ==
  ASSUME NEW ts \in Seq(TurnType), NEW t \in 1..Len(ts),
         NEW s \in {"running", "completed", "error"},
         NEW new, new = [ts EXCEPT ![t].status = s]
  PROVE  /\ new \in Seq(TurnType) /\ Len(new) = Len(ts)
         /\ new[t].thread = ts[t].thread /\ new[t].deltas = ts[t].deltas
         /\ new[t].status = s
         /\ \A u \in 1..Len(ts) : u # t => new[u] = ts[u]
<1> DEFINE r == [ts[t] EXCEPT !.status = s]
<1>1. ts[t] \in TurnType
  BY ElementOfSeq
<1>2. r \in TurnType /\ r.thread = ts[t].thread /\ r.deltas = ts[t].deltas /\ r.status = s
  BY <1>1 DEF TurnType
<1>3. new = [ts EXCEPT ![t] = r]
  OBVIOUS
<1> HIDE DEF r
<1>4. /\ [ts EXCEPT ![t] = r] \in Seq(TurnType) /\ Len([ts EXCEPT ![t] = r]) = Len(ts)
      /\ [ts EXCEPT ![t] = r][t] = r
      /\ \A u \in 1..Len(ts) : u # t => [ts EXCEPT ![t] = r][u] = ts[u]
  BY <1>2, TurnChanged
<1>. QED  BY <1>2, <1>3, <1>4

LEMMA ApprovedStep ==
  ASSUME IInv, Serve, lines[1].kind = "approval", UNCHANGED <<stdout, threads>>,
         turns' = [turns EXCEPT ![lines[1].turn].status = "running"]
  PROVE  IInv'
<1>1. /\ Shape /\ server = "up" /\ Stretch(lines', lines, 1) /\ Len(lines') = Len(lines) - 1
      /\ stdin' \in Seq(LineType) /\ LineOK(lines[1]) /\ 1 \in 1..Len(lines)
      /\ UNCHANGED <<pc, prompt, client, out, rx, server>>
  BY ServeEffect
<1> DEFINE a == lines[1].turn
<1>2. a \in 1..Len(turns) /\ turns[a].status = "asked"
  BY <1>1 DEF LineOK
<1>3. /\ turns' \in Seq(TurnType) /\ Len(turns') = Len(turns)
      /\ turns'[a].thread = turns[a].thread /\ turns'[a].deltas = turns[a].deltas
      /\ turns'[a].status = "running"
      /\ \A u \in 1..Len(turns) : u # a => turns'[u] = turns[u]
  <2>1. turns \in Seq(TurnType) /\ turns' = [turns EXCEPT ![a].status = "running"]
    BY <1>1 DEF Shape
  <2> HIDE DEF a
  <2>. QED  BY ONLY <1>2, <2>1, StatusSet
<1>4. \A u \in 1..Len(turns) : /\ turns'[u].thread = turns[u].thread
                              /\ turns'[u].deltas = turns[u].deltas
  BY <1>3
<1>5. Shape'
  <2>1. \A t \in 1..Len(turns') : turns'[t].thread \in 1..Len(threads')
    BY <1>1, <1>3, <1>4 DEF Shape
  <2>2. stdout' \in Seq(MsgType) /\ threads' \in Seq(Nat)
    BY <1>1 DEF Shape
  <2>. QED  BY <1>3, <2>1, <2>2, ServedShape
<1>6. wire' = wire /\ Taken(0) /\ Stretch(wire', wire, 0)
  <2>1. wire' = wire
    BY <1>1 DEF wire
  <2>. QED  BY <1>1, <2>1, SameWire, UnderWayTypes DEF Taken
<1>7. Ordered'
  BY <1>1, <1>5, <1>6, OrderedShrinks DEF IInv, Ordered
<1>8. WireOK'
  <2>1. ASSUME NEW i \in 1..Len(wire) PROVE MsgOK(wire[i])'
    <3>1. PICK m \in MsgType : m = wire[i] /\ MsgOK(m)
      BY <1>1, UnderWayTypes DEF IInv, WireOK
    <3>2. m.kind = "approve" => m.turn # a
      BY <1>1, <3>1 DEF IInv, Across
    <3>3. m.kind = "completed" => m.turn # a
      BY <1>2, <3>1 DEF MsgOK
    <3>4. MsgOK(m)'
      BY <1>1, <1>3, <1>4, <3>1, <3>2, <3>3 DEF MsgOK, Current, prompt, client
    <3>. QED  BY <1>6, <3>1, <3>4 DEF MsgOK, Current
  <2>. QED  BY <1>6, <2>1 DEF WireOK
<1>9. LinesOK'
  <2>1. /\ Len(lines) \in Nat /\ Len(lines') \in Nat
        /\ \A i \in 1..Len(lines) : lines[i] \in LineType
    BY <1>1, UnderWayTypes, <1>5, UnderWayTypesNext
  <2>2. ASSUME NEW i \in 1..Len(lines') PROVE LineOK(lines[i])'
    <3>1. i + 1 \in 1..Len(lines) /\ 1 < i + 1 /\ lines'[i] = lines[i + 1]
      BY <1>1, <2>1 DEF Stretch
    <3>2. PICK l \in LineType : l = lines[i + 1] /\ LineOK(l)
      BY <2>1, <3>1 DEF IInv, LinesOK
    <3>3. Apart(lines[1], lines[i + 1])
      BY <1>1, <3>1 DEF IInv, LinesOrdered
    <3>4. l.kind = "approval" => l.turn # a
      BY <3>2, <3>3 DEF Apart
    <3>5. LineOK(l)'
      BY <1>1, <1>3, <1>4, <3>2, <3>4 DEF LineOK, Current, prompt, client
    <3>. QED  BY <3>1, <3>2, <3>5 DEF LineOK, Current
  <2>. QED  BY <2>2 DEF LinesOK
<1>10. OfThisPrompt'
  BY <1>1 DEF IInv, OfThisPrompt, prompt
<1>11. Streaming'
  BY <1>1, <1>3, <1>4, <1>6 DEF IInv, Streaming, prompt
<1>12. Starting'
  <2> SUFFICES ASSUME pc = "turn", NEW i \in 1..Len(wire), wire[i].kind = "ok",
                      wire[i].id = nextId - 1, NEW n \in 1..turns'[wire[i].turn].deltas
               PROVE  \E j \in 1..Len(wire) :
                        j > i /\ IsDelta(wire[j], wire[i].turn) /\ wire[j].n = n
    BY <1>1, <1>6 DEF Starting, client
  <2>1. wire[i].turn \in 1..Len(turns)
    BY DEF IInv, WireOK, MsgOK, Current, Requests
  <2>2. n \in 1..turns[wire[i].turn].deltas
    BY <1>4, <2>1
  <2>. QED  BY <2>2 DEF IInv, Starting
<1>13. AnswerStands'
  <2>1. pc = "idle" /\ result.kind = "answer" => result.turn # a
    BY <1>2 DEF IInv, AnswerStands
  <2>. QED  BY <1>1, <1>3, <2>1 DEF IInv, AnswerStands, prompt
<1>14. ApprovalUnderWay'
  <2> SUFFICES ASSUME NEW t \in 1..Len(turns), turns'[t].status = "asked"
               PROVE  \/ \E i \in 1..Len(wire) : wire[i].kind = "approve" /\ wire[i].turn = t
                      \/ \E i \in 1..Len(lines') :
                           lines'[i].kind = "approval" /\ lines'[i].turn = t
    BY <1>3, <1>6 DEF ApprovalUnderWay
  <2>1. t # a /\ turns[t].status = "asked"
    BY <1>3
  <2>2. CASE \E i \in 1..Len(lines) : lines[i].kind = "approval" /\ lines[i].turn = t
    <3>1. PICK i \in 1..Len(lines) : lines[i].kind = "approval" /\ lines[i].turn = t
      BY <2>2
    <3>2. i # 1
      BY <2>1, <3>1
    <3>3. i - 1 \in 1..Len(lines') /\ lines'[i - 1] = lines[i]
      BY <1>1, <1>5, <3>2, LaterLines
    <3>. QED  BY <3>1, <3>3
  <2>. QED  BY <1>1, <2>1, <2>2 DEF IInv, ApprovalUnderWay
<1>15. Quiescent'
  BY <1>1, <1>6 DEF IInv, Quiescent, client
<1>. QED  BY <1>5, <1>7, <1>8, <1>9, <1>10, <1>11, <1>12, <1>13, <1>14, <1>15
          DEF IInv, Ordered

LEMMA ServeStep == ASSUME IInv, Serve PROVE IInv'
<1>1. /\ Shape /\ stdin # << >> /\ Head(stdin) = lines[1] /\ lines[1] \in LineType
      /\ LineOK(lines[1]) /\ server = "up"
  BY ServeEffect
<1>2. PICK l \in LineType : l = lines[1] /\ l = Head(stdin)
  BY <1>1
<1>3. /\ Len(threads) + 1 \in Nat /\ Len(turns) + 1 \in Nat
      /\ l.id \in Nat /\ l.thread \in Nat /\ 0 \in Nat
      /\ "ok" \in MsgKinds /\ "refused" \in MsgKinds
  <2>1. Len(threads) \in Nat /\ Len(turns) \in Nat
    BY <1>1, LenProperties DEF Shape
  <2>2. l.id \in Nat /\ l.thread \in Nat
    BY DEF LineType
  <2>. QED  BY <2>1, <2>2 DEF MsgKinds
<1>4. CASE l.kind = "initialize" /\ Say(Message("ok", l.id, 0, 0)) /\ UNCHANGED <<threads, turns>>
  <2>1. PICK m \in MsgType : m = Message("ok", l.id, 0, 0) /\ m.kind = "ok" /\ m.id = l.id
    BY <1>3, MessageTypes, SMTT(30)
  <2>2. Say(m) /\ lines[1].kind \in Requests
    BY <1>2, <1>4, <2>1 DEF Requests
  <2>. QED  BY <1>2, <1>4, <2>1, <2>2, PlainAnswerStep
<1>5. CASE /\ l.kind = "thread" /\ threads' = Append(threads, l.prompt)
           /\ Say(Message("ok", l.id, 0, Len(threads) + 1)) /\ turns' = turns
  <2>1. PICK m \in MsgType : /\ m = Message("ok", l.id, 0, Len(threads) + 1)
                            /\ m.kind = "ok" /\ m.id = l.id /\ m.n = Len(threads) + 1
    <3> DEFINE k == Len(threads) + 1
    <3>1. k \in Nat
      BY <1>3
    <3> DEFINE x == Message("ok", l.id, 0, k)
    <3>2. x \in MsgType /\ x.kind = "ok" /\ x.id = l.id /\ x.n = k
      BY ONLY <1>3, <3>1 DEF Message, MsgType
    <3>3. x = Message("ok", l.id, 0, Len(threads) + 1)
      BY DEF k
    <3> HIDE DEF x
    <3>. QED  BY <3>2, <3>3 DEF k
  <2>. QED  BY <1>2, <1>5, <2>1, ThreadAnswerStep
<1>6. CASE /\ l.kind = "turn"
           /\ turns' = Append(turns, [thread |-> l.thread, deltas |-> 0, asks |-> TRUE,
                                      counted |-> FALSE, status |-> "running"])
           /\ Say(Message("ok", l.id, Len(turns) + 1, 0)) /\ threads' = threads
  <2>1. PICK m \in MsgType : /\ m = Message("ok", l.id, Len(turns) + 1, 0)
                            /\ m.kind = "ok" /\ m.id = l.id /\ m.turn = Len(turns) + 1
    <3> DEFINE k == Len(turns) + 1
    <3>1. k \in Nat
      BY <1>3
    <3> DEFINE x == Message("ok", l.id, k, 0)
    <3>2. x \in MsgType /\ x.kind = "ok" /\ x.id = l.id /\ x.turn = k
      BY ONLY <1>3, <3>1 DEF Message, MsgType
    <3>3. x = Message("ok", l.id, Len(turns) + 1, 0)
      BY DEF k
    <3> HIDE DEF x
    <3>. QED  BY <3>2, <3>3 DEF k
  <2>2. PICK r \in TurnType : /\ turns' = Append(turns, r) /\ r.thread = l.thread
                             /\ r.deltas = 0 /\ r.status = "running"
    <3> DEFINE e == [thread |-> l.thread, deltas |-> 0, asks |-> TRUE,
                     counted |-> FALSE, status |-> "running"]
    <3>1. e \in TurnType
      BY <1>3 DEF TurnType
    <3>2. e.thread = l.thread /\ e.deltas = 0 /\ e.status = "running"
      OBVIOUS
    <3>3. turns' = Append(turns, e)
      BY <1>6
    <3> HIDE DEF e
    <3>. QED  BY <3>1, <3>2, <3>3
  <2>. QED  BY <1>2, <1>6, <2>1, <2>2, TurnAnswerStep
<1>7. CASE l.kind \in Requests /\ Say(Message("refused", l.id, 0, 0)) /\ UNCHANGED <<threads, turns>>
  <2>1. PICK m \in MsgType : m = Message("refused", l.id, 0, 0) /\ m.kind = "refused" /\ m.id = l.id
    BY <1>3, MessageTypes, SMTT(30)
  <2>. QED  BY <1>2, <1>7, <2>1, PlainAnswerStep
<1>8. CASE l.kind = "initialized" /\ UNCHANGED <<stdout, threads, turns>>
  BY <1>2, <1>8, HeardStep
<1>9. CASE /\ l.kind = "approval" /\ turns' = [turns EXCEPT ![l.turn].status = "running"]
           /\ UNCHANGED <<stdout, threads>>
  BY <1>2, <1>9, ApprovedStep
<1>. QED  BY <1>2, <1>4, <1>5, <1>6, <1>7, <1>8, <1>9 DEF Serve

-----------------------------------------------------------------------------
(* A turn goes on.                                                         *)

\* What the message m about turn t says of it.
Reports(t, m) ==
  /\ m.id = 0 /\ m.turn = t
  /\ m.kind \in {"delta", "approve", "usage", "completed", "error"}
  /\ turns' \in Seq(TurnType) /\ Len(turns') = Len(turns)
  /\ \A u \in 1..Len(turns) : u # t => turns'[u] = turns[u]
  /\ turns'[t].thread = turns[t].thread
  /\ m.kind = "delta" => /\ m.n = turns[t].deltas + 1
                         /\ turns'[t].deltas = turns[t].deltas + 1
  /\ m.kind # "delta" => turns'[t].deltas = turns[t].deltas
  /\ turns'[t].status = "asked" <=> m.kind = "approve"
  /\ m.kind = "completed" => turns'[t].status = "completed"

LEMMA MessageMade ==
  ASSUME NEW k \in MsgKinds, NEW t \in Nat, NEW n \in Nat, NEW m, m = Message(k, 0, t, n)
  PROVE  m \in MsgType /\ m.kind = k /\ m.id = 0 /\ m.turn = t /\ m.n = n
BY DEF Message, MsgType

LEMMA WorkEffect ==
  ASSUME Shape, NEW t \in 1..Len(turns), Work(t)
  PROVE  \E m \in MsgType : Say(m) /\ Reports(t, m)
<1>1. /\ turns \in Seq(TurnType) /\ turns[t] \in TurnType /\ t \in Nat
      /\ turns[t].deltas \in Nat /\ turns[t].status = "running"
  <2>1. turns \in Seq(TurnType) /\ Len(turns) \in Nat
    BY LenProperties DEF Shape
  <2>2. turns[t] \in TurnType
    BY <2>1, ElementOfSeq
  <2>. QED  BY <2>1, <2>2 DEF TurnType, Work
<1>2. {"delta", "approve", "usage", "completed", "error"} \subseteq MsgKinds /\ 0 \in Nat
  BY DEF MsgKinds
<1>3. CASE /\ turns' = [turns EXCEPT ![t].deltas = @ + 1]
           /\ Say(Message("delta", 0, t, turns[t].deltas + 1))
  <2> DEFINE r == [turns[t] EXCEPT !.deltas = turns[t].deltas + 1]
             m == Message("delta", 0, t, turns[t].deltas + 1)
  <2>1. /\ r \in TurnType /\ r.thread = turns[t].thread
        /\ r.deltas = turns[t].deltas + 1 /\ r.status = "running"
    <3> DEFINE d == turns[t].deltas + 1
    <3>1. d \in Nat
      BY <1>1
    <3> HIDE DEF d
    <3>2. LET e == [turns[t] EXCEPT !.deltas = d]
          IN  e \in TurnType /\ e.thread = turns[t].thread /\ e.deltas = d /\ e.status = "running"
      BY <1>1, <3>1 DEF TurnType
    <3>. QED  BY <3>2 DEF d
  <2>2. turns' = [turns EXCEPT ![t] = r]
    BY <1>3
  <2>3. /\ m \in MsgType /\ m.kind = "delta" /\ m.id = 0 /\ m.turn = t
        /\ m.n = turns[t].deltas + 1
    BY <1>1 DEF Message, MsgType, MsgKinds
  <2>4. Say(m)
    BY <1>3
  <2> HIDE DEF r, m
  <2>5. /\ turns' \in Seq(TurnType) /\ Len(turns') = Len(turns) /\ turns'[t] = r
        /\ \A u \in 1..Len(turns) : u # t => turns'[u] = turns[u]
    BY <1>1, <2>1, <2>2, TurnChanged
  <2>. QED  BY <2>1, <2>3, <2>4, <2>5 DEF Reports
<1>4. CASE /\ turns' = [turns EXCEPT ![t].asks = FALSE, ![t].status = "asked"]
           /\ Say(Message("approve", 0, t, 0))
  <2> DEFINE r == [turns[t] EXCEPT !.asks = FALSE, !.status = "asked"]
             m == Message("approve", 0, t, 0)
  <2>1. /\ r \in TurnType /\ r.thread = turns[t].thread
        /\ r.deltas = turns[t].deltas /\ r.status = "asked"
    BY <1>1 DEF TurnType
  <2>2. turns' = [turns EXCEPT ![t] = r]
    BY <1>1, <1>4
  <2>3. m \in MsgType /\ m.kind = "approve" /\ m.id = 0 /\ m.turn = t
    BY <1>1 DEF Message, MsgType, MsgKinds
  <2>4. Say(m)
    BY <1>4
  <2> HIDE DEF r, m
  <2>5. /\ turns' \in Seq(TurnType) /\ Len(turns') = Len(turns) /\ turns'[t] = r
        /\ \A u \in 1..Len(turns) : u # t => turns'[u] = turns[u]
    BY <1>1, <2>1, <2>2, TurnChanged
  <2>. QED  BY <2>1, <2>3, <2>4, <2>5 DEF Reports
<1>5. CASE /\ turns' = [turns EXCEPT ![t].counted = TRUE]
           /\ Say(Message("usage", 0, t, 0))
  <2> DEFINE r == [turns[t] EXCEPT !.counted = TRUE]
             m == Message("usage", 0, t, 0)
  <2>1. /\ r \in TurnType /\ r.thread = turns[t].thread
        /\ r.deltas = turns[t].deltas /\ r.status = "running"
    BY <1>1 DEF TurnType
  <2>2. turns' = [turns EXCEPT ![t] = r]
    BY <1>5
  <2>3. m \in MsgType /\ m.kind = "usage" /\ m.id = 0 /\ m.turn = t
    BY <1>1 DEF Message, MsgType, MsgKinds
  <2>4. Say(m)
    BY <1>5
  <2> HIDE DEF r, m
  <2>5. /\ turns' \in Seq(TurnType) /\ Len(turns') = Len(turns) /\ turns'[t] = r
        /\ \A u \in 1..Len(turns) : u # t => turns'[u] = turns[u]
    BY <1>1, <2>1, <2>2, TurnChanged
  <2>. QED  BY <2>1, <2>3, <2>4, <2>5 DEF Reports
<1>6. ASSUME NEW end \in {"completed", "error"},
             turns' = [turns EXCEPT ![t].status = end],
             Say(Message(end, 0, t, 0))
      PROVE  \E m \in MsgType : Say(m) /\ Reports(t, m)
  <2> DEFINE m == Message(end, 0, t, 0)
  <2>1. m \in MsgType /\ m.kind = end /\ m.id = 0 /\ m.turn = t
    BY <1>1 DEF Message, MsgType, MsgKinds
  <2>2. Say(m)
    BY <1>6
  <2> HIDE DEF m
  <2>3. /\ turns' \in Seq(TurnType) /\ Len(turns') = Len(turns)
        /\ turns'[t].thread = turns[t].thread /\ turns'[t].deltas = turns[t].deltas
        /\ turns'[t].status = end
        /\ \A u \in 1..Len(turns) : u # t => turns'[u] = turns[u]
    <3>1. end \in {"running", "completed", "error"} /\ t \in 1..Len(turns)
      OBVIOUS
    <3>. QED  BY ONLY <1>1, <1>6, <3>1, StatusSet
  <2>. QED  BY <2>1, <2>2, <2>3 DEF Reports
<1>. QED  BY <1>3, <1>4, <1>5, <1>6 DEF Work

LEMMA WorkStep ==
  ASSUME IInv, NEW t \in 1..Len(turns), Work(t)
  PROVE  IInv'
<1>1. /\ Shape /\ server = "up" /\ turns[t].status = "running"
      /\ UNCHANGED <<pc, prompt, client, out, stdin, rx, server, threads>>
  BY DEF IInv, Work
<1>2. PICK m \in MsgType : Say(m) /\ Reports(t, m)
  BY <1>1, WorkEffect
<1>3. /\ stdout' \in Seq(MsgType)
      /\ Longer(wire', wire) /\ Len(wire') = Len(wire) + 1 /\ Len(wire) \in Nat
      /\ wire'[Len(wire) + 1] = m
  BY <1>1, <1>2, SayEffect
<1>4. /\ turns' \in Seq(TurnType) /\ Len(turns') = Len(turns)
      /\ \A u \in 1..Len(turns) : u # t => turns'[u] = turns[u]
      /\ \A u \in 1..Len(turns) : /\ turns'[u].thread = turns[u].thread
                                  /\ turns[u].deltas \in Nat /\ turns'[u].deltas \in Nat
                                  /\ turns[u].deltas <= turns'[u].deltas
  <2>1. Len(turns) \in Nat /\ turns \in Seq(TurnType)
    BY <1>1, LenProperties DEF Shape
  <2>2. \A u \in 1..Len(turns) : turns[u].deltas \in Nat
    <3>1. \A u \in 1..Len(turns) : turns[u] \in TurnType
      BY <2>1, ElementOfSeq
    <3>. QED  BY <3>1 DEF TurnType
  <2>3. /\ turns' \in Seq(TurnType) /\ Len(turns') = Len(turns)
        /\ \A u \in 1..Len(turns) : u # t => turns'[u] = turns[u]
        /\ turns'[t].thread = turns[t].thread
        /\ turns'[t].deltas = turns[t].deltas + 1 \/ turns'[t].deltas = turns[t].deltas
    BY <1>2 DEF Reports
  <2>. QED  BY <2>2, <2>3
<1>5. /\ m.id = 0 /\ m.turn = t
      /\ m.kind \in {"delta", "approve", "usage", "completed", "error"}
      /\ m.kind = "delta" => /\ m.n = turns[t].deltas + 1
                             /\ turns'[t].deltas = turns[t].deltas + 1
      /\ m.kind # "delta" => turns'[t].deltas = turns[t].deltas
      /\ turns'[t].status = "asked" <=> m.kind = "approve"
      /\ m.kind = "completed" => turns'[t].status = "completed"
  BY <1>2 DEF Reports
<1>6. Shape'
  <2>1. \A u \in 1..Len(turns') : turns'[u].thread \in 1..Len(threads')
    BY <1>1, <1>4 DEF Shape
  <2>. QED  BY <1>1, <1>3, <1>4, <2>1 DEF Shape, prompt, client
<1>7. lines' = lines /\ Stretch(lines', lines, 0)
  <2>1. lines' = lines
    BY <1>1 DEF lines
  <2>. QED  BY <1>1, <2>1, SameLines
<1>8. Ordered'
  <2>1. ASSUME NEW i \in 1..Len(wire) PROVE InOrder(wire[i], m)
    <3>1. MsgOK(wire[i])
      BY DEF IInv, WireOK
    <3>2. wire[i].turn = t => /\ wire[i].kind # "approve" /\ wire[i].kind # "completed"
                              /\ wire[i].kind = "delta" => wire[i].n \in 1..turns[t].deltas
      BY <1>1, <3>1 DEF MsgOK
    <3>3. wire[i].turn = t /\ wire[i].kind = "delta" /\ m.kind = "delta" => wire[i].n < m.n
      BY <1>4, <1>5, <3>2
    <3>. QED  BY <1>5, <3>2, <3>3 DEF InOrder
  <2>2. \A i \in 1..Len(lines) : ~(lines[i].kind = "approval" /\ lines[i].turn = m.turn)
    BY <1>1, <1>5 DEF IInv, LinesOK, LineOK
  <2>. QED  BY <1>1, <1>3, <1>6, <1>7, <2>1, <2>2, OrderedHears DEF IInv, Ordered
<1>9. ASSUME NEW x \in MsgType, MsgOK(x) PROVE MsgOK(x)'
  <2>1. /\ x.kind = "approve" => x.turn # t
        /\ x.kind = "completed" => x.turn # t
    BY <1>1, <1>9 DEF MsgOK
  <2>2. x.kind = "delta" => x.n \in 1..turns'[x.turn].deltas
    <3>1. x.kind = "delta" => x.turn \in 1..Len(turns) /\ x.n \in 1..turns[x.turn].deltas
      BY <1>9 DEF MsgOK
    <3>. QED  BY <1>4, <3>1
  <2>. QED  BY <1>1, <1>4, <1>9, <2>1, <2>2 DEF MsgOK, Current, prompt, client
<1>10. \A l \in LineType : LineOK(l) => LineOK(l)'
  <2>1. ASSUME NEW l \in LineType, LineOK(l) PROVE LineOK(l)'
    <3>1. l.kind = "approval" => l.turn # t
      BY <1>1, <2>1 DEF LineOK
    <3>. QED  BY <1>1, <1>4, <2>1, <3>1 DEF LineOK, Current, prompt, client
  <2>. QED  BY <2>1
<1>11. MsgOK(m)'
  <2>1. m.id < nextId'
    BY <1>1, <1>5 DEF Shape, client
  <2>2. m.kind = "delta" => m.n \in 1..turns'[m.turn].deltas
    BY <1>4, <1>5
  <2>. QED  BY <1>1, <1>4, <1>5, <2>1, <2>2 DEF MsgOK
<1>12. WireOK' /\ LinesOK'
  BY <1>1, <1>3, <1>6, <1>7, <1>9, <1>10, <1>11, WireHears, LinesStay DEF IInv
<1>13. /\ Len(wire) + 1 \in 1..Len(wire')
       /\ \A i \in 1..Len(wire) : i \in 1..Len(wire') /\ wire'[i] = wire[i] /\ Len(wire) + 1 > i
       /\ \A i \in 1..Len(wire') : i \in 1..Len(wire) \/ (i = Len(wire) + 1 /\ wire'[i] = m)
  BY <1>3 DEF Longer
<1>14. OfThisPrompt'
  BY <1>1 DEF IInv, OfThisPrompt, prompt
<1>15. Streaming'
  <2> SUFFICES ASSUME pc = "stream" PROVE Streaming'
    BY <1>1 DEF Streaming
  <2>1. /\ turn \in 1..Len(turns) /\ turns[turn].thread = thread
        /\ Len(text) <= turns[turn].deltas /\ Len(text) \in Nat
        /\ \A n \in 1..Len(text) : text[n] = <<turn, n>>
        /\ \A i \in 1..Len(wire) : IsDelta(wire[i], turn) => wire[i].n > Len(text)
        /\ \A n \in 1..turns[turn].deltas :
             n > Len(text) => \E i \in 1..Len(wire) : IsDelta(wire[i], turn) /\ wire[i].n = n
    BY <1>1, LenProperties DEF IInv, Streaming, Shape
  <2>2. UNCHANGED <<pc, turn, text, thread>>
    BY <1>1 DEF prompt
  <2>3. /\ turn \in 1..Len(turns') /\ turns'[turn].thread = thread
        /\ Len(text) <= turns'[turn].deltas
    BY <1>4, <2>1
  <2>4. ASSUME NEW i \in 1..Len(wire'), IsDelta(wire'[i], turn)
        PROVE  wire'[i].n > Len(text)
    <3>1. CASE i \in 1..Len(wire)
      BY <1>13, <2>1, <2>4, <3>1
    <3>2. CASE wire'[i] = m
      <4>1. m.n = turns[turn].deltas + 1
        BY <1>5, <2>4, <3>2 DEF IsDelta
      <4>. QED  BY <1>4, <2>1, <3>2, <4>1
    <3>. QED  BY <1>13, <3>1, <3>2
  <2>5. ASSUME NEW n \in 1..turns'[turn].deltas, n > Len(text)
        PROVE  \E i \in 1..Len(wire') : IsDelta(wire'[i], turn) /\ wire'[i].n = n
    <3>1. CASE n \in 1..turns[turn].deltas
      <4>1. PICK i \in 1..Len(wire) : IsDelta(wire[i], turn) /\ wire[i].n = n
        BY <2>1, <2>5, <3>1
      <4>. QED  BY <1>13, <4>1
    <3>2. CASE n \notin 1..turns[turn].deltas
      <4>1. turn = t /\ m.kind = "delta"
        BY <1>4, <1>5, <2>1, <3>2
      <4>2. n = m.n
        BY <1>4, <1>5, <2>1, <3>2, <4>1
      <4>. QED  BY <1>3, <1>5, <1>13, <4>1, <4>2 DEF IsDelta
    <3>. QED  BY <3>1, <3>2
  <2>. QED  BY <2>1, <2>2, <2>3, <2>4, <2>5 DEF Streaming
<1>16. Starting'
  <2> SUFFICES ASSUME pc = "turn", NEW i \in 1..Len(wire'), wire'[i].kind = "ok",
                      wire'[i].id = nextId - 1, NEW n \in 1..turns'[wire'[i].turn].deltas
               PROVE  \E j \in 1..Len(wire') :
                        j > i /\ IsDelta(wire'[j], wire'[i].turn) /\ wire'[j].n = n
    BY <1>1 DEF Starting, client
  <2>1. i \in 1..Len(wire) /\ wire'[i] = wire[i]
    BY <1>5, <1>13
  <2>2. wire[i].turn \in 1..Len(turns)
    BY <2>1 DEF IInv, WireOK, MsgOK, Current, Requests
  <2>3. CASE n \in 1..turns[wire[i].turn].deltas
    <3>1. PICK j \in 1..Len(wire) : j > i /\ IsDelta(wire[j], wire[i].turn) /\ wire[j].n = n
      BY <2>1, <2>3 DEF IInv, Starting
    <3>. QED  BY <1>13, <2>1, <3>1
  <2>4. CASE n \notin 1..turns[wire[i].turn].deltas
    <3>1. wire[i].turn = t /\ m.kind = "delta"
      BY <1>4, <1>5, <2>1, <2>2, <2>4
    <3>2. n = m.n
      BY <1>4, <1>5, <2>1, <2>2, <2>4, <3>1
    <3>. QED  BY <1>3, <1>5, <1>13, <2>1, <3>1, <3>2 DEF IsDelta
  <2>. QED  BY <2>3, <2>4
<1>17. AnswerStands'
  <2>1. pc = "idle" /\ result.kind = "answer" => result.turn # t
    BY <1>1 DEF IInv, AnswerStands
  <2>. QED  BY <1>1, <1>4, <2>1 DEF IInv, AnswerStands, prompt
<1>18. ApprovalUnderWay'
  <2> SUFFICES ASSUME NEW u \in 1..Len(turns), turns'[u].status = "asked"
               PROVE  \/ \E i \in 1..Len(wire') : wire'[i].kind = "approve" /\ wire'[i].turn = u
                      \/ \E i \in 1..Len(lines) : lines[i].kind = "approval" /\ lines[i].turn = u
    BY <1>4, <1>7 DEF ApprovalUnderWay
  <2>1. CASE u = t
    <3>1. m.kind = "approve" /\ m.turn = u
      BY <1>5, <2>1
    <3>2. wire'[Len(wire) + 1] = m /\ Len(wire) + 1 \in 1..Len(wire')
      BY <1>3, <1>13
    <3>. QED  BY ONLY <3>1, <3>2
  <2>2. CASE u # t
    <3>1. turns[u].status = "asked"
      BY <1>4, <2>2
    <3>2. \/ \E i \in 1..Len(wire) : wire[i].kind = "approve" /\ wire[i].turn = u
          \/ \E i \in 1..Len(lines) : lines[i].kind = "approval" /\ lines[i].turn = u
      BY <1>1, <3>1 DEF IInv, ApprovalUnderWay
    <3>. QED  BY <1>13, <3>2
  <2>. QED  BY <2>1, <2>2
<1>19. Quiescent'
  BY <1>1 DEF IInv, Quiescent, client
<1>. QED  BY <1>6, <1>8, <1>12, <1>14, <1>15, <1>16, <1>17, <1>18, <1>19
          DEF IInv, Ordered

-----------------------------------------------------------------------------
(* The invariant.                                                          *)

LEMMA InitIInv == ASSUME Init PROVE IInv
<1>1. /\ pc = "idle" /\ asked = 0 /\ thread = 0 /\ turn = 0 /\ text = << >> /\ tokens = 0
      /\ result = Error /\ fingerprint = "none" /\ initialized = FALSE /\ nextId = 1
      /\ out = << >> /\ stdin = << >> /\ stdout = << >> /\ rx = << >>
      /\ server = "none" /\ threads = << >> /\ turns = << >>
  BY DEF Init
<1>2. Len(<< >>) = 0 /\ \A S : << >> \in Seq(S)
  BY NoElements
<1>3. Error \in Answers /\ Error.kind = "error"
  BY ErrorType
<1>4. Shape
  <2>1. initialized \in BOOLEAN
    BY <1>1, Zenon
  <2>2. \A t \in 1..Len(turns) : turns[t].thread \in 1..Len(threads)
    BY <1>1, <1>2
  <2>3. /\ text \in Seq(Delta2) /\ out \in Seq(LineType) /\ stdin \in Seq(LineType)
        /\ stdout \in Seq(MsgType) /\ rx \in Seq(MsgType)
        /\ threads \in Seq(Nat) /\ turns \in Seq(TurnType) /\ result \in Answers
    BY <1>1, <1>2, <1>3
  <2>. QED  BY <1>1, <2>1, <2>2, <2>3 DEF Shape
<1>5. Len(wire) = 0 /\ Len(lines) = 0
  <2>1. << >> \o << >> = << >>
    BY <1>2, ConcatEmptySeq
  <2>. QED  BY <1>1, <1>2, <2>1 DEF wire, lines
<1>6. Quiescent
  BY <1>1, <1>2, <1>5 DEF Quiescent, Requests
<1>7. LinesOK /\ WireOK /\ WireOrdered /\ LinesOrdered /\ Across
  BY <1>5 DEF LinesOK, WireOK, WireOrdered, LinesOrdered, Across
<1>8. OfThisPrompt /\ Streaming /\ Starting /\ AnswerStands /\ ApprovalUnderWay
  BY <1>1, <1>2, <1>3 DEF OfThisPrompt, Streaming, Starting, AnswerStands, ApprovalUnderWay
<1>. QED  BY <1>4, <1>6, <1>7, <1>8 DEF IInv

LEMMA StutterStep == ASSUME IInv, UNCHANGED vars PROVE IInv'
<1>1. /\ UNCHANGED <<pc, asked, thread, turn, text, tokens, result, fingerprint, initialized,
                     nextId, out, stdin, stdout, rx, server, threads, turns>>
      /\ wire' = wire /\ lines' = lines
  BY DEF vars, prompt, client, child, wire, lines
<1>2. Shape' /\ Quiescent'
  BY <1>1 DEF IInv, Shape, Quiescent
<1>3. LinesOK' /\ WireOK'
  BY <1>1 DEF IInv, LinesOK, LineOK, WireOK, MsgOK, Current
<1>4. WireOrdered' /\ LinesOrdered' /\ Across'
  BY <1>1 DEF IInv, WireOrdered, InOrder, LinesOrdered, Apart, Across
<1>5. OfThisPrompt' /\ Streaming' /\ Starting' /\ AnswerStands' /\ ApprovalUnderWay'
  BY <1>1 DEF IInv, OfThisPrompt, Streaming, Starting, IsDelta, AnswerStands, ApprovalUnderWay
<1>. QED  BY <1>2, <1>3, <1>4, <1>5 DEF IInv

LEMMA NextIInv == ASSUME IInv, [Next]_vars PROVE IInv'
<1>1. CASE \E f \in Launches : Ask(f) \/ SpawnFails(f)
  BY <1>1, AskStep, SpawnFailsStep
<1>2. CASE Shutdown
  BY <1>2, ShutdownStep
<1>3. CASE Write \/ WriteFails \/ Read
  BY <1>3, WriteStep, WriteFailsStep, ReadStep
<1>4. CASE Receive
  BY <1>4, ApproveStep, AnsweredStep, DeltaStep, UsageStep, CompletedStep, TurnErrorStep,
     DropStep DEF Receive
<1>5. CASE Closed \/ TimesOut
  BY <1>5, GivesUpStep
<1>6. CASE Serve \/ Dies
  BY <1>6, ServeStep, DiesStep
<1>7. CASE \E t \in DOMAIN turns : Work(t)
  <2>1. DOMAIN turns = 1..Len(turns)
    BY LenProperties DEF IInv, Shape
  <2>. QED  BY <1>7, <2>1, WorkStep
<1>8. CASE UNCHANGED vars
  BY <1>8, StutterStep
<1>. QED  BY <1>1, <1>2, <1>3, <1>4, <1>5, <1>6, <1>7, <1>8 DEF Next

LEMMA Invariance == Spec => []IInv
BY InitIInv, NextIInv, PTL DEF Spec

\* An element of two queues is an element of one of them.
LEMMA Either ==
  ASSUME NEW S, NEW a \in Seq(S), NEW b \in Seq(S), NEW i \in 1..Len(a \o b)
  PROVE  \/ \E j \in 1..Len(a) : (a \o b)[i] = a[j]
         \/ \E j \in 1..Len(b) : (a \o b)[i] = b[j]
<1>1. /\ Len(a) \in Nat /\ Len(b) \in Nat /\ Len(a \o b) = Len(a) + Len(b)
      /\ \A k \in 1..Len(a) : (a \o b)[k] = a[k]
      /\ \A k \in 1..Len(b) : (a \o b)[Len(a) + k] = b[k]
  BY Joined
<1>2. CASE i \in 1..Len(a)
  BY <1>1, <1>2
<1>3. CASE i \notin 1..Len(a)
  <2>1. PICK j \in 1..Len(b) : i = Len(a) + j
    <3>1. i - Len(a) \in 1..Len(b) /\ i = Len(a) + (i - Len(a))
      BY <1>1, <1>3
    <3>. QED  BY <3>1
  <2>. QED  BY <1>1, <2>1
<1>. QED  BY <1>2, <1>3

-----------------------------------------------------------------------------
(* The theorems.                                                           *)

\* An answer is the answer to the prompt that was asked: of a turn of its own thread
\* that is completed, with every delta of that turn once and in order, however many
\* prompts were given up before and whatever their turns still report.
THEOREM AnswerStaysOwn == Spec => []AnswerIsOwn
<1>1. IInv => AnswerIsOwn
  <2> SUFFICES ASSUME IInv, pc = "idle", result.kind = "answer"
               PROVE  /\ threads[turns[result.turn].thread] = asked
                      /\ turns[result.turn].status = "completed"
                      /\ result.text =
                           [n \in 1..turns[result.turn].deltas |-> <<result.turn, n>>]
    BY DEF AnswerIsOwn
  <2>1. /\ result.turn \in 1..Len(turns)
        /\ threads[turns[result.turn].thread] = asked
        /\ turns[result.turn].status = "completed"
        /\ Len(result.text) = turns[result.turn].deltas
        /\ \A n \in 1..turns[result.turn].deltas : result.text[n] = <<result.turn, n>>
    BY DEF IInv, AnswerStands
  <2>2. result.text \in Seq(Delta2)
    BY DEF IInv, Shape, Answers
  <2>3. /\ DOMAIN result.text = 1..Len(result.text)
        /\ result.text = [n \in DOMAIN result.text |-> result.text[n]]
    BY <2>2, LenProperties, SeqDef
  <2>. QED  BY <2>1, <2>3
<1>. QED  BY <1>1, Invariance, PTL

\* A turn is started in the thread that was started for this prompt.
THEOREM ThreadStaysOwn == Spec => []ThreadIsOwn
<1>1. IInv => ThreadIsOwn
  <2> SUFFICES ASSUME IInv PROVE ThreadIsOwn
    OBVIOUS
  <2>1. DOMAIN threads = 1..Len(threads)
    BY LenProperties DEF IInv, Shape
  <2>. QED  BY <2>1 DEF IInv, OfThisPrompt, ThreadIsOwn
<1>. QED  BY <1>1, Invariance, PTL

\* While the server lives, no approval it waits for is lost: the request is on its way
\* to the client or the answer on its way back.
THEOREM ApprovalsStayAnswered == Spec => []ApprovalsAnswered
<1>1. IInv => ApprovalsAnswered
  <2> SUFFICES ASSUME IInv, NEW t \in DOMAIN turns, server = "up", turns[t].status = "asked"
               PROVE  \/ \E i \in DOMAIN stdout : stdout[i].kind = "approve" /\ stdout[i].turn = t
                      \/ \E i \in DOMAIN rx : rx[i].kind = "approve" /\ rx[i].turn = t
                      \/ \E i \in DOMAIN out : out[i].kind = "approval" /\ out[i].turn = t
                      \/ \E i \in DOMAIN stdin : stdin[i].kind = "approval" /\ stdin[i].turn = t
    BY DEF ApprovalsAnswered
  <2>1. /\ stdout \in Seq(MsgType) /\ rx \in Seq(MsgType)
        /\ out \in Seq(LineType) /\ stdin \in Seq(LineType)
        /\ turns \in Seq(TurnType)
    BY DEF IInv, Shape
  <2>2. /\ DOMAIN turns = 1..Len(turns)
        /\ DOMAIN stdout = 1..Len(stdout) /\ DOMAIN rx = 1..Len(rx)
        /\ DOMAIN out = 1..Len(out) /\ DOMAIN stdin = 1..Len(stdin)
    BY <2>1, LenProperties
  <2>3. CASE \E i \in 1..Len(wire) : wire[i].kind = "approve" /\ wire[i].turn = t
    <3>1. PICK i \in 1..Len(wire) : wire[i].kind = "approve" /\ wire[i].turn = t
      BY <2>3
    <3>2. \/ \E j \in 1..Len(rx) : wire[i] = rx[j]
          \/ \E j \in 1..Len(stdout) : wire[i] = stdout[j]
      BY <2>1, <3>1, Either, SMTT(30) DEF wire
    <3>. QED  BY <2>2, <3>1, <3>2
  <2>4. CASE \E i \in 1..Len(lines) : lines[i].kind = "approval" /\ lines[i].turn = t
    <3>1. PICK i \in 1..Len(lines) : lines[i].kind = "approval" /\ lines[i].turn = t
      BY <2>4
    <3>2. \/ \E j \in 1..Len(stdin) : lines[i] = stdin[j]
          \/ \E j \in 1..Len(out) : lines[i] = out[j]
      BY <2>1, <3>1, Either, SMTT(30) DEF lines
    <3>. QED  BY <2>2, <3>1, <3>2
  <2>. QED  BY <2>2, <2>3, <2>4 DEF IInv, ApprovalUnderWay
<1>. QED  BY <1>1, Invariance, PTL

=============================================================================
