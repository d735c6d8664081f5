-------------------------- MODULE RunRecordsProofs --------------------------
(***************************************************************************)
(* RunRecords proved for any number of processes, sessions, calls and       *)
(* crashes: the three kinds of file agree, every log can be replayed, and   *)
(* the archive outgrows its cap only by records nobody has rotated yet.     *)
(*                                                                         *)
(* Each process is held against its own log: the place it is at says what   *)
(* the log may hold by then.  No two processes share a log, and a log only  *)
(* grows, so that what one process has read of another's stays true.        *)
(***************************************************************************)
EXTENDS RunRecords, FiniteSetTheorems, SequenceTheorems, TLAPS

Events == {"started", "call", "remembered", "result", "failed", "exceeded", "reflection",
           "completed", "checkpoint", "recorded", "settled"}

\* The places of a process that writes its session, before and after the end of the run
Early == {"start", "plan", "setup", "note", "noted", "call", "tool", "remember", "answer",
          "broken", "reflect", "give_up", "close"}
Late == {"archive", "newline", "cap", "truncate", "rewrite", "archived", "learn", "learned",
         "settle", "idle"}

\* Where a process goes on once its rebuild of the index is done
Returns == {"answer", "wrote", "idle", "learn", "learned"}

Process == [pc : Early \cup Late \cup {"open", "scan"}, kind : Kinds, learn : BOOLEAN,
            mine : Nat, todo : Seq(Nat), found : SUBSET [session : Nat, finished : BOOLEAN],
            back : Returns \cup {"open"}, copy : Seq(Seq(Nat))]

-----------------------------------------------------------------------------
(* One log *)

\* How many of the first i events of a log are of a kind
Until(l, E, i) == Cardinality({k \in DOMAIN l : l[k] \in E /\ k <= i})

\* A call has no result yet.
Owed(l) == Until(l, {"result"}, Len(l)) < Until(l, {"call"}, Len(l))

Trace(l) ==
  /\ l # <<>> => l[1] = "started"
  /\ \A i, k \in DOMAIN l : l[i] \in Closing /\ k > i => l[k] \in {"checkpoint", "settled"}
  /\ \A i \in DOMAIN l : Until(l, {"result"}, i) <= Until(l, {"call"}, i)
  /\ \A i \in DOMAIN l : l[i] = "remembered" => i > 1 /\ l[i - 1] = "call"

\* What a log may hold when its writer is at a stage of the run
Fits(stage, l) ==
  /\ stage = "start" <=> l = <<>>
  /\ stage \in Early => \A i \in DOMAIN l : l[i] \notin Closing
  /\ stage \in Late => Contains(l, "completed")
  /\ stage \in {"tool", "remember", "answer"} => Owed(l)
  /\ stage \in {"tool", "remember"} => l[Len(l)] = "call"

LEMMA UntilType ==
  ASSUME NEW l \in Seq(Events), NEW E, NEW i \in Int
  PROVE  Until(l, E, i) \in Nat
<1>1. IsFiniteSet(1 .. Len(l))
  BY FS_Interval
<1>2. {k \in DOMAIN l : l[k] \in E /\ k <= i} \in SUBSET (1 .. Len(l))
  OBVIOUS
<1>3. IsFiniteSet({k \in DOMAIN l : l[k] \in E /\ k <= i})
  BY <1>1, <1>2, FS_Subset
<1> QED
  BY <1>3, FS_CardinalityType DEF Until

\* An event at the end is counted at the end, and nowhere before.
LEMMA UntilAppend ==
  ASSUME NEW l \in Seq(Events), NEW e \in Events, NEW E
  PROVE  /\ \A i \in 0 .. Len(l) : Until(Append(l, e), E, i) = Until(l, E, i)
         /\ Until(Append(l, e), E, Len(l) + 1) =
              Until(l, E, Len(l)) + IF e \in E THEN 1 ELSE 0
<1> DEFINE m == Append(l, e)
           S == {k \in DOMAIN l : l[k] \in E /\ k <= Len(l)}
<1>0. /\ DOMAIN m = 1 .. Len(l) + 1 /\ DOMAIN l = 1 .. Len(l)
      /\ m[Len(l) + 1] = e /\ \A k \in 1 .. Len(l) : m[k] = l[k]
  OBVIOUS
<1>1. ASSUME NEW i \in 0 .. Len(l)
      PROVE  Until(m, E, i) = Until(l, E, i)
  <2>1. {k \in DOMAIN m : m[k] \in E /\ k <= i} = {k \in DOMAIN l : l[k] \in E /\ k <= i}
    <3> HIDE DEF m
    <3> QED  BY <1>0
  <2> QED
    BY <2>1 DEF Until
<1>2. IsFiniteSet(S)
  <2>1. IsFiniteSet(1 .. Len(l))
    BY FS_Interval
  <2>2. S \in SUBSET (1 .. Len(l))
    OBVIOUS
  <2> QED
    BY <2>1, <2>2, FS_Subset
<1>3. Len(l) + 1 \notin S
  BY <1>0
<1>4. {k \in DOMAIN m : m[k] \in E /\ k <= Len(l) + 1} =
        IF e \in E THEN S \cup {Len(l) + 1} ELSE S
  <2> HIDE DEF m
  <2> QED  BY <1>0
<1>5. Cardinality(S \cup {Len(l) + 1}) = Cardinality(S) + 1
  BY <1>2, <1>3, FS_AddElement
<1>6. Cardinality(S) \in Nat
  BY <1>2, FS_CardinalityType
<1>7. Until(m, E, Len(l) + 1) = Until(l, E, Len(l)) + IF e \in E THEN 1 ELSE 0
  <2>1. Until(l, E, Len(l)) = Cardinality(S)
    BY DEF Until
  <2>2. Until(m, E, Len(l) + 1) = Cardinality(IF e \in E THEN S \cup {Len(l) + 1} ELSE S)
    BY <1>4 DEF Until
  <2> HIDE DEF S, m
  <2>3. CASE e \in E
    BY <2>1, <2>2, <2>3, <1>5
  <2>4. CASE e \notin E
    BY <2>1, <2>2, <2>4, <1>6
  <2> QED
    BY <2>3, <2>4
<1> QED
  BY <1>1, <1>7

\* What keeps a log replayable when an event is added to it
LEMMA TraceAppend ==
  ASSUME NEW l \in Seq(Events), NEW e \in Events, Trace(l),
         l = <<>> => e = "started",
         e = "result" => Owed(l),
         e = "remembered" => l # <<>> /\ l[Len(l)] = "call",
         (\E i \in DOMAIN l : l[i] \in Closing) => e \in {"checkpoint", "settled"}
  PROVE  Trace(Append(l, e))
<1> DEFINE m == Append(l, e)
<1>0. /\ Len(m) = Len(l) + 1 /\ DOMAIN m = 1 .. Len(l) + 1 /\ DOMAIN l = 1 .. Len(l)
      /\ m[Len(l) + 1] = e /\ \A k \in 1 .. Len(l) : m[k] = l[k]
      /\ Len(l) \in Nat /\ (l = <<>> <=> Len(l) = 0)
  OBVIOUS
<1>1. /\ \A i \in 0 .. Len(l) : /\ Until(m, {"result"}, i) = Until(l, {"result"}, i)
                                /\ Until(m, {"call"}, i) = Until(l, {"call"}, i)
      /\ Until(m, {"result"}, Len(l) + 1) =
           Until(l, {"result"}, Len(l)) + IF e = "result" THEN 1 ELSE 0
      /\ Until(m, {"call"}, Len(l) + 1) =
           Until(l, {"call"}, Len(l)) + IF e = "call" THEN 1 ELSE 0
  <2>0. \A i \in 0 .. Len(l) : Until(m, {"result"}, i) = Until(l, {"result"}, i)
    BY UntilAppend
  <2>1. \A i \in 0 .. Len(l) : Until(m, {"call"}, i) = Until(l, {"call"}, i)
    BY UntilAppend
  <2>2. Until(m, {"result"}, Len(l) + 1) =
          Until(l, {"result"}, Len(l)) + IF e \in {"result"} THEN 1 ELSE 0
    BY UntilAppend
  <2>3. Until(m, {"call"}, Len(l) + 1) =
          Until(l, {"call"}, Len(l)) + IF e \in {"call"} THEN 1 ELSE 0
    BY UntilAppend
  <2>4. /\ (IF e \in {"result"} THEN 1 ELSE 0) = (IF e = "result" THEN 1 ELSE 0)
        /\ (IF e \in {"call"} THEN 1 ELSE 0) = (IF e = "call" THEN 1 ELSE 0)
    OBVIOUS
  <2> HIDE DEF m
  <2>5. /\ Until(m, {"result"}, Len(l) + 1) =
             Until(l, {"result"}, Len(l)) + IF e = "result" THEN 1 ELSE 0
        /\ Until(m, {"call"}, Len(l) + 1) =
             Until(l, {"call"}, Len(l)) + IF e = "call" THEN 1 ELSE 0
    BY ONLY <2>2, <2>3, <2>4
  <2> QED
    BY ONLY <2>0, <2>1, <2>5
<1>2. \A i \in 0 .. Len(l) : Until(l, {"result"}, i) \in Nat /\ Until(l, {"call"}, i) \in Nat
  BY UntilType
<1>3. Until(l, {"result"}, Len(l)) <= Until(l, {"call"}, Len(l))
  <2>1. CASE Len(l) = 0
    <3>1. \A E : {k \in DOMAIN l : l[k] \in E /\ k <= Len(l)} = {}
      BY <1>0, <2>1
    <3>2. Until(l, {"result"}, Len(l)) = Until(l, {"call"}, Len(l))
      BY <3>1 DEF Until
    <3> QED
      BY <3>2, <1>0, <1>2
  <2>2. CASE Len(l) # 0
    BY <1>0, <2>2 DEF Trace
  <2> QED
    BY <2>1, <2>2
<1> HIDE DEF m
<1>4. m[1] = "started"
  BY <1>0 DEF Trace
<1>5. \A i, k \in DOMAIN m : m[i] \in Closing /\ k > i => m[k] \in {"checkpoint", "settled"}
  BY <1>0 DEF Trace
<1>6. \A i \in DOMAIN m : Until(m, {"result"}, i) <= Until(m, {"call"}, i)
  <2> SUFFICES ASSUME NEW i \in DOMAIN m
               PROVE  Until(m, {"result"}, i) <= Until(m, {"call"}, i)
    OBVIOUS
  <2>1. CASE i <= Len(l)
    BY <2>1, <1>0, <1>1 DEF Trace
  <2>2. CASE i = Len(l) + 1
    BY <2>2, <1>0, <1>1, <1>2, <1>3 DEF Owed
  <2> QED
    BY <1>0, <2>1, <2>2
<1>7. \A i \in DOMAIN m : m[i] = "remembered" => i > 1 /\ m[i - 1] = "call"
  BY <1>0 DEF Trace
<1>8. Trace(m)
  BY <1>4, <1>5, <1>6, <1>7 DEF Trace
<1> QED
  BY <1>8 DEF m

\* The lines a run writes: from which place, which event, and where it goes on
Wrote(from, event) ==
  CASE from = "start"    /\ event = "started"    -> {"plan", "setup", "note", "call"}
    [] from = "call"     /\ event = "call"       -> {"tool"}
    [] from = "remember" /\ event = "remembered" -> {"answer"}
    [] from = "answer"   /\ event = "result"     -> {"plan", "close"}
    [] from = "broken"   /\ event = "failed"     -> {"idle"}
    [] from = "give_up"  /\ event = "exceeded"   -> {"idle"}
    [] from = "reflect"  /\ event = "reflection" -> {"close"}
    [] from = "close"    /\ event = "completed"  -> {"archive", "idle"}
    [] from = "note"     /\ event = "checkpoint" -> {"noted"}
    [] from = "noted"    /\ event = "recorded"   -> {"idle"}
    [] from = "learned"  /\ event = "checkpoint" -> {"settle"}
    [] from = "settle"   /\ event = "settled"    -> {"idle"}
    [] OTHER -> {}

\* A line that is written where its place is finds the log as the next place needs it.
LEMMA LineFits ==
  ASSUME NEW l \in Seq(Events), NEW e \in Events, NEW from, NEW to \in Wrote(from, e),
         Trace(l), Fits(from, l)
  PROVE  /\ Append(l, e) \in Seq(Events)
         /\ Trace(Append(l, e))
         /\ to # "idle" => Fits(to, Append(l, e))
<1> DEFINE m == Append(l, e)
<1>0. /\ m \in Seq(Events) /\ Len(m) = Len(l) + 1 /\ DOMAIN m = 1 .. Len(l) + 1
      /\ DOMAIN l = 1 .. Len(l)
      /\ m[Len(l) + 1] = e /\ \A k \in 1 .. Len(l) : m[k] = l[k]
      /\ Len(l) \in Nat /\ (l = <<>> <=> Len(l) = 0) /\ m # <<>>
  OBVIOUS
<1>1. /\ from = "start" => e = "started" /\ to \in {"plan", "setup", "note", "call"}
      /\ e = "started" => from = "start"
      /\ e = "result" => from = "answer" /\ to \in {"plan", "close"}
      /\ e = "remembered" => from = "remember" /\ to = "answer"
      /\ e = "call" => from = "call" /\ to = "tool"
      /\ from \in Early \/ from \in {"learned", "settle"}
      /\ from \in {"learned", "settle"} =>
           e \in {"checkpoint", "settled"} /\ to \in {"settle", "idle"}
      /\ to \in {"tool", "remember", "answer"} => e \in {"call", "remembered"}
      /\ to \in {"tool", "remember"} => e = "call"
      /\ to \in Early => from \in Early /\ e \notin Closing
      /\ to \in Late /\ to # "idle" => e = "completed" \/ from = "learned"
      /\ to # "start"
  BY DEF Wrote, Early, Late, Closing
<1>2. Trace(m)
  <2>1. l = <<>> => e = "started"
    BY <1>1 DEF Fits
  <2>2. e = "result" => Owed(l)
    BY <1>1 DEF Fits
  <2>3. e = "remembered" => l # <<>> /\ l[Len(l)] = "call"
    BY <1>1 DEF Fits
  <2>4. (\E i \in DOMAIN l : l[i] \in Closing) => e \in {"checkpoint", "settled"}
    BY <1>1 DEF Fits
  <2> QED
    BY <2>1, <2>2, <2>3, <2>4, TraceAppend
<1> HIDE DEF m
<1>3. m # <<>> /\ to # "start"
  BY <1>0, <1>1
<1>4. to \in Early => \A i \in DOMAIN m : m[i] \notin Closing
  BY <1>0, <1>1 DEF Fits
<1>5. to \in Late /\ to # "idle" => Contains(m, "completed")
  <2>1. CASE e = "completed"
    BY <2>1, <1>0 DEF Contains
  <2>2. CASE from = "learned"
    <3>1. Contains(l, "completed")
      BY <2>2 DEF Fits, Late
    <3> QED
      BY <3>1, <1>0 DEF Contains
  <2> QED
    BY <2>1, <2>2, <1>1
<1>6. to \in {"tool", "remember", "answer"} => Owed(m)
  <2> SUFFICES ASSUME to \in {"tool", "remember", "answer"}
               PROVE  Owed(m)
    OBVIOUS
  <2> DEFINE r == Until(l, {"result"}, Len(l))
             c == Until(l, {"call"}, Len(l))
  <2>1. r \in Nat /\ c \in Nat
    BY UntilType, <1>0
  <2>2. Until(m, {"result"}, Len(l) + 1) = r + IF e \in {"result"} THEN 1 ELSE 0
    BY UntilAppend DEF m
  <2>3. Until(m, {"call"}, Len(l) + 1) = c + IF e \in {"call"} THEN 1 ELSE 0
    BY UntilAppend DEF m
  <2>4. from \in {"call", "remember"} /\ e \notin {"result"}
    BY <1>1
  <2>5. r <= c
    BY <2>4, <1>0 DEF Fits, Trace
  <2>6. e = "remembered" => r < c
    BY <1>1 DEF Fits, Owed
  <2> HIDE DEF r, c
  <2>7. e \in {"call"} \/ e = "remembered"
    BY <1>1
  <2>8. Until(m, {"result"}, Len(l) + 1) < Until(m, {"call"}, Len(l) + 1)
    BY <2>1, <2>2, <2>3, <2>4, <2>5, <2>6, <2>7
  <2> QED
    BY <2>8, <1>0 DEF Owed
<1>7. to \in {"tool", "remember"} => m[Len(m)] = "call"
  BY <1>0, <1>1
<1>8. to # "idle" => Fits(to, m)
  BY <1>3, <1>4, <1>5, <1>6, <1>7 DEF Fits
<1> QED
  BY <1>0, <1>2, <1>8 DEF m

-----------------------------------------------------------------------------
(* A process against the logs *)

Known(L, e) ==
  /\ e.session \in 1 .. Len(L) /\ Contains(L[e.session], "started")
  /\ e.finished => \E c \in Closing : Contains(L[e.session], c)

Done(L, s) == s \in 1 .. Len(L) /\ Contains(L[s], "completed")

\* The stage of its run a process is at; while it rebuilds the index, the one it goes
\* on at.
Stage(c) == IF c.pc = "scan" THEN IF c.back = "wrote" THEN "answer" ELSE c.back ELSE c.pc

Unopened(c) == c.pc \in {"idle", "open"} \/ (c.pc = "scan" /\ c.back = "open")

\* What a process is and has read, when the logs are L
Sound(c, L) ==
  /\ c \in Process
  /\ c.mine \in 0 .. Len(L)
  /\ c.mine = 0 <=> Unopened(c)
  /\ c.mine # 0 => Fits(Stage(c), L[c.mine])
  /\ \A i \in DOMAIN c.todo : c.todo[i] \in 1 .. Len(L)
  /\ \A e \in c.found : Known(L, e)
  /\ \A i \in DOMAIN c.copy : \A s \in Range(c.copy[i]) : Done(L, s)
  /\ c.pc \in {"truncate", "rewrite"} => Len(c.copy) = Cap

\* The logs M go on from the logs L.
Extends(L, M) ==
  /\ Len(L) <= Len(M)
  /\ \A s \in 1 .. Len(L) : \A e \in Events : Contains(L[s], e) => Contains(M[s], e)

LEMMA StillKnown ==
  ASSUME NEW L \in Seq(Seq(Events)), NEW M \in Seq(Seq(Events)), Extends(L, M)
  PROVE  /\ \A e : Known(L, e) => Known(M, e)
         /\ \A s : Done(L, s) => Done(M, s)
<1>1. Len(L) \in Nat /\ Len(M) \in Nat
  OBVIOUS
<1>2. "started" \in Events /\ "completed" \in Events /\ \A c \in Closing : c \in Events
  BY DEF Closing, Events
<1>3. ASSUME NEW e, Known(L, e)
      PROVE  Known(M, e)
  <2>1. e.session \in 1 .. Len(M) /\ Contains(M[e.session], "started")
    <3>1. e.session \in 1 .. Len(L) /\ Contains(L[e.session], "started")
      BY <1>3 DEF Known
    <3>2. e.session \in 1 .. Len(M)
      BY <3>1, <1>1 DEF Extends
    <3> QED
      BY <3>1, <3>2, <1>2 DEF Extends
  <2>2. e.finished => \E c \in Closing : Contains(M[e.session], c)
    BY <1>1, <1>2, <1>3 DEF Known, Extends
  <2> QED
    BY <2>1, <2>2 DEF Known
<1>4. ASSUME NEW s, Done(L, s)
      PROVE  Done(M, s)
  BY <1>1, <1>2, <1>4 DEF Done, Extends
<1> QED
  BY <1>3, <1>4

\* A process stays sound while the logs of others grow.
LEMMA OthersGrow ==
  ASSUME NEW L \in Seq(Seq(Events)), NEW M \in Seq(Seq(Events)), Extends(L, M),
         NEW c, Sound(c, L), c.mine # 0 => M[c.mine] = L[c.mine]
  PROVE  Sound(c, M)
<1>1. Len(L) \in Nat /\ Len(M) \in Nat /\ Len(L) <= Len(M)
  BY DEF Extends
<1>2. /\ \A e : Known(L, e) => Known(M, e)
      /\ \A s : Done(L, s) => Done(M, s)
  BY StillKnown
<1>3. c \in Process /\ c.mine \in 0 .. Len(M) /\ (c.mine = 0 <=> Unopened(c))
  BY <1>1 DEF Sound
<1>4. c.mine # 0 => Fits(Stage(c), M[c.mine])
  BY DEF Sound
<1>5. \A i \in DOMAIN c.todo : c.todo[i] \in 1 .. Len(M)
  BY <1>1 DEF Sound
<1>6. /\ \A e \in c.found : Known(M, e)
      /\ \A i \in DOMAIN c.copy : \A s \in Range(c.copy[i]) : Done(M, s)
  BY <1>2 DEF Sound
<1>7. c.pc \in {"truncate", "rewrite"} => Len(c.copy) = Cap
  BY DEF Sound
<1> QED
  BY <1>3, <1>4, <1>5, <1>6, <1>7 DEF Sound

LEMMA IdleSound == \A L \in Seq(Seq(Events)) : Sound(Idle, L)
<1> TAKE L \in Seq(Seq(Events))
<1>1. Idle \in Process
  BY DEF Idle, Process, Kinds, Late, Early
<1>2. Len(L) \in Nat
  OBVIOUS
<1> QED
  BY <1>1, <1>2 DEF Sound, Idle, Unopened

\* What Go makes of a process
Moved(c, place) ==
  IF place = "idle" THEN Idle
  ELSE [c EXCEPT !.pc = place, !.back = "open", !.todo = <<>>, !.found = {}]

LEMMA MoveSound ==
  ASSUME NEW L \in Seq(Seq(Events)), NEW M \in Seq(Seq(Events)), Extends(L, M),
         NEW c, Sound(c, L), NEW place,
         \/ place = "idle"
         \/ place = "open" /\ c.mine = 0
         \/ c.mine # 0 /\ place \in Early \cup Late /\ Fits(place, M[c.mine]),
         place \in {"truncate", "rewrite"} => Len(c.copy) = Cap
  PROVE  /\ Sound(Moved(c, place), M)
         /\ Moved(c, place).mine \in {0, c.mine}
<1>1. CASE place = "idle"
  BY <1>1, IdleSound DEF Moved, Idle
<1>2. CASE place # "idle"
  <2> DEFINE d == [c EXCEPT !.pc = place, !.back = "open", !.todo = <<>>, !.found = {}]
  <2>1. Moved(c, place) = d
    BY <1>2 DEF Moved
  <2>2. c \in Process
    BY DEF Sound
  <2>3. place \in Early \cup Late \cup {"open", "scan"} /\ place # "scan"
    BY <1>2 DEF Early, Late
  <2>4. d \in Process
    <3>1. <<>> \in Seq(Nat) /\ {} \in SUBSET [session : Nat, finished : BOOLEAN]
      OBVIOUS
    <3>2. "open" \in Returns \cup {"open"}
      OBVIOUS
    <3> QED
      BY <2>2, <2>3, <3>1, <3>2 DEF Process
  <2>5. /\ d.pc = place /\ d.back = "open" /\ d.todo = <<>> /\ d.found = {}
        /\ d.mine = c.mine /\ d.copy = c.copy
    BY <2>2 DEF Process
  <2> HIDE DEF d
  <2>6. Len(L) \in Nat /\ Len(M) \in Nat /\ Len(L) <= Len(M)
    BY DEF Extends
  <2>7. d.mine \in 0 .. Len(M)
    BY <2>5, <2>6 DEF Sound
  <2>8. d.mine = 0 <=> Unopened(d)
    BY <2>3, <2>5, <1>2 DEF Unopened, Early, Late
  <2>9. d.mine # 0 => Fits(Stage(d), M[d.mine])
    BY <2>3, <2>5, <1>2 DEF Stage
  <2>10. \A i \in DOMAIN d.todo : d.todo[i] \in 1 .. Len(M)
    BY <2>5
  <2>11. \A s : Done(L, s) => Done(M, s)
    BY StillKnown
  <2>12. \A i \in DOMAIN d.copy : \A s \in Range(d.copy[i]) : Done(M, s)
    BY <2>5, <2>11 DEF Sound
  <2>13. (\A e \in d.found : Known(M, e)) /\ (d.pc \in {"truncate", "rewrite"} => Len(d.copy) = Cap)
    BY <2>5
  <2>14. Sound(d, M)
    BY <2>4, <2>7, <2>8, <2>9, <2>10, <2>12, <2>13 DEF Sound
  <2> QED
    BY <2>1, <2>5, <2>14
<1> QED
  BY <1>1, <1>2

\* A run that starts to rebuild the index, and goes on at a place afterwards
Rebuilding(c, place, list) == [c EXCEPT !.pc = "scan", !.back = place, !.todo = list]

LEMMA RebuildSound ==
  ASSUME NEW L \in Seq(Seq(Events)), NEW c, Sound(c, L), c.mine # 0,
         NEW place \in Returns,
         Fits(IF place = "wrote" THEN "answer" ELSE place, L[c.mine]),
         NEW list \in Seq(1 .. Len(L))
  PROVE  Sound(Rebuilding(c, place, list), L) /\ Rebuilding(c, place, list).mine = c.mine
<1> DEFINE d == Rebuilding(c, place, list)
<1>1. c \in Process
  BY DEF Sound
<1>2. Len(L) \in Nat /\ list \in Seq(Nat) /\ \A i \in DOMAIN list : list[i] \in 1 .. Len(L)
  OBVIOUS
<1>3. d \in Process
  BY <1>1, <1>2 DEF Process, Rebuilding
<1>4. /\ d.pc = "scan" /\ d.back = place /\ d.todo = list /\ d.found = c.found
      /\ d.mine = c.mine /\ d.copy = c.copy
  BY <1>1 DEF Process, Rebuilding
<1> HIDE DEF d
<1>5. place # "open"
  BY DEF Returns
<1>6. d.mine = 0 <=> Unopened(d)
  BY <1>4, <1>5 DEF Unopened
<1>7. Stage(d) = IF place = "wrote" THEN "answer" ELSE place
  BY <1>4 DEF Stage
<1>8. d.mine # 0 => Fits(Stage(d), L[d.mine])
  BY <1>4, <1>7
<1>9. /\ d.mine \in 0 .. Len(L)
      /\ \A i \in DOMAIN d.todo : d.todo[i] \in 1 .. Len(L)
      /\ \A e \in d.found : Known(L, e)
      /\ \A i \in DOMAIN d.copy : \A s \in Range(d.copy[i]) : Done(L, s)
      /\ d.pc \in {"truncate", "rewrite"} => Len(d.copy) = Cap
  BY <1>2, <1>4 DEF Sound
<1>10. Sound(d, L)
  BY <1>3, <1>6, <1>8, <1>9 DEF Sound
<1> QED
  BY <1>4, <1>10 DEF d

-----------------------------------------------------------------------------
(* The invariant *)

Logs == log \in Seq(Seq(Events)) /\ \A s \in Sessions : Trace(log[s])

Procs == proc \in [Proc -> Process] /\ \A p \in Proc : Sound(proc[p], log)

\* No two processes write one session.
Apart == \A p, q \in Proc : Mine(p) # 0 /\ Mine(p) = Mine(q) => p = q

Disk ==
  /\ recent \in Seq(Sessions)
  /\ archive \in Seq(Seq(Nat)) /\ archive # <<>>
  /\ \A i \in DOMAIN archive : \A s \in Range(archive[i]) : Done(log, s)
  /\ \A e \in index.sessions : Known(log, e)
  /\ index.skills \subseteq skills
  /\ \A s \in skills : Done(log, s)

RecordsInv == Logs /\ Procs /\ Apart /\ Disk

LEMMA SameLogs == \A L \in Seq(Seq(Events)) : Extends(L, L)
  BY DEF Extends

\* A step of one process leaves the others sound and the sessions apart.
LEMMA ProcStep ==
  ASSUME RecordsInv, NEW p \in Proc, NEW d, proc' = [proc EXCEPT ![p] = d],
         log' \in Seq(Seq(Events)), Extends(log, log'), Sound(d, log'),
         \A q \in Proc \ {p} : Mine(q) # 0 => log'[Mine(q)] = log[Mine(q)],
         d.mine \in {0, Mine(p)} \/ d.mine = Len(log) + 1
  PROVE  Procs' /\ Apart'
<1>1. log \in Seq(Seq(Events)) /\ proc \in [Proc -> Process]
  BY DEF RecordsInv, Logs, Procs
<1>2. d \in Process
  BY DEF Sound
<1>3. proc' \in [Proc -> Process] /\ proc'[p] = d /\ \A q \in Proc \ {p} : proc'[q] = proc[q]
  BY <1>1, <1>2
<1>4. ASSUME NEW q \in Proc
      PROVE  Sound(proc'[q], log')
  <2>1. CASE q = p
    BY <1>3, <2>1
  <2>2. CASE q # p
    <3>1. Sound(proc[q], log)
      BY DEF RecordsInv, Procs
    <3>2. proc[q].mine # 0 => log'[proc[q].mine] = log[proc[q].mine]
      BY <2>2 DEF Mine
    <3>3. Sound(proc[q], log')
      BY <1>1, <3>1, <3>2, OthersGrow
    <3> QED
      BY <1>3, <2>2, <3>3
  <2> QED
    BY <2>1, <2>2
<1>5. \A q \in Proc : Mine(q) \in 0 .. Len(log)
  BY DEF RecordsInv, Procs, Sound, Mine
<1>6. Len(log) \in Nat
  BY <1>1
<1>7. \A q, r \in Proc : Mine(q)' # 0 /\ Mine(q)' = Mine(r)' => q = r
  BY <1>3, <1>5, <1>6 DEF Mine, RecordsInv, Apart
<1> QED
  BY <1>3, <1>4, <1>7 DEF Procs, Apart

\* A step that leaves the files alone, but for the times they were written at
LEMMA QuietStep ==
  ASSUME RecordsInv, NEW p \in Proc, NEW d, proc' = [proc EXCEPT ![p] = d],
         UNCHANGED <<log, archive, skills, index>>, recent' \in Seq(Sessions),
         Sound(d, log), d.mine \in {0, Mine(p)}
  PROVE  RecordsInv'
<1>1. log \in Seq(Seq(Events)) /\ Extends(log, log)
  BY SameLogs DEF RecordsInv, Logs
<1>2. log' \in Seq(Seq(Events)) /\ Extends(log, log') /\ Sound(d, log')
  BY <1>1
<1>3. \A q \in Proc \ {p} : Mine(q) # 0 => log'[Mine(q)] = log[Mine(q)]
  OBVIOUS
<1>4. d.mine \in {0, Mine(p)} \/ d.mine = Len(log) + 1
  OBVIOUS
<1>5. Procs' /\ Apart'
  BY <1>2, <1>3, <1>4, ProcStep
<1>6. Logs'
  BY DEF RecordsInv, Logs, Sessions
<1>7. Disk'
  BY DEF RecordsInv, Disk, Sessions
<1> QED
  BY <1>5, <1>6, <1>7 DEF RecordsInv

LEMMA GoMoves ==
  ASSUME NEW p \in Proc, NEW place, Go(p, place)
  PROVE  proc' = [proc EXCEPT ![p] = Moved(proc[p], place)]
BY DEF Go, Moved

\* A process that goes on and writes nothing
LEMMA GoStep ==
  ASSUME RecordsInv, NEW p \in Proc, NEW place, Go(p, place),
         UNCHANGED <<log, archive, skills, index>>, recent' \in Seq(Sessions),
         \/ place = "idle"
         \/ place = "open" /\ Mine(p) = 0
         \/ Mine(p) # 0 /\ place \in Early \cup Late /\ Fits(place, log[Mine(p)]),
         place \in {"truncate", "rewrite"} => Len(proc[p].copy) = Cap
  PROVE  RecordsInv'
<1>1. log \in Seq(Seq(Events)) /\ Extends(log, log)
  BY SameLogs DEF RecordsInv, Logs
<1>2. Sound(proc[p], log)
  BY DEF RecordsInv, Procs
<1>3. /\ Sound(Moved(proc[p], place), log)
      /\ Moved(proc[p], place).mine \in {0, Mine(p)}
  BY <1>1, <1>2, MoveSound DEF Mine
<1> QED
  BY <1>3, GoMoves, QuietStep

\* Who is at a place of a run has a session, and its log fits.
LEMMA AtPlace ==
  ASSUME RecordsInv, NEW p \in Proc, NEW place \in Early \cup Late, At(p, place),
         place # "idle"
  PROVE  /\ Mine(p) \in Sessions /\ Fits(place, log[Mine(p)])
         /\ log[Mine(p)] \in Seq(Events) /\ Trace(log[Mine(p)])
         /\ place \in {"truncate", "rewrite"} => Len(proc[p].copy) = Cap
<1>1. Sound(proc[p], log) /\ log \in Seq(Seq(Events)) /\ proc[p].pc = place
  BY DEF RecordsInv, Procs, Logs, At
<1>2. place # "scan" /\ place # "open"
  BY DEF Early, Late
<1>3. ~Unopened(proc[p]) /\ Stage(proc[p]) = place
  BY <1>1, <1>2 DEF Unopened, Stage
<1>4. Mine(p) \in Sessions /\ Fits(place, log[Mine(p)])
  BY <1>1, <1>3 DEF Sound, Mine, Sessions
<1> QED
  BY <1>1, <1>4 DEF Sound, RecordsInv, Logs, Sessions

LEMMA SessionsType ==
  ASSUME RecordsInv
  PROVE  Len(log) \in Nat /\ Sessions = 1 .. Len(log) /\ log \in Seq(Seq(Events))
BY DEF RecordsInv, Logs, Sessions

LEMMA TouchedType ==
  ASSUME RecordsInv, NEW s \in Sessions
  PROVE  Touched(s) \in Seq(Sessions)
<1>1. recent \in Seq(Sessions)
  BY DEF RecordsInv, Disk
<1>2. Len(recent) \in Nat /\ DOMAIN recent = 1 .. Len(recent)
      /\ \A i \in 1 .. Len(recent) : recent[i] \in Sessions
  BY <1>1
<1> DEFINE k == CHOOSE k \in DOMAIN recent : recent[k] = s
<1>3. \A i \in 1 .. Len(recent) : (IF i < k THEN recent[i]
                                   ELSE IF i < Len(recent) THEN recent[i + 1] ELSE s) \in Sessions
  <2> HIDE DEF k
  <2> QED  BY <1>2
<1>4. Touched(s) = [i \in 1 .. Len(recent) |-> IF i < k THEN recent[i]
                                   ELSE IF i < Len(recent) THEN recent[i + 1] ELSE s]
  BY <1>2 DEF Touched
<1> HIDE DEF k
<1>5. [i \in 1 .. Len(recent) |-> IF i < k THEN recent[i]
         ELSE IF i < Len(recent) THEN recent[i + 1] ELSE s] \in Seq(Sessions)
  BY <1>2, <1>3, SeqDef
<1> QED
  BY <1>4, <1>5

LEMMA ListingType ==
  ASSUME RecordsInv
  PROVE  Listing \in Seq(Sessions)
<1>1. recent \in Seq(Sessions)
  BY DEF RecordsInv, Disk
<1>2. Reverse(recent) \in Seq(Sessions) /\ Len(Reverse(recent)) = Len(recent)
  BY <1>1 DEF Reverse
<1>3. Newest \in Nat \ {0} /\ Len(recent) \in Nat
  BY <1>1, RunRecordsAssumptions
<1> DEFINE n == IF Len(recent) < Newest THEN Len(recent) ELSE Newest
<1>4. n \in 0 .. Len(Reverse(recent))
  BY <1>2, <1>3
<1>5. Listing = SubSeq(Reverse(recent), 1, n)
  BY DEF Listing
<1> HIDE DEF n
<1> QED
  BY <1>2, <1>4, <1>5

-----------------------------------------------------------------------------
(* The session log *)

\* What the files say stays true while the logs grow.
LEMMA DiskGrows ==
  ASSUME RecordsInv, log' \in Seq(Seq(Events)), Extends(log, log'),
         UNCHANGED <<archive, skills, index>>, recent' \in Seq(Sessions')
  PROVE  Disk'
<1>1. log \in Seq(Seq(Events))
  BY SessionsType
<1>2. /\ \A e : Known(log, e) => Known(log', e)
      /\ \A s : Done(log, s) => Done(log', s)
  BY <1>1, StillKnown
<1> QED
  BY <1>2 DEF RecordsInv, Disk

LEMMA OneLine ==
  ASSUME NEW L \in Seq(Seq(Events)), NEW s \in 1 .. Len(L), NEW e \in Events,
         NEW M, M = [L EXCEPT ![s] = Append(@, e)]
  PROVE  /\ M \in Seq(Seq(Events)) /\ Extends(L, M) /\ Len(M) = Len(L)
         /\ M[s] = Append(L[s], e)
         /\ \A r \in 1 .. Len(L) : r # s => M[r] = L[r]
<1>1. L[s] \in Seq(Events) /\ Append(L[s], e) \in Seq(Events) /\ Len(L) \in Nat
  OBVIOUS
<1>2. /\ M \in Seq(Seq(Events)) /\ Len(M) = Len(L)
      /\ M[s] = Append(L[s], e)
      /\ \A r \in 1 .. Len(L) : r # s => M[r] = L[r]
  BY <1>1
<1>3. ASSUME NEW r \in 1 .. Len(L), NEW f \in Events, Contains(L[r], f)
      PROVE  Contains(M[r], f)
  <2>1. CASE r = s
    <3>1. PICK i \in 1 .. Len(L[s]) : L[s][i] = f
      BY <1>3, <2>1 DEF Contains
    <3>2. i \in 1 .. Len(Append(L[s], e)) /\ Append(L[s], e)[i] = f
      BY <1>1, <3>1
    <3> QED
      BY <1>2, <2>1, <3>2 DEF Contains
  <2>2. CASE r # s
    BY <1>2, <1>3, <2>2
  <2> QED
    BY <2>1, <2>2
<1> QED
  BY <1>1, <1>2, <1>3 DEF Extends

LEMMA EndLineStep ==
  ASSUME RecordsInv, NEW p \in Proc, NEW from \in Early \cup Late, At(p, from), from # "idle",
         NEW event \in Events, NEW to \in Wrote(from, event), EndLine(p, event, to)
  PROVE  RecordsInv'
<1>1. /\ Mine(p) \in Sessions /\ Fits(from, log[Mine(p)])
      /\ log[Mine(p)] \in Seq(Events) /\ Trace(log[Mine(p)])
  BY AtPlace
<1>2. Len(log) \in Nat /\ Sessions = 1 .. Len(log) /\ log \in Seq(Seq(Events))
  BY SessionsType
<1>3. log' = [log EXCEPT ![Mine(p)] = Append(@, event)]
  BY DEF EndLine
<1>4. /\ log' \in Seq(Seq(Events)) /\ Extends(log, log') /\ Len(log') = Len(log)
      /\ log'[Mine(p)] = Append(log[Mine(p)], event)
      /\ \A r \in 1 .. Len(log) : r # Mine(p) => log'[r] = log[r]
  <2>1. \A s \in 1 .. Len(log) : \A M : M = [log EXCEPT ![s] = Append(@, event)] =>
          /\ M \in Seq(Seq(Events)) /\ Extends(log, M) /\ Len(M) = Len(log)
          /\ M[s] = Append(log[s], event)
          /\ \A r \in 1 .. Len(log) : r # s => M[r] = log[r]
    BY <1>2, OneLine, ZenonT(30)
  <2> QED
    BY ONLY <1>1, <1>2, <1>3, <2>1, ZenonT(30)
<1>5. /\ Trace(Append(log[Mine(p)], event))
      /\ to # "idle" => Fits(to, Append(log[Mine(p)], event))
  BY <1>1, LineFits
<1>6. Sessions' = Sessions
  BY <1>2, <1>4 DEF Sessions
<1>7. Logs'
  BY <1>2, <1>4, <1>5, <1>6 DEF RecordsInv, Logs
<1>8. to \in Early \cup Late /\ to \notin {"truncate", "rewrite"}
  BY DEF Wrote, Early, Late
<1>9. Sound(proc[p], log) /\ Mine(p) = proc[p].mine
  BY DEF RecordsInv, Procs, Mine
<1>10. Mine(p) # 0
  BY <1>1, <1>2
<1>11. /\ Sound(Moved(proc[p], to), log')
       /\ Moved(proc[p], to).mine \in {0, Mine(p)}
  <2>1. proc[p].mine # 0 /\ (to # "idle" => Fits(to, log'[proc[p].mine]))
    BY <1>4, <1>5, <1>9, <1>10
  <2>2. to = "idle" \/ (proc[p].mine # 0 /\ to \in Early \cup Late /\ Fits(to, log'[proc[p].mine]))
    BY <1>8, <2>1
  <2>3. /\ Sound(Moved(proc[p], to), log')
        /\ Moved(proc[p], to).mine \in {0, proc[p].mine}
    BY <1>2, <1>4, <1>8, <1>9, <2>2, MoveSound
  <2> QED
    BY <1>9, <2>3
<1>12. proc' = [proc EXCEPT ![p] = Moved(proc[p], to)]
  BY GoMoves DEF EndLine
<1>13. \A q \in Proc \ {p} : Mine(q) # 0 => log'[Mine(q)] = log[Mine(q)]
  <2>1. \A q \in Proc : Mine(q) \in 0 .. Len(log)
    BY DEF RecordsInv, Procs, Sound, Mine
  <2>2. \A q \in Proc \ {p} : Mine(q) # 0 => Mine(q) # Mine(p)
    BY DEF RecordsInv, Apart
  <2> QED
    BY <1>2, <1>4, <2>1, <2>2
<1>14. Procs' /\ Apart'
  BY <1>4, <1>11, <1>12, <1>13, ProcStep
<1>15. recent' \in Seq(Sessions')
  BY <1>1, <1>6, TouchedType DEF EndLine
<1>16. Disk'
  BY <1>4, <1>15, DiskGrows DEF EndLine
<1> QED
  BY <1>7, <1>14, <1>16 DEF RecordsInv

LEMMA WriteStep ==
  ASSUME RecordsInv, NEW p \in Proc, NEW from, NEW event, NEW to \in Wrote(from, event),
         Write(p, from, event, to)
  PROVE  RecordsInv'
<1>1. from \in Early \cup Late /\ from # "idle" /\ event \in Events
      /\ from \notin {"truncate", "rewrite"}
  BY DEF Wrote, Early, Late, Events
<1>2. CASE At(p, from) /\ BeginLine(p, from)
  <2>1. Mine(p) \in Sessions /\ Fits(from, log[Mine(p)])
    BY <1>1, <1>2, AtPlace
  <2>2. recent' \in Seq(Sessions)
    BY <2>1, TouchedType, <1>2 DEF BeginLine
  <2>3. Mine(p) # 0
    BY <2>1, SessionsType
  <2> QED
    BY <1>1, <1>2, <2>1, <2>2, <2>3, GoStep DEF BeginLine
<1>3. CASE At(p, from) /\ EndLine(p, event, to)
  BY <1>1, <1>3, EndLineStep
<1> QED
  BY <1>2, <1>3 DEF Write

LEMMA StartStep ==
  ASSUME RecordsInv, NEW p \in Proc, Start(p)
  PROVE  RecordsInv'
<1>1. Len(log) \in Nat /\ Sessions = 1 .. Len(log) /\ log \in Seq(Seq(Events))
  BY SessionsType
<1> DEFINE n == Len(log) + 1
           d == [proc[p] EXCEPT !.pc = "start", !.mine = n]
<1>2. log' = Append(log, <<>>)
  BY DEF Start
<1>3. /\ log' \in Seq(Seq(Events)) /\ Len(log') = n
      /\ log'[n] = <<>> /\ \A s \in 1 .. Len(log) : log'[s] = log[s]
  BY <1>1, <1>2
<1>4. Extends(log, log')
  BY <1>1, <1>3 DEF Extends
<1>5. Trace(<<>>) /\ Fits("start", <<>>)
  <2>1. DOMAIN <<>> = {}
    OBVIOUS
  <2>2. "start" \in Early /\ "start" \notin Late
    BY DEF Early, Late
  <2> QED
    BY <2>1, <2>2 DEF Trace, Fits
<1>6. Sessions' = 1 .. n
  BY <1>3 DEF Sessions
<1>7. Logs'
  <2>1. \A s \in 1 .. Len(log) : Trace(log[s])
    BY <1>1 DEF RecordsInv, Logs
  <2>2. \A s \in 1 .. n : Trace(log'[s])
    <3>1. \A s \in 1 .. n : s = n \/ s \in 1 .. Len(log)
      BY <1>1
    <3> HIDE DEF n
    <3>2. ASSUME NEW s \in 1 .. n
          PROVE  Trace(log'[s])
      <4>1. CASE s = n
        BY <1>3, <1>5, <4>1
      <4>2. CASE s \in 1 .. Len(log)
        <5>1. log'[s] = log[s]
          BY <1>3, <4>2
        <5> QED
          BY <2>1, <4>2, <5>1
      <4> QED
        BY <3>1, <4>1, <4>2
    <3> QED
      BY <3>2
  <2> QED
    BY <1>3, <1>6, <2>2 DEF Logs
<1>8. Sound(proc[p], log) /\ proc[p].pc = "open"
  BY DEF RecordsInv, Procs, Start, At
<1>9. d \in Process /\ d.pc = "start" /\ d.mine = n /\ d.todo = proc[p].todo
      /\ d.found = proc[p].found /\ d.copy = proc[p].copy
  <2>1. proc[p] \in Process /\ n \in Nat
    BY <1>1, <1>8 DEF Sound
  <2> HIDE DEF n
  <2> QED
    BY <2>1 DEF Process, Early
<1>10. proc' = [proc EXCEPT ![p] = d]
  <2>1. proc \in [Proc -> Process]
    BY DEF RecordsInv, Procs
  <2> QED
    BY <2>1 DEF Start
<1>11. /\ \A e : Known(log, e) => Known(log', e)
       /\ \A s : Done(log, s) => Done(log', s)
  BY <1>1, <1>3, <1>4, StillKnown
<1> HIDE DEF d
<1>12. Sound(d, log')
  <2>1. Stage(d) = "start" /\ ~Unopened(d)
    BY <1>9 DEF Stage, Unopened
  <2>2. \A i \in DOMAIN d.todo : d.todo[i] \in 1 .. Len(log')
    BY <1>1, <1>3, <1>8, <1>9 DEF Sound
  <2>3. /\ \A e \in d.found : Known(log', e)
        /\ \A i \in DOMAIN d.copy : \A s \in Range(d.copy[i]) : Done(log', s)
    BY <1>8, <1>9, <1>11 DEF Sound
  <2>4. d.mine \in 0 .. Len(log') /\ d.mine # 0
    BY <1>1, <1>3, <1>9
  <2>5. Fits(Stage(d), log'[d.mine])
    BY <1>3, <1>5, <1>9, <2>1
  <2> QED
    BY <1>9, <2>1, <2>2, <2>3, <2>4, <2>5 DEF Sound
<1>13. \A q \in Proc \ {p} : Mine(q) # 0 => log'[Mine(q)] = log[Mine(q)]
  <2>1. \A q \in Proc : Mine(q) \in 0 .. Len(log)
    BY DEF RecordsInv, Procs, Sound, Mine
  <2> QED
    BY <1>1, <1>3, <2>1
<1>14. d.mine = Len(log) + 1
  BY <1>9
<1>15. Procs' /\ Apart'
  BY <1>3, <1>4, <1>10, <1>12, <1>13, <1>14, ProcStep
<1>16. recent' \in Seq(Sessions')
  <2>1. recent \in Seq(1 .. Len(log)) /\ recent' = Append(recent, n)
    BY <1>1 DEF RecordsInv, Disk, Start
  <2>2. recent \in Seq(1 .. n) /\ n \in 1 .. n
    BY <1>1, <2>1
  <2> QED
    BY <1>6, <2>1, <2>2
<1>17. Disk'
  BY <1>3, <1>4, <1>16, DiskGrows DEF Start
<1> QED
  BY <1>7, <1>15, <1>17 DEF RecordsInv

-----------------------------------------------------------------------------
(* The memory index *)

LEMMA ReadLogStep ==
  ASSUME RecordsInv, NEW p \in Proc, ReadLog(p)
  PROVE  RecordsInv'
<1> DEFINE c == proc[p]
           s == Head(c.todo)
           new == IF log[s] = <<>> THEN {} ELSE {Entry(s)}
           d == [c EXCEPT !.todo = Tail(@), !.found = @ \cup new]
<1>1. Sound(c, log) /\ c \in Process /\ c.pc = "scan" /\ c.todo # <<>>
      /\ c.todo \in Seq(Nat) /\ c.found \in SUBSET [session : Nat, finished : BOOLEAN]
  BY DEF RecordsInv, Procs, ReadLog, At, Process
<1>2. Len(log) \in Nat /\ Sessions = 1 .. Len(log) /\ log \in Seq(Seq(Events))
  BY SessionsType
<1>3. s \in 1 .. Len(log) /\ s \in Nat
  BY <1>1, <1>2 DEF Sound
<1>4. Tail(c.todo) \in Seq(Nat)
      /\ \A i \in DOMAIN Tail(c.todo) : Tail(c.todo)[i] \in 1 .. Len(log)
  BY <1>1 DEF Sound
<1> HIDE DEF s
<1>5. ASSUME log[s] # <<>>
      PROVE  Known(log, Entry(s)) /\ Entry(s) \in [session : Nat, finished : BOOLEAN]
  <2>1. log[s] \in Seq(Events) /\ Trace(log[s])
    BY <1>2, <1>3 DEF RecordsInv, Logs
  <2>2. Contains(log[s], "started")
    <3>1. log[s][1] = "started" /\ 1 \in 1 .. Len(log[s])
      BY <2>1, <1>5 DEF Trace
    <3> QED
      BY <3>1 DEF Contains
  <2>3. /\ Entry(s).session = s
        /\ Entry(s).finished = \E e \in Closing : Contains(log[s], e)
    BY DEF Entry
  <2> QED
    BY <1>3, <2>2, <2>3 DEF Known, Entry
<1>6. new \in SUBSET [session : Nat, finished : BOOLEAN] /\ \A e \in new : Known(log, e)
  BY <1>5
<1>7. proc' = [proc EXCEPT ![p] = d]
  BY DEF ReadLog, s
<1> HIDE DEF new, c
<1>8. d \in Process
  <2>1. c.found \cup new \in SUBSET [session : Nat, finished : BOOLEAN]
    BY <1>1, <1>6
  <2> QED
    BY <1>1, <1>4, <2>1 DEF Process
<1>9. /\ d.pc = c.pc /\ d.back = c.back /\ d.mine = c.mine /\ d.copy = c.copy
      /\ d.todo = Tail(c.todo) /\ d.found = c.found \cup new
  BY <1>1 DEF Process
<1> HIDE DEF d
<1>10. Stage(d) = Stage(c) /\ (Unopened(d) <=> Unopened(c))
  BY <1>9 DEF Stage, Unopened
<1>11. Sound(d, log)
  BY <1>1, <1>4, <1>6, <1>8, <1>9, <1>10 DEF Sound
<1>12. UNCHANGED <<log, archive, skills, index>> /\ recent' \in Seq(Sessions)
  BY DEF RecordsInv, Disk, ReadLog, files
<1>13. d.mine = Mine(p)
  BY <1>9 DEF Mine, c
<1> QED
  BY <1>7, <1>11, <1>12, <1>13, QuietStep

\* Where a rebuild of a process that has a session leads
LEMMA Returned ==
  ASSUME RecordsInv, NEW p \in Proc, At(p, "scan")
  PROVE  /\ proc[p].back \in Returns \cup {"open"}
         /\ proc[p].back = "open" <=> Mine(p) = 0
         /\ Mine(p) # 0 => Fits(IF proc[p].back = "wrote" THEN "answer" ELSE proc[p].back,
                                log[Mine(p)])
<1>1. Sound(proc[p], log) /\ proc[p].pc = "scan"
  BY DEF RecordsInv, Procs, At
<1>2. proc[p].mine = Mine(p) /\ (Unopened(proc[p]) <=> proc[p].back = "open")
  BY <1>1 DEF Mine, Unopened
<1>3. Stage(proc[p]) = IF proc[p].back = "wrote" THEN "answer" ELSE proc[p].back
  BY <1>1 DEF Stage
<1>4. proc[p].back \in Returns \cup {"open"}
  BY <1>1 DEF Sound, Process
<1> QED
  BY <1>1, <1>2, <1>3, <1>4 DEF Sound

LEMMA CannotReadStep ==
  ASSUME RecordsInv, NEW p \in Proc, CannotRead(p)
  PROVE  RecordsInv'
<1>1. At(p, "scan") /\ UNCHANGED <<log, archive, skills, index>> /\ recent' \in Seq(Sessions)
  BY DEF CannotRead, files, RecordsInv, Disk
<1>2. PICK place \in {"answer", "plan", "idle"} :
        /\ Go(p, place)
        /\ place = "answer" => proc[p].back = "answer"
        /\ place = "plan" => proc[p].back = "wrote"
  <2>1. CASE proc[p].back = "answer"
    BY <2>1 DEF CannotRead
  <2>2. CASE proc[p].back = "wrote" /\ proc[p].kind = "llm"
    BY <2>2 DEF CannotRead
  <2>3. CASE proc[p].back # "answer" /\ ~(proc[p].back = "wrote" /\ proc[p].kind = "llm")
    BY <2>3 DEF CannotRead
  <2> QED
    BY <2>1, <2>2, <2>3
<1>3. place # "idle" => Mine(p) # 0 /\ Fits("answer", log[Mine(p)])
  BY <1>1, <1>2, Returned
<1>4. "answer" \in Early /\ "plan" \in Early
  BY DEF Early
<1>5. place # "idle" => Mine(p) # 0 /\ place \in Early \cup Late /\ Fits(place, log[Mine(p)])
  <2>1. ASSUME NEW l, Fits("answer", l)
        PROVE  Fits("plan", l)
    BY <2>1, <1>4 DEF Fits, Late
  <2> QED
    BY <1>2, <1>3, <1>4, <2>1
<1> QED
  BY <1>1, <1>2, <1>5, GoStep

LEMMA WriteIndexStep ==
  ASSUME RecordsInv, NEW p \in Proc, WriteIndex(p)
  PROVE  RecordsInv'
<1> DEFINE place == IF proc[p].back = "wrote" THEN "answer" ELSE proc[p].back
<1>1. At(p, "scan") /\ Go(p, place) /\ log' = log /\ archive' = archive /\ recent' = recent
      /\ skills' = skills /\ index' = [sessions |-> proc[p].found, skills |-> skills]
  BY DEF WriteIndex
<1>2. Sound(proc[p], log) /\ log \in Seq(Seq(Events)) /\ Extends(log, log)
  BY SameLogs DEF RecordsInv, Procs, Logs
<1>3. \/ place = "idle"
      \/ place = "open" /\ Mine(p) = 0
      \/ Mine(p) # 0 /\ place \in Early \cup Late /\ Fits(place, log[Mine(p)])
  BY <1>1, Returned DEF Returns, Early, Late
<1>4. place \notin {"truncate", "rewrite"}
  BY <1>1, Returned DEF Returns
<1>5. proc' = [proc EXCEPT ![p] = Moved(proc[p], place)]
  BY <1>1, GoMoves
<1> HIDE DEF place
<1>6. Sound(Moved(proc[p], place), log) /\ Moved(proc[p], place).mine \in {0, Mine(p)}
  BY <1>2, <1>3, <1>4, MoveSound DEF Mine
<1>7. log' \in Seq(Seq(Events)) /\ Extends(log, log') /\ Sound(Moved(proc[p], place), log')
  BY <1>1, <1>2, <1>6
<1>8. \A q \in Proc \ {p} : Mine(q) # 0 => log'[Mine(q)] = log[Mine(q)]
  BY <1>1
<1>9. Procs' /\ Apart'
  BY <1>5, <1>6, <1>7, <1>8, ProcStep
<1>10. Logs'
  BY <1>1 DEF RecordsInv, Logs, Sessions
<1>11. \A e \in proc[p].found : Known(log, e)
  BY <1>2 DEF Sound
<1>12. index'.sessions = proc[p].found /\ index'.skills = skills
  BY <1>1
<1>13. Disk'
  BY <1>1, <1>11, <1>12 DEF RecordsInv, Disk, Sessions
<1> QED
  BY <1>9, <1>10, <1>13 DEF RecordsInv

-----------------------------------------------------------------------------
(* The session archive *)

\* Lines that only name sessions which were completed
AllDone(a, L) == a \in Seq(Seq(Nat)) /\ \A i \in DOMAIN a : \A s \in Range(a[i]) : Done(L, s)

LEMMA DoneAppend ==
  ASSUME NEW L, NEW a, AllDone(a, L)
  PROVE  AllDone(Append(a, <<>>), L) /\ Append(a, <<>>) # <<>>
<1>1. a \in Seq(Seq(Nat)) /\ <<>> \in Seq(Nat)
  BY DEF AllDone
<1>2. /\ Append(a, <<>>) \in Seq(Seq(Nat)) /\ Append(a, <<>>) # <<>>
      /\ DOMAIN Append(a, <<>>) = 1 .. Len(a) + 1 /\ DOMAIN a = 1 .. Len(a) /\ Len(a) \in Nat
      /\ \A i \in 1 .. Len(a) : Append(a, <<>>)[i] = a[i]
      /\ Append(a, <<>>)[Len(a) + 1] = <<>>
  BY <1>1, SMTT(30)
<1>3. Range(<<>>) = {}
  BY DEF Range
<1>4. ASSUME NEW i \in 1 .. Len(a) + 1, NEW s \in Range(Append(a, <<>>)[i])
      PROVE  Done(L, s)
  <2>1. i \in 1 .. Len(a)
    BY <1>2, <1>3, <1>4
  <2> QED
    BY <1>2, <1>4, <2>1 DEF AllDone
<1> QED
  BY <1>2, <1>4 DEF AllDone

LEMMA DonePart ==
  ASSUME NEW L, NEW a, AllDone(a, L), NEW m \in Nat \ {0}, NEW n \in 0 .. Len(a), m <= n + 1
  PROVE  AllDone(SubSeq(a, m, n), L) /\ Len(SubSeq(a, m, n)) = n - m + 1
<1>1. a \in Seq(Seq(Nat)) /\ Len(a) \in Nat
  BY DEF AllDone
<1> DEFINE b == SubSeq(a, m, n)
<1>2. \A i \in m .. n : a[i] \in Seq(Nat)
  BY <1>1
<1>3. b \in Seq(Seq(Nat)) /\ Len(b) = n - m + 1
  BY <1>1, <1>2, SubSeqProperties
<1>4. \A i \in 1 .. Len(b) : b[i] = a[m + i - 1] /\ m + i - 1 \in DOMAIN a
  BY <1>1, <1>3, SubSeqProperties
<1>5. DOMAIN b = 1 .. Len(b)
  BY <1>3
<1> HIDE DEF b
<1>6. AllDone(b, L)
  BY <1>3, <1>4, <1>5 DEF AllDone
<1> QED
  BY <1>3, <1>6 DEF b

LEMMA DoneJoin ==
  ASSUME NEW L, NEW a, NEW b, AllDone(a, L), AllDone(b, L)
  PROVE  AllDone(a \o b, L) /\ Len(a \o b) = Len(a) + Len(b)
<1>1. a \in Seq(Seq(Nat)) /\ b \in Seq(Seq(Nat)) /\ Len(a) \in Nat /\ Len(b) \in Nat
  BY DEF AllDone
<1>2. /\ a \o b \in Seq(Seq(Nat)) /\ Len(a \o b) = Len(a) + Len(b)
      /\ \A i \in 1 .. Len(a) + Len(b) : (a \o b)[i] = IF i <= Len(a) THEN a[i] ELSE b[i - Len(a)]
  BY <1>1
<1>3. DOMAIN (a \o b) = 1 .. Len(a) + Len(b) /\ DOMAIN a = 1 .. Len(a) /\ DOMAIN b = 1 .. Len(b)
  BY <1>1, <1>2
<1>4. ASSUME NEW i \in 1 .. Len(a) + Len(b), NEW s \in Range((a \o b)[i])
      PROVE  Done(L, s)
  <2>1. CASE i <= Len(a)
    <3>1. i \in DOMAIN a /\ s \in Range(a[i])
      BY <1>1, <1>2, <1>3, <1>4, <2>1
    <3> QED
      BY <3>1 DEF AllDone
  <2>2. CASE ~(i <= Len(a))
    <3>1. i - Len(a) \in DOMAIN b /\ s \in Range(b[i - Len(a)])
      BY <1>1, <1>2, <1>3, <1>4, <2>2
    <3> QED
      BY <3>1 DEF AllDone
  <2> QED
    BY <2>1, <2>2
<1> QED
  BY <1>2, <1>3, <1>4 DEF AllDone

LEMMA ArchiveStep ==
  ASSUME RecordsInv, NEW p \in Proc, NEW d, proc' = [proc EXCEPT ![p] = d],
         UNCHANGED <<log, recent, skills, index>>, AllDone(archive', log), archive' # <<>>,
         Sound(d, log), d.mine \in {0, Mine(p)}
  PROVE  RecordsInv'
<1>1. log \in Seq(Seq(Events)) /\ Extends(log, log)
  BY SameLogs DEF RecordsInv, Logs
<1>2. log' \in Seq(Seq(Events)) /\ Extends(log, log') /\ Sound(d, log')
  BY <1>1
<1>3. \A q \in Proc \ {p} : Mine(q) # 0 => log'[Mine(q)] = log[Mine(q)]
  OBVIOUS
<1>4. d.mine \in {0, Mine(p)} \/ d.mine = Len(log) + 1
  OBVIOUS
<1>5. Procs' /\ Apart'
  BY <1>2, <1>3, <1>4, ProcStep
<1>6. Logs'
  BY DEF RecordsInv, Logs, Sessions
<1>7. Disk'
  BY DEF RecordsInv, Disk, Sessions, AllDone
<1> QED
  BY <1>5, <1>6, <1>7 DEF RecordsInv

LEMMA GoArchive ==
  ASSUME RecordsInv, NEW p \in Proc, NEW place \in {"newline", "cap", "rewrite"}, Go(p, place),
         UNCHANGED <<log, recent, skills, index>>, AllDone(archive', log), archive' # <<>>,
         Mine(p) # 0, Fits(place, log[Mine(p)]),
         place = "rewrite" => Len(proc[p].copy) = Cap
  PROVE  RecordsInv'
<1>1. log \in Seq(Seq(Events)) /\ Extends(log, log)
  BY SameLogs DEF RecordsInv, Logs
<1>2. Sound(proc[p], log)
  BY DEF RecordsInv, Procs
<1>3. place \in Early \cup Late
  BY DEF Late
<1>4. /\ Sound(Moved(proc[p], place), log)
      /\ Moved(proc[p], place).mine \in {0, Mine(p)}
  BY <1>1, <1>2, <1>3, MoveSound DEF Mine
<1> QED
  BY <1>4, GoMoves, ArchiveStep

\* A process that keeps other lines, and goes on
Copied(c, place, k) == [c EXCEPT !.pc = place, !.copy = k]

LEMMA CopySound ==
  ASSUME NEW L, NEW c, Sound(c, L), c.mine # 0,
         NEW place \in {"truncate", "archived"}, Fits(place, L[c.mine]),
         NEW k, AllDone(k, L), place = "truncate" => Len(k) = Cap
  PROVE  Sound(Copied(c, place, k), L) /\ Copied(c, place, k).mine = c.mine
<1> DEFINE d == Copied(c, place, k)
<1>1. c \in Process /\ place \in Late /\ k \in Seq(Seq(Nat))
  BY DEF Sound, Late, AllDone
<1>2. d \in Process
  BY <1>1 DEF Process, Copied
<1>3. /\ d.pc = place /\ d.copy = k /\ d.back = c.back /\ d.todo = c.todo /\ d.found = c.found
      /\ d.mine = c.mine
  BY <1>1 DEF Process, Copied
<1> HIDE DEF d
<1>4. ~Unopened(d) /\ Stage(d) = place
  BY <1>3 DEF Unopened, Stage
<1>5. Sound(d, L)
  BY <1>2, <1>3, <1>4 DEF Sound, AllDone
<1> QED
  BY <1>3, <1>5 DEF d

LEMMA ArchiveType ==
  ASSUME RecordsInv
  PROVE  AllDone(archive, log) /\ archive # <<>> /\ Len(archive) \in Nat \ {0}
BY DEF RecordsInv, Disk, AllDone

LEMMA LinesDone ==
  ASSUME RecordsInv
  PROVE  /\ AllDone(Lines, log)
         /\ Len(Lines) = Len(archive) - IF Last(archive) = <<>> THEN 1 ELSE 0
<1>1. AllDone(archive, log) /\ archive # <<>> /\ archive \in Seq(Seq(Nat))
      /\ Len(archive) \in Nat \ {0}
  BY ArchiveType DEF AllDone
<1>2. CASE Last(archive) = <<>>
  <2>1. Lines = SubSeq(archive, 1, Len(archive) - 1)
    BY <1>2 DEF Lines, Front
  <2>2. Len(archive) - 1 \in 0 .. Len(archive) /\ 1 <= Len(archive) - 1 + 1
    BY <1>1
  <2>3. \A n \in 0 .. Len(archive) : 1 <= n + 1 =>
          AllDone(SubSeq(archive, 1, n), log) /\ Len(SubSeq(archive, 1, n)) = n - 1 + 1
    BY <1>1, DonePart
  <2>4. AllDone(Lines, log) /\ Len(Lines) = Len(archive) - 1 - 1 + 1
    BY <2>1, <2>2, <2>3
  <2> QED
    BY <1>1, <1>2, <2>4
<1>3. CASE Last(archive) # <<>>
  BY <1>1, <1>3 DEF Lines
<1> QED
  BY <1>2, <1>3

\* A place behind the end of the run asks for no more than any other there.
LEMMA LateMoves ==
  ASSUME NEW l, NEW from \in Late, NEW to \in Late, Fits(from, l)
  PROVE  Fits(to, l)
<1>1. /\ from \notin Early \cup {"start", "tool", "remember", "answer"}
      /\ to \notin Early \cup {"start", "tool", "remember", "answer"}
  BY DEF Early, Late
<1> QED
  BY <1>1 DEF Fits

LEMMA RecordStep ==
  ASSUME RecordsInv, NEW p \in Proc, Record(p)
  PROVE  RecordsInv'
<1> DEFINE n == Len(archive)
<1>1. AllDone(archive, log) /\ archive \in Seq(Seq(Nat)) /\ n \in DOMAIN archive
      /\ n \in Nat
  BY ArchiveType DEF AllDone
<1>2. "archive" \in Late /\ "newline" \in Late /\ "archive" # "idle"
  BY DEF Late
<1>3. Mine(p) \in Sessions /\ Fits("archive", log[Mine(p)])
  BY <1>2, AtPlace DEF Record
<1>4. Mine(p) \in Nat \ {0} /\ Done(log, Mine(p))
  BY <1>2, <1>3, SessionsType DEF Fits, Done
<1>5. Fits("newline", log[Mine(p)])
  BY <1>2, <1>3, LateMoves
<1>6. archive' = [archive EXCEPT ![n] = Append(archive[n], Mine(p))]
  BY DEF Record
<1> HIDE DEF n
<1>7. /\ archive' \in Seq(Seq(Nat)) /\ archive' # <<>> /\ DOMAIN archive' = DOMAIN archive
      /\ archive'[n] = Append(archive[n], Mine(p))
      /\ \A i \in DOMAIN archive : i # n => archive'[i] = archive[i]
  <2>1. archive[n] \in Seq(Nat) /\ Append(archive[n], Mine(p)) \in Seq(Nat)
    BY <1>1, <1>4
  <2> QED
    BY <1>1, <1>6, <2>1
<1>8. \A s \in Range(Append(archive[n], Mine(p))) : s \in Range(archive[n]) \/ s = Mine(p)
  <2>1. archive[n] \in Seq(Nat)
    BY <1>1
  <2> QED
    BY <1>4, <2>1 DEF Range
<1>9. AllDone(archive', log)
  <2>1. ASSUME NEW i \in DOMAIN archive', NEW s \in Range(archive'[i])
        PROVE  Done(log, s)
    <3>1. CASE i = n
      BY <1>1, <1>4, <1>7, <1>8, <3>1 DEF AllDone
    <3>2. CASE i # n
      BY <1>1, <1>7, <3>2 DEF AllDone
    <3> QED
      BY <3>1, <3>2
  <2> QED
    BY <1>7, <2>1 DEF AllDone
<1> QED
  BY <1>4, <1>5, <1>7, <1>9, GoArchive DEF Record

LEMMA NewlineStep ==
  ASSUME RecordsInv, NEW p \in Proc, Newline(p)
  PROVE  RecordsInv'
<1>1. AllDone(archive, log) /\ archive \in Seq(Seq(Nat)) /\ Len(archive) \in Nat
  BY ArchiveType DEF AllDone
<1>2. "newline" \in Late /\ "cap" \in Late /\ "newline" # "idle"
  BY DEF Late
<1>3. Mine(p) \in Sessions /\ Fits("newline", log[Mine(p)])
  BY <1>2, AtPlace DEF Newline
<1>4. Mine(p) # 0 /\ Fits("cap", log[Mine(p)])
  BY <1>2, <1>3, LateMoves, SessionsType
<1>5. archive' = Append(archive, <<>>)
  BY DEF Newline
<1>6. AllDone(archive', log) /\ archive' # <<>>
  BY <1>1, <1>5, DoneAppend
<1> QED
  BY <1>4, <1>6, GoArchive DEF Newline

LEMMA MeasureStep ==
  ASSUME RecordsInv, NEW p \in Proc, Measure(p)
  PROVE  RecordsInv'
<1>1. AllDone(Lines, log)
  BY LinesDone
<1>2. "cap" \in Late /\ "archived" \in Late /\ "truncate" \in Late /\ "cap" # "idle"
  BY DEF Late
<1>3. Mine(p) \in Sessions /\ Fits("cap", log[Mine(p)])
  BY <1>2, AtPlace DEF Measure
<1>4. Mine(p) # 0 /\ Fits("archived", log[Mine(p)]) /\ Fits("truncate", log[Mine(p)])
  BY <1>2, <1>3, LateMoves, SessionsType
<1>5. UNCHANGED <<log, archive, skills, index>> /\ recent' \in Seq(Sessions)
  BY DEF Measure, files, RecordsInv, Disk
<1>6. CASE Len(Lines) <= Cap
  BY <1>2, <1>4, <1>5, <1>6, GoStep DEF Measure
<1>7. CASE ~(Len(Lines) <= Cap)
  <2> DEFINE k == SubSeq(Lines, Len(Lines) - Cap + 1, Len(Lines))
             d == Copied(proc[p], "truncate", k)
  <2>1. Lines \in Seq(Seq(Nat)) /\ Cap \in Nat \ {0} /\ Len(Lines) \in Nat
    BY <1>1, RunRecordsAssumptions DEF AllDone
  <2>2. Len(Lines) - Cap + 1 \in Nat \ {0} /\ Len(Lines) \in 0 .. Len(Lines)
        /\ Len(Lines) - Cap + 1 <= Len(Lines) + 1
    BY <1>7, <2>1
  <2>3. AllDone(k, log) /\ Len(k) = Len(Lines) - (Len(Lines) - Cap + 1) + 1
    BY <1>1, <2>2, DonePart
  <2>4. proc' = [proc EXCEPT ![p] = d]
    BY <1>7 DEF Measure, Copied
  <2>5. Sound(proc[p], log) /\ proc[p].mine = Mine(p)
    BY DEF RecordsInv, Procs, Mine
  <2> HIDE DEF k
  <2>6. Len(k) = Cap
    BY <2>1, <2>3
  <2>7. Sound(d, log) /\ d.mine = Mine(p)
    <3>1. proc[p].mine # 0 /\ Fits("truncate", log[proc[p].mine])
      BY <1>4, <2>5
    <3> QED
      BY <2>3, <2>5, <2>6, <3>1, CopySound
  <2> QED
    BY <1>5, <2>4, <2>7, QuietStep
<1> QED
  BY <1>6, <1>7

LEMMA TruncateStep ==
  ASSUME RecordsInv, NEW p \in Proc, Truncate(p)
  PROVE  RecordsInv'
<1>1. "truncate" \in Late /\ "rewrite" \in Late /\ "truncate" # "idle"
  BY DEF Late
<1>2. Mine(p) \in Sessions /\ Fits("truncate", log[Mine(p)]) /\ Len(proc[p].copy) = Cap
  BY <1>1, AtPlace DEF Truncate
<1>3. Mine(p) # 0 /\ Fits("rewrite", log[Mine(p)])
  BY <1>1, <1>2, LateMoves, SessionsType
<1>4. AllDone(archive', log) /\ archive' # <<>>
  <2>1. archive' = << <<>> >> /\ Range(<<>>) = {}
    BY DEF Truncate, Range
  <2> QED
    BY <2>1 DEF AllDone
<1> QED
  BY <1>2, <1>3, <1>4, GoArchive DEF Truncate

LEMMA RewriteStep ==
  ASSUME RecordsInv, NEW p \in Proc, Rewrite(p) \/ RewriteFails(p)
  PROVE  RecordsInv'
<1> DEFINE k == proc[p].copy
           d == Copied(proc[p], "archived", <<>>)
<1>1. "rewrite" \in Late /\ "archived" \in Late /\ "rewrite" # "idle" /\ At(p, "rewrite")
  BY DEF Late, Rewrite, RewriteFails
<1>2. Mine(p) \in Sessions /\ Fits("rewrite", log[Mine(p)]) /\ Len(k) = Cap
  BY <1>1, AtPlace
<1>3. Mine(p) # 0 /\ Fits("archived", log[Mine(p)])
  BY <1>1, <1>2, LateMoves, SessionsType
<1>4. Sound(proc[p], log) /\ proc[p].mine = Mine(p)
  BY DEF RecordsInv, Procs, Mine
<1>5. AllDone(<<>>, log)
  BY DEF AllDone
<1>6. Sound(d, log) /\ d.mine = Mine(p)
  <2>1. proc[p].mine # 0 /\ Fits("archived", log[proc[p].mine])
    BY <1>3, <1>4
  <2> QED
    BY <1>4, <1>5, <2>1, CopySound
<1>7. proc' = [proc EXCEPT ![p] = d]
  BY DEF Rewrite, RewriteFails, Copied
<1>8. CASE RewriteFails(p)
  <2>1. UNCHANGED <<log, archive, skills, index>> /\ recent' \in Seq(Sessions)
    BY <1>8 DEF RewriteFails, files, RecordsInv, Disk
  <2> QED
    BY <1>6, <1>7, <2>1, QuietStep
<1>9. CASE Rewrite(p)
  <2>1. AllDone(k, log)
    BY <1>4 DEF Sound, Process, AllDone
  <2>2. AllDone(archive, log) /\ archive # <<>>
    BY ArchiveType
  <2>3. k \in Seq(Seq(Nat)) /\ archive \in Seq(Seq(Nat)) /\ Len(k) \in Nat /\ Len(archive) \in Nat
        /\ Range(<<>>) = {}
    BY <2>1, <2>2 DEF AllDone, Range
  <2>4. archive' = IF Len(archive) <= Len(k) THEN Append(k, <<>>)
                   ELSE k \o SubSeq(archive, Len(k) + 1, Len(archive))
    BY <1>9 DEF Rewrite
  <2> HIDE DEF k
  <2>5. AllDone(archive', log) /\ archive' # <<>>
    <3>1. CASE Len(archive) <= Len(k)
      <4>1. archive' = Append(k, <<>>)
        BY <2>4, <3>1
      <4> QED
        BY <2>1, <4>1, DoneAppend
    <3>2. CASE ~(Len(archive) <= Len(k))
      <4> DEFINE b == SubSeq(archive, Len(k) + 1, Len(archive))
      <4>1. Len(k) + 1 \in Nat \ {0} /\ Len(archive) \in 0 .. Len(archive)
            /\ Len(k) + 1 <= Len(archive) + 1
        BY <2>3, <3>2
      <4>2. AllDone(b, log) /\ Len(b) = Len(archive) - (Len(k) + 1) + 1
        BY <2>2, <4>1, DonePart
      <4>3. archive' = k \o b
        BY <2>4, <3>2
      <4> HIDE DEF b
      <4>4. AllDone(archive', log) /\ Len(archive') = Len(k) + Len(b)
        BY <2>1, <4>2, <4>3, DoneJoin
      <4> QED
        BY <2>3, <3>2, <4>2, <4>4
    <3> QED
      BY <3>1, <3>2
  <2>6. UNCHANGED <<log, recent, skills, index>>
    BY <1>9 DEF Rewrite
  <2> QED
    BY <1>6, <1>7, <2>5, <2>6, ArchiveStep
<1> QED
  BY <1>8, <1>9

-----------------------------------------------------------------------------
(* One run *)

LEMMA RebuildStep ==
  ASSUME RecordsInv, NEW p \in Proc, NEW place \in Returns, Rebuild(p, place),
         UNCHANGED <<log, archive, skills, index>>, recent' = recent,
         Mine(p) # 0, Fits(IF place = "wrote" THEN "answer" ELSE place, log[Mine(p)])
  PROVE  RecordsInv'
<1>1. Sound(proc[p], log) /\ proc[p].mine = Mine(p) /\ log \in Seq(Seq(Events))
  BY DEF RecordsInv, Procs, Mine, Logs
<1>2. Listing \in Seq(1 .. Len(log))
  BY ListingType, SessionsType
<1>3. proc[p].mine # 0 /\ Fits(IF place = "wrote" THEN "answer" ELSE place, log[proc[p].mine])
  BY <1>1
<1>4. /\ Sound(Rebuilding(proc[p], place, Listing), log)
      /\ Rebuilding(proc[p], place, Listing).mine = Mine(p)
  BY <1>1, <1>2, <1>3, RebuildSound
<1>5. proc' = [proc EXCEPT ![p] = Rebuilding(proc[p], place, Listing)]
  BY DEF Rebuild, Rebuilding
<1>6. recent' \in Seq(Sessions)
  BY DEF RecordsInv, Disk
<1> QED
  BY <1>4, <1>5, <1>6, QuietStep

\* A place where only the program decides what comes next
LEMMA ChoiceStep ==
  ASSUME RecordsInv, NEW p \in Proc, NEW from \in {"plan", "setup", "tool"}, At(p, from),
         UNCHANGED files,
         \/ Go(p, "idle")
         \/ \E to \in {"broken", "reflect", "give_up", "call"} : Go(p, to)
         \/ from = "tool" /\ \E to \in {"answer", "remember"} : Go(p, to)
         \/ from = "tool" /\ \E to \in {"answer", "wrote"} : Rebuild(p, to)
  PROVE  RecordsInv'
<1>1. from \in Early /\ from \notin Late /\ from # "idle" /\ from # "start"
  BY DEF Early, Late
<1>2. Mine(p) \in Sessions /\ Fits(from, log[Mine(p)])
  BY <1>1, AtPlace
<1>3. Mine(p) # 0
  BY <1>2, SessionsType
<1>4. UNCHANGED <<log, archive, skills, index>> /\ recent' = recent /\ recent' \in Seq(Sessions)
  BY DEF files, RecordsInv, Disk
<1>5. ASSUME Go(p, "idle")
      PROVE  RecordsInv'
  BY <1>4, <1>5, GoStep
<1>6. ASSUME NEW to \in {"broken", "reflect", "give_up", "call"}, Go(p, to)
      PROVE  RecordsInv'
  <2>1. to \in Early /\ to \notin Late /\ to \notin {"start", "tool", "remember", "answer"}
    BY DEF Early, Late
  <2>2. Fits(to, log[Mine(p)])
    BY <1>1, <1>2, <2>1 DEF Fits
  <2>3. to \notin {"truncate", "rewrite"}
    BY DEF Early
  <2> QED
    BY <1>3, <1>4, <1>6, <2>1, <2>2, <2>3, GoStep
<1>7. ASSUME from = "tool"
      PROVE  Fits("answer", log[Mine(p)]) /\ Fits("remember", log[Mine(p)])
  <2>1. /\ "answer" \in Early /\ "answer" \notin Late
        /\ "remember" \in Early /\ "remember" \notin Late
    BY DEF Early, Late
  <2> QED
    BY <1>1, <1>2, <1>7, <2>1 DEF Fits
<1>8. ASSUME from = "tool", NEW to \in {"answer", "remember"}, Go(p, to)
      PROVE  RecordsInv'
  <2>1. to \in Early /\ to \notin {"truncate", "rewrite"} /\ Fits(to, log[Mine(p)])
    BY <1>7, <1>8 DEF Early
  <2> QED
    BY <1>3, <1>4, <1>8, <2>1, GoStep
<1>9. ASSUME from = "tool", NEW to \in {"answer", "wrote"}, Rebuild(p, to)
      PROVE  RecordsInv'
  <2>1. to \in Returns /\ Fits(IF to = "wrote" THEN "answer" ELSE to, log[Mine(p)])
    BY <1>7, <1>9 DEF Returns
  <2> QED
    BY <1>3, <1>4, <1>9, <2>1, RebuildStep
<1> QED
  BY <1>5, <1>6, <1>8, <1>9

LEMMA ArchivedStep ==
  ASSUME RecordsInv, NEW p \in Proc, Archived(p)
  PROVE  RecordsInv'
<1>1. "archived" \in Late /\ "learn" \in Late /\ "idle" \in Late /\ "archived" # "idle"
  BY DEF Late
<1>2. Mine(p) \in Sessions /\ Fits("archived", log[Mine(p)])
  BY <1>1, AtPlace DEF Archived
<1>3. Mine(p) # 0 /\ Fits("learn", log[Mine(p)]) /\ Fits("idle", log[Mine(p)])
  BY <1>1, <1>2, LateMoves, SessionsType
<1>4. PICK place \in {"learn", "idle"} : Rebuild(p, place)
  BY DEF Archived
<1>5. place \in Returns /\ Fits(IF place = "wrote" THEN "answer" ELSE place, log[Mine(p)])
  BY <1>3 DEF Returns
<1>6. UNCHANGED <<log, archive, skills, index>> /\ recent' = recent
  BY DEF Archived, files
<1> QED
  BY <1>3, <1>4, <1>5, <1>6, RebuildStep

LEMMA LearnStep ==
  ASSUME RecordsInv, NEW p \in Proc, Learn(p)
  PROVE  RecordsInv'
<1>1. "learn" \in Late /\ "learned" \in Late /\ "learn" # "idle"
  BY DEF Late
<1>2. Mine(p) \in Sessions /\ Fits("learn", log[Mine(p)])
  BY <1>1, AtPlace DEF Learn
<1>3. Mine(p) # 0 /\ Fits("learned", log[Mine(p)]) /\ Done(log, Mine(p))
  <2>1. Fits("learned", log[Mine(p)])
    BY <1>1, <1>2, LateMoves
  <2>2. Contains(log[Mine(p)], "completed")
    BY <1>1, <1>2 DEF Fits
  <2> QED
    BY <1>2, <2>1, <2>2, SessionsType DEF Done
<1>4. UNCHANGED <<log, archive, index, recent>> /\ skills' = skills \cup {Mine(p)}
  BY DEF Learn
<1>5. Sound(proc[p], log) /\ proc[p].mine = Mine(p) /\ log \in Seq(Seq(Events))
  BY DEF RecordsInv, Procs, Mine, Logs
<1>6. Listing \in Seq(1 .. Len(log))
  BY ListingType, SessionsType
<1> DEFINE d == Rebuilding(proc[p], "learned", Listing)
<1>7. Sound(d, log) /\ d.mine = Mine(p)
  <2>1. "learned" \in Returns /\ proc[p].mine # 0 /\ Fits("learned", log[proc[p].mine])
    BY <1>3, <1>5 DEF Returns
  <2> QED
    BY <1>5, <1>6, <2>1, RebuildSound
<1>8. proc' = [proc EXCEPT ![p] = d]
  BY DEF Learn, Rebuild, Rebuilding
<1> HIDE DEF d
<1>9. log' \in Seq(Seq(Events)) /\ Extends(log, log') /\ Sound(d, log')
  BY <1>4, <1>5, <1>7, SameLogs
<1>10. \A q \in Proc \ {p} : Mine(q) # 0 => log'[Mine(q)] = log[Mine(q)]
  BY <1>4
<1>11. Procs' /\ Apart'
  BY <1>7, <1>8, <1>9, <1>10, ProcStep
<1>12. Logs'
  BY <1>4 DEF RecordsInv, Logs, Sessions
<1>13. Disk'
  <2>1. \A s \in skills' : Done(log, s)
    BY <1>3, <1>4 DEF RecordsInv, Disk
  <2>2. index'.skills \subseteq skills'
    BY <1>4 DEF RecordsInv, Disk
  <2> QED
    BY <1>4, <2>1, <2>2 DEF RecordsInv, Disk, Sessions
<1> QED
  BY <1>11, <1>12, <1>13 DEF RecordsInv

LEMMA BeginStep ==
  ASSUME RecordsInv, NEW p \in Proc, NEW kind \in Kinds, NEW learn \in BOOLEAN,
         Begin(p, kind, learn)
  PROVE  RecordsInv'
<1> DEFINE place == IF kind = "tool" THEN "open" ELSE "scan"
           list == IF kind = "tool" THEN <<>> ELSE Listing
           d == [Idle EXCEPT !.kind = kind, !.learn = learn, !.pc = place, !.todo = list]
<1>1. proc' = [proc EXCEPT ![p] = d]
  BY DEF Begin
<1>2. Len(log) \in Nat /\ Sessions = 1 .. Len(log) /\ Listing \in Seq(Sessions)
  BY ListingType, SessionsType
<1>3. list \in Seq(Nat) /\ \A i \in DOMAIN list : list[i] \in 1 .. Len(log)
  <2>1. Listing \in Seq(Nat) /\ \A i \in DOMAIN Listing : Listing[i] \in 1 .. Len(log)
    BY <1>2
  <2>2. <<>> \in Seq(Nat) /\ DOMAIN <<>> = {}
    OBVIOUS
  <2> QED
    BY <2>1, <2>2
<1>4. place \in {"open", "scan"}
  OBVIOUS
<1> HIDE DEF place, list
<1>5. Idle \in Process /\ Idle.mine = 0 /\ Idle.found = {} /\ Idle.copy = <<>>
      /\ Idle.back = "open"
  <2>1. Sound(Idle, log)
    BY IdleSound, SessionsType
  <2> QED
    BY <2>1 DEF Sound, Idle
<1>6. /\ d \in Process
      /\ d.pc = place /\ d.mine = 0 /\ d.found = {} /\ d.copy = <<>> /\ d.todo = list
      /\ d.back = "open"
  <2>1. place \in Early \cup Late \cup {"open", "scan"}
    BY <1>4
  <2> QED
    BY <1>3, <1>5, <2>1 DEF Process
<1> HIDE DEF d
<1>7. Unopened(d)
  BY <1>4, <1>6 DEF Unopened
<1>8. Sound(d, log)
  BY <1>2, <1>3, <1>4, <1>6, <1>7 DEF Sound
<1>9. UNCHANGED <<log, archive, skills, index>> /\ recent' \in Seq(Sessions)
  BY DEF Begin, files, RecordsInv, Disk
<1> QED
  BY <1>1, <1>6, <1>8, <1>9, QuietStep

LEMMA CrashStep ==
  ASSUME RecordsInv, NEW p \in Proc, Crash(p)
  PROVE  RecordsInv'
<1>1. UNCHANGED <<log, archive, skills, index>> /\ recent' \in Seq(Sessions)
  BY DEF Crash, files, RecordsInv, Disk
<1>2. Go(p, "idle")
  BY DEF Crash
<1> QED
  BY <1>1, <1>2, GoStep

-----------------------------------------------------------------------------
(* The records agree, and the logs can be replayed *)

LEMMA InitRecords == Init => RecordsInv
<1> SUFFICES ASSUME Init
             PROVE  RecordsInv
  OBVIOUS
<1>1. log = <<>> /\ Len(log) = 0 /\ Sessions = {} /\ log \in Seq(Seq(Events))
  BY DEF Init, Sessions
<1>2. Logs
  BY <1>1 DEF Logs
<1>3. proc = [p \in Proc |-> Idle] /\ Sound(Idle, log)
  BY <1>1, IdleSound DEF Init
<1>4. Procs
  BY <1>3 DEF Procs, Sound
<1>5. Apart
  BY <1>3 DEF Apart, Mine, Idle
<1>6. Disk
  <2>1. Range(<<>>) = {}
    BY DEF Range
  <2> QED
    BY <2>1 DEF Init, Disk
<1> QED
  BY <1>2, <1>4, <1>5, <1>6 DEF RecordsInv

\* The steps that write a line of the session
LEMMA LineStep ==
  ASSUME RecordsInv, NEW p \in Proc,
         Started(p) \/ Call(p) \/ Remember(p) \/ Answer(p) \/ Close(p) \/ Learned(p)
  PROVE  RecordsInv'
<1>1. CASE Started(p)
  <2>1. FirstStep(p) \in Wrote("start", "started")
    BY DEF FirstStep, Wrote
  <2> QED
    BY <1>1, <2>1, WriteStep DEF Started
<1>2. CASE Call(p)
  <2>1. "tool" \in Wrote("call", "call")
    BY DEF Wrote
  <2> QED
    BY <1>2, <2>1, WriteStep DEF Call
<1>3. CASE Remember(p)
  <2>1. "answer" \in Wrote("remember", "remembered")
    BY DEF Wrote
  <2> QED
    BY <1>3, <2>1, WriteStep DEF Remember
<1>4. CASE Answer(p)
  <2>1. (IF proc[p].kind = "llm" THEN "plan" ELSE "close") \in Wrote("answer", "result")
    BY DEF Wrote
  <2> QED
    BY <1>4, <2>1, WriteStep DEF Answer
<1>5. CASE Close(p)
  <2>1. /\ "idle" \in Wrote("broken", "failed")
        /\ "idle" \in Wrote("give_up", "exceeded")
        /\ "close" \in Wrote("reflect", "reflection")
        /\ (IF proc[p].kind = "llm" THEN "archive" ELSE "idle") \in Wrote("close", "completed")
        /\ "noted" \in Wrote("note", "checkpoint")
        /\ "idle" \in Wrote("noted", "recorded")
    BY DEF Wrote
  <2> QED
    BY <1>5, <2>1, WriteStep DEF Close
<1>6. CASE Learned(p)
  <2>1. "settle" \in Wrote("learned", "checkpoint") /\ "idle" \in Wrote("settle", "settled")
    BY DEF Wrote
  <2> QED
    BY <1>6, <2>1, WriteStep DEF Learned
<1> QED
  BY <1>1, <1>2, <1>3, <1>4, <1>5, <1>6

\* The steps that decide where a run goes on
LEMMA DecideStep ==
  ASSUME RecordsInv, NEW p \in Proc, Plan(p) \/ Execute(p) \/ Setup(p)
  PROVE  RecordsInv'
<1>1. CASE Plan(p)
  BY <1>1, ChoiceStep DEF Plan
<1>2. CASE Execute(p)
  BY <1>2, ChoiceStep DEF Execute
<1>3. CASE Setup(p)
  BY <1>3, ChoiceStep DEF Setup
<1> QED
  BY <1>1, <1>2, <1>3

LEMMA NextRecords == RecordsInv /\ [Next]_vars => RecordsInv'
<1> SUFFICES ASSUME RecordsInv, [Next]_vars
             PROVE  RecordsInv'
  OBVIOUS
<1>1. ASSUME NEW p \in Proc, Step(p)
      PROVE  RecordsInv'
  BY <1>1, StartStep, LineStep, DecideStep, ReadLogStep, CannotReadStep, WriteIndexStep,
     RecordStep, NewlineStep, MeasureStep, TruncateStep, RewriteStep, ArchivedStep, LearnStep
  DEF Step
<1>2. ASSUME NEW p \in Proc, Crash(p)
      PROVE  RecordsInv'
  BY <1>2, CrashStep
<1>3. ASSUME NEW p \in Proc, NEW kind \in Kinds, NEW learn \in BOOLEAN, Begin(p, kind, learn)
      PROVE  RecordsInv'
  BY <1>3, BeginStep
<1>4. CASE UNCHANGED vars
  BY <1>4 DEF vars, files, RecordsInv, Logs, Procs, Apart, Disk, Mine, Sessions
<1> QED
  BY <1>1, <1>2, <1>3, <1>4 DEF Next

LEMMA RecordsInvariance == Spec => []RecordsInv
  BY InitRecords, NextRecords, PTL DEF Spec

LEMMA InvAgrees == RecordsInv => RecordsAgree
<1> SUFFICES ASSUME RecordsInv
             PROVE  RecordsAgree
  OBVIOUS
<1>1. Sessions = 1 .. Len(log)
  BY SessionsType
<1>2. \A i \in DOMAIN archive : \A s \in Range(archive[i]) :
        s \in Sessions /\ Contains(log[s], "completed")
  BY <1>1 DEF RecordsInv, Disk, Done
<1>3. \A e \in index.sessions :
        /\ e.session \in Sessions /\ Contains(log[e.session], "started")
        /\ e.finished => Entry(e.session).finished
  <2>1. \A s : Entry(s).finished = \E c \in Closing : Contains(log[s], c)
    BY DEF Entry
  <2>2. \A e \in index.sessions : Known(log, e)
    BY DEF RecordsInv, Disk
  <2> QED
    BY <1>1, <2>1, <2>2 DEF Known
<1>4. index.skills \subseteq skills /\ \A s \in skills : Contains(log[s], "completed")
  BY DEF RecordsInv, Disk, Done
<1> QED
  BY <1>2, <1>3, <1>4 DEF RecordsAgree

\* However processes interleave and wherever they are killed, what the session archive,
\* the memory index and the learned skills say of a run is what its log says
\* (append_session_archive_record, collect_session_archive, record_reflection).
THEOREM RecordsStayTrue == Spec => []RecordsAgree
  BY RecordsInvariance, InvAgrees, PTL

LEMMA AtMostOne ==
  ASSUME NEW S, \A i, k \in S : i = k
  PROVE  Cardinality(S) <= 1
<1>1. CASE S = {}
  BY <1>1, FS_EmptySet
<1>2. CASE S # {}
  <2>1. PICK i \in S : TRUE
    BY <1>2
  <2>2. S = {i}
    BY <2>1
  <2>3. Cardinality(S) = 1
    <3>1. \A x : Cardinality({x}) = 1
      BY FS_Singleton
    <3> QED
      BY <2>2, <3>1
  <2> QED
    BY <2>3
<1> QED
  BY <1>1, <1>2

LEMMA InvTraces == RecordsInv => LogsAreTraces
<1> SUFFICES ASSUME RecordsInv, NEW s \in Sessions
             PROVE  LET Where(E) == {i \in DOMAIN log[s] : log[s][i] \in E}
                        Before(E, i) == Cardinality({k \in Where(E) : k <= i})
                    IN /\ log[s] # <<>> => log[s][1] = "started"
                       /\ Cardinality(Where(Closing)) <= 1
                       /\ \A i \in DOMAIN log[s] :
                            Before({"result"}, i) <= Before({"call"}, i)
                       /\ \A i \in Where(Closing), k \in DOMAIN log[s] :
                            k > i => log[s][k] \in {"checkpoint", "settled"}
                       /\ \A i \in Where({"remembered"}) : log[s][i - 1] = "call"
  BY DEF LogsAreTraces
<1> DEFINE Where(E) == {i \in DOMAIN log[s] : log[s][i] \in E}
           Before(E, i) == Cardinality({k \in Where(E) : k <= i})
<1>1. log[s] \in Seq(Events) /\ Trace(log[s]) /\ DOMAIN log[s] = 1 .. Len(log[s])
      /\ Len(log[s]) \in Nat
  BY SessionsType DEF RecordsInv, Logs
<1>2. \A E, i : Before(E, i) = Until(log[s], E, i)
  <2> SUFFICES ASSUME NEW E, NEW i
               PROVE  Before(E, i) = Until(log[s], E, i)
    OBVIOUS
  <2>1. {k \in Where(E) : k <= i} = {k \in DOMAIN log[s] : log[s][k] \in E /\ k <= i}
    OBVIOUS
  <2> QED
    BY <2>1 DEF Until
<1>3. Cardinality(Where(Closing)) <= 1
  <2>1. ASSUME NEW i \in Where(Closing), NEW k \in Where(Closing), k > i
        PROVE  FALSE
    BY <1>1, <2>1 DEF Trace, Closing
  <2>2. \A i, k \in Where(Closing) : i = k
    BY <1>1, <2>1
  <2> QED
    BY <2>2, AtMostOne
<1>4. \A i \in DOMAIN log[s] : Before({"result"}, i) <= Before({"call"}, i)
  BY <1>1, <1>2 DEF Trace
<1>5. \A i \in Where(Closing), k \in DOMAIN log[s] :
        k > i => log[s][k] \in {"checkpoint", "settled"}
  BY <1>1 DEF Trace
<1>6. \A i \in Where({"remembered"}) : log[s][i - 1] = "call"
  BY <1>1 DEF Trace
<1>7. log[s] # <<>> => log[s][1] = "started"
  BY <1>1 DEF Trace
<1> QED
  BY <1>3, <1>4, <1>5, <1>6, <1>7

\* Every session log can be replayed, whoever was killed in the middle of a line:
\* results follow their calls, one end at most, and only learning behind it
\* (execute_call_with_turn, finalize_llm_run_outcome).
THEOREM LogsStayTraces == Spec => []LogsAreTraces
  BY RecordsInvariance, InvTraces, PTL

-----------------------------------------------------------------------------
(* The archive stays within its cap *)

Between == {"newline", "cap", "truncate"}
Writing == {p \in Proc : proc[p].pc = "newline"}
Rotating == {p \in Proc : proc[p].pc \in {"cap", "truncate"}}

\* A record counts once its newline is out, or its writer is gone: beyond the cap there
\* is one process that will rotate for each, or one that was killed before it did.
ArchiveCount ==
  /\ unrotated \in Nat
  /\ Len(archive) - 1 + (IF Last(archive) # <<>> /\ Writing = {} THEN 1 ELSE 0)
       <= Cap + unrotated + Cardinality(Rotating)

BoundInv == RecordsInv /\ ArchiveCount

LEMMA ProcFinite ==
  /\ IsFiniteSet(Writing) /\ Cardinality(Writing) \in Nat
  /\ IsFiniteSet(Rotating) /\ Cardinality(Rotating) \in Nat
<1>1. IsFiniteSet(Proc) /\ Writing \in SUBSET Proc /\ Rotating \in SUBSET Proc
  BY RunRecordsAssumptions DEF Writing, Rotating
<1>2. IsFiniteSet(Writing) /\ IsFiniteSet(Rotating)
  BY <1>1, FS_Subset
<1> QED
  BY <1>2, FS_CardinalityType

\* One process comes or goes.
LEMMA OneMoves ==
  ASSUME proc \in [Proc -> Process], NEW p \in Proc, NEW d, proc' = [proc EXCEPT ![p] = d]
  PROVE  /\ d.pc = "newline" => Writing' # {}
         /\ proc[p].pc # "newline" /\ d.pc # "newline" => Writing' = Writing
         /\ Cardinality(Rotating)' =
              Cardinality(Rotating) - (IF proc[p].pc \in {"cap", "truncate"} THEN 1 ELSE 0)
                                    + (IF d.pc \in {"cap", "truncate"} THEN 1 ELSE 0)
<1>1. proc'[p] = d /\ \A q \in Proc : q # p => proc'[q] = proc[q]
  OBVIOUS
<1>2. d.pc = "newline" => Writing' # {}
  BY <1>1 DEF Writing
<1>3. proc[p].pc # "newline" /\ d.pc # "newline" => Writing' = Writing
  BY <1>1 DEF Writing
<1>4. IsFiniteSet(Rotating) /\ Cardinality(Rotating) \in Nat
  BY ProcFinite
<1>5. IsFiniteSet(Rotating \ {p})
      /\ Cardinality(Rotating \ {p}) = Cardinality(Rotating) - IF p \in Rotating THEN 1 ELSE 0
  BY <1>4, FS_RemoveElement
<1>6. Cardinality((Rotating \ {p}) \cup {p}) = Cardinality(Rotating \ {p}) + 1
  BY <1>5, FS_AddElement
<1>7. Rotating' = IF d.pc \in {"cap", "truncate"} THEN (Rotating \ {p}) \cup {p} ELSE Rotating \ {p}
  BY <1>1 DEF Rotating
<1>8. p \in Rotating <=> proc[p].pc \in {"cap", "truncate"}
  BY DEF Rotating
<1>9. Cardinality(Rotating \ {p}) =
        Cardinality(Rotating) - IF proc[p].pc \in {"cap", "truncate"} THEN 1 ELSE 0
  BY <1>5, <1>8
<1>10. Cardinality(Rotating)' =
         Cardinality(Rotating \ {p}) + IF d.pc \in {"cap", "truncate"} THEN 1 ELSE 0
  <2>1. CASE d.pc \in {"cap", "truncate"}
    BY <1>6, <1>7, <2>1
  <2>2. CASE d.pc \notin {"cap", "truncate"}
    <3>1. Cardinality(Rotating \ {p}) \in Nat
      BY <1>5, FS_CardinalityType
    <3> QED
      BY <1>7, <2>2, <3>1
  <2> QED
    BY <2>1, <2>2
<1> QED
  BY <1>2, <1>3, <1>9, <1>10

LEMMA BoundType ==
  ASSUME BoundInv
  PROVE  /\ proc \in [Proc -> Process] /\ unrotated \in Nat /\ Cap \in Nat \ {0}
         /\ archive \in Seq(Seq(Nat)) /\ Len(archive) \in Nat \ {0}
         /\ Cardinality(Rotating) \in Nat
<1>1. Len(archive) \in Nat \ {0} /\ archive \in Seq(Seq(Nat))
  BY ArchiveType DEF BoundInv, AllDone
<1> QED
  BY <1>1, ProcFinite, RunRecordsAssumptions DEF BoundInv, RecordsInv, Procs, ArchiveCount

\* Steps of a process that is not between its record and the rotation
LEMMA Elsewhere ==
  ASSUME BoundInv, NEW p \in Proc, NEW d, proc' = [proc EXCEPT ![p] = d],
         proc[p].pc \notin Between, d.pc \notin Between,
         archive' = archive, unrotated' = unrotated
  PROVE  ArchiveCount'
<1>1. /\ proc \in [Proc -> Process] /\ unrotated \in Nat /\ Cap \in Nat \ {0}
      /\ Len(archive) \in Nat \ {0} /\ Cardinality(Rotating) \in Nat
  BY BoundType
<1>2. Writing' = Writing
      /\ Cardinality(Rotating)' =
              Cardinality(Rotating) - (IF proc[p].pc \in {"cap", "truncate"} THEN 1 ELSE 0)
                                    + (IF d.pc \in {"cap", "truncate"} THEN 1 ELSE 0)
  BY <1>1, OneMoves DEF Between
<1>3. Cardinality(Rotating)' = Cardinality(Rotating)
  BY <1>1, <1>2 DEF Between
<1> QED
  BY <1>1, <1>2, <1>3 DEF BoundInv, ArchiveCount

LEMMA GoElsewhere ==
  ASSUME BoundInv, NEW p \in Proc, NEW place, Go(p, place),
         proc[p].pc \notin Between, place \notin Between,
         archive' = archive, unrotated' = unrotated
  PROVE  ArchiveCount'
<1>1. proc[p] \in Process
  BY BoundType
<1>2. Moved(proc[p], place).pc = place
  BY <1>1 DEF Moved, Idle, Process
<1> QED
  BY <1>2, GoMoves, Elsewhere

\* Steps that neither touch the archive nor lead to it
LEMMA FarSteps ==
  ASSUME BoundInv, NEW p \in Proc,
         \/ Start(p) \/ Started(p) \/ Plan(p) \/ Call(p) \/ Execute(p)
         \/ Remember(p) \/ Answer(p) \/ Setup(p) \/ Close(p)
         \/ ReadLog(p) \/ CannotRead(p) \/ WriteIndex(p)
         \/ RewriteFails(p) \/ Archived(p) \/ Learn(p) \/ Learned(p)
  PROVE  ArchiveCount'
<1>1. proc[p] \in Process
  BY BoundType
<1>2. ASSUME NEW from, NEW event, NEW to, Write(p, from, event, to),
             from \notin Between, to \notin Between
      PROVE  ArchiveCount'
  <2>1. CASE At(p, from) /\ BeginLine(p, from)
    BY <1>2, <2>1, GoElsewhere DEF BeginLine, At
  <2>2. CASE At(p, from) /\ EndLine(p, event, to)
    BY <1>2, <2>2, GoElsewhere DEF EndLine, At
  <2> QED
    BY <1>2, <2>1, <2>2 DEF Write
<1>3. ASSUME NEW place, Rebuild(p, place), proc[p].pc \notin Between,
             archive' = archive, unrotated' = unrotated
      PROVE  ArchiveCount'
  <2>1. proc' = [proc EXCEPT ![p] = Rebuilding(proc[p], place, Listing)]
    BY <1>3 DEF Rebuild, Rebuilding
  <2>2. Rebuilding(proc[p], place, Listing).pc = "scan"
    BY <1>1 DEF Rebuilding, Process
  <2>3. "scan" \notin Between
    BY DEF Between
  <2> QED
    BY <1>3, <2>1, <2>2, <2>3, Elsewhere
<1>4. CASE Start(p)
  <2> DEFINE d == [proc[p] EXCEPT !.pc = "start", !.mine = Len(log) + 1]
  <2>1. proc' = [proc EXCEPT ![p] = d] /\ proc[p].pc \notin Between
        /\ archive' = archive /\ unrotated' = unrotated
    BY <1>4 DEF Start, At, Between
  <2>2. d.pc \notin Between
    BY <1>1 DEF Process, Between
  <2> HIDE DEF d
  <2> QED
    BY <2>1, <2>2, Elsewhere
<1>5. CASE Started(p)
  BY <1>5, <1>2 DEF Started, FirstStep, Between
<1>6. CASE Call(p) \/ Remember(p)
  BY <1>6, <1>2 DEF Call, Remember, Between
<1>7. CASE Answer(p)
  BY <1>7, <1>2 DEF Answer, Between
<1>8. CASE Close(p)
  <2>1. (IF proc[p].kind = "llm" THEN "archive" ELSE "idle") \notin Between
    BY DEF Between
  <2>2. /\ "broken" \notin Between /\ "give_up" \notin Between /\ "reflect" \notin Between
        /\ "close" \notin Between /\ "note" \notin Between /\ "noted" \notin Between
        /\ "idle" \notin Between
    BY DEF Between
  <2> QED
    BY <1>2, <1>8, <2>1, <2>2 DEF Close
<1>9. CASE Learned(p)
  BY <1>9, <1>2 DEF Learned, Between
<1>10. CASE Plan(p) \/ Setup(p) \/ Execute(p)
  <2>1. proc[p].pc \notin Between /\ archive' = archive /\ unrotated' = unrotated
    BY <1>10 DEF Plan, Setup, Execute, At, Between, files
  <2>2. \/ \E place \in {"broken", "reflect", "give_up", "call", "idle", "answer", "remember"} :
             Go(p, place)
        \/ Rebuild(p, "answer") \/ Rebuild(p, "wrote")
    BY <1>10 DEF Plan, Setup, Execute
  <2>3. \A place \in {"broken", "reflect", "give_up", "call", "idle", "answer", "remember"} :
          place \notin Between
    BY DEF Between
  <2> QED
    BY <1>3, <2>1, <2>2, <2>3, GoElsewhere
<1>11. CASE ReadLog(p)
  <2> DEFINE s == Head(proc[p].todo)
             d == [proc[p] EXCEPT !.todo = Tail(@),
                                  !.found = @ \cup IF log[s] = <<>> THEN {} ELSE {Entry(s)}]
  <2>1. proc' = [proc EXCEPT ![p] = d] /\ proc[p].pc \notin Between
        /\ archive' = archive /\ unrotated' = unrotated
    BY <1>11 DEF ReadLog, At, Between, files
  <2>2. d.pc = proc[p].pc
    BY <1>1 DEF Process
  <2> HIDE DEF d
  <2> QED
    BY <2>1, <2>2, Elsewhere
<1>12. CASE CannotRead(p)
  <2>1. proc[p].pc \notin Between /\ archive' = archive /\ unrotated' = unrotated
    BY <1>12 DEF CannotRead, At, Between, files
  <2>2. \E place \in {"answer", "plan", "idle"} : Go(p, place)
    BY <1>12 DEF CannotRead
  <2>3. \A place \in {"answer", "plan", "idle"} : place \notin Between
    BY DEF Between
  <2> QED
    BY <2>1, <2>2, <2>3, GoElsewhere
<1>13. CASE WriteIndex(p)
  <2> DEFINE place == IF proc[p].back = "wrote" THEN "answer" ELSE proc[p].back
  <2>1. proc[p].pc \notin Between /\ archive' = archive /\ unrotated' = unrotated /\ Go(p, place)
    BY <1>13 DEF WriteIndex, At, Between
  <2>2. place \notin Between
    BY <1>1 DEF Process, Returns, Between
  <2> HIDE DEF place
  <2> QED
    BY <2>1, <2>2, GoElsewhere
<1>14. CASE RewriteFails(p)
  <2>1. proc' = [proc EXCEPT ![p] = Copied(proc[p], "archived", <<>>)] /\ proc[p].pc \notin Between
        /\ archive' = archive /\ unrotated' = unrotated
    BY <1>14 DEF RewriteFails, Copied, At, Between, files
  <2>2. Copied(proc[p], "archived", <<>>).pc \notin Between
    BY <1>1 DEF Process, Copied, Between
  <2> QED
    BY <2>1, <2>2, Elsewhere
<1>15. CASE Archived(p) \/ Learn(p)
  <2>1. proc[p].pc \notin Between /\ archive' = archive /\ unrotated' = unrotated
    BY <1>15 DEF Archived, Learn, At, Between, files
  <2> QED
    BY <1>3, <1>15, <2>1 DEF Archived, Learn
<1> QED
  BY <1>4, <1>5, <1>6, <1>7, <1>8, <1>9, <1>10, <1>11, <1>12, <1>13, <1>14, <1>15

\* The steps from the record to the rotation
LEMMA NearSteps ==
  ASSUME BoundInv, NEW p \in Proc,
         Record(p) \/ Newline(p) \/ Measure(p) \/ Truncate(p) \/ Rewrite(p)
  PROVE  ArchiveCount'
<1>1. /\ proc \in [Proc -> Process] /\ unrotated \in Nat /\ Cap \in Nat \ {0}
      /\ archive \in Seq(Seq(Nat)) /\ Len(archive) \in Nat \ {0} /\ Cardinality(Rotating) \in Nat
      /\ RecordsInv /\ proc[p] \in Process
  BY BoundType DEF BoundInv
<1>2. Len(archive) - 1 + (IF Last(archive) # <<>> /\ Writing = {} THEN 1 ELSE 0)
        <= Cap + unrotated + Cardinality(Rotating)
  BY DEF BoundInv, ArchiveCount
<1>0. ASSUME NEW d, proc' = [proc EXCEPT ![p] = d], NEW from, NEW to,
             proc[p].pc = from, d.pc = to
      PROVE  /\ to = "newline" => Writing' # {}
             /\ from # "newline" /\ to # "newline" => Writing' = Writing
             /\ Cardinality(Rotating)' =
                  Cardinality(Rotating) - (IF from \in {"cap", "truncate"} THEN 1 ELSE 0)
                                        + (IF to \in {"cap", "truncate"} THEN 1 ELSE 0)
  BY <1>1, <1>0, OneMoves
<1>3. ASSUME NEW place, Go(p, place), NEW from, proc[p].pc = from
      PROVE  /\ place = "newline" => Writing' # {}
             /\ Cardinality(Rotating)' =
                  Cardinality(Rotating) - (IF from \in {"cap", "truncate"} THEN 1 ELSE 0)
                                        + (IF place \in {"cap", "truncate"} THEN 1 ELSE 0)
  <2>1. Moved(proc[p], place).pc = place
    BY <1>1 DEF Moved, Idle, Process
  <2>2. proc' = [proc EXCEPT ![p] = Moved(proc[p], place)]
    BY <1>3, GoMoves
  <2> QED
    BY <1>3, <1>0, <2>1, <2>2
<1>4. CASE Record(p)
  <2>1. proc[p].pc = "archive" /\ Go(p, "newline") /\ unrotated' = unrotated
        /\ Len(archive') = Len(archive)
    BY <1>1, <1>4 DEF Record, At
  <2>2. Writing' # {} /\ Cardinality(Rotating)' = Cardinality(Rotating)
    BY <1>1, <1>3, <2>1, SMTT(30)
  <2> QED
    BY <1>1, <1>2, <2>1, <2>2 DEF ArchiveCount
<1>5. CASE Newline(p)
  <2>1. proc[p].pc = "newline" /\ Go(p, "cap") /\ unrotated' = unrotated
        /\ archive' = Append(archive, <<>>)
    BY <1>5 DEF Newline, At
  <2>2. Cardinality(Rotating)' = Cardinality(Rotating) + 1
    <3>1. Cardinality(Rotating)' =
            Cardinality(Rotating) - (IF "newline" \in {"cap", "truncate"} THEN 1 ELSE 0)
                                  + (IF "cap" \in {"cap", "truncate"} THEN 1 ELSE 0)
      BY <1>3, <2>1
    <3> QED
      BY <1>1, <3>1
  <2>3. Len(archive') = Len(archive) + 1 /\ Last(archive') = <<>>
    BY <1>1, <2>1 DEF Last
  <2> QED
    BY <1>1, <1>2, <2>1, <2>2, <2>3 DEF ArchiveCount
<1>6. CASE Measure(p)
  <2>1. proc[p].pc = "cap" /\ unrotated' = unrotated /\ archive' = archive
    BY <1>6 DEF Measure, At, files
  <2>2. CASE Len(Lines) <= Cap
    <3>1. Go(p, "archived")
      BY <1>6, <2>2 DEF Measure
    <3>2. Cardinality(Rotating)' = Cardinality(Rotating) - 1
      BY <1>1, <1>3, <2>1, <3>1
    <3>3. Len(Lines) = Len(archive) - IF Last(archive) = <<>> THEN 1 ELSE 0
      BY <1>1, LinesDone
    <3>4. Cardinality(Rotating)' \in Nat
      <4>1. p \in Rotating
        BY <2>1 DEF Rotating
      <4>2. Cardinality(Rotating) # 0
        BY <4>1, ProcFinite, FS_EmptySet
      <4> QED
        BY <1>1, <3>2, <4>2
    <3> QED
      BY <1>1, <2>1, <2>2, <3>3, <3>4 DEF ArchiveCount
  <2>3. CASE ~(Len(Lines) <= Cap)
    <3> DEFINE k == SubSeq(Lines, Len(Lines) - Cap + 1, Len(Lines))
    <3>1. proc' = [proc EXCEPT ![p] = Copied(proc[p], "truncate", k)]
      BY <1>6, <2>3 DEF Measure, Copied
    <3> HIDE DEF k
    <3>2. Copied(proc[p], "truncate", k).pc = "truncate"
      BY <1>1 DEF Copied, Process
    <3>3. Writing' = Writing /\ Cardinality(Rotating)' = Cardinality(Rotating)
      <4>1. /\ Writing' = Writing
            /\ Cardinality(Rotating)' =
                 Cardinality(Rotating) - (IF "cap" \in {"cap", "truncate"} THEN 1 ELSE 0)
                                       + (IF "truncate" \in {"cap", "truncate"} THEN 1 ELSE 0)
        BY <1>0, <2>1, <3>1, <3>2
      <4> QED
        BY <1>1, <4>1
    <3> QED
      BY <1>1, <1>2, <2>1, <3>3 DEF ArchiveCount
  <2> QED
    BY <2>2, <2>3
<1>7. CASE Truncate(p)
  <2>1. proc[p].pc = "truncate" /\ Go(p, "rewrite") /\ unrotated' = unrotated
        /\ archive' = << <<>> >>
    BY <1>7 DEF Truncate, At
  <2>2. Cardinality(Rotating)' = Cardinality(Rotating) - 1
    BY <1>1, <1>3, <2>1, SMTT(30)
  <2>3. Cardinality(Rotating)' \in Nat
    <3>1. p \in Rotating
      BY <2>1 DEF Rotating
    <3>2. Cardinality(Rotating) # 0
      BY <3>1, ProcFinite, FS_EmptySet
    <3> QED
      BY <1>1, <2>2, <3>2
  <2>4. Len(archive') = 1 /\ Last(archive') = <<>>
    BY <2>1 DEF Last
  <2> QED
    BY <1>1, <2>1, <2>3, <2>4 DEF ArchiveCount
<1>8. CASE Rewrite(p)
  <2> DEFINE k == proc[p].copy
  <2>1. proc[p].pc = "rewrite" /\ unrotated' = unrotated
        /\ proc' = [proc EXCEPT ![p] = Copied(proc[p], "archived", <<>>)]
    BY <1>8 DEF Rewrite, At, Copied
  <2>2. Copied(proc[p], "archived", <<>>).pc = "archived"
    BY <1>1 DEF Copied, Process
  <2>3. Writing' = Writing /\ Cardinality(Rotating)' = Cardinality(Rotating)
    <3>1. /\ Writing' = Writing
          /\ Cardinality(Rotating)' =
               Cardinality(Rotating) - (IF "rewrite" \in {"cap", "truncate"} THEN 1 ELSE 0)
                                     + (IF "archived" \in {"cap", "truncate"} THEN 1 ELSE 0)
      BY <1>0, <2>1, <2>2
    <3> QED
      BY <1>1, <3>1
  <2>4. k \in Seq(Seq(Nat)) /\ Len(k) = Cap
    <3>1. "rewrite" \in Late /\ "rewrite" # "idle"
      BY DEF Late
    <3>2. Len(k) = Cap
      BY <1>1, <2>1, <3>1, AtPlace DEF At
    <3> QED
      BY <1>1, <3>2 DEF Process
  <2>5. archive' = IF Len(archive) <= Len(k) THEN Append(k, <<>>)
                   ELSE k \o SubSeq(archive, Len(k) + 1, Len(archive))
    BY <1>8 DEF Rewrite
  <2> HIDE DEF k
  <2>6. CASE Len(archive) <= Len(k)
    <3>1. Len(archive') = Cap + 1 /\ Last(archive') = <<>>
      BY <2>4, <2>5, <2>6 DEF Last
    <3> QED
      BY <1>1, <2>1, <2>3, <3>1 DEF ArchiveCount
  <2>7. CASE ~(Len(archive) <= Len(k))
    <3> DEFINE b == SubSeq(archive, Len(k) + 1, Len(archive))
    <3>1. /\ b \in Seq(Seq(Nat)) /\ Len(b) = Len(archive) - Len(k)
          /\ b[Len(archive) - Len(k)] = archive[Len(archive)]
      BY <1>1, <2>4, <2>7
    <3>2. archive' = k \o b
      BY <2>5, <2>7
    <3> HIDE DEF b
    <3>3. Len(archive') = Len(archive) /\ archive'[Len(archive)] = archive[Len(archive)]
      <4>1. \A i \in 1 .. Len(k) + Len(b) :
              (k \o b)[i] = IF i <= Len(k) THEN k[i] ELSE b[i - Len(k)]
        BY <2>4, <3>1, ConcatProperties
      <4>2. Len(k \o b) = Len(k) + Len(b)
        BY <2>4, <3>1, ConcatProperties
      <4>3. Len(k) \in Nat /\ Len(k) + Len(b) = Len(archive)
            /\ Len(archive) \in 1 .. Len(k) + Len(b) /\ ~(Len(archive) <= Len(k))
        BY <1>1, <2>4, <2>7, <3>1
      <4> QED
        BY <3>1, <3>2, <4>1, <4>2, <4>3
    <3> QED
      BY <1>1, <1>2, <2>1, <2>3, <3>3 DEF ArchiveCount, Last
  <2> QED
    BY <2>6, <2>7
<1> QED
  BY <1>4, <1>5, <1>6, <1>7, <1>8

\* A killed writer leaves a record that nobody will rotate for.
LEMMA CrashBound ==
  ASSUME BoundInv, NEW p \in Proc, Crash(p)
  PROVE  ArchiveCount'
<1>1. /\ proc \in [Proc -> Process] /\ unrotated \in Nat /\ Cap \in Nat \ {0}
      /\ Len(archive) \in Nat \ {0} /\ Cardinality(Rotating) \in Nat
  BY BoundType
<1>2. Len(archive) - 1 + (IF Last(archive) # <<>> /\ Writing = {} THEN 1 ELSE 0)
        <= Cap + unrotated + Cardinality(Rotating)
  BY DEF BoundInv, ArchiveCount
<1>3. proc' = [proc EXCEPT ![p] = Idle] /\ archive' = archive /\ Idle.pc = "idle"
      /\ unrotated' = unrotated + IF proc[p].pc \in Between THEN 1 ELSE 0
  BY DEF Crash, Go, files, Between, Idle
<1>4. /\ proc[p].pc # "newline" => Writing' = Writing
      /\ Cardinality(Rotating)' =
           Cardinality(Rotating) - (IF proc[p].pc \in {"cap", "truncate"} THEN 1 ELSE 0)
                                 + (IF "idle" \in {"cap", "truncate"} THEN 1 ELSE 0)
  BY <1>1, <1>3, OneMoves
<1>5. CASE proc[p].pc = "newline"
  <2>1. Cardinality(Rotating)' = Cardinality(Rotating) /\ unrotated' = unrotated + 1
    BY <1>1, <1>3, <1>4, <1>5 DEF Between
  <2> QED
    BY <1>1, <1>2, <1>3, <2>1 DEF ArchiveCount
<1>6. CASE proc[p].pc \in {"cap", "truncate"}
  <2>1. /\ Cardinality(Rotating)' = Cardinality(Rotating) - 1 /\ unrotated' = unrotated + 1
        /\ Writing' = Writing
    BY <1>1, <1>3, <1>4, <1>6 DEF Between
  <2> QED
    BY <1>1, <1>2, <1>3, <2>1 DEF ArchiveCount
<1>7. CASE proc[p].pc \notin Between
  <2>1. Idle.pc \notin Between /\ unrotated' = unrotated
    BY <1>1, <1>3, <1>7 DEF Between
  <2> QED
    BY <1>3, <1>7, <2>1, Elsewhere
<1> QED
  BY <1>5, <1>6, <1>7 DEF Between

LEMMA BeginBound ==
  ASSUME BoundInv, NEW p \in Proc, NEW kind \in Kinds, NEW learn \in BOOLEAN,
         Begin(p, kind, learn)
  PROVE  ArchiveCount'
<1> DEFINE place == IF kind = "tool" THEN "open" ELSE "scan"
           list == IF kind = "tool" THEN <<>> ELSE Listing
           d == [Idle EXCEPT !.kind = kind, !.learn = learn, !.pc = place, !.todo = list]
<1>1. proc' = [proc EXCEPT ![p] = d] /\ proc[p].pc \notin Between
      /\ archive' = archive /\ unrotated' = unrotated
  BY DEF Begin, At, Between, files
<1>2. place \notin Between
  BY DEF Between
<1> HIDE DEF place, list
<1>3. d.pc = place
  <2>1. Idle \in Process
    BY IdleSound, SessionsType DEF BoundInv, Sound
  <2> QED
    BY <2>1 DEF Process
<1> HIDE DEF d
<1> QED
  BY <1>1, <1>2, <1>3, Elsewhere

LEMMA InitBound == Init => BoundInv
<1> SUFFICES ASSUME Init
             PROVE  BoundInv
  OBVIOUS
<1>1. unrotated = 0 /\ Len(archive) = 1 /\ Last(archive) = <<>>
  BY DEF Init, Last
<1>2. Cap \in Nat /\ Cardinality(Rotating) \in Nat
  BY ProcFinite, RunRecordsAssumptions
<1>3. ArchiveCount
  BY <1>1, <1>2 DEF ArchiveCount
<1> QED
  BY <1>3, InitRecords DEF BoundInv

LEMMA NextBound == BoundInv /\ [Next]_vars => BoundInv'
<1> SUFFICES ASSUME BoundInv, [Next]_vars
             PROVE  BoundInv'
  OBVIOUS
<1>1. RecordsInv'
  BY NextRecords DEF BoundInv
<1>2. ASSUME NEW p \in Proc, Step(p)
      PROVE  ArchiveCount'
  <2>1. CASE Record(p) \/ Newline(p) \/ Measure(p) \/ Truncate(p) \/ Rewrite(p)
    BY <2>1, NearSteps
  <2>2. CASE \/ Start(p) \/ Started(p) \/ Plan(p) \/ Call(p) \/ Execute(p)
             \/ Remember(p) \/ Answer(p) \/ Setup(p) \/ Close(p)
             \/ ReadLog(p) \/ CannotRead(p) \/ WriteIndex(p)
             \/ RewriteFails(p) \/ Archived(p) \/ Learn(p) \/ Learned(p)
    BY <2>2, FarSteps
  <2> QED
    BY <1>2, <2>1, <2>2 DEF Step
<1>3. ASSUME NEW p \in Proc, Crash(p)
      PROVE  ArchiveCount'
  BY <1>3, CrashBound
<1>4. ASSUME NEW p \in Proc, NEW kind \in Kinds, NEW learn \in BOOLEAN, Begin(p, kind, learn)
      PROVE  ArchiveCount'
  BY <1>4, BeginBound
<1>5. ASSUME UNCHANGED vars
      PROVE  ArchiveCount'
  BY <1>5 DEF vars, files, BoundInv, ArchiveCount, Writing, Rotating
<1>6. ArchiveCount'
  BY <1>2, <1>3, <1>4, <1>5 DEF Next
<1> QED
  BY <1>1, <1>6 DEF BoundInv

LEMMA InvBounded == BoundInv => ArchiveBounded
<1> SUFFICES ASSUME BoundInv
             PROVE  ArchiveBounded
  OBVIOUS
<1> DEFINE Near == {p \in Proc : proc[p].pc \in {"newline", "cap", "truncate"}}
<1>1. /\ unrotated \in Nat /\ Cap \in Nat \ {0} /\ Len(archive) \in Nat \ {0}
      /\ Cardinality(Rotating) \in Nat
  BY BoundType
<1>2. Len(archive) - 1 + (IF Last(archive) # <<>> /\ Writing = {} THEN 1 ELSE 0)
        <= Cap + unrotated + Cardinality(Rotating)
  BY DEF BoundInv, ArchiveCount
<1>3. Len(Lines) = Len(archive) - IF Last(archive) = <<>> THEN 1 ELSE 0
  BY LinesDone DEF BoundInv
<1>4. IsFiniteSet(Near) /\ Cardinality(Near) \in Nat /\ Rotating \subseteq Near
  <2>1. IsFiniteSet(Proc) /\ Near \in SUBSET Proc
    BY RunRecordsAssumptions
  <2>2. IsFiniteSet(Near)
    BY <2>1, FS_Subset
  <2> QED
    BY <2>2, FS_CardinalityType DEF Rotating
<1>5. Cardinality(Rotating) <= Cardinality(Near)
  BY <1>4, FS_Subset
<1>6. Writing # {} => Cardinality(Rotating) + 1 <= Cardinality(Near)
  <2> SUFFICES ASSUME Writing # {}
               PROVE  Cardinality(Rotating) + 1 <= Cardinality(Near)
    OBVIOUS
  <2>1. PICK p \in Writing : TRUE
    OBVIOUS
  <2>2. p \in Near /\ p \notin Rotating
    BY DEF Writing, Rotating
  <2>3. Cardinality(Rotating) # Cardinality(Near)
    BY <1>4, <2>2, FS_Subset
  <2> QED
    BY <1>1, <1>4, <1>5, <2>3
<1> HIDE DEF Near
<1>7. Len(Lines) <= Cap + unrotated + Cardinality(Near)
  <2>1. CASE Writing = {}
    BY <1>1, <1>2, <1>3, <1>4, <1>5, <2>1
  <2>2. CASE Writing # {}
    BY <1>1, <1>2, <1>3, <1>4, <1>6, <2>2
  <2> QED
    BY <2>1, <2>2
<1> QED
  BY <1>7 DEF ArchiveBounded, Near

\* The archive never holds more than its cap, one line for each process that is still to
\* rotate it, and one for each that was killed before it could; no interleaving of two
\* rotations, and no rotation that fails, makes it grow further
\* (append_session_archive_record, enforce_session_archive_cap).
THEOREM ArchiveStaysBounded == Spec => []ArchiveBounded
<1>1. Spec => []BoundInv
  BY InitBound, NextBound, PTL DEF Spec
<1> QED
  BY <1>1, InvBounded, PTL
=============================================================================
