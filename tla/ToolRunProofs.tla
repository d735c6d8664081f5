---------------------------- MODULE ToolRunProofs ----------------------------
(***************************************************************************)
(* Theorems about ToolRun and ChildCall, for every set of files, skills and *)
(* tools, and for every process a tool starts.                              *)
(*                                                                         *)
(* The argument about the files rests on Touched: what a step may do to one *)
(* file.  Every tool call and every change by others is such a step, and    *)
(* the invariants of the files follow without looking at the calls again.   *)
(*                                                                         *)
(* The last section proves ChildCall, the process behind a tool call: what  *)
(* the caller gets of a pipe is all that was written to it, or nothing.     *)
(***************************************************************************)
EXTENDS ToolRun, ChildCall, FiniteSetTheorems, SequenceTheorems, TLAPS

\* Texts are the sequences of at most MaxBlocks blocks.
LEMMA TextsAreSequences ==
  ASSUME ToolRunAssumptions
  PROVE  /\ Texts = {t \in Seq(Blocks) : Len(t) <= MaxBlocks}
         /\ <<Rendered>> \in Texts
         /\ << >> \in Texts
<1>1. ASSUME NEW t \in Texts
      PROVE  t \in Seq(Blocks) /\ Len(t) <= MaxBlocks
  <2>1. PICK n \in 0..MaxBlocks : t \in [1..n -> Blocks]
    BY <1>1 DEF Texts
  <2>2. t \in Seq(Blocks) /\ Len(t) = n
    BY <2>1, ToolRunAssumptions DEF ToolRunAssumptions
  <2> QED BY <2>1, <2>2, ToolRunAssumptions DEF ToolRunAssumptions
<1>2. ASSUME NEW t \in Seq(Blocks), Len(t) <= MaxBlocks
      PROVE  t \in Texts
  <2>1. Len(t) \in 0..MaxBlocks
    BY <1>2, ToolRunAssumptions DEF ToolRunAssumptions
  <2>2. t \in [1..Len(t) -> Blocks]
    BY <1>2
  <2> QED BY <2>1, <2>2 DEF Texts
<1>3. <<Rendered>> \in Seq(Blocks) /\ Len(<<Rendered>>) = 1 /\ 1 <= MaxBlocks
  BY ToolRunAssumptions DEF ToolRunAssumptions
<1>4. << >> \in Seq(Blocks) /\ Len(<< >>) = 0 /\ 0 <= MaxBlocks
  BY ToolRunAssumptions DEF ToolRunAssumptions
<1> QED BY <1>1, <1>2, <1>3, <1>4

-----------------------------------------------------------------------------
(* The files *)

Files ==
  /\ present \subseteq Paths
  /\ text \in [Paths -> Texts]

\* What a step may do to the file q: nothing; create or rewrite it as the index
\* rebuild does; write it as the planner asks, if it was read or is new, and is not
\* generated; or anything, if it is somebody else's doing or RepoPrompt's.
Kept(q) == text'[q] = text[q] /\ (q \in present => q \in present')

Renewed(q) ==
  /\ q \in GeneratedPaths \cup (LayoutPaths \ present)
  /\ q \in present'
  /\ text'[q] = <<Rendered>>

Edited(q) ==
  /\ Writes \cap Allowed # {}
  /\ q \notin GeneratedPaths
  /\ q \in present => q \in readPaths
  /\ q \in present'

Touched ==
  /\ Files'
  /\ readPaths \subseteq readPaths'
  /\ Foreign \subseteq Foreign' /\ Foreign' \subseteq Foreign \cup Paths
  /\ atStart' = atStart
  /\ \A q \in Paths : q \in Foreign' \/ Kept(q) \/ Renewed(q) \/ Edited(q)

\* A write that durable_write_guard and check_read_before_write let through.
LEMMA WriteTouches ==
  ASSUME ToolRunAssumptions, Files,
         NEW tool \in Writes \cap Allowed, NEW p \in Paths,
         NEW t \in Texts, NEW indexOk \in BOOLEAN,
         p \notin GeneratedPaths, ~Unread(p), UNCHANGED <<readPaths, others>>,
         Written(tool, p, t, indexOk)
  PROVE  Touched
<1> USE DEF others, Foreign
<1> DEFINE after == [text EXCEPT ![p] = t]
           have == present \cup {p}
<1>1. /\ have \subseteq Paths
      /\ after \in [Paths -> Texts]
      /\ after[p] = t
      /\ \A q \in Paths \ {p} : after[q] = text[q]
  BY DEF Files
<1>2. <<Rendered>> \in Texts /\ LayoutPaths \subseteq Paths /\ GeneratedPaths \subseteq LayoutPaths
  BY ToolRunAssumptions, TextsAreSequences DEF ToolRunAssumptions
<1>3. CASE p \notin DurablePaths
  <2>1. present' = have /\ text' = after
    BY <1>3 DEF Written
  <2>2. Files'
    BY <1>1, <2>1 DEF Files
  <2>3. ASSUME NEW q \in Paths PROVE Kept(q) \/ Edited(q)
    BY <1>1, <2>1 DEF Kept, Edited, Unread
  <2> QED BY <2>2, <2>3 DEF Touched
<1>4. CASE p \in DurablePaths
  <2>1. /\ present' = have \cup LayoutPaths
        /\ text' = IF indexOk THEN Rebuilt(after, have) ELSE LaidOut(after, have)
    BY <1>4 DEF Written
  <2>2. Files'
    BY <1>1, <1>2, <2>1 DEF Files, Rebuilt, LaidOut
  <2>3. ASSUME NEW q \in Paths PROVE Kept(q) \/ Renewed(q) \/ Edited(q)
    <3>1. CASE q = p
      <4>1. q \in present'
        BY <3>1, <2>1
      <4> QED BY <3>1, <4>1 DEF Edited, Unread
    <3>2. CASE q # p
      <4>1. after[q] = text[q] /\ (q \in have <=> q \in present)
        BY <1>1, <3>2
      <4>2. text'[q] = text[q] \/ (text'[q] = <<Rendered>> /\ q \in GeneratedPaths \cup (LayoutPaths \ present))
        BY <4>1, <2>1 DEF Rebuilt, LaidOut
      <4>3. (q \in present => q \in present') /\ (q \in LayoutPaths => q \in present')
        BY <2>1
      <4> QED BY <4>2, <4>3, <1>2 DEF Kept, Renewed
    <3> QED BY <3>1, <3>2
  <2> QED BY <2>2, <2>3 DEF Touched
<1> QED BY <1>3, <1>4

\* A step that leaves the files and what was read as they are.
LEMMA NothingTouched ==
  ASSUME Files, UNCHANGED <<present, text, others>>, readPaths \subseteq readPaths'
  PROVE  Touched
BY DEF Files, Touched, Kept, others, Foreign

\* What somebody else does to a file, or to two, leaves the rest alone.
LEMMA PutTouches ==
  ASSUME ToolRunAssumptions, Files, NEW p \in Paths, NEW q \in Paths,
         Remove(p) \/ Move(p, q) \/ \E t \in Texts : Put(p, t),
         readPaths' = readPaths, atStart' = atStart,
         Foreign' = Foreign \cup {p} \cup (IF Move(p, q) THEN {q} ELSE {})
  PROVE  Touched
<1>1. << >> \in Texts
  BY ToolRunAssumptions, TextsAreSequences
<1>2. Files'
  <2>1. CASE Remove(p)
    BY <1>1, <2>1 DEF Remove, Files
  <2>2. CASE Move(p, q)
    <3>1. text[p] \in Texts
      BY DEF Files
    <3> QED BY <1>1, <2>2, <3>1 DEF Move, Files
  <2>3. CASE \E t \in Texts : Put(p, t)
    BY <2>3 DEF Put, Files
  <2> QED BY <2>1, <2>2, <2>3
<1>3. ASSUME NEW r \in Paths, r \notin Foreign'
      PROVE  Kept(r)
  <2>1. r # p /\ (r # q \/ ~Move(p, q))
    BY <1>3
  <2>2. CASE Move(p, q)
    BY <2>1, <2>2 DEF Move, Kept, Files
  <2>3. CASE Remove(p) \/ \E t \in Texts : Put(p, t)
    BY <2>1, <2>3 DEF Remove, Put, Kept, Files
  <2> QED BY <2>2, <2>3
<1> QED BY <1>2, <1>3 DEF Touched

LEMMA EditsTouch ==
  ASSUME ToolRunAssumptions, Files, RepoPromptEdits,
         UNCHANGED <<readPaths, outside, atStart>>
  PROVE  Touched
<1>1. CASE \E p \in Paths : /\ Remove(p) \/ \E t \in Texts : Put(p, t)
                           /\ delegated' = delegated \cup {p}
  <2>1. PICK p \in Paths : /\ Remove(p) \/ \E t \in Texts : Put(p, t)
                           /\ delegated' = delegated \cup {p}
    BY <1>1
  <2>2. Foreign' = Foreign \cup {p} \cup (IF Move(p, p) THEN {p} ELSE {})
    BY <2>1 DEF Foreign
  <2> QED BY <2>1, <2>2, PutTouches
<1>2. CASE \E p, q \in Paths : Move(p, q) /\ delegated' = delegated \cup {p, q}
  <2>1. PICK p \in Paths, q \in Paths : Move(p, q) /\ delegated' = delegated \cup {p, q}
    BY <1>2
  <2>2. Foreign' = Foreign \cup {p} \cup (IF Move(p, q) THEN {q} ELSE {})
    BY <2>1 DEF Foreign
  <2>3. Remove(p) \/ Move(p, q) \/ \E t \in Texts : Put(p, t)
    BY <2>1
  <2>4. readPaths' = readPaths /\ atStart' = atStart
    OBVIOUS
  <2> QED BY <2>2, <2>3, <2>4, PutTouches
<1> QED BY <1>1, <1>2 DEF RepoPromptEdits

LEMMA PatchTouches ==
  ASSUME ToolRunAssumptions, Files, NEW p \in Paths, NEW old \in Blocks,
         NEW new \in Blocks, NEW clean \in BOOLEAN, NEW indexOk \in BOOLEAN,
         PatchFile(p, old, new, clean, indexOk)
  PROVE  Touched
<1>1. CASE UNCHANGED <<present, text>>
  BY <1>1, NothingTouched DEF PatchFile
<1>2. ASSUME ~DurableRefusal(p, "patch", clean), ~Unread(p),
             NEW i \in Places(p, old),
             Written("patch_file", p, [text[p] EXCEPT ![i] = new], indexOk)
      PROVE  Touched
  <2>1. p \notin GeneratedPaths
    BY <1>2, ToolRunAssumptions DEF DurableRefusal, ToolRunAssumptions
  <2>2. [text[p] EXCEPT ![i] = new] \in Texts
    <3>1. text[p] \in Seq(Blocks) /\ Len(text[p]) <= MaxBlocks
      BY TextsAreSequences DEF Files
    <3>2. i \in 1..Len(text[p])
      BY <1>2 DEF Places
    <3>3. /\ [text[p] EXCEPT ![i] = new] \in Seq(Blocks)
          /\ Len([text[p] EXCEPT ![i] = new]) = Len(text[p])
      BY <3>1, <3>2, ExceptSeq
    <3> QED BY <3>1, <3>3, TextsAreSequences
  <2>3. "patch_file" \in Writes \cap Allowed /\ readPaths' = readPaths
    BY DEF PatchFile, Fresh, Writes
  <2>4. UNCHANGED others
    BY DEF PatchFile
  <2> QED BY <1>2, <2>1, <2>2, <2>3, <2>4, WriteTouches
<1> QED BY <1>1, <1>2 DEF PatchFile, Rejected

LEMMA WriteFileTouches ==
  ASSUME ToolRunAssumptions, Files, NEW p \in Paths,
         NEW mode \in {"overwrite", "append", "prepend"}, NEW b \in Blocks,
         NEW clean \in BOOLEAN, NEW indexOk \in BOOLEAN,
         WriteFile(p, mode, b, clean, indexOk)
  PROVE  Touched
<1>1. CASE UNCHANGED <<present, text>>
  BY <1>1, NothingTouched DEF WriteFile
<1>2. ASSUME ~DurableRefusal(p, mode, clean), ~Unread(p),
             Written("write_file", p, NewText(p, mode, b), indexOk)
      PROVE  Touched
  <2>1. p \notin GeneratedPaths
    BY <1>2, ToolRunAssumptions DEF DurableRefusal, ToolRunAssumptions
  <2>2. NewText(p, mode, b) \in Texts
    <3>1. text[p] \in Seq(Blocks)
      BY TextsAreSequences DEF Files
    <3>2. NewText(p, mode, b) \in Seq(Blocks)
      BY <3>1 DEF NewText
    <3>3. Len(NewText(p, mode, b)) <= MaxBlocks
      BY DEF WriteFile
    <3> QED BY <3>2, <3>3, TextsAreSequences
  <2>3. "write_file" \in Writes \cap Allowed /\ readPaths' = readPaths
    BY DEF WriteFile, Fresh, Writes
  <2>4. UNCHANGED others
    BY DEF WriteFile
  <2> QED BY <1>2, <2>1, <2>2, <2>3, <2>4, WriteTouches
<1> QED BY <1>1, <1>2 DEF WriteFile, Rejected

LEMMA FetchTouches ==
  ASSUME ToolRunAssumptions, Files, NEW p \in Paths, NEW indexed \in BOOLEAN,
         MemoryFetch(p, indexed)
  PROVE  Touched
<1>1. <<Rendered>> \in Texts /\ LayoutPaths \subseteq Paths /\ GeneratedPaths \subseteq LayoutPaths
  BY ToolRunAssumptions, TextsAreSequences DEF ToolRunAssumptions
<1>2. /\ present' = present \cup LayoutPaths
      /\ text' = IF GeneratedPaths \subseteq present THEN LaidOut(text, present)
                 ELSE Rebuilt(text, present)
      /\ readPaths' = readPaths
      /\ Foreign' = Foreign /\ atStart' = atStart
  BY DEF MemoryFetch, others, Foreign
<1>3. Files'
  BY <1>1, <1>2 DEF Files, Rebuilt, LaidOut
<1>4. ASSUME NEW q \in Paths PROVE Kept(q) \/ Renewed(q)
  BY <1>1, <1>2 DEF Files, Kept, Renewed, Rebuilt, LaidOut
<1> QED BY <1>2, <1>3, <1>4 DEF Touched

\* What any tool call may do to the files.
LEMMA CallTouches ==
  ASSUME ToolRunAssumptions, Files, ToolCall
  PROVE  Touched
<1>1. ASSUME NEW tool, NEW arg, ServeCached(tool, arg)
      PROVE  Touched
  BY <1>1, NothingTouched DEF ServeCached
<1>2. ASSUME NEW tool, NotAllowed(tool)
      PROVE  Touched
  BY <1>2, NothingTouched DEF NotAllowed
<1>3. ASSUME NEW p \in Paths, ReadFile(p)
      PROVE  Touched
  BY <1>3, NothingTouched DEF ReadFile
<1>4. ASSUME NEW p \in Paths, NEW indexed \in BOOLEAN, MemoryFetch(p, indexed)
      PROVE  Touched
  BY <1>4, FetchTouches
<1>5. ASSUME NEW ps, ReadFiles(ps)
      PROVE  Touched
  BY <1>5, NothingTouched DEF ReadFiles
<1>6. ASSUME NEW p \in Paths, NEW old \in Blocks, NEW new \in Blocks,
             NEW clean \in BOOLEAN, NEW indexOk \in BOOLEAN,
             PatchFile(p, old, new, clean, indexOk)
      PROVE  Touched
  BY <1>6, PatchTouches
<1>7. ASSUME NEW p \in Paths, NEW mode \in {"overwrite", "append", "prepend"},
             NEW b \in Blocks, NEW clean \in BOOLEAN, NEW indexOk \in BOOLEAN,
             WriteFile(p, mode, b, clean, indexOk)
      PROVE  Touched
  BY <1>7, WriteFileTouches
<1>8. ASSUME NEW s, NEW found, SkillFetch(s, found)
      PROVE  Touched
  BY <1>8, NothingTouched DEF SkillFetch
<1>9. ASSUME NEW tool, NEW named, NEW works, RepoPrompt(tool, named, works)
      PROVE  Touched
  <2>1. UNCHANGED <<readPaths, outside, atStart>>
    BY <1>9 DEF RepoPrompt
  <2>2. UNCHANGED <<present, text, delegated>> \/ RepoPromptEdits
    BY <1>9 DEF RepoPrompt
  <2>3. CASE UNCHANGED <<present, text, delegated>>
    BY <2>1, <2>3, NothingTouched DEF others
  <2>4. CASE RepoPromptEdits
    BY <2>1, <2>4, EditsTouch
  <2> QED BY <2>2, <2>3, <2>4
<1> QED BY <1>1, <1>2, <1>3, <1>4, <1>5, <1>6, <1>7, <1>8, <1>9 DEF ToolCall

\* And what others do, which concerns only files in "outside".
LEMMA ElsewhereTouches ==
  ASSUME ToolRunAssumptions, Files, Elsewhere
  PROVE  Touched
<1>1. PICK p \in Paths : RemovedElsewhere(p) \/ \E t \in Texts : ChangedElsewhere(p, t)
  BY DEF Elsewhere
<1>2. /\ Remove(p) \/ \E t \in Texts : Put(p, t)
      /\ readPaths' = readPaths /\ atStart' = atStart
      /\ Foreign' = Foreign \cup {p, p}
  BY <1>1 DEF RemovedElsewhere, ChangedElsewhere, Foreign
<1> QED BY <1>2, PutTouches

-----------------------------------------------------------------------------
(* The inductive invariant of the files *)

Start ==
  /\ LayoutPaths \subseteq atStart.present
  /\ \A p \in GeneratedPaths : atStart.text[p] = <<Rendered>>

LayoutStands == LayoutPaths \ Foreign \subseteq present

FilesInv ==
  /\ Files
  /\ Foreign \subseteq Paths
  /\ Start
  /\ LayoutStands
  /\ UnreadFilesSurvive
  /\ GeneratedIsGenerated
  /\ OnlyRepoPromptWrites

LEMMA FilesInit ==
  ASSUME ToolRunAssumptions, Init
  PROVE  FilesInv
<1>1. Files /\ Foreign = {} /\ atStart.present = present /\ atStart.text = text
  BY DEF Init, Files, Foreign
<1>2. Start /\ LayoutStands
  BY <1>1 DEF Init, Start, LayoutStands
<1>3. UnreadFilesSurvive /\ GeneratedIsGenerated /\ OnlyRepoPromptWrites
  BY <1>1, ToolRunAssumptions
  DEF Init, ToolRunAssumptions, UnreadFilesSurvive, GeneratedIsGenerated, OnlyRepoPromptWrites
<1> QED BY <1>1, <1>2, <1>3 DEF FilesInv

\* Such a step keeps the invariant.
LEMMA FilesKept ==
  ASSUME ToolRunAssumptions, FilesInv, Touched
  PROVE  FilesInv'
<1>1. /\ Foreign \subseteq Foreign' /\ Foreign' \subseteq Foreign \cup Paths
      /\ atStart' = atStart
  BY DEF Touched
<1>2. GeneratedPaths \subseteq LayoutPaths /\ LayoutPaths \subseteq Paths
  BY ToolRunAssumptions DEF ToolRunAssumptions
<1>3. ASSUME NEW q \in Paths, q \in present, q \notin Foreign'
      PROVE  q \in present'
  BY <1>3 DEF Touched, Kept, Renewed, Edited
<1>4. Files' /\ Foreign' \subseteq Paths /\ Start' /\ LayoutStands'
  BY <1>1, <1>2, <1>3 DEF FilesInv, Touched, Start, LayoutStands
<1>5. UnreadFilesSurvive'
  <2> SUFFICES ASSUME NEW p \in atStart.present \ (readPaths' \cup Foreign' \cup GeneratedPaths)
               PROVE  p \in present' /\ text'[p] = atStart.text[p]
    BY <1>1 DEF UnreadFilesSurvive
  <2>1. p \notin readPaths /\ p \in present /\ text[p] = atStart.text[p]
    BY <1>1 DEF FilesInv, UnreadFilesSurvive, Touched
  <2>2. p \in Paths
    BY <2>1 DEF FilesInv, Files
  <2> QED BY <2>1, <2>2 DEF Touched, Kept, Renewed, Edited
<1>6. GeneratedIsGenerated'
  <2> SUFFICES ASSUME NEW p \in GeneratedPaths \ Foreign'
               PROVE  p \in present' /\ text'[p] = <<Rendered>>
    BY DEF GeneratedIsGenerated
  <2>1. p \in Paths /\ p \in present /\ text[p] = <<Rendered>>
    BY <1>1, <1>2 DEF FilesInv, GeneratedIsGenerated
  <2> QED BY <2>1 DEF Touched, Kept, Renewed, Edited
<1>7. OnlyRepoPromptWrites'
  <2> SUFFICES ASSUME Writes \cap Allowed = {},
                      NEW p \in atStart.present \ Foreign'
               PROVE  p \in present' /\ text'[p] = atStart.text[p]
    BY <1>1 DEF OnlyRepoPromptWrites
  <2>1. p \in present /\ text[p] = atStart.text[p]
    BY <1>1 DEF FilesInv, OnlyRepoPromptWrites
  <2>2. p \in Paths /\ p \in present'
    BY <1>3, <2>1 DEF FilesInv, Files
  <2>3. p \in GeneratedPaths => atStart.text[p] = <<Rendered>>
    BY DEF FilesInv, Start
  <2> QED BY <2>1, <2>2, <2>3 DEF Touched, Kept, Renewed, Edited
<1> QED BY <1>4, <1>5, <1>6, <1>7 DEF FilesInv

LEMMA FilesAlways == Spec => []FilesInv
<1>1. Init => FilesInv
  BY FilesInit, ToolRunAssumptions
<1>2. FilesInv /\ [ToolCall \/ Elsewhere]_vars => FilesInv'
  <2> SUFFICES ASSUME FilesInv, [ToolCall \/ Elsewhere]_vars PROVE FilesInv'
    OBVIOUS
  <2>1. CASE ToolCall
    BY <2>1, CallTouches, FilesKept, ToolRunAssumptions DEF FilesInv
  <2>2. CASE Elsewhere
    BY <2>2, ElsewhereTouches, FilesKept, ToolRunAssumptions DEF FilesInv
  <2>3. CASE UNCHANGED vars
    BY <2>3, NothingTouched, FilesKept, ToolRunAssumptions DEF vars, others, FilesInv
  <2> QED BY <2>1, <2>2, <2>3
<1> QED BY <1>1, <1>2, PTL DEF Spec

\* A file that was there at the start and that the run never read is still what it
\* was, after any calls of the tools, unless somebody else or RepoPrompt changed it:
\* check_read_before_write.
THEOREM UnreadSurvive == Spec => []UnreadFilesSurvive
<1>1. FilesInv => UnreadFilesSurvive
  BY DEF FilesInv
<1> QED BY <1>1, FilesAlways, PTL

\* Of the program itself only the index rebuild writes index.json and l1_insight.md:
\* durable_write_guard.
THEOREM GeneratedStays == Spec => []GeneratedIsGenerated
<1>1. FilesInv => GeneratedIsGenerated
  BY DEF FilesInv
<1> QED BY <1>1, FilesAlways, PTL

\* A run without the write tools changes a file by RepoPrompt or not at all:
\* planner_tool_infos_for_mode and the refusal of run_planner_tool.
THEOREM OtherwiseReadOnly == Spec => []OnlyRepoPromptWrites
<1>1. FilesInv => OnlyRepoPromptWrites
  BY DEF FilesInv
<1> QED BY <1>1, FilesAlways, PTL

-----------------------------------------------------------------------------
(* Type correctness *)

Typed ==
  /\ \A r \in cache : IsResult(r) /\ r.ok /\ r.tool \in PureReads
  /\ readPaths \subseteq Paths
  /\ permitted \subseteq Tools
  /\ override \in {Cwd} \cup {SkillDir[s] : s \in Skills}
  /\ IsResult(reply)
  /\ fetched \subseteq DurablePaths
  /\ looks \in Nat

\* A result of the program's own making is one.
LEMMA ResultType ==
  ASSUME NEW tool \in Tools, NEW arg, NEW ok \in BOOLEAN, NEW shown, NEW dir, NEW why,
         \A p \in DOMAIN shown : p \in Paths /\ shown[p] \in Texts
  PROVE  IsResult(Result(tool, arg, ok, shown, dir, why))
BY DEF Result, IsResult

LEMMA PlainType ==
  ASSUME NEW tool \in Tools, NEW arg, NEW why
  PROVE  IsResult(Refused(tool, arg, why)) /\ IsResult(Done(tool, arg))
<1>1. \A p \in DOMAIN Nothing : p \in Paths /\ Nothing[p] \in Texts
  BY DEF Nothing
<1> QED BY <1>1, ResultType DEF Refused, Done

LEMMA AnswerType ==
  ASSUME Typed, NEW r, IsResult(r), Answer(r)
  PROVE  /\ IsResult(reply')
         /\ \A q \in cache' : IsResult(q) /\ q.ok /\ q.tool \in PureReads
BY DEF Answer, Typed, IsResult

\* A call that only answers with a plain result.
LEMMA PlainAnswerType ==
  ASSUME Typed, NEW tool \in Tools, NEW arg, NEW why,
         Answer(Refused(tool, arg, why)) \/ Answer(Done(tool, arg)),
         UNCHANGED <<readPaths, permitted, override, fetched, looks>>
  PROVE  Typed'
<1>1. /\ IsResult(reply')
      /\ \A q \in cache' : IsResult(q) /\ q.ok /\ q.tool \in PureReads
  BY PlainType, AnswerType
<1> QED BY <1>1 DEF Typed

LEMMA CallTyped ==
  ASSUME ToolRunAssumptions, Files, Typed, ToolCall
  PROVE  Typed'
<1> USE DEF Tools, PureReads, Writes
<1>1. ASSUME NEW tool, NEW arg, ServeCached(tool, arg)
      PROVE  Typed'
  BY <1>1 DEF ServeCached, Hit, Typed
<1>2. ASSUME NEW tool \in Tools, NotAllowed(tool)
      PROVE  Typed'
  BY <1>2, PlainAnswerType DEF NotAllowed
<1>3. ASSUME NEW p \in Paths, ReadFile(p)
      PROVE  Typed'
  <2>1. CASE p \in present
    <3>1. IsResult(Shown("read_file", {p}))
      BY ResultType DEF Shown, Files
    <3>2. /\ IsResult(reply')
          /\ \A q \in cache' : IsResult(q) /\ q.ok /\ q.tool \in PureReads
      BY <1>3, <2>1, <3>1, AnswerType DEF ReadFile
    <3> QED BY <1>3, <2>1, <3>2 DEF ReadFile, Typed
  <2>2. CASE p \notin present
    BY <1>3, <2>2, PlainAnswerType DEF ReadFile
  <2> QED BY <2>1, <2>2
<1>4. ASSUME NEW p \in Paths, NEW indexed \in BOOLEAN, MemoryFetch(p, indexed)
      PROVE  Typed'
  <2>1. CASE indexed /\ p \in present'
    <3>1. Files'
      BY <1>4, FetchTouches DEF Touched
    <3>2. IsResult(Result("memory_fetch", {p}, TRUE, [q \in {p} |-> text'[q]], Cwd, ""))
      BY <3>1, ResultType DEF Files
    <3>3. /\ IsResult(reply')
          /\ \A q \in cache' : IsResult(q) /\ q.ok /\ q.tool \in PureReads
      BY <1>4, <2>1, <3>2, AnswerType DEF MemoryFetch
    <3> QED BY <1>4, <2>1, <3>3 DEF MemoryFetch, Typed
  <2>2. CASE ~(indexed /\ p \in present')
    BY <1>4, <2>2, PlainAnswerType DEF MemoryFetch
  <2> QED BY <2>1, <2>2
<1>5. ASSUME NEW ps \in SUBSET Paths, ReadFiles(ps)
      PROVE  Typed'
  <2>1. IsResult(Shown("read_files", ps))
    BY ResultType DEF Shown, Files
  <2>2. /\ IsResult(reply')
        /\ \A q \in cache' : IsResult(q) /\ q.ok /\ q.tool \in PureReads
    BY <1>5, <2>1, AnswerType DEF ReadFiles
  <2> QED BY <1>5, <2>2 DEF ReadFiles, Typed
<1>6. ASSUME NEW p \in Paths, NEW old \in Blocks, NEW new \in Blocks,
             NEW clean \in BOOLEAN, NEW indexOk \in BOOLEAN,
             PatchFile(p, old, new, clean, indexOk)
      PROVE  Typed'
  BY <1>6, PlainAnswerType DEF PatchFile, Rejected, Written
<1>7. ASSUME NEW p \in Paths, NEW mode, NEW b \in Blocks,
             NEW clean \in BOOLEAN, NEW indexOk \in BOOLEAN,
             WriteFile(p, mode, b, clean, indexOk)
      PROVE  Typed'
  BY <1>7, PlainAnswerType DEF WriteFile, Rejected, Written
<1>8. ASSUME NEW s \in Skills, NEW found \in BOOLEAN, SkillFetch(s, found)
      PROVE  Typed'
  <2>1. /\ IsResult(reply')
        /\ \A q \in cache' : IsResult(q) /\ q.ok /\ q.tool \in PureReads
    BY <1>8, PlainType, AnswerType DEF SkillFetch
  <2>2. permitted' \subseteq Tools
    <3>1. SkillTools[s] \subseteq Tools
      BY ONLY ToolRunAssumptions, s \in Skills DEF ToolRunAssumptions
    <3>2. permitted' = Tools \/ permitted' = SkillTools[s] \/ permitted' = permitted
      BY <1>8 DEF SkillFetch
    <3> QED BY <3>1, <3>2 DEF Typed
  <2>3. override' \in {Cwd} \cup {SkillDir[t] : t \in Skills}
    BY <1>8 DEF SkillFetch, Typed
  <2> QED BY <1>8, <2>1, <2>2, <2>3 DEF SkillFetch, Typed
<1>9. ASSUME NEW tool \in RepoPromptTools, NEW named \in BOOLEAN, NEW works \in BOOLEAN,
             RepoPrompt(tool, named, works)
      PROVE  Typed'
  <2> DEFINE arg == IF named THEN {"working_dirs"} ELSE {}
             dir == IF named THEN "named" ELSE override
  <2>1. /\ IsResult(Result(tool, arg, TRUE, Nothing, dir, ""))
        /\ IsResult(Refused(tool, arg, "repoprompt"))
    BY ResultType, PlainType DEF RepoPromptTools, Nothing
  <2>2. /\ IsResult(reply')
        /\ \A q \in cache' : IsResult(q) /\ q.ok /\ q.tool \in PureReads
    BY <1>9, <2>1, AnswerType DEF RepoPrompt
  <2>3. override' \in {override, Cwd} /\ looks' \in {looks, looks + 1}
    BY <1>9 DEF RepoPrompt, Consumed
  <2>4. UNCHANGED <<readPaths, permitted, fetched>>
    BY <1>9 DEF RepoPrompt
  <2> QED BY <2>2, <2>3, <2>4 DEF Typed
<1> QED
  BY <1>1, <1>2, <1>3, <1>4, <1>5, <1>6, <1>7, <1>8, <1>9 DEF ToolCall

\* Every variable of a run keeps its type; the cache holds only successful results
\* of pure reads.
THEOREM TypeCorrect == Spec => []TypeOK
<1> DEFINE Inv == Typed /\ atStart.present \subseteq Paths /\ atStart.text \in [Paths -> Texts]
<1>1. ASSUME Init PROVE Inv
  <2>1. IsResult(reply)
    BY <1>1 DEF Init, IsResult, Nothing
  <2> QED BY <1>1, <2>1 DEF Init, Typed
<1>2. ASSUME FilesInv, Inv, [ToolCall \/ Elsewhere]_vars
      PROVE  Inv'
  <2>1. CASE ToolCall
    BY <1>2, <2>1, CallTyped, CallTouches, ToolRunAssumptions DEF FilesInv, Touched
  <2>2. CASE Elsewhere
    BY <1>2, <2>2 DEF Elsewhere, RemovedElsewhere, ChangedElsewhere, Typed, IsResult
  <2>3. CASE UNCHANGED vars
    BY <1>2, <2>3 DEF vars, Typed, IsResult
  <2> QED BY <1>2, <2>1, <2>2, <2>3
<1>3. FilesInv /\ Inv => TypeOK
  BY DEF FilesInv, Files, Foreign, Typed, TypeOK
<1> HIDE DEF Inv
<1> QED BY <1>1, <1>2, <1>3, FilesAlways, PTL DEF Spec
-----------------------------------------------------------------------------
(* The queued directory *)

\* A directory that is queued has not been looked at yet.
Pending == IF override = Cwd THEN 0 ELSE 1

OneLookEach ==
  /\ IsFiniteSet(cache)
  /\ looks \in Nat
  /\ looks + Pending <= Cardinality(DirFetches)

\* The cache only grows, and one by one.
LEMMA CacheGrows ==
  ASSUME NEW r, Answer(r)
  PROVE  cache' = cache \/ cache' = cache \cup {r}
BY DEF Answer

\* The fetches of skills with a directory are a finite part of a finite cache.
LEMMA FetchesAreFinite ==
  ASSUME IsFiniteSet(cache)
  PROVE  IsFiniteSet(DirFetches) /\ Cardinality(DirFetches) \in Nat
<1>1. DirFetches \in SUBSET cache
  BY DEF DirFetches
<1>2. IsFiniteSet(DirFetches)
  BY ONLY <1>1, IsFiniteSet(cache), FS_Subset
<1> QED BY <1>2, FS_CardinalityType

\* No call removes a fetch from the cache.
LEMMA FetchesGrow ==
  ASSUME OneLookEach, NEW r, cache' = cache \/ cache' = cache \cup {r}
  PROVE  /\ IsFiniteSet(cache') /\ Cardinality(DirFetches)' \in Nat
         /\ Cardinality(DirFetches) <= Cardinality(DirFetches)'
         /\ Cardinality(DirFetches) \in Nat
<1>1. IsFiniteSet(cache \cup {r})
  BY FS_AddElement DEF OneLookEach
<1>2. IsFiniteSet(cache')
  BY <1>1 DEF OneLookEach
<1>3. DirFetches \in SUBSET DirFetches'
  BY DEF DirFetches
<1>4. DirFetches' \in SUBSET cache'
  BY DEF DirFetches
<1>5. IsFiniteSet(DirFetches') /\ Cardinality(DirFetches') \in Nat
  <2>1. IsFiniteSet(DirFetches')
    BY ONLY <1>2, <1>4, FS_Subset
  <2> QED BY <2>1, FS_CardinalityType
<1>6. Cardinality(DirFetches) <= Cardinality(DirFetches')
  BY ONLY <1>3, <1>5, FS_Subset
<1> QED BY <1>2, <1>5, <1>6, FetchesAreFinite DEF OneLookEach

\* A call that queues nothing and looks at nothing queued leaves the count as it is.
LEMMA OtherCallsKeepIt ==
  ASSUME OneLookEach, NEW r, cache' = cache \/ cache' = cache \cup {r},
         UNCHANGED <<override, looks>>
  PROVE  OneLookEach'
<1>1. Pending' = Pending /\ Pending \in {0, 1}
  BY DEF Pending
<1> QED BY <1>1, FetchesGrow DEF OneLookEach

\* A fetched skill's directory is queued by a fetch that was not in the cache.
LEMMA FetchKeepsIt ==
  ASSUME OneLookEach, NEW s \in Skills, NEW found \in BOOLEAN, SkillFetch(s, found)
  PROVE  OneLookEach'
<1> DEFINE r == Done("skill_fetch", {s})
<1>1. CASE found /\ SkillDir[s] # Cwd
  <2>1. /\ cache' = cache \cup {r} /\ looks' = looks
        /\ Hit("skill_fetch", {s}) = {}
    BY <1>1 DEF SkillFetch, Fresh, Answer, Done, Result, PureReads
  <2>2. r.tool = "skill_fetch" /\ r.arg = {s}
    BY DEF Done, Result
  <2> HIDE DEF r
  <2>3. r \notin cache
    BY <2>1, <2>2 DEF Hit
  <2>4. DirFetches' = DirFetches \cup {r} /\ r \notin DirFetches
    BY <1>1, <2>1, <2>2, <2>3 DEF DirFetches
  <2>5. IsFiniteSet(DirFetches) /\ Cardinality(DirFetches) \in Nat
    BY FetchesAreFinite DEF OneLookEach
  <2>6. Cardinality(DirFetches \cup {r}) = Cardinality(DirFetches) + 1
    BY ONLY <2>4, <2>5, FS_AddElement
  <2>7. Cardinality(DirFetches') = Cardinality(DirFetches) + 1
    BY <2>4, <2>6
  <2>8. IsFiniteSet(cache')
    BY <2>1, FetchesGrow
  <2>9. Pending \in {0, 1} /\ Pending' \in {0, 1}
    BY DEF Pending
  <2> QED BY <2>1, <2>5, <2>7, <2>8, <2>9 DEF OneLookEach
<1>2. CASE ~found \/ SkillDir[s] = Cwd
  <2>1. override' = override /\ looks' = looks
    BY <1>2 DEF SkillFetch
  <2>2. \E q : Answer(q)
    BY DEF SkillFetch
  <2> QED BY <2>1, <2>2, CacheGrows, OtherCallsKeepIt
<1> QED BY <1>1, <1>2

\* A look consumes what was queued.
LEMMA LookKeepsIt ==
  ASSUME OneLookEach, NEW tool, NEW named \in BOOLEAN, NEW works \in BOOLEAN,
         RepoPrompt(tool, named, works)
  PROVE  OneLookEach'
<1>1. \E q : Answer(q)
  BY DEF RepoPrompt
<1>2. PICK q : cache' = cache \/ cache' = cache \cup {q}
  BY <1>1, CacheGrows
<1>3. CASE named \/ override = Cwd
  <2>1. override' = override /\ looks' = looks
    BY <1>3 DEF RepoPrompt, Consumed
  <2> QED BY <1>2, <2>1, OtherCallsKeepIt
<1>4. CASE ~named /\ override # Cwd
  <2>1. looks' = looks + 1 /\ Pending = 1 /\ Pending' = 0
    BY <1>4 DEF RepoPrompt, Consumed, Pending
  <2>2. /\ IsFiniteSet(cache') /\ Cardinality(DirFetches)' \in Nat
        /\ Cardinality(DirFetches) <= Cardinality(DirFetches)'
        /\ Cardinality(DirFetches) \in Nat
    BY <1>2, FetchesGrow
  <2>3. looks \in Nat /\ looks + Pending <= Cardinality(DirFetches)
    BY DEF OneLookEach
  <2>4. looks' \in Nat /\ looks' + Pending' <= Cardinality(DirFetches)'
    BY ONLY <2>1, <2>2, <2>3
  <2> QED BY <2>2, <2>4 DEF OneLookEach
<1> QED BY <1>3, <1>4

\* So every tool call keeps looks and queue within the fetches.
LEMMA CallKeepsIt ==
  ASSUME OneLookEach, ToolCall
  PROVE  OneLookEach'
<1>1. ASSUME NEW s \in Skills, NEW found \in BOOLEAN, SkillFetch(s, found) PROVE OneLookEach'
  BY <1>1, FetchKeepsIt
<1>2. ASSUME NEW tool, NEW named \in BOOLEAN, NEW works \in BOOLEAN,
             RepoPrompt(tool, named, works)
      PROVE  OneLookEach'
  BY <1>2, LookKeepsIt
<1>3. ASSUME UNCHANGED <<override, looks>>, cache' = cache \/ \E q : Answer(q)
      PROVE  OneLookEach'
  <2>1. PICK q : cache' = cache \/ cache' = cache \cup {q}
    BY <1>3, CacheGrows
  <2> QED BY <1>3, <2>1, OtherCallsKeepIt
<1>4. ASSUME NEW tool, NEW arg, ServeCached(tool, arg) PROVE OneLookEach'
  BY <1>3, <1>4 DEF ServeCached
<1>5. ASSUME NEW tool, NotAllowed(tool) PROVE OneLookEach'
  BY <1>3, <1>5 DEF NotAllowed
<1>6. ASSUME NEW p, ReadFile(p) PROVE OneLookEach'
  BY <1>3, <1>6 DEF ReadFile
<1>7. ASSUME NEW p, NEW indexed, MemoryFetch(p, indexed) PROVE OneLookEach'
  BY <1>3, <1>7 DEF MemoryFetch
<1>8. ASSUME NEW ps, ReadFiles(ps) PROVE OneLookEach'
  BY <1>3, <1>8 DEF ReadFiles
<1>9. ASSUME NEW p, NEW old, NEW new, NEW clean, NEW indexOk,
             PatchFile(p, old, new, clean, indexOk)
      PROVE  OneLookEach'
  BY <1>3, <1>9 DEF PatchFile, Rejected, Written
<1>10. ASSUME NEW p, NEW mode, NEW b, NEW clean, NEW indexOk,
              WriteFile(p, mode, b, clean, indexOk)
       PROVE  OneLookEach'
  BY <1>3, <1>10 DEF WriteFile, Rejected, Written
<1> QED
  BY <1>1, <1>2, <1>4, <1>5, <1>6, <1>7, <1>8, <1>9, <1>10 DEF ToolCall

\* The directory a skill queued serves at most one RepoPrompt call, in any order of
\* fetches, cached fetches and calls (set_pending_override, take_pending_override).
THEOREM OneCallPerFetch == Spec => []OverrideIsOneShot
<1>1. ASSUME Init PROVE OneLookEach
  <2>1. cache = {} /\ looks = 0 /\ Pending = 0
    BY <1>1 DEF Init, Pending
  <2>2. DirFetches = {}
    BY <2>1 DEF DirFetches
  <2>3. IsFiniteSet({}) /\ Cardinality({}) = 0
    BY FS_EmptySet
  <2> QED BY <2>1, <2>2, <2>3 DEF OneLookEach
<1>2. ASSUME OneLookEach, [ToolCall \/ Elsewhere]_vars PROVE OneLookEach'
  <2>1. CASE ToolCall
    BY <1>2, <2>1, CallKeepsIt
  <2>2. CASE Elsewhere \/ UNCHANGED vars
    <3>1. UNCHANGED <<cache, override, looks>>
      BY <2>2 DEF Elsewhere, RemovedElsewhere, ChangedElsewhere, vars
    <3> QED BY <1>2, <3>1, OtherCallsKeepIt
  <2> QED BY <1>2, <2>1, <2>2
<1>3. OneLookEach => OverrideIsOneShot
  <2> SUFFICES ASSUME OneLookEach PROVE looks <= Cardinality(DirFetches)
    BY DEF OverrideIsOneShot
  <2>1. Cardinality(DirFetches) \in Nat /\ Pending \in {0, 1}
    BY FetchesAreFinite DEF OneLookEach, Pending
  <2> QED BY <2>1 DEF OneLookEach
<1> QED BY <1>1, <1>2, <1>3, PTL DEF Spec

-----------------------------------------------------------------------------
(* The process behind a call: what it returns of a pipe is all that was written *)
(* to it or nothing, for every set of pipes, every size of them and any output. *)

\* The functions and the counters have their types.
CallShape ==
  /\ pc \in {"wait", "join", "returned"} /\ timedOut \in BOOLEAN
  /\ child \in {"running", "exited", "killed"} /\ holders \subseteq Streams
  /\ written \in [Streams -> Nat]
  /\ pipe \in [Streams -> 0 .. PipeSize]
  /\ read \in [Streams -> Nat]
  /\ garbled \subseteq Streams
  /\ reader \in [Streams -> {"reading", "done"}]
  /\ kept \in [Streams -> Nat]

\* Where CallTypeOK says that nothing is lost on the way.
Conserved == \A s \in Streams : written[s] = pipe[s] + read[s]

\* A reader that is done has left an empty pipe behind that nobody holds, so
\* nothing can be written to it later, and what it hands over is decided: without
\* this, that the readers are joined says nothing about the output.
DoneIsClosed ==
  \A s \in Streams :
    reader[s] = "done" => pipe[s] = 0 /\ ~Held(s) /\ kept[s] = Decoded(s)

Joined == pc = "returned" => \A s \in Streams : reader[s] = "done"

Waits == pc # "wait" => child # "running"

CallInv == CallShape /\ Conserved /\ DoneIsClosed /\ Joined /\ Waits

\* The initial state satisfies the invariant: no chunk is written, and every
\* reader reads.
LEMMA InitCall == CallInit => CallInv
<1> SUFFICES ASSUME CallInit PROVE CallInv
  OBVIOUS
<1>1. 0 \in 0 .. PipeSize
  BY ChildCallAssumptions
<1>2. CallShape
  BY <1>1 DEF CallInit, CallShape, NoOutput
<1>3. Conserved
  <2> SUFFICES ASSUME NEW s \in Streams PROVE written[s] = pipe[s] + read[s]
    BY DEF Conserved
  <2>1. written[s] = 0 /\ pipe[s] = 0 /\ read[s] = 0
    BY DEF CallInit, NoOutput
  <2>2. 0 = 0 + 0
    OBVIOUS
  <2> QED
    BY <2>1, <2>2
<1>4. DoneIsClosed /\ Joined /\ Waits
  BY DEF CallInit, DoneIsClosed, Joined, Waits
<1> QED
  BY <1>2, <1>3, <1>4 DEF CallInv

\* Every step of the processes, the readers and the caller keeps it.
LEMMA NextCall == CallInv /\ [CallNext]_callVars => CallInv'
<1> SUFFICES ASSUME CallInv, [CallNext]_callVars PROVE CallInv'
  OBVIOUS
<1> USE ChildCallAssumptions DEF CallInv, CallShape, Conserved, DoneIsClosed, Joined, Waits, Held, Decoded
<1>1. CASE Fork
  BY <1>1 DEF Fork, caller, output
<1>2. CASE Exit
  BY <1>2 DEF Exit, caller, output
<1>3. ASSUME NEW s \in Streams, NEW utf8 \in BOOLEAN, Write(s, utf8) PROVE CallInv'
  BY <1>3 DEF Write, caller, processes
<1>4. ASSUME NEW s \in Streams, Close(s) PROVE CallInv'
  BY <1>4 DEF Close, caller, output
<1>5. ASSUME NEW s \in Streams, ReadChunk(s) PROVE CallInv'
  BY <1>5 DEF ReadChunk, MayRead, caller, processes
<1>6. ASSUME NEW s \in Streams, ReadEnd(s) PROVE CallInv'
  BY <1>6 DEF ReadEnd, AtEnd, caller, processes
<1>7. CASE Waited
  BY <1>7 DEF Waited, processes, output
<1>8. CASE TimesOut
  BY <1>8 DEF TimesOut, AfterKill, output
<1>9. CASE Return
  BY <1>9 DEF Return, processes, output
<1>10. CASE UNCHANGED callVars
  BY <1>10 DEF callVars, caller, processes, output
<1> QED
  BY <1>1, <1>2, <1>3, <1>4, <1>5, <1>6, <1>7, <1>8, <1>9, <1>10 DEF CallNext

\* The invariant holds in every state a call can reach.
THEOREM CallInvariance == CallSpec => []CallInv
BY InitCall, NextCall, PTL DEF CallSpec

\* CallTypeOK: chunks are neither lost nor doubled, and the caller is past its wait
\* only when the child is gone (run_shell, RepoPromptClient::run,
\* spawn_one_subagent).
THEOREM CallTypeCorrect == CallSpec => []CallTypeOK
<1>1. CallInv => CallTypeOK
  BY DEF CallInv, CallShape, Conserved, Waits, CallTypeOK
<1> QED
  BY <1>1, CallInvariance, PTL

\* OutputIsWhole: what run_shell and its like get of a pipe is all that was ever
\* written to it, also by descendants of the child and also after a kill, or
\* nothing when any of that was not UTF-8 (read_pipe).
THEOREM OutputStaysWhole == CallSpec => []OutputIsWhole
<1>1. ASSUME CallInv, pc = "returned", NEW s \in Streams
      PROVE  pipe[s] = 0 /\ kept[s] = IF s \in garbled THEN 0 ELSE written[s]
  <2>1. pipe[s] = 0 /\ kept[s] = Decoded(s)
    BY <1>1 DEF CallInv, DoneIsClosed, Joined
  <2>2. written[s] = pipe[s] + read[s] /\ read[s] \in Nat
    BY <1>1 DEF CallInv, Conserved, CallShape
  <2>3. read[s] = written[s]
    BY <2>1, <2>2
  <2> QED
    BY <2>1, <2>3 DEF Decoded
<1>2. CallInv => OutputIsWhole
  BY <1>1 DEF OutputIsWhole
<1> QED
  BY <1>2, CallInvariance, PTL
=============================================================================
