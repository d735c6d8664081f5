---------------------------- MODULE PlanImport ----------------------------
(***************************************************************************)
(* How the markdown that RepoPrompt writes becomes the steps and the fixes  *)
(* of a plan: agent-plan's import of an export and of a review, and what    *)
(* `seed plan build`, `seed plan refine` and the plan tools make of the     *)
(* answers of the RepoPrompt CLI.                                           *)
(*                                                                         *)
(* A line is known by how it starts, once trimmed, and by what its text     *)
(* says.  Marks: "h1" (also a comment in a fenced script), "h2", "box",     *)
(* "bullet", "number", and "text" for everything else, a deeper heading     *)
(* included.  The keywords "plan" and "fixes" stand for any phrase of the   *)
(* lists headings are searched for.                                         *)
(***************************************************************************)
EXTENDS Integers, Sequences, FiniteSets, SequencesExt

\* No plan is made from it.
NoSteps == <<>>

\* parse_step_line: a checked box is a step like any other; only a numbered item
\* needs a text.
IsStepLine(line) ==
  \/ line.mark \in {"box", "bullet"}
  \/ line.mark = "number" /\ "empty" \notin line.says

\* The loop of extract_step_lines and of parse_plan_review: a second-level heading
\* opens or closes the section, a first-level one closes it.
Scan(lines, keyword) ==
  LET Read(acc, line) ==
        CASE line.mark = "h2" -> [acc EXCEPT !.inside = keyword \in line.says,
                                            !.found = @ \/ keyword \in line.says]
          [] line.mark = "h1" -> [acc EXCEPT !.inside = FALSE]
          [] acc.inside /\ IsStepLine(line) -> [acc EXCEPT !.steps = Append(@, line.says)]
          [] OTHER -> acc
  IN FoldLeft(Read, [inside |-> FALSE, found |-> FALSE, steps |-> <<>>], lines)

\* extract_step_lines: without a section every list item of the document.
StepLines(lines) ==
  LET scan == Scan(lines, "plan")
      items == SelectSeq(lines, IsStepLine)
  IN IF scan.found THEN scan.steps ELSE [i \in DOMAIN items |-> items[i].says]

\* annotate_step: what goes over many files is delegated, what is independent may
\* run in parallel.
Annotated(says) ==
  says \cup {m \in {"[D]", "[P]"} : (IF m = "[D]" THEN "wide" ELSE "independent") \in says}

\* import_repoprompt_plan
Imported(lines) == [i \in DOMAIN StepLines(lines) |-> Annotated(StepLines(lines)[i])]
Marked(steps, marker) == Cardinality({i \in DOMAIN steps : marker \in steps[i]})

\* normalize_steps: if nothing is left there are three steps of its own.
Normalized(steps) ==
  LET kept == SelectSeq(steps, LAMBDA says : "empty" \notin says)
  IN IF kept = <<>> THEN <<{}, {}, {}>> ELSE kept

\* parse_plan_items: the gate's marker wins over the fix's.
KindOf(says) ==
  IF "[VERIFY]" \in says THEN "verify" ELSE IF "[FIX]" \in says THEN "fix" ELSE "task"

KindsOf(steps) == [i \in DOMAIN steps |-> KindOf(steps[i])]

\* What a plan made from an export starts with; an export without steps makes none.
FromExport(lines) ==
  IF Imported(lines) = <<>> THEN NoSteps ELSE KindsOf(Normalized(Imported(lines)))

\* plan_create_via_repoprompt and `seed plan build`: the builder was reached, its
\* answer says success and names an export that can be read.
Built(answer) ==
  IF answer.reached /\ answer.success /\ answer.export # <<>>
  THEN FromExport(answer.export[1]) ELSE NoSteps

\* parse_plan_review: the items of the sections about fixes, except "(none)".
ReviewItems(lines) == SelectSeq(Scan(lines, "fixes").steps, LAMBDA says : "none" \notin says)

\* append_items, on at most `limit` of them: each is marked as a fix.
FixesOf(items, limit) ==
  LET some == SubSeq(items, 1, IF Len(items) > limit THEN limit ELSE Len(items))
      texts == SelectSeq(some, LAMBDA says : "empty" \notin says)
  IN [i \in DOMAIN texts |-> KindOf(texts[i] \cup {"[FIX]"})]

\* plan_refine_via_repoprompt: an oracle that fails, or a review without items,
\* leaves the plan alone.
Refined(answer, limit) ==
  IF answer.reached /\ answer.success THEN FixesOf(ReviewItems(answer.text), limit) ELSE <<>>

-----------------------------------------------------------------------------
(* What the loops compute, said without them *)

\* The heading a line stands under
HeadingOf(lines, i) ==
  LET above == {j \in 1 .. i - 1 : lines[j].mark \in {"h1", "h2"}}
  IN IF above = {} THEN [mark |-> "none", says |-> {}]
     ELSE lines[CHOOSE j \in above : \A k \in above : k <= j]

Under(lines, keyword) ==
  SelectSeq([i \in DOMAIN lines |-> i],
            LAMBDA i : /\ IsStepLine(lines[i])
                       /\ HeadingOf(lines, i).mark = "h2"
                       /\ keyword \in HeadingOf(lines, i).says)

\* The steps of an export are the list items whose heading is about the plan, in
\* their order, and all list items if no heading is (extract_step_lines).
StepsAreUnderTheirHeading(lines) ==
  LET about == \E i \in DOMAIN lines : lines[i].mark = "h2" /\ "plan" \in lines[i].says
      want == IF about THEN Under(lines, "plan")
              ELSE SelectSeq([i \in DOMAIN lines |-> i], LAMBDA i : IsStepLine(lines[i]))
  IN StepLines(lines) = [k \in DOMAIN want |-> lines[want[k]].says]

\* The fixes of a review never become ordinary steps, and are those of the items
\* under its headings about fixes that have a text (parse_plan_review, append_items).
FixesAreFixes(lines) ==
  LET fixes == FixesOf(ReviewItems(lines), Len(lines))
      want == SelectSeq(Under(lines, "fixes"),
                        LAMBDA i : lines[i].says \cap {"none", "empty"} = {})
  IN /\ \A i \in DOMAIN fixes : fixes[i] # "task"
     /\ Len(fixes) = Len(want)

\* A delegated step is one that goes over many files or was marked so.
MarksAreMeant(lines) ==
  Marked(Imported(lines), "[D]") =
    Cardinality({i \in DOMAIN StepLines(lines) : StepLines(lines)[i] \cap {"wide", "[D]"} # {}})

=============================================================================
