----------------------------- MODULE MCPlanStore -----------------------------
(***************************************************************************)
(* Instances of PlanStore for TLC: one plan explored deeply, and two plans  *)
(* with few items.  The lists of steps and fixes are what PlanImport makes  *)
(* of a few answers of RepoPrompt, and PlanImport itself is compared with   *)
(* its reference on every document of up to four lines.                     *)
(***************************************************************************)
EXTENDS PlanStore, PlanImport

Line(mark, says) == [mark |-> mark, says |-> says]

Builder(lines) == [reached |-> TRUE, success |-> TRUE, export |-> <<lines>>]
Oracle(lines) == [reached |-> TRUE, success |-> TRUE, text |-> lines]

MCBuilders ==
  {Builder(<<Line("h1", {}), Line("h2", {"plan"}), Line("number", {"wide"})>>),
   Builder(<<Line("h2", {"plan"}), Line("box", {}), Line("bullet", {"independent"})>>),
   Builder(<<Line("text", {}), Line("bullet", {"[VERIFY]"})>>),
   Builder(<<Line("h2", {"plan"}), Line("h1", {}), Line("bullet", {})>>),
   [Builder(<<Line("bullet", {})>>) EXCEPT !.success = FALSE]}

MCOracles ==
  {Oracle(<<Line("h2", {"fixes"}), Line("bullet", {}), Line("number", {})>>),
   Oracle(<<Line("h2", {}), Line("bullet", {}), Line("h2", {"fixes"}), Line("bullet", {})>>),
   Oracle(<<Line("h2", {"fixes"}), Line("bullet", {"none"})>>)}

\* One ordinary step, two steps, and a step whose text contains [VERIFY].
MCStepLists == {Built(answer) : answer \in MCBuilders} \ {NoSteps}

MCFixLists == {Refined(answer, 2) : answer \in MCOracles} \ {<<>>}

MCOneStep == {<<"task">>}

MCOneFix == {<<"fix">>}

MCLines ==
  {Line("h1", {}), Line("h2", {}), Line("h2", {"plan"}), Line("h2", {"fixes"}),
   Line("text", {}), Line("bullet", {"none"}), Line("number", {"empty"}),
   Line("box", {"wide"})}

MCDocuments == UNION {[1 .. n -> MCLines] : n \in 0 .. 4}

\* The documents mean what the reference says.
ASSUME ImportIsRead ==
  \A lines \in MCDocuments :
    StepsAreUnderTheirHeading(lines) /\ FixesAreFixes(lines) /\ MarksAreMeant(lines)
=============================================================================
