----------------------------- MODULE MCLibrary -----------------------------
(***************************************************************************)
(* Library for TLC: a skill that ships with the project, a goal whose runs  *)
(* differ in their tools and in what they quote, a name that has no letters *)
(* of a slug, and texts written by hand that go by a taken name, have the   *)
(* heading already, or cannot be read.                                      *)
(***************************************************************************)
EXTENDS Library

Empty == ""

MCAlphabet ==
  <<Empty, "Fix Bug", "RepoPrompt Review", "fix-bug", "fix-bug-2", "notes",
    "repoprompt-review", "xiufu", "xunjian">>

\* xiufu and xunjian stand for names written in Chinese.
MCSlug ==
  [n \in Range(MCAlphabet) |->
     CASE n \in {"Fix Bug", "fix-bug"} -> "fix-bug"
       [] n \in {"RepoPrompt Review", "repoprompt-review"} -> "repoprompt-review"
       [] n \in {Empty, "xiufu", "xunjian"} -> Empty
       [] OTHER -> n]

\* terms keeps a hyphen inside a term.
MCWords ==
  [n \in Range(MCAlphabet) |->
     CASE n = "Fix Bug" -> {"fix", "bug"}
       [] n = "RepoPrompt Review" -> {"repoprompt", "review"}
       [] n \in {Empty, "xiufu", "xunjian"} -> {}
       [] OTHER -> {n}]

MCNumbered == [b \in {"fix-bug"} |-> <<"fix-bug", "fix-bug-2">>]

Run(id, tools, quotes) ==
  [id |-> id, base |-> "fix-bug", says |-> {"fix", "bug"}, tools |-> tools,
   quotes |-> quotes, clean |-> TRUE]

MCRuns ==
  {Run("plain", {}, {}), Run("reads", {"read_file"}, {"updates"}),
   Run("shell", {"run_shell"}, {"rule"}),
   [Run("guess", {"run_shell"}, {}) EXCEPT !.clean = FALSE]}

Text(heading) ==
  [front |-> None, heading |-> heading, about |-> {"review"}, tags |-> {},
   tools |-> {}, quotes |-> {}, section |-> FALSE, rule |-> FALSE, updates |-> <<>>,
   utf8 |-> TRUE, origin |-> "hand"]

MCGiven ==
  "repoprompt-review" :>
    [Text("RepoPrompt Review") EXCEPT !.front = "RepoPrompt Review", !.tags = {"review"},
       !.tools = {"RepoPrompt"}, !.origin = "given"]

MCAsked == {"Fix Bug", "RepoPrompt Review", "xiufu"}

MCByHand ==
  {<<"notes", [Text("Fix Bug") EXCEPT !.tools = {"read_file"}, !.section = TRUE]>>,
   <<Empty, [Text("xunjian") EXCEPT !.utf8 = FALSE]>>}

=============================================================================
