------------------------------ MODULE Library ------------------------------
(***************************************************************************)
(* The skills directory and what is looked up in it: agent-skills, the      *)
(* skill half of agent-memory's index, `seed skill`, the skill and memory   *)
(* tools, and the learning at the end of `seed run --learn`.                *)
(*                                                                         *)
(* A skill is a SKILL.md in a directory named by a slug; the empty slug is  *)
(* the skills directory itself.  It is written by the program, from the log *)
(* of a run, or by hand.  A run that learns picks a free directory name,    *)
(* asks RepoPrompt for its binding, lists the skills, and then either       *)
(* appends an update to the one that matches best (a read and a write) or   *)
(* writes a new one.  Nothing is locked.                                    *)
(*                                                                         *)
(* A text is known by the terms that are compared (stop words and short     *)
(* terms are gone, and a query term matches a whole term), by the headings  *)
(* it has, and by the headings it quotes inside a line: the phrases that    *)
(* append_learned_update looks for.                                         *)
(***************************************************************************)
EXTENDS Integers, Sequences, FiniteSets, SequencesExt, FiniteSetsExt

CONSTANTS
  Proc,      \* terminals in which a run learns
  Runs,      \* the finished runs: what their logs say
  Alphabet,  \* all names and slugs, in the order of their bytes
  Slug,      \* slugify, from names and slugs to slugs
  Words,     \* the terms of a name or slug
  Numbered,  \* for the base of a goal: the slugs base, base-2, base-3, ...
  Given,     \* the skills that ship with the project, by slug
  Asked,     \* names given to `seed skill create`
  ByHand,    \* skills written by hand: a slug and a text
  Alone      \* whether the user waits for a run to end before the next step

None == "none"

Names == DOMAIN Slug
Slugs == {Slug[n] : n \in Names}

\* What is told apart in a SKILL.md; who wrote it is a history variable of the file.
Phrases == {"updates", "rule"}
Texts ==
  [front : Names \cup {None}, heading : Names \cup {None}, about : SUBSET STRING,
   tags : SUBSET STRING, tools : SUBSET STRING, quotes : SUBSET Phrases,
   section : BOOLEAN, rule : BOOLEAN, updates : Seq(STRING), utf8 : BOOLEAN,
   origin : {"given", "hand", "created", "learned"}]

\* What RunLearningContext takes from the log of a run
Logs ==
  [id : STRING, base : DOMAIN Numbered, says : SUBSET STRING, tools : SUBSET STRING,
   quotes : SUBSET Phrases, clean : BOOLEAN]

\* The first line of every skill made by the program, which is its description
Boilerplate == {"future", "task", "matches", "pattern", "below"}

\* A skill lies in the directory of its name, by whichever way it is named.
LiesAtItsName(s, text) ==
  \A name \in {text.front, text.heading} \ {None} : Slug[name] = s

\* That literals are strings is true but unknown to the provers.
ASSUME LibraryAssumptions ==
  /\ Boilerplate \subseteq STRING
  /\ \A n \in Names : IsFiniteSet(Words[n])
  /\ \A n \in Range(Alphabet) : n \in Names
  /\ \A n \in Names : Slug[n] \in Names /\ Slug[Slug[n]] = Slug[n]
  /\ Alone \in BOOLEAN
  /\ Asked \subseteq Names
  /\ \A b \in DOMAIN Numbered : Numbered[b] \in Seq(Slugs)
  /\ Runs \subseteq Logs
  /\ \A r \in Runs : IsFiniteSet(r.says) /\ IsFiniteSet(r.tools)
  /\ Given \in [DOMAIN Given -> Texts] /\ DOMAIN Given \subseteq Slugs
  /\ IsFiniteSet(DOMAIN Given)
  /\ \A s \in DOMAIN Given : Given[s].origin = "given" /\ LiesAtItsName(s, Given[s])
  /\ ByHand \subseteq Slugs \X Texts
  /\ \A hand \in ByHand : hand[2].origin = "hand"

VARIABLES
  skill,  \* the SKILL.md files, by the slug of their directory
  proc    \* what each terminal does

libraryVars == <<skill, proc>>

Places == DOMAIN skill

-----------------------------------------------------------------------------
(* What is read from a skill *)

\* skill_info_from_body: the name is the front matter's, else the first heading,
\* else the directory.
NameOf(s) == IF skill[s].front # None THEN skill[s].front
             ELSE IF skill[s].heading # None THEN skill[s].heading ELSE s

Tags(s) == Words[NameOf(s)] \cup skill[s].tags \cup skill[s].tools
Haystack(s) == Tags(s) \cup skill[s].about

Rank(n) == CHOOSE i \in DOMAIN Alphabet : Alphabet[i] = n

\* The order of list_skill_infos: by name, then by path.
Before(s, t) ==
  \/ Rank(NameOf(s)) < Rank(NameOf(t))
  \/ NameOf(s) = NameOf(t) /\ Rank(s) < Rank(t)

\* One file that is not UTF-8 fails the whole listing.
Readable == \A s \in Places : skill[s].utf8

\* search_skill_infos: in the order of the number of terms found, then of the list;
\* without terms the list itself.
SearchSkills(query, limit) ==
  LET found == [s \in Places |-> Cardinality(query \cap Haystack(s))]
      hits  == {s \in Places : query = {} \/ found[s] > 0}
      ahead(s) == {t \in hits \ {s} : found[t] > found[s] \/ (found[t] = found[s] /\ Before(t, s))}
  IN {s \in hits : Cardinality(ahead(s)) < Max({limit, 1})}

\* fetch_skill: the first in the list whose name is the wanted one or has its slug.
FetchSkill(wanted) ==
  LET hits == {s \in Places : NameOf(s) = wanted \/ Slug[NameOf(s)] = Slug[wanted]}
  IN IF hits = {} THEN None ELSE CHOOSE s \in hits : \A t \in hits \ {s} : Before(s, t)

\* route_repoprompt_skill: the first of the three kinds the task mentions.
Route(kinds) ==
  IF "review" \in kinds THEN "repoprompt-review"
  ELSE IF "plan" \in kinds THEN "repoprompt-deep-plan"
  ELSE IF "investigate" \in kinds THEN "repoprompt-investigate" ELSE None

\* load_routed_repoprompt_skill, for a Codex prompt: by directory.
RoutedForCodex(kinds) == IF Route(kinds) \in Places THEN Route(kinds) ELSE None

\* relevant_skill_for_goal, for a planner prompt: by name.
RoutedForPlanner(kinds) ==
  IF Route(kinds) = None \/ ~Readable THEN None ELSE FetchSkill(Route(kinds))

-----------------------------------------------------------------------------
(* The memory index *)

\* An entry: the slug of the heading makes the id, and the title and the text the
\* keywords.  The front matter is skipped.
Title(s) == IF skill[s].heading # None THEN skill[s].heading ELSE s
Entry(s) == [id |-> Slug[Title(s)], path |-> s,
             keywords |-> Words[Title(s)] \cup skill[s].about]

\* The entries a rebuild writes; it fails on a file that is not UTF-8.
Fresh == {Entry(s) : s \in Places}

Mentions(query, e) == Cardinality(query \cap (e.keywords \cup Words[e.id]))

\* search_index: what it may answer.  Entries with one id may come in either order.
SearchIndex(entries, query, limit) ==
  LET score == [e \in entries |-> IF query = {} THEN 1 ELSE Mentions(query, e)]
      hits == {e \in entries : score[e] > 0}
      number == Min({Max({limit, 1}), 50, Cardinality(hits)})
  IN {some \in SUBSET hits :
        /\ Cardinality(some) = number
        /\ \A e \in some, f \in hits \ some :
             \/ score[e] > score[f]
             \/ score[e] = score[f] /\ Rank(e.id) <= Rank(f.id)}

\* fetch_memory by an id: the entries it may find, from the index as it was
\* rebuilt last.
Matches(entries, id) == {e \in entries : e.id = id}

-----------------------------------------------------------------------------
(* What a run leaves *)

\* reflect_markdown and render_binding_frontmatter: goal, results and checkpoints of
\* the run are quoted before the "## Memory Rule" heading; a bound run adds front
\* matter.
Reflection(run, name, bound, origin) ==
  [front |-> IF bound THEN name ELSE None, heading |-> name, about |-> Boilerplate,
   tags |-> {}, tools |-> run.tools, quotes |-> run.quotes, section |-> FALSE,
   rule |-> TRUE, updates |-> <<>>, utf8 |-> TRUE, origin |-> origin]

\* best_skill_match: a shared term counts 1, a tool among the tags 2 more.
Mutant_Score(run, s) ==
  Cardinality((run.says \cup run.tools) \cap Haystack(s)) + Cardinality(run.tools \cap Tags(s))

Score(run, s) ==
  Cardinality((run.says \cup run.tools) \cap Haystack(s)) + 2 * Cardinality(run.tools \cap Tags(s))

Similar(run) == {s \in Places : Score(run, s) >= 3}
IsBest(run, s) ==
  /\ s \in Similar(run)
  /\ \A t \in Similar(run) \ {s} :
       \/ Score(run, s) > Score(run, t)
       \/ Score(run, s) = Score(run, t) /\ Before(s, t)

\* append_learned_update, with the line that the day, the goal, the tools and the
\* summary of a run make, the run's id: under the heading, or under a new one before the memory
\* rule or at the end.  The headings are looked for anywhere in the text: a phrase
\* inside a line passes for the heading, and then the update has no line to follow,
\* or the new heading is put into the middle of a line.
Learnt(text, update) ==
  IF Contains(text.updates, update) THEN text
  ELSE IF text.section THEN [text EXCEPT !.updates = Append(@, update)]
  ELSE IF "updates" \in text.quotes THEN text
  ELSE IF "rule" \in text.quotes
       THEN [text EXCEPT !.updates = Append(@, update), !.quotes = @ \cup {"updates"}]
  ELSE [text EXCEPT !.updates = Append(@, update), !.section = TRUE]

Write(s, text) ==
  skill' = [t \in Places \cup {s} |-> IF t = s THEN text ELSE skill[t]]

-----------------------------------------------------------------------------
(* Learning *)

NoRun == [id |-> None, base |-> None, says |-> {}, tools |-> {}, quotes |-> {}, clean |-> FALSE]

Idle == [pc |-> "idle", run |-> NoRun, name |-> None, bound |-> FALSE, target |-> None,
         text |-> <<>>]

Become(p, c) == proc' = [proc EXCEPT ![p] = c]
Quit(p) == Become(p, Idle)

\* unique_skill_name: the first of base, base-2, ... that has no SKILL.md.
Mutant_IsFree(base, name) == name = Numbered[base][1]

IsFree(base, name) ==
  \E i \in DOMAIN Numbered[base] :
    /\ Numbered[base][i] = name
    /\ name \notin Places
    /\ \A j \in 1 .. (i - 1) : Numbered[base][j] \in Places

\* The run has completed and the index is rebuilt, which one unreadable skill keeps
\* from succeeding; then --learn picks a name.
RunEnds(p) ==
  /\ proc[p].pc = "idle"
  /\ \E run \in Runs :
       \/ /\ Readable
          /\ \E name \in Range(Numbered[run.base]) :
               /\ IsFree(run.base, name)
               /\ Become(p, [Idle EXCEPT !.pc = "named", !.run = run, !.name = name])
       \/ ~Readable /\ Quit(p)
  /\ UNCHANGED skill

\* query_current_repoprompt_binding: a call to another program.
Bind(p) ==
  /\ proc[p].pc = "named"
  /\ \E bound \in BOOLEAN :
       Become(p, [proc[p] EXCEPT !.pc = "bound", !.bound = bound])
  /\ UNCHANGED skill

\* consolidate_skill_with_binding lists the skills and decides.  A text that
\* validate_durable_memory_text refuses ends the learning.
Decide(p) ==
  /\ proc[p].pc = "bound"
  /\ LET run == proc[p].run
     IN IF ~Readable \/ ~run.clean THEN Quit(p)
        ELSE \/ \E s \in Places :
                  /\ IsBest(run, s)
                  /\ Become(p, [proc[p] EXCEPT !.pc = "update", !.target = s])
             \/ /\ Similar(run) = {}
                /\ Become(p, [proc[p] EXCEPT !.pc = "create"])
  /\ UNCHANGED skill

\* append_learned_update reads the file; it may be gone by now.
Read(p) ==
  /\ proc[p].pc = "update"
  /\ IF proc[p].target \in Places /\ skill[proc[p].target].utf8
     THEN Become(p, [proc[p] EXCEPT !.pc = "read", !.text = <<skill[proc[p].target]>>])
     ELSE Quit(p)
  /\ UNCHANGED skill

\* It writes the changed text back; if the directory is gone it fails.
Update(p) ==
  /\ proc[p].pc = "read"
  /\ LET read == proc[p].text[1]
         text == Learnt(read, proc[p].run.id)
     IN IF text = read THEN UNCHANGED skill /\ Become(p, [proc[p] EXCEPT !.pc = "settle"])
        ELSE IF proc[p].target \notin Places THEN UNCHANGED skill /\ Quit(p)
        ELSE Write(proc[p].target, text) /\ Become(p, [proc[p] EXCEPT !.pc = "settle"])

\* create_skill_with_binding: whatever is at the slug of the name is replaced.
Mutant_Create(p) ==
  /\ proc[p].pc = "create"
  /\ Write(Slug[proc[p].name],
           Reflection(proc[p].run, proc[p].run.base, proc[p].bound, "learned"))
  /\ Become(p, [proc[p] EXCEPT !.pc = "settle", !.target = Slug[proc[p].name]])

Create(p) ==
  /\ proc[p].pc = "create"
  /\ Write(Slug[proc[p].name], Reflection(proc[p].run, proc[p].name, proc[p].bound, "learned"))
  /\ Become(p, [proc[p] EXCEPT !.pc = "settle", !.target = Slug[proc[p].name]])

\* The index is rebuilt again (what a rebuild writes is Fresh) and the settlement
\* reported with changed: true.
Settle(p) ==
  /\ proc[p].pc = "settle"
  /\ Quit(p)
  /\ UNCHANGED skill

-----------------------------------------------------------------------------
(* The user and the clock *)

Waiting == Alone => \A p \in Proc : proc[p].pc = "idle"

\* `seed skill create`: under the name as it is given.
CreateByName(name) ==
  /\ Waiting
  /\ \E run \in Runs, bound \in BOOLEAN :
       /\ run.clean
       /\ Write(Slug[name], Reflection(run, name, bound, "created"))
  /\ UNCHANGED proc

\* A skill is written or edited by hand, anywhere.
WriteByHand ==
  /\ Waiting
  /\ \E hand \in ByHand : Write(hand[1], hand[2])
  /\ UNCHANGED proc

DeleteByHand ==
  /\ Waiting
  /\ \E s \in Places : skill' = [t \in Places \ {s} |-> skill[t]]
  /\ UNCHANGED proc

LibraryInit ==
  /\ skill = Given
  /\ proc = [p \in Proc |-> Idle]

LibraryNext ==
  \/ \E p \in Proc :
       RunEnds(p) \/ Bind(p) \/ Decide(p) \/ Read(p) \/ Update(p) \/ Create(p) \/ Settle(p)
  \/ \E name \in Asked : CreateByName(name)
  \/ WriteByHand \/ DeleteByHand

LibrarySpec == LibraryInit /\ [][LibraryNext]_libraryVars

-----------------------------------------------------------------------------
(* Properties *)

Stages == {"idle", "named", "bound", "update", "read", "create", "settle"}
Terminals ==
  [pc : Stages, run : Runs \cup {NoRun}, name : Slugs \cup {None}, bound : BOOLEAN,
   target : Slugs \cup {None}, text : Seq(Texts)]

\* What a terminal has at each stage
Equipped(c) ==
  /\ c.pc # "idle" => c.run \in Runs
  /\ c.pc \in {"named", "bound", "create"} => c.name \in Slugs
  /\ c.pc \in {"update", "read"} => c.target \in Slugs
  /\ c.pc = "read" => c.text # <<>>

\* The files and the terminals keep their types.
LibraryTypeOK ==
  /\ skill \in [Places -> Texts] /\ Places \subseteq Slugs
  /\ proc \in [Proc -> Terminals]
  /\ \A p \in Proc : Equipped(proc[p])

Made(s) == skill[s].origin # "hand"

\* A file written by hand that goes by the same name
Shadowed(s) ==
  \E t \in Places \ {s} :
    ~Made(t) /\ {Slug[NameOf(t)], Slug[Title(t)]} \cap {Slug[NameOf(s)], Slug[Title(s)]} # {}

\* A search for the name of a skill shows it, however little is shown, unless all that
\* is shown has the words of the name too (search_skill_infos).
SkillIsShown(s, limit) ==
  LET words == Words[NameOf(s)]
      shown == SearchSkills(words, limit)
  IN s \in shown \/ \A t \in shown : words \subseteq Haystack(t)

\* The same of a memory search for its title (search_index).
EntryIsShown(s, limit) ==
  LET words == Words[Title(s)]
  IN \A shown \in SearchIndex(Fresh, words, limit) :
       Entry(s) \in shown \/ \A e \in shown : words \subseteq e.keywords \cup Words[e.id]

\* `skill_fetch` with the name that `skill_list` shows opens the skill, both searches
\* show it, and a fresh memory index has its id for it alone.  If it is one of the
\* recipes goals are routed to, a planner is shown the same file as Codex
\* (relevant_skill_for_goal, load_routed_repoprompt_skill).
MadeIsReachable(s) ==
  /\ FetchSkill(NameOf(s)) = s
  /\ \A limit \in 1 .. Cardinality(Places) : SkillIsShown(s, limit) /\ EntryIsShown(s, limit)
  /\ Matches(Fresh, Slug[Title(s)]) = {Entry(s)}
  /\ \A kinds \in SUBSET {"review", "plan", "investigate"} :
       Route(kinds) = s => RoutedForPlanner(kinds) = RoutedForCodex(kinds)

\* What the program wrote can be looked up again by every way there is, unless a file
\* written by hand goes by the same name or cannot be read (create_skill_with_binding,
\* fetch_skill, search_skill_infos, collect_skills, search_index).
MadeAreReachable ==
  Readable => \A s \in Places : Made(s) /\ ~Shadowed(s) => MadeIsReachable(s)

\* Two skills learned by runs never list one tool: a run that used a tool of a
\* learned skill updates a skill and makes none (best_skill_match, for which one
\* shared tool is enough).
LearnedAreDisjoint ==
  \A s, t \in Places :
    s # t /\ skill[s].origin = "learned" /\ skill[t].origin = "learned"
      => skill[s].tools \cap skill[t].tools = {}

\* Learning only adds: no skill disappears or is replaced by the write that ends a
\* learning run, and no update of an earlier run is lost (unique_skill_name,
\* create_skill_with_binding, append_learned_update).
OnlyAdds(s) ==
  /\ s \in DOMAIN skill'
  /\ [skill'[s] EXCEPT !.updates = <<>>, !.section = FALSE, !.quotes = {}]
       = [skill[s] EXCEPT !.updates = <<>>, !.section = FALSE, !.quotes = {}]
  /\ IsPrefix(skill[s].updates, skill'[s].updates)

LearningAdds ==
  [][\A p \in Proc :
       proc[p].pc \in {"create", "read"} /\ proc'[p].pc # proc[p].pc
         => \A s \in Places : OnlyAdds(s)]_libraryVars

\* What the settlement event says, `changed: true` (run.rs): the update a run reports
\* is in the skill.  A heading that is only quoted swallows it.
SettledIsWritten ==
  \A p \in Proc :
    LET c == proc[p]
    IN c.pc = "settle" /\ c.text # <<>> /\ c.target \in Places
         => Contains(skill[c.target].updates, c.run.id)

\* "or updates a similar existing one" (README.md): a skill that is updated has a
\* term in common with what the run was about.  One tool in common is enough.
UpdatedIsSimilar ==
  \A p \in Proc :
    proc[p].pc = "update" => proc[p].run.says \cap Haystack(proc[p].target) # {}

\* The same sentence of the other decision: a run whose goal has the slug of a listed
\* skill makes no second one.  Terms keep the hyphens of a slug, so that without a
\* tool the goal and the name have nothing in common.
CreatedIsNew ==
  \A p \in Proc :
    proc[p].pc = "create" => ~\E s \in Places : s = proc[p].run.base

\* skill_fetch loads the skill that is named, if there is one of this name.
FetchGivesNamed ==
  Readable => \A s \in Places : NameOf(FetchSkill(NameOf(s))) = NameOf(s)

=============================================================================
