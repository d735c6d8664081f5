----------------------------- MODULE PlannerReply -----------------------------
(***************************************************************************)
(* From the text a model answers with to the action a turn carries out:     *)
(* agent-runtime's parse_planned_action with its extraction of the JSON     *)
(* object, its repair and its sanity check.                                 *)
(*                                                                         *)
(* A reply is known by what stands around its JSON object, what is wrong    *)
(* with the JSON, and the fields of the action; the characters are left     *)
(* out.                                                                     *)
(***************************************************************************)
EXTENDS Naturals

\* around: nothing, a markdown fence, prose, or prose that holds a brace;
\* "none" is a reply without any object.
Around == {"bare", "fence", "prose", "braces", "none"}

\* Slips: what the repair can mend, "cut" (the text ends too early) and what
\* else serde_json rejects.
Slips == {"comma", "comment", "cut", "syntax"}

Replies ==
  [around : Around, slips : SUBSET Slips, action : {"tool", "finish", "other"},
   summary : {"missing", "blank", "text"},
   tool : {"missing", "blank", "placeholder", "name"},
   args : {"missing", "null", "value", "object"},
   answer : {"missing", "blank", "text"}]

\* extract_json_object: from the first brace to the last, whatever lies
\* between; a fence that surrounds an object is cut away here.
Extracted(reply) == reply.around \in {"bare", "fence", "prose"}

\* repair_planner_json: trailing commas and line comments go.
Repaired(reply) == [reply EXCEPT !.slips = @ \ {"comma", "comment"}]

\* serde_json::from_str::<PlannedAction>: the summary has a default, the
\* fields of the action have none.
WellFormed(reply) ==
  /\ Extracted(reply)
  /\ reply.slips = {}
  /\ \/ /\ reply.action = "tool"
        /\ reply.tool # "missing" /\ reply.args # "missing"
     \/ reply.action = "finish" /\ reply.answer # "missing"

\* sanity_check, and the summary every action must have.
Sane(reply) ==
  /\ reply.summary = "text"
  /\ reply.action = "tool" => reply.tool = "name" /\ reply.args = "object"
  /\ reply.action = "finish" => reply.answer = "text"

\* parse_planned_action: strictly first, then once more after the repair.
Accepted(reply) ==
  /\ WellFormed(reply) \/ WellFormed(Repaired(reply))
  /\ Sane(reply)

=============================================================================
