----------------------------- MODULE RunContract -----------------------------
(***************************************************************************)
(* What one agent run promises its caller: tools run one at a time, at most *)
(* one per turn and at most MaxTurns of them; a run ends once, with one of  *)
(* three outcomes, and does nothing afterwards.  "exceeded" means that the  *)
(* whole budget was used and no other outcome does.  AgentLoop implements   *)
(* this specification.                                                      *)
(***************************************************************************)
EXTENDS Naturals

CONSTANT MaxTurns

VARIABLES
  outcome,   \* "running" until the run ends
  ran        \* tools run so far

vars == <<outcome, ran>>

Init == outcome = "running" /\ ran = 0

RunTool ==
  /\ outcome = "running"
  /\ ran < MaxTurns
  /\ ran' = ran + 1
  /\ UNCHANGED outcome

\* The planner finishes, the parent stops the run, or the run is given up.
End ==
  /\ outcome = "running"
  /\ ran < MaxTurns
  /\ outcome' \in {"finished", "failed"}
  /\ UNCHANGED ran

Exceed ==
  /\ outcome = "running"
  /\ ran = MaxTurns
  /\ outcome' = "exceeded"
  /\ UNCHANGED ran

Next == RunTool \/ End \/ Exceed

Spec == Init /\ [][Next]_vars
=============================================================================
