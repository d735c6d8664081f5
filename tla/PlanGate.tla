------------------------------ MODULE PlanGate ------------------------------
(***************************************************************************)
(* What the plan store promises about its durable plans, seen from         *)
(* outside: of each plan the phase, whether work or a [VERIFY] box is      *)
(* still open, and the verdicts an independent verifier has returned.      *)
(* PlanStore implements this specification.                                *)
(*                                                                         *)
(*   - "verified" and "failed" are sticky: adding or finishing items never *)
(*     moves a plan out of them;                                           *)
(*   - a verdict moves the plan by its kind: pass verifies, fail fails the *)
(*     plan AND leaves work open, anything else re-opens the gate;         *)
(*   - a verification starts only when no work is open;                    *)
(*   - in between, the phase is read off the boxes;                        *)
(*   - a verdict once given is never withdrawn.                            *)
(***************************************************************************)
EXTENDS Sequences

CONSTANT PlanIds

VARIABLE seen     \* what can be seen of each plan

Verdicts == {"pass", "fail", "unknown"}

Unborn == [phase |-> "absent", work |-> FALSE, gate |-> FALSE, verdicts |-> << >>]

\* The phase a reader of a plan finds, given the phase on record.
Settled(phase, work, gate) ==
  IF phase \in {"verified", "failed"} THEN phase
  ELSE IF work THEN "active"
  ELSE IF gate THEN "pending_verification"
  ELSE "verified"

\* A new plan has an open [VERIFY] box.
Born(old, new) ==
  /\ old = Unborn
  /\ new.gate
  /\ new.phase = Settled("active", new.work, TRUE)
  /\ new.verdicts = << >>

\* Items are read, added or checked off.  The phase is settled first on the
\* boxes found, then on the boxes left.
Work(old, new) ==
  /\ old.phase # "absent"
  /\ new.phase = Settled(Settled(old.phase, old.work, old.gate), new.work, new.gate)
  /\ new.verdicts = old.verdicts

\* An independent verification is asked for; a dry run reads the plan again.
OpenGate(old, new) ==
  /\ old.phase # "absent"
  /\ ~old.work
  /\ new.phase \in {"pending_verification",
                    Settled("pending_verification", old.work, old.gate)}
  /\ new.work = old.work
  /\ new.gate = old.gate
  /\ new.verdicts = old.verdicts

\* The verifier's answer is recorded.
Verdict(old, new, v) ==
  /\ old.phase # "absent"
  /\ new.verdicts = Append(old.verdicts, v)
  /\ v = "pass"    => new.phase = "verified" /\ new.work = old.work
  /\ v = "fail"    => new.phase = "failed" /\ new.work /\ new.gate = old.gate
  /\ v = "unknown" => /\ new.phase = Settled("pending_verification", old.work, old.gate)
                      /\ new.work = old.work
                      /\ new.gate = old.gate

Step(old, new) ==
  \/ new = old
  \/ Born(old, new)
  \/ Work(old, new)
  \/ OpenGate(old, new)
  \/ \E v \in Verdicts : Verdict(old, new, v)

\* One call may touch several plans: list() reads them all.
GateInit == seen = [p \in PlanIds |-> Unborn]

GateNext == \A p \in PlanIds : Step(seen[p], seen'[p])

GateSpec == GateInit /\ [][GateNext]_seen
=============================================================================
