------------------------------ MODULE PlanStore ------------------------------
(***************************************************************************)
(* The durable plan store of agent-plan and the tools and CLI commands     *)
(* that drive it.  A plan lives in two files that are written one after    *)
(* the other: plan.md, a list of checkbox items, and state.json, the       *)
(* status, the number of verification attempts and the orchestration       *)
(* ledger.  One action is one call of the store (or one tool made of such  *)
(* calls), and one process uses the store.                                 *)
(*                                                                         *)
(* Every call begins and most end with snapshot(), which is not a read:    *)
(* it re-infers the status from the boxes and writes state.json back.      *)
(*                                                                         *)
(* An item is its kind and its box; its wording, number and [D]/[P]        *)
(* markers are left out.  A verifier's report is the set of verdict        *)
(* phrases it contains.                                                    *)
(***************************************************************************)
EXTENDS Integers, Sequences, SequencesExt

CONSTANTS
  PlanIds,       \* the ids a plan can get
  StepLists,     \* the lists of step kinds plan_create may be given
  FixLists,      \* the lists of fixes an oracle review may return
  ArtifactKeys,  \* the (kind, path) pairs recorded by hand
  MaxItems,      \* bound: items of one plan
  MaxAttempts,   \* bound: verification attempts of one plan
  MaxHandoffs    \* bound: handoffs recorded by hand

ASSUME PlanAssumptions ==
  /\ StepLists \subseteq Seq({"task", "fix", "verify"})
  /\ FixLists \subseteq Seq({"task", "fix", "verify"})
  /\ {MaxItems, MaxAttempts, MaxHandoffs} \subseteq Nat

NoPlan == "no plan"

VARIABLES
  md,        \* plan.md of each plan: its items in file order
  state,     \* state.json of each plan
  context,   \* the plans whose verify_context.json exists
  lastDir,   \* the plan directory with the newest modification time
  newer,     \* <<p, q>>: p's updated_at is later than q's
  inFlight,  \* the plans an independent verifier is running for
  reply      \* what the last call told its caller

vars == <<md, state, context, lastDir, newer, inFlight, reply>>

-----------------------------------------------------------------------------
(* plan.md *)

Kinds == {"task", "fix", "verify"}

Item == [kind : Kinds, checked : BOOLEAN]

OpenItem(k) == [kind |-> k, checked |-> FALSE]

\* normalize_steps keeps the order; render_plan_markdown adds the gate.
Rendered(kinds) == [i \in 1..Len(kinds) |-> OpenItem(kinds[i])]
                   \o <<OpenItem("verify")>>

Unchecked(b) == {i \in 1..Len(b) : ~b[i].checked}

OpenTasks(b) == {i \in Unchecked(b) : b[i].kind # "verify"}

OpenGates(b) == {i \in Unchecked(b) : b[i].kind = "verify"}

NextItem(b) == Min(Unchecked(b))

Check(b, i) == [b EXCEPT ![i].checked = TRUE]

\* append_items inserts before the first unchecked [VERIFY] line, or at the
\* end of the file when there is none.
Mutant_InsertFixes(b, kinds) ==
  [i \in 1..Len(kinds) |-> OpenItem(kinds[i])] \o b

InsertFixes(b, kinds) ==
  LET at  == IF OpenGates(b) = {} THEN Len(b) + 1 ELSE Min(OpenGates(b))
      new == [i \in 1..Len(kinds) |-> OpenItem(kinds[i])]
  IN  SubSeq(b, 1, at - 1) \o new \o SubSeq(b, at, Len(b))

Mutant_AppendFixItem(b) == b

AppendFixItem(b) == Append(b, OpenItem("fix"))

-----------------------------------------------------------------------------
(* state.json *)

Statuses == {"active", "pending_verification", "verified", "failed"}

Artifacts == ArtifactKeys \cup {"verify_context"}

Ledger == [artifacts : SUBSET Artifacts, handoffs : Nat,
           records : Seq([attempt : Nat, verdict : {"pass", "fail", "unknown"}])]

PlanState == [status : Statuses \cup {"absent"}, attempts : Nat, ledger : Ledger]

EmptyLedger == [artifacts |-> {}, handoffs |-> 0, records |-> << >>]

Absent == [status |-> "absent", attempts |-> 0, ledger |-> EmptyLedger]

Mutant_InferredStatus(current, b) ==
  IF OpenTasks(b) # {} THEN "active"
  ELSE IF OpenGates(b) # {} THEN "pending_verification"
  ELSE "verified"

Mutant_InferredStatusNoTasks(current, b) ==
  IF current \in {"verified", "failed"} THEN current
  ELSE IF OpenGates(b) # {} THEN "pending_verification"
  ELSE "verified"

InferredStatus(current, b) ==
  IF current \in {"verified", "failed"} THEN current
  ELSE IF OpenTasks(b) # {} THEN "active"
  ELSE IF OpenGates(b) # {} THEN "pending_verification"
  ELSE "verified"

\* What snapshot() leaves in state.json.
Synced(st, b) == [st EXCEPT !.status = InferredStatus(@, b)]

\* A report with both phrases counts as a pass.
Mutant_Verdict(report) ==
  IF "PASS" \in report THEN "pass"
  ELSE IF "FAIL" \in report THEN "FAIL"
  ELSE "unknown"

Verdict(report) ==
  IF "PASS" \in report THEN "pass"
  ELSE IF "FAIL" \in report THEN "fail"
  ELSE "unknown"

Reports == SUBSET {"PASS", "FAIL"}

Handoff(st) == [st EXCEPT !.ledger.handoffs = @ + 1]

\* record_artifact_once
Attached(st, a) == [st EXCEPT !.ledger.artifacts = @ \cup {a}]

Plans == {p \in PlanIds : state[p].status # "absent"}

\* updated_at := now
Touched(p) == {r \in newer : p \notin {r[1], r[2]}}
              \cup {<<p, q>> : q \in Plans \ {p}}

-----------------------------------------------------------------------------
(* What the tools say *)

Prompts == {"none", "PLAN_MODE", "PLAN_VERIFY_REQUIRED", "PLAN_VERIFIED",
            "PLAN_FIX_REQUIRED", "PLAN_VERIFY_PENDING",
            "POST_VERIFY_GUARD", "STEP"}

Reply == [tool : {"quiet", "next", "next_default", "brief", "verify"},
          plan : PlanIds \cup {NoPlan}, prompt : Prompts]

Quiet == [tool |-> "quiet", plan |-> NoPlan, prompt |-> "none"]

Say(tool, p, prompt) == [tool |-> tool, plan |-> p, prompt |-> prompt]

\* plan_mode_next_prompt
NextPrompt(b) ==
  IF OpenTasks(b) = {} /\ Unchecked(b) # {} THEN "PLAN_VERIFY_REQUIRED"
  ELSE "PLAN_MODE"

VerifyPrompt(status) ==
  CASE status = "verified" -> "PLAN_VERIFIED"
    [] status = "failed"   -> "PLAN_FIX_REQUIRED"
    [] OTHER               -> "PLAN_VERIFY_PENDING"

-----------------------------------------------------------------------------
Init ==
  /\ md = [p \in PlanIds |-> << >>]
  /\ state = [p \in PlanIds |-> Absent]
  /\ context = {}
  /\ lastDir = NoPlan
  /\ newer = {}
  /\ inFlight = {}
  /\ reply = Quiet

Fresh(exports) ==
  [status |-> "active", attempts |-> 0,
   ledger |-> [artifacts |-> exports, handoffs |-> 0, records |-> << >>]]

\* plan_create, plan_create_from_repoprompt, plan_create_via_repoprompt and
\* their CLI mirrors; the two importers record the export as an artifact.
Create(p, kinds, exports) ==
  /\ p \notin Plans
  /\ md' = [md EXCEPT ![p] = Rendered(kinds)]
  /\ state' = [state EXCEPT ![p] =
                 Synced(Fresh(exports), Rendered(kinds))]
  /\ lastDir' = p
  /\ newer' = Touched(p)
  /\ reply' = Quiet
  /\ UNCHANGED <<context, inFlight>>

\* snapshot(): plan_status and plan_next, and every call that fails after
\* its snapshot (ItemNotFound, AlreadyComplete, NoUncheckedItems, unfinished
\* items before a verification).
Snapshot(p, tool) ==
  /\ p \in Plans
  /\ tool = "next_default" => p = lastDir
  /\ state' = [state EXCEPT ![p] = Synced(@, md[p])]
  /\ reply' = IF tool = "quiet" THEN Quiet ELSE Say(tool, p, NextPrompt(md[p]))
  /\ UNCHANGED <<md, context, lastDir, newer, inFlight>>

\* list(): every plan is snapshot.
SyncedAll == [p \in PlanIds |->
                IF p \in Plans THEN Synced(state[p], md[p]) ELSE state[p]]

\* active_brief() and the block of the prompt made from it before every call of
\* the planner: of the live plans, the one updated last.
Guarded(status, b) ==
  \/ status = "verified"
  \/ status = "pending_verification" /\ OpenTasks(b) = {}

Brief ==
  LET live == {p \in Plans : SyncedAll[p].status
                               \in {"active", "pending_verification"}}
  IN  /\ Plans # {}
      /\ state' = SyncedAll
      /\ \/ /\ live = {}
            /\ reply' = Say("brief", NoPlan, "none")
         \/ \E p \in live :
              /\ \A q \in live \ {p} : <<p, q>> \in newer
              /\ reply' = Say("brief", p,
                              IF Guarded(state'[p].status, md[p])
                              THEN "POST_VERIFY_GUARD" ELSE "STEP")
      /\ UNCHANGED <<md, context, lastDir, newer, inFlight>>

\* plan_complete of item i (or of the next item, when the planner names none).
Complete(p, i) ==
  /\ p \in Plans
  /\ i \in Unchecked(md[p])
  /\ md' = [md EXCEPT ![p] = Check(@, i)]
  /\ state' = [state EXCEPT ![p] = Synced(Synced(@, md[p]), md'[p])]
  /\ newer' = Touched(p)
  /\ reply' = Quiet
  /\ UNCHANGED <<context, lastDir, inFlight>>

\* plan_refine_via_repoprompt, once the oracle has answered: append_items,
\* then record_handoff.  (With no fixes in the answer it is a Snapshot.)
Refine(p, kinds) ==
  /\ p \in Plans
  /\ Len(md[p]) + Len(kinds) <= MaxItems
  /\ md' = [md EXCEPT ![p] = InsertFixes(@, kinds)]
  /\ state' = [state EXCEPT ![p] =
                 Handoff(Synced(Synced(@, md[p]), md'[p]))]
  /\ newer' = Touched(p)
  /\ reply' = Quiet
  /\ UNCHANGED <<context, lastDir, inFlight>>

\* plan_record_artifact
RecordArtifact(p, a) ==
  /\ p \in Plans
  /\ state' = [state EXCEPT ![p] =
                 Attached(Synced(@, md[p]), a)]
  /\ newer' = Touched(p)
  /\ reply' = Quiet
  /\ UNCHANGED <<md, context, lastDir, inFlight>>

\* plan_record_handoff
RecordHandoff(p) ==
  /\ p \in Plans
  /\ state[p].ledger.handoffs < MaxHandoffs
  /\ state' = [state EXCEPT ![p] = Handoff(Synced(@, md[p]))]
  /\ newer' = Touched(p)
  /\ reply' = Quiet
  /\ UNCHANGED <<md, context, lastDir, inFlight>>

-----------------------------------------------------------------------------
(* The verification gate *)

\* write_verify_context refuses a plan with open work (then it was only a
\* Snapshot).  The status is read off the boxes by its snapshot and then
\* overwritten; no snapshot follows.
Mutant_MayVerify(p) == p \in Plans

MayVerify(p) == p \in Plans /\ OpenTasks(md[p]) = {}

ContextWritten(st) ==
  [Attached(st, "verify_context") EXCEPT !.status = "pending_verification"]

\* plan_verify up to the start of the verifier agent.
VerifyStart(p) ==
  /\ MayVerify(p)
  /\ p \notin inFlight
  /\ state' = [state EXCEPT ![p] = ContextWritten(Synced(@, md[p]))]
  /\ context' = context \cup {p}
  /\ lastDir' = IF p \in context THEN lastDir ELSE p
  /\ newer' = Touched(p)
  /\ inFlight' = inFlight \cup {p}
  /\ reply' = Quiet
  /\ UNCHANGED md

\* plan_verify with dry_run: the context is written and the plan read again.
VerifyDryRun(p) ==
  /\ MayVerify(p)
  /\ state' = [state EXCEPT ![p] =
                 Synced(ContextWritten(Synced(@, md[p])), md[p])]
  /\ context' = context \cup {p}
  /\ lastDir' = IF p \in context THEN lastDir ELSE p
  /\ newer' = Touched(p)
  /\ reply' = Quiet
  /\ UNCHANGED <<md, inFlight>>

\* The verifier agent cannot be started or times out: plan_verify returns an
\* error and leaves the plan as write_verify_context left it.
VerifyAbandoned(p) ==
  /\ p \in inFlight
  /\ inFlight' = inFlight \ {p}
  /\ reply' = Quiet
  /\ UNCHANGED <<md, state, context, lastDir, newer>>

\* record_verification.  On a pass the gate item is completed through
\* complete(), whose own snapshots write state.json; the attempt, the report
\* and the ledger are put back afterwards.
Mutant_Counted(st, v) ==
  [st EXCEPT !.attempts = @ + 1,
             !.ledger.records = <<[attempt |-> st.attempts + 1, verdict |-> v]>>]

Counted(st, v) ==
  [st EXCEPT !.attempts = @ + 1,
             !.ledger.records = Append(@, [attempt |-> st.attempts + 1, verdict |-> v])]

BodyAfter(b, v) ==
  CASE v = "pass" /\ OpenGates(b) # {} -> Check(b, Min(OpenGates(b)))
    [] v = "fail"                      -> AppendFixItem(b)
    [] OTHER                           -> b

StatusAfter(v) ==
  CASE v = "pass" -> "verified"
    [] v = "fail" -> "failed"
    [] OTHER      -> "pending_verification"

Mutant_VerificationRecorded(st, b, v) ==
  LET counted == Counted(Synced(st, b), v)
      base    == IF v = "pass" /\ OpenGates(b) # {}
                 THEN [Synced(Synced(st, b), BodyAfter(b, v))
                         EXCEPT !.ledger = counted.ledger]
                 ELSE counted
  IN  Synced([base EXCEPT !.status = StatusAfter(v)], BodyAfter(b, v))

VerificationRecorded(st, b, v) ==
  LET counted == Counted(Synced(st, b), v)
      base    == IF v = "pass" /\ OpenGates(b) # {}
                 THEN [Synced(Synced(st, b), BodyAfter(b, v))
                         EXCEPT !.attempts = counted.attempts,
                                !.ledger = counted.ledger]
                 ELSE counted
  IN  Synced([base EXCEPT !.status = StatusAfter(v)], BodyAfter(b, v))

\* plan_verify after the verifier agent has answered: record_verification,
\* then record_handoff.
VerifyReport(p, report) ==
  /\ p \in inFlight
  /\ state[p].attempts < MaxAttempts
  /\ Len(md[p]) < MaxItems
  /\ LET v == Verdict(report)
     IN  /\ md' = [md EXCEPT ![p] = BodyAfter(@, v)]
         /\ state' = [state EXCEPT ![p] =
                        Handoff(VerificationRecorded(@, md[p], v))]
  /\ newer' = Touched(p)
  /\ inFlight' = inFlight \ {p}
  /\ reply' = Say("verify", p, VerifyPrompt(state'[p].status))
  /\ UNCHANGED <<context, lastDir>>

\* `seed plan record-verification`: a report from the command line, with no
\* check that work is done or that a verification was asked for.
RecordVerification(p, report) ==
  /\ p \in Plans
  /\ state[p].attempts < MaxAttempts
  /\ Len(md[p]) < MaxItems
  /\ LET v == Verdict(report)
     IN  /\ md' = [md EXCEPT ![p] = BodyAfter(@, v)]
         /\ state' = [state EXCEPT ![p] = VerificationRecorded(@, md[p], v)]
  /\ newer' = Touched(p)
  /\ reply' = Quiet
  /\ UNCHANGED <<context, lastDir, inFlight>>

Next ==
  \/ Brief
  \/ \E p \in PlanIds :
       \/ \E kinds \in StepLists, exports \in SUBSET ArtifactKeys :
            Create(p, kinds, exports)
       \/ \E tool \in {"quiet", "next", "next_default"} : Snapshot(p, tool)
       \/ \E i \in 1..MaxItems : Complete(p, i)
       \/ \E kinds \in FixLists : Refine(p, kinds)
       \/ \E a \in ArtifactKeys : RecordArtifact(p, a)
       \/ RecordHandoff(p)
       \/ VerifyStart(p)
       \/ VerifyDryRun(p)
       \/ VerifyAbandoned(p)
       \/ \E report \in Reports : VerifyReport(p, report)
       \/ \E report \in Reports : RecordVerification(p, report)

Spec == Init /\ [][Next]_vars
-----------------------------------------------------------------------------
(* Properties *)

\* Type correctness.  Only plans that exist have items, a verification
\* context, a verifier at work or a place in the order of updates.
TypeOK ==
  /\ md \in [PlanIds -> Seq(Item)]
  /\ state \in [PlanIds -> PlanState]
  /\ context \subseteq Plans
  /\ lastDir \in Plans \cup {NoPlan}
  /\ newer \subseteq Plans \X Plans
  /\ inFlight \subseteq Plans
  /\ reply \in Reply

\* Every attempt is in the ledger exactly once and under its own number,
\* although on a pass complete() writes the old counters back to state.json
\* in the middle of record_verification.
Numbered(st) ==
  /\ st.attempts = Len(st.ledger.records)
  /\ \A n \in 1..Len(st.ledger.records) : st.ledger.records[n].attempt = n

AttemptsMatchRecords == \A p \in PlanIds : Numbered(state[p])

\* Between two calls the status agrees with the boxes wherever it is not
\* sticky: an active plan has work left, and a plan waiting at the gate has
\* none, although write_verify_context sets the status without looking again.
TellsBoxes(st, b) ==
  /\ st.status = "active" => OpenTasks(b) # {}
  /\ st.status = "pending_verification" => OpenTasks(b) = {}

StatusTellsBoxes == \A p \in PlanIds : TellsBoxes(state[p], md[p])

\* A plan is failed only while its last verdict is a fail, and a failed plan
\* carries a [FIX] item, whatever was completed, appended or read since.
HasReason(st, b) ==
  st.status = "failed" =>
    /\ st.attempts > 0
    /\ st.ledger.records[st.attempts].verdict = "fail"
    /\ \E i \in 1..Len(b) : b[i].kind = "fix"

FailedHasReason == \A p \in PlanIds : HasReason(state[p], md[p])

\* What the orchestration ledger of a plan once recorded stays recorded:
\* artifacts, handoffs and the verdicts in their order (record_verification
\* keeps a clone of the ledger across the nested complete()).
LedgerGrows ==
  [][\A p \in Plans :
       LET old == state[p].ledger
           new == state'[p].ledger
       IN  /\ old.artifacts \subseteq new.artifacts
           /\ old.handoffs <= new.handoffs
           /\ IsPrefix(old.records, new.records)]_vars

\* No call unchecks, drops or reorders an item, and an item before the first
\* open [VERIFY] box keeps its index, the name by which a planner that has
\* read the plan before will complete it.
SameItem(x, y) == x.kind = y.kind /\ (x.checked => y.checked)

KeepsPlaces(b, c) ==
  \E shift \in 0..(Len(c) - Len(b)) :
    \A i \in 1..Len(b) :
      SameItem(b[i], c[IF OpenGates(b) # {} /\ i >= Min(OpenGates(b))
                       THEN i + shift ELSE i])

ItemsKeepTheirPlaces == [][\A p \in Plans : KeepsPlaces(md[p], md'[p])]_vars

\* The store, seen from outside, keeps the promise of PlanGate: its statuses
\* follow verdicts and boxes as PlanGate says, whatever the calls in between.
SeenOf(p) == [phase    |-> state[p].status,
              work     |-> OpenTasks(md[p]) # {},
              gate     |-> OpenGates(md[p]) # {},
              verdicts |-> [n \in 1..Len(state[p].ledger.records) |->
                              state[p].ledger.records[n].verdict]]

Gate == INSTANCE PlanGate WITH seen <- [p \in PlanIds |-> SeenOf(p)]

ImplementsGate == Gate!GateSpec

-----------------------------------------------------------------------------
(* What the documentation and the tools say, and the code does not do *)

\* README.md: "`plan_verify` runs an independent verifier ... before the plan
\* can be marked complete": a verified plan has a passing verdict.
VerifiedByVerifier ==
  \A p \in Plans :
    state[p].status = "verified" =>
      \E n \in 1..Len(state[p].ledger.records) :
        state[p].ledger.records[n].verdict = "pass"

\* plan_verify's own answer PLAN_VERIFIED says that "independent verification
\* returned PASS": the verdict just recorded is a pass.
VerifiedPromptTrue ==
  reply.prompt = "PLAN_VERIFIED" =>
    LET records == state[reply.plan].ledger.records
    IN  records[Len(records)].verdict = "pass"

\* plan_verify's answer PLAN_FIX_REQUIRED tells the planner to "Call plan_next
\* and execute the appended [FIX] item": the next item is a [FIX] item.
FixIsNext ==
  reply.prompt = "PLAN_FIX_REQUIRED" =>
    md[reply.plan][NextItem(md[reply.plan])].kind = "fix"

\* descriptions/plan_next.md: "empty args use the active plan": while a plan is
\* active or waiting for verification, plan_next without an id answers for one.
DefaultPlanIsActive ==
  (reply.tool = "next_default"
    /\ \E p \in Plans : state[p].status \in {"active", "pending_verification"})
  => state[reply.plan].status \in {"active", "pending_verification"}

\* run.rs: "Post-verify guard: once the plan reaches Verified ... Inject a hard
\* constraint here": when the only plan is verified, the prompt carries it.
GuardAfterVerified ==
  (reply.tool = "brief" /\ \A p \in Plans : state[p].status = "verified")
  => reply.prompt = "POST_VERIFY_GUARD"
=============================================================================
