--------------------------- MODULE PlanStoreProofs ---------------------------
(***************************************************************************)
(* Proofs about PlanStore, for every set of plans and every bound.         *)
(***************************************************************************)
EXTENDS PlanStore, SequenceTheorems, WellFoundedInduction, TLAPS

-----------------------------------------------------------------------------
(* Least elements: the library's Min is a CHOOSE over a set that is not     *)
(* empty.                                                                   *)

LEMMA NatOrder ==
  \E R : /\ IsWellFoundedOn(R, Nat)
         /\ \A x, y \in Nat : <<x, y>> \in R <=> x < y
<1>1. \A x, y \in Nat : <<x, y>> \in OpToRel(<, Nat) <=> x < y
  BY DEF OpToRel
<1>. QED  BY <1>1, NatLessThanWellFounded

LEMMA MinimalElement ==
  \A R, U : IsWellFoundedOn(R, U) =>
    \A T \in SUBSET U : T # {} => \E x \in T : \A y \in T : ~ (<<y, x>> \in R)
<1>1. ASSUME NEW R, NEW U, IsWellFoundedOn(R, U), NEW T, T \subseteq U, T # {}
      PROVE  \E x \in T : \A y \in T : ~ (<<y, x>> \in R)
  BY <1>1, WFMin
<1>. QED  BY <1>1

LEMMA MinIsLeast ==
  ASSUME NEW S, S \subseteq Nat, S # {}
  PROVE  /\ Min(S) \in S
         /\ \A y \in S : Min(S) <= y
<1>1. \E x \in S : \A y \in S : x <= y
  <2>1. PICK R : /\ IsWellFoundedOn(R, Nat)
                 /\ \A x, y \in Nat : <<x, y>> \in R <=> x < y
    BY NatOrder
  <2>2. \E x \in S : \A y \in S : ~ (<<y, x>> \in R)
    <3>1. S \in SUBSET Nat
      OBVIOUS
    <3>2. IsWellFoundedOn(R, Nat)
      BY <2>1
    <3>. QED  BY ONLY <3>1, <3>2, S # {}, MinimalElement
  <2>3. PICK x \in S : \A y \in S : ~ (<<y, x>> \in R)
    BY <2>2
  <2>4. ASSUME NEW y \in S PROVE x <= y
    <3>1. x \in Nat /\ y \in Nat
      OBVIOUS
    <3>2. ~ (y < x)
      BY <3>1, <2>1, <2>3
    <3>. QED  BY <3>1, <3>2
  <2>. QED  BY <2>4
<1>. QED  BY <1>1 DEF Min

-----------------------------------------------------------------------------
(* What the operations on plan.md do to a list of items.                   *)

LEMMA OpenItemType ==
  ASSUME NEW k \in Kinds
  PROVE  /\ OpenItem(k) \in Item
         /\ OpenItem(k).kind = k
         /\ ~OpenItem(k).checked
BY DEF OpenItem, Item

LEMMA OpenItemsType ==
  ASSUME NEW kinds \in Seq(Kinds)
  PROVE  /\ [i \in 1..Len(kinds) |-> OpenItem(kinds[i])] \in Seq(Item)
         /\ Len([i \in 1..Len(kinds) |-> OpenItem(kinds[i])]) = Len(kinds)
<1>1. \A i \in 1..Len(kinds) : OpenItem(kinds[i]) \in Item
  BY OpenItemType
<1>. QED  BY <1>1

LEMMA RenderedType ==
  ASSUME NEW kinds \in Seq(Kinds)
  PROVE  /\ Rendered(kinds) \in Seq(Item)
         /\ OpenGates(Rendered(kinds)) # {}
<1> DEFINE steps == [i \in 1..Len(kinds) |-> OpenItem(kinds[i])]
<1>1. steps \in Seq(Item) /\ <<OpenItem("verify")>> \in Seq(Item)
  BY OpenItemsType, OpenItemType DEF Kinds
<1>2. Rendered(kinds) = steps \o <<OpenItem("verify")>>
  BY DEF Rendered
<1> HIDE DEF steps
<1>3. /\ Rendered(kinds) \in Seq(Item)
      /\ Len(Rendered(kinds)) = Len(steps) + 1
      /\ Rendered(kinds)[Len(steps) + 1] = OpenItem("verify")
  BY <1>1, <1>2, ConcatProperties
<1>4. Len(steps) + 1 \in OpenGates(Rendered(kinds))
  BY <1>1, <1>3 DEF OpenGates, Unchecked, OpenItem
<1>. QED  BY <1>3, <1>4

LEMMA GatesInRange ==
  ASSUME NEW b \in Seq(Item)
  PROVE  OpenGates(b) \subseteq 1..Len(b)
BY DEF OpenGates, Unchecked

\* An item the list b has is also in c.
Contained(b, c) ==
  \A i \in 1..Len(b) : \E j \in 1..Len(c) : c[j].kind = b[i].kind

LEMMA CheckType ==
  ASSUME NEW b \in Seq(Item), NEW i \in 1..Len(b)
  PROVE  /\ Check(b, i) \in Seq(Item)
         /\ Len(Check(b, i)) = Len(b)
         /\ \A j \in 1..Len(b) :
              Check(b, i)[j] = IF j = i THEN [b[i] EXCEPT !.checked = TRUE] ELSE b[j]
<1>1. [b[i] EXCEPT !.checked = TRUE] \in Item
  <2>1. b[i] \in Item
    BY ElementOfSeq
  <2>. QED  BY <2>1 DEF Item
<1>2. Check(b, i) = [b EXCEPT ![i] = [b[i] EXCEPT !.checked = TRUE]]
  BY DEF Check
<1>. QED  BY <1>1, <1>2, ExceptSeq

LEMMA AppendFixType ==
  ASSUME NEW b \in Seq(Item)
  PROVE  /\ AppendFixItem(b) \in Seq(Item)
         /\ Len(AppendFixItem(b)) = Len(b) + 1
         /\ \A j \in 1..Len(b) : AppendFixItem(b)[j] = b[j]
         /\ AppendFixItem(b)[Len(b) + 1] = OpenItem("fix")
<1>1. OpenItem("fix") \in Item
  BY OpenItemType DEF Kinds
<1>. QED  BY <1>1, AppendProperties DEF AppendFixItem

LEMMA ConcatParts ==
  ASSUME NEW S, NEW s \in Seq(S), NEW t \in Seq(S)
  PROVE  /\ s \o t \in Seq(S)
         /\ Len(s) \in Nat /\ Len(t) \in Nat
         /\ Len(s \o t) = Len(s) + Len(t)
         /\ \A i \in 1..Len(s) : (s \o t)[i] = s[i]
         /\ \A i \in 1..Len(t) : (s \o t)[Len(s) + i] = t[i]
<1>1. Len(s) \in Nat /\ Len(t) \in Nat
  BY LenProperties
<1>2. \A i \in 1..Len(s) + Len(t) :
        (s \o t)[i] = IF i <= Len(s) THEN s[i] ELSE t[i - Len(s)]
  BY ConcatProperties
<1>3. \A i \in 1..Len(s) : (s \o t)[i] = s[i]
  BY <1>1, <1>2
<1>4. ASSUME NEW i \in 1..Len(t) PROVE (s \o t)[Len(s) + i] = t[i]
  <2>1. /\ Len(s) + i \in 1..Len(s) + Len(t)
        /\ ~(Len(s) + i <= Len(s))
        /\ (Len(s) + i) - Len(s) = i
    BY <1>1
  <2>. QED  BY <2>1, <1>2
<1>. QED  BY <1>1, <1>3, <1>4, ConcatProperties

\* Where append_items inserts.
BeforeGate(b) == IF OpenGates(b) = {} THEN Len(b) + 1 ELSE Min(OpenGates(b))

LEMMA InsertFixesType ==
  ASSUME NEW b \in Seq(Item), NEW kinds \in Seq(Kinds)
  PROVE  /\ InsertFixes(b, kinds) \in Seq(Item)
         /\ Contained(b, InsertFixes(b, kinds))
         /\ Len(InsertFixes(b, kinds)) = Len(b) + Len(kinds)
         /\ BeforeGate(b) \in 1..(Len(b) + 1)
         /\ \A i \in 1..(BeforeGate(b) - 1) : InsertFixes(b, kinds)[i] = b[i]
         /\ \A i \in BeforeGate(b)..Len(b) : InsertFixes(b, kinds)[i + Len(kinds)] = b[i]
<1> DEFINE at  == BeforeGate(b)
           new == [i \in 1..Len(kinds) |-> OpenItem(kinds[i])]
           pre == SubSeq(b, 1, at - 1)
           suf == SubSeq(b, at, Len(b))
<1>1. at \in 1..(Len(b) + 1)
  BY GatesInRange, MinIsLeast DEF BeforeGate
<1>2. new \in Seq(Item) /\ Len(new) = Len(kinds) /\ Len(new) \in Nat
  BY OpenItemsType, LenProperties
<1>3. InsertFixes(b, kinds) = pre \o new \o suf
  BY DEF InsertFixes, BeforeGate
<1> HIDE DEF at, new
<1>4. /\ pre \in Seq(Item)
      /\ Len(pre) = at - 1
      /\ \A i \in 1..(at - 1) : pre[i] = b[i]
  BY <1>1, SubSeqProperties
<1>5. /\ suf \in Seq(Item)
      /\ Len(suf) = Len(b) - at + 1
      /\ \A i \in 1..(Len(b) - at + 1) : suf[i] = b[at + i - 1]
  BY <1>1, SubSeqProperties
<1> HIDE DEF pre, suf
<1> DEFINE head == pre \o new
           all  == head \o suf
<1>6. /\ head \in Seq(Item)
      /\ Len(head) = at - 1 + Len(new)
      /\ \A i \in 1..(at - 1) : head[i] = b[i]
  BY <1>2, <1>4, ConcatParts
<1> HIDE DEF head
<1>7. /\ all \in Seq(Item)
      /\ Len(all) = Len(head) + Len(suf)
      /\ \A i \in 1..Len(head) : all[i] = head[i]
      /\ \A i \in 1..Len(suf) : all[Len(head) + i] = suf[i]
  <2>1. head \in Seq(Item) /\ suf \in Seq(Item)
    BY <1>5, <1>6
  <2>2. /\ head \o suf \in Seq(Item)
        /\ Len(head \o suf) = Len(head) + Len(suf)
        /\ \A i \in 1..Len(head) : (head \o suf)[i] = head[i]
        /\ \A i \in 1..Len(suf) : (head \o suf)[Len(head) + i] = suf[i]
    <3> HIDE DEF all
    <3>. QED  BY ONLY <2>1, ConcatParts
  <2>. QED  BY <2>2 DEF all
<1> HIDE DEF all
<1>8. Len(all) = Len(b) + Len(new) /\ Len(b) \in Nat
  BY <1>1, <1>2, <1>5, <1>6, <1>7
<1>9. ASSUME NEW i \in 1..(at - 1)
      PROVE  i \in 1..Len(all) /\ all[i] = b[i]
  <2>1. i \in 1..Len(head) /\ i \in 1..Len(all)
    BY <1>1, <1>2, <1>6, <1>8
  <2>. QED  BY <2>1, <1>6, <1>7
<1>10. ASSUME NEW i \in at..Len(b)
       PROVE  i + Len(new) \in 1..Len(all) /\ all[i + Len(new)] = b[i]
  <2> DEFINE k == i - at + 1
  <2>1. /\ k \in 1..(Len(b) - at + 1)
        /\ k \in 1..Len(suf)
        /\ at + k - 1 = i
        /\ Len(head) + k = i + Len(new)
        /\ Len(head) + k \in 1..Len(all)
    BY <1>1, <1>2, <1>5, <1>6, <1>8
  <2> HIDE DEF k
  <2>2. all[Len(head) + k] = b[i]
    BY <2>1, <1>5, <1>7
  <2>. QED  BY <2>1, <2>2
<1>11. \A i \in 1..Len(b) : i \in 1..(at - 1) \/ i \in at..Len(b)
  BY <1>1, <1>8
<1>12. \A i \in 1..Len(b) : \E j \in 1..Len(all) : all[j] = b[i]
  BY <1>9, <1>10, <1>11
<1>13. InsertFixes(b, kinds) = all
  BY <1>3 DEF all, head
<1>. QED  BY <1>1, <1>2, <1>7, <1>8, <1>9, <1>10, <1>12, <1>13 DEF Contained, at

-----------------------------------------------------------------------------
(* One plan: its two files after each part of a call.                      *)

PlanOK(st, b) ==
  /\ st \in PlanState
  /\ st.status # "absent"
  /\ b \in Seq(Item)
  /\ Numbered(st)
  /\ TellsBoxes(st, b)
  /\ HasReason(st, b)

\* The same without the agreement of status and boxes, which a call may break
\* between its snapshots.
PlanTyped(st, b) ==
  /\ st \in PlanState
  /\ st.status # "absent"
  /\ b \in Seq(Item)
  /\ Numbered(st)
  /\ HasReason(st, b)

LEMMA ContainedSelf == ASSUME NEW b PROVE Contained(b, b)
BY DEF Contained

LEMMA CheckContained ==
  ASSUME NEW b \in Seq(Item), NEW i \in 1..Len(b)
  PROVE  Contained(b, Check(b, i))
<1>1. b[i] \in Item
  BY ElementOfSeq
<1>2. [b[i] EXCEPT !.checked = TRUE].kind = b[i].kind
  BY <1>1 DEF Item
<1>3. ASSUME NEW j \in 1..Len(b)
      PROVE  j \in 1..Len(Check(b, i)) /\ Check(b, i)[j].kind = b[j].kind
  <2>1. /\ Len(Check(b, i)) = Len(b)
        /\ Check(b, i)[j] = IF j = i THEN [b[i] EXCEPT !.checked = TRUE] ELSE b[j]
    BY CheckType
  <2>. QED  BY <1>2, <2>1
<1>. QED  BY <1>3 DEF Contained

LEMMA AppendFixContained ==
  ASSUME NEW b \in Seq(Item)
  PROVE  Contained(b, AppendFixItem(b))
<1>1. Len(b) \in Nat
  BY LenProperties
<1>2. ASSUME NEW j \in 1..Len(b)
      PROVE  j \in 1..Len(AppendFixItem(b)) /\ AppendFixItem(b)[j].kind = b[j].kind
  BY <1>1, AppendFixType
<1>. QED  BY <1>2 DEF Contained

LEMMA ReasonContained ==
  ASSUME NEW st, NEW b, NEW c, HasReason(st, b), Contained(b, c)
  PROVE  HasReason(st, c)
BY DEF HasReason, Contained

\* A snapshot restores the agreement, whatever the plan's files were.
LEMMA SyncedOK ==
  ASSUME NEW st, NEW b, PlanTyped(st, b)
  PROVE  PlanOK(Synced(st, b), b)
<1>1. InferredStatus(st.status, b) \in Statuses
  BY DEF InferredStatus, Statuses, PlanTyped, PlanState
<1>2. /\ Synced(st, b) \in PlanState
      /\ Synced(st, b).status = InferredStatus(st.status, b)
      /\ Synced(st, b).attempts = st.attempts
      /\ Synced(st, b).ledger = st.ledger
  BY <1>1 DEF Synced, PlanTyped, PlanState
<1>3. Numbered(Synced(st, b))
  BY <1>2 DEF Numbered, PlanTyped
<1>4. HasReason(Synced(st, b), b)
  BY <1>2 DEF HasReason, PlanTyped, InferredStatus
<1>5. TellsBoxes(Synced(st, b), b)
  BY <1>2 DEF TellsBoxes, InferredStatus
<1>6. Synced(st, b).status # "absent"
  BY <1>1, <1>2 DEF Statuses
<1>. QED  BY <1>2, <1>3, <1>4, <1>5, <1>6 DEF PlanOK, PlanTyped

LEMMA OKIsTyped ==
  ASSUME NEW st, NEW b, PlanOK(st, b)
  PROVE  PlanTyped(st, b)
BY DEF PlanOK, PlanTyped

\* A call that changes plan.md between two snapshots.
LEMMA ChangedOK ==
  ASSUME NEW st, NEW b, NEW c \in Seq(Item), PlanOK(st, b), Contained(b, c)
  PROVE  PlanOK(Synced(Synced(st, b), c), c)
<1>1. PlanOK(Synced(st, b), b)
  BY SyncedOK, OKIsTyped
<1>2. HasReason(Synced(st, b), c)
  BY <1>1, ReasonContained DEF PlanOK
<1>3. PlanTyped(Synced(st, b), c)
  BY <1>1, <1>2 DEF PlanOK, PlanTyped
<1>. QED  BY <1>3, SyncedOK

LEMMA HandoffOK ==
  ASSUME NEW st, NEW b, PlanOK(st, b)
  PROVE  PlanOK(Handoff(st), b)
BY SMTT(30) DEF PlanOK, Handoff, PlanState, Ledger, Numbered, TellsBoxes, HasReason

LEMMA ArtifactOK ==
  ASSUME NEW st, NEW b, NEW a \in Artifacts, PlanOK(st, b)
  PROVE  PlanOK(Attached(st, a), b)
BY DEF PlanOK, Attached, PlanState, Ledger, Numbered, TellsBoxes, HasReason

LEMMA ContextWrittenOK ==
  ASSUME NEW st, NEW b, PlanOK(st, b), OpenTasks(b) = {}
  PROVE  PlanOK(ContextWritten(st), b)
BY DEF PlanOK, ContextWritten, Attached, PlanState, Ledger, Artifacts, Statuses,
       Numbered, TellsBoxes, HasReason

-----------------------------------------------------------------------------
(* record_verification                                                     *)

LEMMA CountedOK ==
  ASSUME NEW st, NEW b, PlanTyped(st, b), NEW v \in {"pass", "fail", "unknown"}
  PROVE  /\ Counted(st, v) \in PlanState
         /\ Numbered(Counted(st, v))
         /\ Counted(st, v).status = st.status
         /\ Counted(st, v).attempts = st.attempts + 1
         /\ Counted(st, v).ledger.records[st.attempts + 1].verdict = v
<1> DEFINE Rec == [attempt : Nat, verdict : {"pass", "fail", "unknown"}]
           new == [attempt |-> st.attempts + 1, verdict |-> v]
           old == st.ledger.records
<1>1. /\ st \in PlanState
      /\ st.attempts \in Nat
      /\ st.ledger \in Ledger
      /\ old \in Seq(Rec)
      /\ new \in Rec
      /\ st.attempts = Len(old)
      /\ \A n \in 1..Len(old) : old[n].attempt = n
  BY DEF PlanTyped, PlanState, Ledger, Numbered
<1>2. /\ Append(old, new) \in Seq(Rec)
      /\ Len(Append(old, new)) = Len(old) + 1
      /\ \A n \in 1..Len(old) : Append(old, new)[n] = old[n]
      /\ Append(old, new)[Len(old) + 1] = new
  BY <1>1, AppendProperties
<1>3. /\ Counted(st, v) \in PlanState
      /\ Counted(st, v).status = st.status
      /\ Counted(st, v).attempts = st.attempts + 1
      /\ Counted(st, v).ledger.records = Append(old, new)
  BY <1>1, <1>2 DEF Counted, PlanState, Ledger
<1> HIDE DEF old
<1>4. \A n \in 1..Len(Append(old, new)) : Append(old, new)[n].attempt = n
  BY <1>1, <1>2
<1>5. Numbered(Counted(st, v))
  BY <1>1, <1>2, <1>3, <1>4 DEF Numbered
<1>6. Append(old, new)[st.attempts + 1].verdict = v
  BY <1>1, <1>2
<1>. QED  BY <1>3, <1>5, <1>6

LEMMA BodyAfterOK ==
  ASSUME NEW b \in Seq(Item), NEW v \in {"pass", "fail", "unknown"}
  PROVE  /\ BodyAfter(b, v) \in Seq(Item)
         /\ Contained(b, BodyAfter(b, v))
         /\ v = "fail" => \E i \in 1..Len(BodyAfter(b, v)) : BodyAfter(b, v)[i].kind = "fix"
<1>1. CASE v = "pass" /\ OpenGates(b) # {}
  <2>1. Min(OpenGates(b)) \in 1..Len(b)
    BY <1>1, GatesInRange, MinIsLeast
  <2>2. BodyAfter(b, v) = Check(b, Min(OpenGates(b)))
    BY <1>1 DEF BodyAfter
  <2>. QED  BY <1>1, <2>1, <2>2, CheckType, CheckContained
<1>2. CASE v = "fail"
  <2>1. BodyAfter(b, v) = AppendFixItem(b)
    BY <1>2 DEF BodyAfter
  <2>2. Len(b) + 1 \in 1..Len(AppendFixItem(b))
    BY AppendFixType, LenProperties
  <2>3. AppendFixItem(b)[Len(b) + 1].kind = "fix"
    BY AppendFixType DEF OpenItem
  <2>. QED  BY <2>1, <2>2, <2>3, AppendFixType, AppendFixContained
<1>3. CASE ~(v = "pass" /\ OpenGates(b) # {}) /\ v # "fail"
  <2>1. BodyAfter(b, v) = b
    BY <1>3 DEF BodyAfter
  <2>. QED  BY <1>3, <2>1, ContainedSelf
<1>. QED  BY <1>1, <1>2, <1>3

LEMMA VerificationOK ==
  ASSUME NEW st, NEW b, PlanOK(st, b), NEW v \in {"pass", "fail", "unknown"}
  PROVE  PlanOK(VerificationRecorded(st, b, v), BodyAfter(b, v))
<1> DEFINE c       == BodyAfter(b, v)
           counted == Counted(Synced(st, b), v)
           nested  == Synced(Synced(st, b), c)
           base    == IF v = "pass" /\ OpenGates(b) # {}
                      THEN [nested EXCEPT !.attempts = counted.attempts,
                                          !.ledger = counted.ledger]
                      ELSE counted
           marked  == [base EXCEPT !.status = StatusAfter(v)]
<1>1. PlanOK(Synced(st, b), b) /\ PlanTyped(Synced(st, b), b)
  BY SyncedOK, OKIsTyped
<1>2. /\ c \in Seq(Item)
      /\ Contained(b, c)
      /\ v = "fail" => \E i \in 1..Len(c) : c[i].kind = "fix"
  BY BodyAfterOK DEF PlanOK
<1>3. /\ counted \in PlanState
      /\ Numbered(counted)
      /\ counted.attempts > 0
      /\ counted.ledger.records[counted.attempts].verdict = v
  <2>1. Synced(st, b).attempts \in Nat
    BY <1>1 DEF PlanTyped, PlanState
  <2>. QED  BY <1>1, <2>1, CountedOK
<1>4. PlanOK(nested, c)
  BY <1>2, ChangedOK
<1>5. VerificationRecorded(st, b, v) = Synced(marked, c)
  BY DEF VerificationRecorded
<1> HIDE DEF c, counted, nested
<1>6. /\ base \in PlanState
      /\ base.attempts = counted.attempts
      /\ base.ledger = counted.ledger
  BY <1>3, <1>4 DEF PlanOK, PlanState
<1> HIDE DEF base
<1>7. /\ marked \in PlanState
      /\ marked.attempts = counted.attempts
      /\ marked.ledger = counted.ledger
      /\ marked.status = StatusAfter(v)
  BY <1>6 DEF PlanState, StatusAfter, Statuses
<1> HIDE DEF marked
<1>8. marked.status # "absent" /\ (marked.status = "failed" => v = "fail")
  BY <1>7 DEF StatusAfter
<1>9. Numbered(marked)
  BY <1>3, <1>7 DEF Numbered
<1>10. HasReason(marked, c)
  BY <1>2, <1>3, <1>7, <1>8 DEF HasReason
<1>11. PlanTyped(marked, c)
  BY <1>2, <1>7, <1>8, <1>9, <1>10 DEF PlanTyped
<1>12. PlanOK(Synced(marked, c), c)
  BY <1>11, SyncedOK
<1>. QED  BY <1>5, <1>12 DEF c

-----------------------------------------------------------------------------
(* The invariant of the store.                                             *)

\* What relates the plans to each other and to the rest of the state.
Frame ==
  /\ md \in [PlanIds -> Seq(Item)]
  /\ state \in [PlanIds -> PlanState]
  /\ context \subseteq Plans
  /\ lastDir \in Plans \cup {NoPlan}
  /\ newer \subseteq Plans \X Plans
  /\ inFlight \subseteq Plans
  /\ reply \in Reply

\* Every plan is either absent, without items and with an empty ledger, or
\* consistent.
EveryPlan ==
  \A p \in PlanIds : \/ p \notin Plans /\ state[p] = Absent /\ md[p] = << >>
                    \/ PlanOK(state[p], md[p])

IInv == Frame /\ EveryPlan

LEMMA AbsentOK ==
  /\ Absent \in PlanState
  /\ \A b : Numbered(Absent) /\ TellsBoxes(Absent, b) /\ HasReason(Absent, b)
<1>1. /\ Absent.status = "absent" /\ Absent.attempts = 0
      /\ Absent.ledger = EmptyLedger
      /\ Absent.ledger.records = << >>
  BY DEF Absent, EmptyLedger
<1>2. Absent \in PlanState
  BY EmptySeq DEF Absent, EmptyLedger, PlanState, Ledger, Statuses
<1>3. \A b : TellsBoxes(Absent, b) /\ HasReason(Absent, b)
  BY <1>1 DEF TellsBoxes, HasReason
<1>4. Numbered(Absent)
  BY <1>1, EmptySeq DEF Numbered
<1>. QED  BY <1>2, <1>3, <1>4

LEMMA IInvImplies ==
  ASSUME IInv
  PROVE  TypeOK /\ AttemptsMatchRecords /\ StatusTellsBoxes /\ FailedHasReason
BY AbsentOK DEF IInv, Frame, EveryPlan, TypeOK, AttemptsMatchRecords,
                StatusTellsBoxes, FailedHasReason, PlanOK

LEMMA ExistingIsOK ==
  ASSUME IInv, NEW p \in Plans
  PROVE  /\ p \in PlanIds
         /\ PlanOK(state[p], md[p])
         /\ PlanTyped(state[p], md[p])
BY OKIsTyped DEF IInv, EveryPlan, Plans

\* A call that leaves plan p with files s and b and the others alone.
LEMMA OnePlanStep ==
  ASSUME IInv, NEW p \in PlanIds, NEW s, NEW b, PlanOK(s, b),
         state' = [state EXCEPT ![p] = s],
         md' = [md EXCEPT ![p] = b]
  PROVE  /\ Plans' = Plans \cup {p}
         /\ md' \in [PlanIds -> Seq(Item)]
         /\ state' \in [PlanIds -> PlanState]
         /\ EveryPlan'
<1>1. /\ s \in PlanState /\ s.status # "absent" /\ b \in Seq(Item)
  BY DEF PlanOK
<1>2. /\ md \in [PlanIds -> Seq(Item)]
      /\ state \in [PlanIds -> PlanState]
  BY DEF IInv, Frame
<1>3. /\ state'[p] = s /\ md'[p] = b
      /\ \A q \in PlanIds \ {p} : state'[q] = state[q] /\ md'[q] = md[q]
  BY <1>2
<1>4. Plans' = Plans \cup {p}
  BY <1>1, <1>3 DEF Plans
<1>5. ASSUME NEW q \in PlanIds
      PROVE  \/ q \notin Plans' /\ state'[q] = Absent /\ md'[q] = << >>
             \/ PlanOK(state'[q], md'[q])
  <2>1. CASE q = p
    BY <1>3, <2>1
  <2>2. CASE q # p
    BY <1>3, <1>4, <2>2 DEF IInv, EveryPlan
  <2>. QED  BY <2>1, <2>2
<1>. QED  BY <1>1, <1>2, <1>4, <1>5 DEF EveryPlan

\* The rest of the state after such a call.
LEMMA FrameStep ==
  ASSUME IInv, NEW p \in PlanIds, Plans' = Plans \cup {p},
         md' \in [PlanIds -> Seq(Item)],
         state' \in [PlanIds -> PlanState],
         context' \subseteq context \cup {p},
         lastDir' \in {lastDir, p},
         newer' \in {newer, Touched(p)},
         inFlight' \subseteq inFlight \cup {p},
         reply' \in Reply
  PROVE  Frame'
<1>1. Touched(p) \subseteq (Plans \cup {p}) \X (Plans \cup {p})
  BY DEF Touched, IInv, Frame
<1>. QED  BY <1>1 DEF IInv, Frame

LEMMA QuietIsReply == Quiet \in Reply
BY DEF Quiet, Reply, Prompts

LEMMA SayIsReply ==
  ASSUME NEW t \in {"next", "next_default", "brief", "verify"},
         NEW p \in PlanIds \cup {NoPlan}, NEW m \in Prompts
  PROVE  Say(t, p, m) \in Reply
BY DEF Say, Reply

LEMMA InitIInv == Init => IInv
<1> SUFFICES ASSUME Init PROVE IInv
  OBVIOUS
<1>1. \A p \in PlanIds : state[p] = Absent /\ md[p] = << >>
  BY DEF Init
<1>2. Plans = {}
  BY <1>1 DEF Plans, Absent
<1>3. << >> \in Seq(Item)
  BY EmptySeq
<1>4. Frame
  BY <1>2, <1>3, AbsentOK, QuietIsReply DEF Frame, Init
<1>. QED  BY <1>1, <1>2, <1>4 DEF IInv, EveryPlan

LEMMA CreateStep ==
  ASSUME IInv, NEW p \in PlanIds, NEW kinds \in StepLists,
         NEW exports \in SUBSET ArtifactKeys, Create(p, kinds, exports)
  PROVE  IInv'
<1> DEFINE b == Rendered(kinds)
<1>1. b \in Seq(Item)
  BY RenderedType, PlanAssumptions DEF Kinds
<1>2. /\ Fresh(exports).status = "active"
      /\ Fresh(exports).attempts = 0
      /\ Fresh(exports).ledger.records = << >>
  BY DEF Fresh
<1>3. Fresh(exports) \in PlanState
  BY EmptySeq DEF Fresh, PlanState, Ledger, Artifacts, Statuses
<1>4. Numbered(Fresh(exports))
  BY <1>2, EmptySeq DEF Numbered
<1>5. PlanTyped(Fresh(exports), b)
  BY <1>1, <1>2, <1>3, <1>4 DEF PlanTyped, HasReason
<1>6. PlanOK(Synced(Fresh(exports), b), b)
  BY <1>5, SyncedOK
<1>7. /\ md' = [md EXCEPT ![p] = b]
      /\ state' = [state EXCEPT ![p] = Synced(Fresh(exports), b)]
  BY DEF Create
<1>. QED  BY <1>6, <1>7, OnePlanStep, FrameStep, QuietIsReply DEF Create, IInv

LEMMA SnapshotStep ==
  ASSUME IInv, NEW p \in PlanIds, NEW tool \in {"quiet", "next", "next_default"},
         Snapshot(p, tool)
  PROVE  IInv'
<1>1. PlanOK(Synced(state[p], md[p]), md[p])
  BY ExistingIsOK, SyncedOK DEF Snapshot
<1>2. md' = [md EXCEPT ![p] = md[p]]
  BY DEF Snapshot, IInv, Frame
<1>3. reply' \in Reply
  BY QuietIsReply, SayIsReply DEF Snapshot, NextPrompt, Prompts
<1>. QED  BY <1>1, <1>2, <1>3, OnePlanStep, FrameStep DEF Snapshot, IInv

LEMMA BriefStep == ASSUME IInv, Brief PROVE IInv'
<1>1. \A p \in Plans : PlanOK(Synced(state[p], md[p]), md[p])
  BY ExistingIsOK, SyncedOK
<1>2. \A p \in PlanIds : state'[p] = IF p \in Plans THEN Synced(state[p], md[p])
                                                   ELSE state[p]
  BY DEF Brief, SyncedAll
<1>3. Plans' = Plans
  BY <1>1, <1>2 DEF Plans, PlanOK
<1>4. EveryPlan'
  <2>1. ASSUME NEW p \in PlanIds
        PROVE  \/ p \notin Plans' /\ state'[p] = Absent /\ md'[p] = << >>
               \/ PlanOK(state'[p], md'[p])
    BY <1>1, <1>2, <1>3 DEF Brief, IInv, EveryPlan
  <2>. QED  BY <2>1 DEF EveryPlan
<1>5. state' \in [PlanIds -> PlanState]
  BY <1>1, <1>2 DEF Brief, SyncedAll, PlanOK, IInv, Frame
<1>6. reply' \in Reply
  <2>1. \/ reply' = Say("brief", NoPlan, "none")
        \/ \E p \in PlanIds : \E m \in {"POST_VERIFY_GUARD", "STEP"} :
             reply' = Say("brief", p, m)
    BY DEF Brief, Plans
  <2>. QED  BY <2>1, SayIsReply DEF Prompts
<1>. QED  BY <1>3, <1>4, <1>5, <1>6 DEF Brief, IInv, Frame

LEMMA CompleteStep ==
  ASSUME IInv, NEW p \in PlanIds, NEW i, Complete(p, i)
  PROVE  IInv'
<1>1. p \in Plans /\ i \in 1..Len(md[p])
  BY DEF Complete, Unchecked
<1>2. PlanOK(state[p], md[p]) /\ md[p] \in Seq(Item)
  BY <1>1, ExistingIsOK DEF PlanOK
<1>3. Check(md[p], i) \in Seq(Item) /\ Contained(md[p], Check(md[p], i))
  BY <1>1, <1>2, CheckType, CheckContained
<1>4. PlanOK(Synced(Synced(state[p], md[p]), Check(md[p], i)), Check(md[p], i))
  BY <1>2, <1>3, ChangedOK
<1>5. /\ md' = [md EXCEPT ![p] = Check(md[p], i)]
      /\ md'[p] = Check(md[p], i)
  BY DEF Complete, IInv, Frame
<1>6. state' = [state EXCEPT ![p] = Synced(Synced(state[p], md[p]), Check(md[p], i))]
  BY <1>5 DEF Complete
<1>. QED  BY <1>4, <1>5, <1>6, OnePlanStep, FrameStep, QuietIsReply DEF Complete, IInv

LEMMA RefineStep ==
  ASSUME IInv, NEW p \in PlanIds, NEW kinds \in FixLists, Refine(p, kinds)
  PROVE  IInv'
<1> DEFINE c == InsertFixes(md[p], kinds)
           s == Synced(Synced(state[p], md[p]), c)
<1>1. p \in Plans /\ kinds \in Seq(Kinds)
  BY PlanAssumptions DEF Refine, Kinds
<1>2. PlanOK(state[p], md[p]) /\ md[p] \in Seq(Item)
  BY <1>1, ExistingIsOK DEF PlanOK
<1>3. c \in Seq(Item) /\ Contained(md[p], c)
  BY <1>1, <1>2, InsertFixesType
<1>4. md' = [md EXCEPT ![p] = c] /\ md'[p] = c
  BY DEF Refine, IInv, Frame
<1>5. state' = [state EXCEPT ![p] = Handoff(s)]
  BY <1>4 DEF Refine
<1> HIDE DEF c
<1>6. PlanOK(Handoff(s), c)
  BY <1>2, <1>3, ChangedOK, HandoffOK
<1>. QED  BY <1>4, <1>5, <1>6, OnePlanStep, FrameStep, QuietIsReply DEF Refine, IInv

LEMMA RecordArtifactStep ==
  ASSUME IInv, NEW p \in PlanIds, NEW a \in ArtifactKeys, RecordArtifact(p, a)
  PROVE  IInv'
<1>1. PlanOK(Attached(Synced(state[p], md[p]), a), md[p])
  BY ExistingIsOK, SyncedOK, ArtifactOK DEF RecordArtifact, Artifacts
<1>2. md' = [md EXCEPT ![p] = md[p]]
  BY DEF RecordArtifact, IInv, Frame
<1>. QED  BY <1>1, <1>2, OnePlanStep, FrameStep, QuietIsReply
          DEF RecordArtifact, IInv

LEMMA RecordHandoffStep ==
  ASSUME IInv, NEW p \in PlanIds, RecordHandoff(p)
  PROVE  IInv'
<1>1. PlanOK(Handoff(Synced(state[p], md[p])), md[p])
  BY ExistingIsOK, SyncedOK, HandoffOK DEF RecordHandoff
<1>2. md' = [md EXCEPT ![p] = md[p]]
  BY DEF RecordHandoff, IInv, Frame
<1>. QED  BY <1>1, <1>2, OnePlanStep, FrameStep, QuietIsReply DEF RecordHandoff, IInv

LEMMA VerifyStartStep ==
  ASSUME IInv, NEW p \in PlanIds, VerifyStart(p)
  PROVE  IInv'
<1>1. PlanOK(ContextWritten(Synced(state[p], md[p])), md[p])
  BY ExistingIsOK, SyncedOK, ContextWrittenOK DEF VerifyStart, MayVerify
<1>2. md' = [md EXCEPT ![p] = md[p]]
  BY DEF VerifyStart, IInv, Frame
<1>. QED  BY <1>1, <1>2, OnePlanStep, FrameStep, QuietIsReply DEF VerifyStart, IInv

LEMMA VerifyDryRunStep ==
  ASSUME IInv, NEW p \in PlanIds, VerifyDryRun(p)
  PROVE  IInv'
<1>1. PlanOK(ContextWritten(Synced(state[p], md[p])), md[p])
  BY ExistingIsOK, SyncedOK, ContextWrittenOK DEF VerifyDryRun, MayVerify
<1>2. PlanOK(Synced(ContextWritten(Synced(state[p], md[p])), md[p]), md[p])
  BY <1>1, OKIsTyped, SyncedOK
<1>3. md' = [md EXCEPT ![p] = md[p]]
  BY DEF VerifyDryRun, IInv, Frame
<1>. QED  BY <1>2, <1>3, OnePlanStep, FrameStep, QuietIsReply DEF VerifyDryRun, IInv

LEMMA VerifyAbandonedStep ==
  ASSUME IInv, NEW p \in PlanIds, VerifyAbandoned(p)
  PROVE  IInv'
<1>1. Plans' = Plans
  BY DEF VerifyAbandoned, Plans
<1>2. Frame'
  BY <1>1, QuietIsReply DEF VerifyAbandoned, IInv, Frame
<1>3. EveryPlan'
  BY <1>1 DEF VerifyAbandoned, IInv, EveryPlan
<1>. QED  BY <1>2, <1>3 DEF IInv

LEMMA VerdictType ==
  ASSUME NEW report PROVE Verdict(report) \in {"pass", "fail", "unknown"}
BY DEF Verdict

LEMMA VerifyReportStep ==
  ASSUME IInv, NEW p \in PlanIds, NEW report \in Reports, VerifyReport(p, report)
  PROVE  IInv'
<1> DEFINE v == Verdict(report)
           s == Handoff(VerificationRecorded(state[p], md[p], v))
           c == BodyAfter(md[p], v)
<1>1. p \in Plans
  BY DEF VerifyReport, IInv, Frame
<1>2. PlanOK(s, c)
  BY <1>1, ExistingIsOK, VerdictType, VerificationOK, HandoffOK
<1>3. md' = [md EXCEPT ![p] = c] /\ state' = [state EXCEPT ![p] = s]
  BY DEF VerifyReport
<1>4. /\ UNCHANGED <<context, lastDir>>
      /\ newer' = Touched(p)
      /\ inFlight' = inFlight \ {p}
  BY DEF VerifyReport
<1>5. reply' \in Reply
  <2>1. VerifyPrompt(state'[p].status) \in Prompts
    BY DEF VerifyPrompt, Prompts
  <2>. QED  BY <2>1, SayIsReply DEF VerifyReport
<1> HIDE DEF s, c
<1>. QED  BY <1>2, <1>3, <1>4, <1>5, OnePlanStep, FrameStep DEF IInv

LEMMA RecordVerificationStep ==
  ASSUME IInv, NEW p \in PlanIds, NEW report \in Reports, RecordVerification(p, report)
  PROVE  IInv'
<1> DEFINE v == Verdict(report)
           s == VerificationRecorded(state[p], md[p], v)
           c == BodyAfter(md[p], v)
<1>1. PlanOK(s, c)
  BY ExistingIsOK, VerdictType, VerificationOK DEF RecordVerification
<1>2. md' = [md EXCEPT ![p] = c] /\ state' = [state EXCEPT ![p] = s]
  BY DEF RecordVerification
<1>3. /\ UNCHANGED <<context, lastDir, inFlight>>
      /\ newer' = Touched(p)
      /\ reply' = Quiet
  BY DEF RecordVerification
<1> HIDE DEF s, c
<1>. QED  BY <1>1, <1>2, <1>3, OnePlanStep, FrameStep, QuietIsReply DEF IInv

LEMMA NextIInv == IInv /\ [Next]_vars => IInv'
<1> SUFFICES ASSUME IInv, [Next]_vars PROVE IInv'
  OBVIOUS
<1>1. CASE Brief
  BY <1>1, BriefStep
<1>2. ASSUME NEW p \in PlanIds, NEW kinds \in StepLists,
             NEW exports \in SUBSET ArtifactKeys, Create(p, kinds, exports)
      PROVE  IInv'
  BY <1>2, CreateStep
<1>3. ASSUME NEW p \in PlanIds, NEW tool \in {"quiet", "next", "next_default"},
             Snapshot(p, tool)
      PROVE  IInv'
  BY <1>3, SnapshotStep
<1>4. ASSUME NEW p \in PlanIds, NEW i \in 1..MaxItems, Complete(p, i) PROVE IInv'
  BY <1>4, CompleteStep
<1>5. ASSUME NEW p \in PlanIds, NEW kinds \in FixLists, Refine(p, kinds) PROVE IInv'
  BY <1>5, RefineStep
<1>6. ASSUME NEW p \in PlanIds, NEW a \in ArtifactKeys, RecordArtifact(p, a)
      PROVE  IInv'
  BY <1>6, RecordArtifactStep
<1>7. ASSUME NEW p \in PlanIds, RecordHandoff(p) PROVE IInv'
  BY <1>7, RecordHandoffStep
<1>8. ASSUME NEW p \in PlanIds, VerifyStart(p) PROVE IInv'
  BY <1>8, VerifyStartStep
<1>9. ASSUME NEW p \in PlanIds, VerifyDryRun(p) PROVE IInv'
  BY <1>9, VerifyDryRunStep
<1>10. ASSUME NEW p \in PlanIds, VerifyAbandoned(p) PROVE IInv'
  BY <1>10, VerifyAbandonedStep
<1>11. ASSUME NEW p \in PlanIds, NEW report \in Reports, VerifyReport(p, report)
       PROVE  IInv'
  BY <1>11, VerifyReportStep
<1>12. ASSUME NEW p \in PlanIds, NEW report \in Reports, RecordVerification(p, report)
       PROVE  IInv'
  BY <1>12, RecordVerificationStep
<1>13. CASE UNCHANGED vars
  <2>1. Plans' = Plans
    BY <1>13 DEF vars, Plans
  <2>2. Frame' /\ EveryPlan'
    BY <1>13, <2>1 DEF vars, IInv, Frame, EveryPlan
  <2>. QED  BY <2>2 DEF IInv
<1>. QED  BY <1>1, <1>2, <1>3, <1>4, <1>5, <1>6, <1>7, <1>8, <1>9, <1>10, <1>11,
             <1>12, <1>13 DEF Next

-----------------------------------------------------------------------------
(* What a call does to a plan, seen from outside.                          *)

Rec == [attempt : Nat, verdict : {"pass", "fail", "unknown"}]

VerdictsOf(records) == [n \in 1..Len(records) |-> records[n].verdict]

\* What PlanGate sees of a plan with files st and b.
Seen(st, b) == [phase |-> st.status, work |-> OpenTasks(b) # {},
                gate |-> OpenGates(b) # {}, verdicts |-> VerdictsOf(st.ledger.records)]

Grows(old, new) ==
  /\ old.artifacts \subseteq new.artifacts
  /\ old.handoffs <= new.handoffs
  /\ IsPrefix(old.records, new.records)

\* All that is promised of a call that turns st and b into s and c.
Moves(st, b, s, c) ==
  /\ Grows(st.ledger, s.ledger)
  /\ KeepsPlaces(b, c)
  /\ Gate!Step(Seen(st, b), Seen(s, c))

LEMMA LedgerType ==
  ASSUME NEW st \in PlanState
  PROVE  /\ st.status \in Statuses \cup {"absent"} /\ st.attempts \in Nat
         /\ st.ledger \in Ledger
         /\ st.ledger.handoffs \in Nat /\ st.ledger.records \in Seq(Rec)
BY DEF PlanState, Ledger, Rec

\* The promise about a status is the same in both modules.
LEMMA InferredIsSettled ==
  \A current, b :
    InferredStatus(current, b)
      = Gate!Settled(current, OpenTasks(b) # {}, OpenGates(b) # {})
BY DEF InferredStatus, Gate!Settled

LEMMA PrefixSelf ==
  ASSUME NEW r \in Seq(Rec)
  PROVE  IsPrefix(r, r)
<1>1. Len(r) \in Nat
  BY LenProperties
<1>. QED  BY <1>1 DEF IsPrefix

\* A record appended to a list of them.
LEMMA AppendRecord ==
  ASSUME NEW r \in Seq(Rec), NEW x \in Rec
  PROVE  /\ IsPrefix(r, Append(r, x))
         /\ VerdictsOf(Append(r, x)) = Append(VerdictsOf(r), x.verdict)
<1> DEFINE more == Append(r, x)
           V    == {"pass", "fail", "unknown"}
<1>1. /\ more \in Seq(Rec) /\ Len(more) = Len(r) + 1 /\ Len(r) \in Nat
      /\ \A i \in 1..Len(r) : more[i] = r[i]
      /\ more[Len(r) + 1] = x
  BY AppendProperties, LenProperties
<1>2. ASSUME NEW t \in Seq(Rec)
      PROVE  VerdictsOf(t) \in Seq(V) /\ Len(VerdictsOf(t)) = Len(t)
  <2>1. \A n \in 1..Len(t) : t[n].verdict \in V
    <3>1. \A n \in 1..Len(t) : t[n] \in Rec
      BY ElementOfSeq
    <3>2. \A y \in Rec : y.verdict \in V
      BY DEF Rec
    <3>. QED  BY <3>1, <3>2
  <2>. QED  BY <2>1, LenProperties DEF VerdictsOf
<1>3. SubSeq(r, 1, Len(r)) = SubSeq(more, 1, Len(r))
  <2>1. \A i \in 1..Len(r) : r[i] \in Rec /\ more[i] \in Rec
    BY <1>1, ElementOfSeq
  <2> HIDE DEF more
  <2>2. /\ SubSeq(r, 1, Len(r)) \in Seq(Rec)
        /\ Len(SubSeq(r, 1, Len(r))) = IF 1 <= Len(r) THEN Len(r) - 1 + 1 ELSE 0
        /\ \A i \in 1..(Len(r) - 1 + 1) : SubSeq(r, 1, Len(r))[i] = r[1 + i - 1]
    BY <1>1, <2>1, SubSeqProperties
  <2>3. /\ SubSeq(more, 1, Len(r)) \in Seq(Rec)
        /\ Len(SubSeq(more, 1, Len(r))) = IF 1 <= Len(r) THEN Len(r) - 1 + 1 ELSE 0
        /\ \A i \in 1..(Len(r) - 1 + 1) : SubSeq(more, 1, Len(r))[i] = more[1 + i - 1]
    BY <1>1, <2>1, SubSeqProperties
  <2>4. Len(SubSeq(r, 1, Len(r))) = Len(r) /\ Len(SubSeq(more, 1, Len(r))) = Len(r)
    BY <1>1, <2>2, <2>3
  <2>5. \A i \in 1..Len(r) : SubSeq(r, 1, Len(r))[i] = SubSeq(more, 1, Len(r))[i]
    BY <1>1, <2>2, <2>3
  <2>. QED  BY <2>2, <2>3, <2>4, <2>5, SeqEqual
<1>4. IsPrefix(r, more)
  BY <1>1, <1>3 DEF IsPrefix
<1>5. VerdictsOf(more) = Append(VerdictsOf(r), x.verdict)
  <2>1. x.verdict \in V
    BY DEF Rec
  <2>2. /\ Append(VerdictsOf(r), x.verdict) \in Seq(V)
        /\ Len(Append(VerdictsOf(r), x.verdict)) = Len(r) + 1
        /\ \A n \in 1..Len(r) :
             Append(VerdictsOf(r), x.verdict)[n] = VerdictsOf(r)[n]
        /\ Append(VerdictsOf(r), x.verdict)[Len(r) + 1] = x.verdict
    BY <1>2, <2>1, AppendProperties
  <2>3. VerdictsOf(more) \in Seq(V) /\ Len(VerdictsOf(more)) = Len(r) + 1
    BY <1>1, <1>2
  <2>4. ASSUME NEW n \in 1..(Len(r) + 1)
        PROVE  VerdictsOf(more)[n] = Append(VerdictsOf(r), x.verdict)[n]
    <3> HIDE DEF more
    <3>1. VerdictsOf(more)[n] = more[n].verdict
      BY <1>1 DEF VerdictsOf
    <3>2. CASE n \in 1..Len(r)
      <4>1. VerdictsOf(r)[n] = r[n].verdict
        BY <3>2 DEF VerdictsOf
      <4>. QED  BY <1>1, <2>2, <3>1, <3>2, <4>1
    <3>3. CASE n = Len(r) + 1
      <4>1. more[n] = x
        BY <1>1, <3>3
      <4>2. Append(VerdictsOf(r), x.verdict)[n] = x.verdict
        BY <2>2, <3>3
      <4>. QED  BY <3>1, <4>1, <4>2
    <3>4. n \in 1..Len(r) \/ n = Len(r) + 1
      BY <1>1
    <3>. QED  BY ONLY <3>2, <3>3, <3>4
  <2> HIDE DEF more
  <2>. QED  BY <2>2, <2>3, <2>4, SeqEqual
<1>. QED  BY <1>4, <1>5

LEMMA SameItemRefl == \A x : SameItem(x, x)
BY DEF SameItem

\* Items that stay where they are.
LEMMA PlacesStay ==
  ASSUME NEW b \in Seq(Item), NEW c \in Seq(Item), Len(b) <= Len(c),
         \A i \in 1..Len(b) : SameItem(b[i], c[i])
  PROVE  KeepsPlaces(b, c)
<1>1. Len(b) \in Nat /\ Len(c) \in Nat
  BY LenProperties
<1>2. 0 \in 0..(Len(c) - Len(b))
  BY <1>1
<1>3. ASSUME NEW i \in 1..Len(b)
      PROVE  SameItem(b[i], c[IF OpenGates(b) # {} /\ i >= Min(OpenGates(b))
                              THEN i + 0 ELSE i])
  <2>1. (IF OpenGates(b) # {} /\ i >= Min(OpenGates(b)) THEN i + 0 ELSE i) = i
    BY <1>1
  <2>. QED  BY <2>1
<1>. QED  BY <1>2, <1>3 DEF KeepsPlaces

LEMMA StaysInPlace ==
  ASSUME NEW b \in Seq(Item)
  PROVE  KeepsPlaces(b, b)
<1>1. Len(b) \in Nat
  BY LenProperties
<1>. QED  BY <1>1, SameItemRefl, PlacesStay

LEMMA CheckPlaces ==
  ASSUME NEW b \in Seq(Item), NEW i \in 1..Len(b)
  PROVE  KeepsPlaces(b, Check(b, i))
<1>1. /\ Check(b, i) \in Seq(Item) /\ Len(Check(b, i)) = Len(b) /\ Len(b) \in Nat
      /\ \A j \in 1..Len(b) :
           Check(b, i)[j] = IF j = i THEN [b[i] EXCEPT !.checked = TRUE] ELSE b[j]
  BY CheckType, LenProperties
<1>2. SameItem(b[i], [b[i] EXCEPT !.checked = TRUE])
  <2>1. b[i] \in Item
    BY ElementOfSeq
  <2>. QED  BY <2>1 DEF Item, SameItem
<1>3. \A j \in 1..Len(b) : SameItem(b[j], Check(b, i)[j])
  BY <1>1, <1>2, SameItemRefl
<1>. QED  BY <1>1, <1>3, PlacesStay

LEMMA AppendFixPlaces ==
  ASSUME NEW b \in Seq(Item)
  PROVE  KeepsPlaces(b, AppendFixItem(b))
<1>1. Len(b) \in Nat
  BY LenProperties
<1>2. /\ AppendFixItem(b) \in Seq(Item) /\ Len(b) <= Len(AppendFixItem(b))
      /\ \A j \in 1..Len(b) : SameItem(b[j], AppendFixItem(b)[j])
  BY <1>1, AppendFixType, SameItemRefl
<1>. QED  BY <1>2, PlacesStay

LEMMA InsertFixesPlaces ==
  ASSUME NEW b \in Seq(Item), NEW kinds \in Seq(Kinds)
  PROVE  KeepsPlaces(b, InsertFixes(b, kinds))
<1> DEFINE c  == InsertFixes(b, kinds)
           at == BeforeGate(b)
<1>1. /\ c \in Seq(Item) /\ Len(c) = Len(b) + Len(kinds)
      /\ at \in 1..(Len(b) + 1)
      /\ \A i \in 1..(at - 1) : c[i] = b[i]
      /\ \A i \in at..Len(b) : c[i + Len(kinds)] = b[i]
  BY InsertFixesType
<1>2. Len(b) \in Nat /\ Len(kinds) \in Nat
  BY LenProperties
<1>3. Len(kinds) \in 0..(Len(c) - Len(b))
  BY <1>1, <1>2
<1>4. OpenGates(b) = {} => at = Len(b) + 1
  BY DEF BeforeGate
<1>5. OpenGates(b) # {} => at = Min(OpenGates(b))
  BY DEF BeforeGate
<1> HIDE DEF c, at
<1>6. ASSUME NEW i \in 1..Len(b)
      PROVE  SameItem(b[i], c[IF OpenGates(b) # {} /\ i >= Min(OpenGates(b))
                              THEN i + Len(kinds) ELSE i])
  <2>1. CASE OpenGates(b) # {} /\ i >= Min(OpenGates(b))
    <3>1. i \in at..Len(b)
      BY <1>1, <1>2, <1>5, <2>1
    <3>. QED  BY <1>1, <2>1, <3>1, SameItemRefl
  <2>2. CASE ~(OpenGates(b) # {} /\ i >= Min(OpenGates(b)))
    <3>1. i \in 1..(at - 1)
      BY <1>1, <1>2, <1>4, <1>5, <2>2
    <3>. QED  BY <1>1, <2>2, <3>1, SameItemRefl
  <2>. QED  BY <2>1, <2>2
<1>7. KeepsPlaces(b, c)
  BY <1>3, <1>6 DEF KeepsPlaces
<1>. QED  BY <1>7 DEF c

-----------------------------------------------------------------------------
(* The parts of a call                                                     *)

LEMMA BodyAfterPlaces ==
  ASSUME NEW b \in Seq(Item), NEW v \in {"pass", "fail", "unknown"}
  PROVE  KeepsPlaces(b, BodyAfter(b, v))
<1>1. CASE v = "pass" /\ OpenGates(b) # {}
  <2>1. Min(OpenGates(b)) \in 1..Len(b)
    BY <1>1, GatesInRange, MinIsLeast
  <2>2. BodyAfter(b, v) = Check(b, Min(OpenGates(b)))
    BY <1>1 DEF BodyAfter
  <2>. QED  BY <2>1, <2>2, CheckPlaces
<1>2. CASE v = "fail"
  <2>1. BodyAfter(b, v) = AppendFixItem(b)
    BY <1>2 DEF BodyAfter
  <2>. QED  BY <2>1, AppendFixPlaces
<1>3. CASE ~(v = "pass" /\ OpenGates(b) # {}) /\ v # "fail"
  <2>1. BodyAfter(b, v) = b
    BY <1>3 DEF BodyAfter
  <2>. QED  BY <2>1, StaysInPlace
<1>. QED  BY <1>1, <1>2, <1>3

\* What a verdict does to the boxes: a pass leaves the work, a fail adds to it and
\* leaves the gate, and any other verdict changes nothing.
LEMMA BodyAfterBoxes ==
  ASSUME NEW b \in Seq(Item)
  PROVE  /\ (OpenTasks(BodyAfter(b, "pass")) # {}) = (OpenTasks(b) # {})
         /\ OpenTasks(BodyAfter(b, "fail")) # {}
         /\ (OpenGates(BodyAfter(b, "fail")) # {}) = (OpenGates(b) # {})
         /\ BodyAfter(b, "unknown") = b
<1>1. (OpenTasks(BodyAfter(b, "pass")) # {}) = (OpenTasks(b) # {})
  <2>1. CASE OpenGates(b) = {}
    BY <2>1 DEF BodyAfter
  <2>2. CASE OpenGates(b) # {}
    <3> DEFINE g == Min(OpenGates(b))
               c == Check(b, g)
    <3>1. g \in OpenGates(b) /\ g \in 1..Len(b)
      BY <2>2, GatesInRange, MinIsLeast
    <3>2. b[g].kind = "verify" /\ b[g] \in Item
      BY <3>1, ElementOfSeq DEF OpenGates
    <3>3. BodyAfter(b, "pass") = c
      BY <2>2 DEF BodyAfter
    <3> HIDE DEF g
    <3>4. /\ Len(c) = Len(b)
          /\ \A j \in 1..Len(b) :
               c[j] = IF j = g THEN [b[g] EXCEPT !.checked = TRUE] ELSE b[j]
      BY <3>1, CheckType
    <3>5. [b[g] EXCEPT !.checked = TRUE].kind = "verify"
      BY <3>2 DEF Item
    <3> HIDE DEF c
    <3>6. OpenTasks(c) = OpenTasks(b)
      BY <3>1, <3>2, <3>4, <3>5 DEF OpenTasks, Unchecked
    <3>. QED  BY <3>3, <3>6
  <2>. QED  BY <2>1, <2>2
<1>2. BodyAfter(b, "fail") = AppendFixItem(b)
  BY DEF BodyAfter
<1>3. /\ Len(AppendFixItem(b)) = Len(b) + 1 /\ Len(b) \in Nat
      /\ \A j \in 1..Len(b) : AppendFixItem(b)[j] = b[j]
      /\ AppendFixItem(b)[Len(b) + 1].kind = "fix"
      /\ ~AppendFixItem(b)[Len(b) + 1].checked
  BY AppendFixType, LenProperties DEF OpenItem
<1>4. Len(b) + 1 \in OpenTasks(AppendFixItem(b))
  BY <1>3 DEF OpenTasks, Unchecked
<1>5. OpenGates(AppendFixItem(b)) = OpenGates(b)
  <2>1. ASSUME NEW j
        PROVE  j \in OpenGates(AppendFixItem(b)) <=> j \in OpenGates(b)
    <3>1. CASE j \in 1..Len(b)
      BY <1>3, <3>1 DEF OpenGates, Unchecked
    <3>2. CASE j = Len(b) + 1
      BY <1>3, <3>2 DEF OpenGates, Unchecked
    <3>3. CASE j \notin 1..(Len(b) + 1)
      BY <1>3, <3>3 DEF OpenGates, Unchecked
    <3>4. j \in 1..Len(b) \/ j = Len(b) + 1 \/ j \notin 1..(Len(b) + 1)
      BY <1>3
    <3>. QED  BY ONLY <3>1, <3>2, <3>3, <3>4
  <2>. QED  BY <2>1
<1>6. BodyAfter(b, "unknown") = b
  BY DEF BodyAfter
<1>. QED  BY <1>1, <1>2, <1>4, <1>5, <1>6

\* record_verification adds one record to the ledger and changes nothing else in it;
\* the status is that of the verdict, settled on the boxes it leaves.
LEMMA VerificationEffect ==
  ASSUME NEW st, NEW b, PlanOK(st, b), NEW v \in {"pass", "fail", "unknown"}
  PROVE  /\ [attempt |-> st.attempts + 1, verdict |-> v] \in Rec
         /\ VerificationRecorded(st, b, v).ledger.artifacts = st.ledger.artifacts
         /\ VerificationRecorded(st, b, v).ledger.handoffs = st.ledger.handoffs
         /\ VerificationRecorded(st, b, v).ledger.records
              = Append(st.ledger.records, [attempt |-> st.attempts + 1, verdict |-> v])
         /\ VerificationRecorded(st, b, v).status
              = InferredStatus(StatusAfter(v), BodyAfter(b, v))
<1> DEFINE c       == BodyAfter(b, v)
           new     == [attempt |-> st.attempts + 1, verdict |-> v]
           counted == Counted(Synced(st, b), v)
           nested  == Synced(Synced(st, b), c)
           base    == IF v = "pass" /\ OpenGates(b) # {}
                      THEN [nested EXCEPT !.attempts = counted.attempts,
                                          !.ledger = counted.ledger]
                      ELSE counted
           marked  == [base EXCEPT !.status = StatusAfter(v)]
<1>1. st \in PlanState /\ st.attempts \in Nat /\ new \in Rec
  BY DEF PlanOK, PlanState, Rec
<1>2. /\ Synced(st, b) = [st EXCEPT !.status = InferredStatus(st.status, b)]
      /\ Synced(st, b).attempts = st.attempts
      /\ Synced(st, b).ledger = st.ledger
  BY <1>1 DEF Synced, PlanState
<1>3. PlanTyped(Synced(st, b), b)
  BY SyncedOK, OKIsTyped
<1>4. counted \in PlanState
  BY <1>3, CountedOK
<1>5. counted.ledger = [st.ledger EXCEPT !.records = Append(@, new)]
  <2>1. Synced(st, b) \in PlanState
    BY <1>3 DEF PlanTyped
  <2>. QED  BY <1>2, <2>1 DEF Counted, PlanState
<1>6. PlanOK(nested, c)
  BY BodyAfterOK, ChangedOK DEF PlanOK
<1>7. VerificationRecorded(st, b, v) = Synced(marked, c)
  BY DEF VerificationRecorded
<1> HIDE DEF c, counted, nested
<1>8. base \in PlanState /\ base.ledger = counted.ledger
  BY <1>4, <1>6 DEF PlanOK, PlanState
<1> HIDE DEF base
<1>9. /\ marked.status = StatusAfter(v) /\ marked.ledger = counted.ledger
      /\ marked \in PlanState
  BY <1>8 DEF PlanState, StatusAfter, Statuses
<1> HIDE DEF marked, new
<1>10. /\ Synced(marked, c).status = InferredStatus(StatusAfter(v), c)
       /\ Synced(marked, c).ledger = counted.ledger
  BY <1>9 DEF Synced, PlanState
<1>11. /\ Synced(marked, c).ledger.artifacts = st.ledger.artifacts
       /\ Synced(marked, c).ledger.handoffs = st.ledger.handoffs
       /\ Synced(marked, c).ledger.records = Append(st.ledger.records, new)
  BY <1>1, <1>5, <1>10, LedgerType DEF Ledger
<1>. QED  BY <1>1, <1>7, <1>10, <1>11 DEF c, new

\* A ledger whose records stay.
LEMMA GrowsWithoutRecord ==
  ASSUME NEW st \in PlanState, NEW s \in PlanState,
         st.ledger.artifacts \subseteq s.ledger.artifacts,
         st.ledger.handoffs <= s.ledger.handoffs,
         s.ledger.records = st.ledger.records
  PROVE  Grows(st.ledger, s.ledger)
BY LedgerType, PrefixSelf DEF Grows

\* A call that settles the status on the boxes it finds and again on those it leaves.
LEMMA WorkMoves ==
  ASSUME NEW st, NEW b, PlanOK(st, b), NEW s, NEW c, s \in PlanState,
         KeepsPlaces(b, c),
         st.ledger.artifacts \subseteq s.ledger.artifacts,
         st.ledger.handoffs <= s.ledger.handoffs,
         s.ledger.records = st.ledger.records,
         s.status = InferredStatus(InferredStatus(st.status, b), c)
  PROVE  Moves(st, b, s, c)
<1>1. Grows(st.ledger, s.ledger)
  BY GrowsWithoutRecord DEF PlanOK
<1>2. Gate!Work(Seen(st, b), Seen(s, c))
  BY InferredIsSettled DEF Gate!Work, Seen, PlanOK
<1>. QED  BY <1>1, <1>2 DEF Moves, Gate!Step

LEMMA GateMoves ==
  ASSUME NEW st, NEW b, PlanOK(st, b), NEW s, s \in PlanState,
         OpenTasks(b) = {},
         st.ledger.artifacts \subseteq s.ledger.artifacts,
         st.ledger.handoffs <= s.ledger.handoffs,
         s.ledger.records = st.ledger.records,
         s.status \in {"pending_verification", InferredStatus("pending_verification", b)}
  PROVE  Moves(st, b, s, b)
<1>1. Grows(st.ledger, s.ledger)
  BY GrowsWithoutRecord DEF PlanOK
<1>2. Gate!OpenGate(Seen(st, b), Seen(s, b))
  BY InferredIsSettled DEF Gate!OpenGate, Seen, PlanOK
<1>3. KeepsPlaces(b, b)
  BY StaysInPlace DEF PlanOK
<1>. QED  BY <1>1, <1>2, <1>3 DEF Moves, Gate!Step

\* A verdict.
LEMMA VerdictMoves ==
  ASSUME NEW st, NEW b, PlanOK(st, b), NEW v \in {"pass", "fail", "unknown"},
         NEW s, s \in PlanState,
         s.ledger.artifacts = VerificationRecorded(st, b, v).ledger.artifacts,
         s.ledger.records = VerificationRecorded(st, b, v).ledger.records,
         s.ledger.handoffs >= VerificationRecorded(st, b, v).ledger.handoffs,
         s.status = VerificationRecorded(st, b, v).status
  PROVE  Moves(st, b, s, BodyAfter(b, v))
<1> DEFINE c   == BodyAfter(b, v)
           new == [attempt |-> st.attempts + 1, verdict |-> v]
           r   == VerificationRecorded(st, b, v)
<1>1. st \in PlanState /\ b \in Seq(Item) /\ st.status # "absent"
  BY DEF PlanOK
<1>2. /\ new \in Rec /\ new.verdict = v
      /\ r.ledger.artifacts = st.ledger.artifacts
      /\ r.ledger.handoffs = st.ledger.handoffs
      /\ r.ledger.records = Append(st.ledger.records, new)
      /\ r.status = InferredStatus(StatusAfter(v), c)
  BY VerificationEffect, ZenonT(30)
<1>3. /\ st.ledger \in Ledger /\ st.ledger.records \in Seq(Rec) /\ st.ledger.handoffs \in Nat
  BY <1>1, LedgerType
<1> HIDE DEF r, c, new
<1>5. /\ s.ledger.artifacts = st.ledger.artifacts
      /\ s.ledger.handoffs >= st.ledger.handoffs
      /\ s.ledger.records = Append(st.ledger.records, new)
      /\ s.status = InferredStatus(StatusAfter(v), c)
  BY <1>2 DEF r
<1>6. s.ledger.handoffs \in Nat
  BY LedgerType
<1>7. /\ IsPrefix(st.ledger.records, s.ledger.records)
      /\ VerdictsOf(s.ledger.records) = Append(VerdictsOf(st.ledger.records), v)
  BY <1>2, <1>3, <1>5, AppendRecord
<1>8. Grows(st.ledger, s.ledger)
  BY <1>3, <1>5, <1>6, <1>7 DEF Grows
<1>9. KeepsPlaces(b, c)
  BY <1>1, BodyAfterPlaces DEF c
<1>10. Gate!Verdict(Seen(st, b), Seen(s, c), v)
  <2>1. /\ Seen(st, b).phase # "absent"
        /\ Seen(s, c).verdicts = Append(Seen(st, b).verdicts, v)
    BY <1>1, <1>7 DEF Seen
  <2>2. CASE v = "pass"
    <3>1. s.status = "verified"
      BY <1>5, <2>2 DEF StatusAfter, InferredStatus
    <3>2. (OpenTasks(c) # {}) = (OpenTasks(b) # {})
      BY <1>1, <2>2, BodyAfterBoxes DEF c
    <3>. QED  BY <2>1, <2>2, <3>1, <3>2 DEF Gate!Verdict, Seen
  <2>3. CASE v = "fail"
    <3>1. s.status = "failed"
      BY <1>5, <2>3 DEF StatusAfter, InferredStatus
    <3>2. OpenTasks(c) # {} /\ (OpenGates(c) # {}) = (OpenGates(b) # {})
      BY <1>1, <2>3, BodyAfterBoxes DEF c
    <3>. QED  BY <2>1, <2>3, <3>1, <3>2 DEF Gate!Verdict, Seen
  <2>4. CASE v = "unknown"
    <3>1. s.status = InferredStatus("pending_verification", c) /\ c = b
      BY <1>1, <1>5, <2>4, BodyAfterBoxes DEF StatusAfter, c
    <3>. QED  BY <2>1, <2>4, <3>1, InferredIsSettled DEF Gate!Verdict, Seen
  <2>. QED  BY <2>2, <2>3, <2>4
<1>11. Gate!Step(Seen(st, b), Seen(s, c))
  BY <1>10 DEF Gate!Step, Gate!Verdicts
<1>. QED  BY <1>8, <1>9, <1>11 DEF Moves, c

-----------------------------------------------------------------------------
(* What a call of the store does to the plans.                             *)

PlansMove ==
  /\ \A p \in Plans : Moves(state[p], md[p], state'[p], md'[p])
  /\ \A p \in PlanIds : Gate!Step(Seen(state[p], md[p]), Seen(state'[p], md'[p]))

LEMMA StandsStill ==
  ASSUME NEW st, NEW b, PlanOK(st, b)
  PROVE  Moves(st, b, st, b)
<1>1. Grows(st.ledger, st.ledger)
  BY LedgerType, GrowsWithoutRecord DEF PlanOK
<1>. QED  BY <1>1, StaysInPlace DEF Moves, Gate!Step, PlanOK

\* A call that touches one plan.
LEMMA OnePlanMoves ==
  ASSUME IInv, NEW p \in Plans, NEW s, NEW c, Moves(state[p], md[p], s, c),
         state' = [state EXCEPT ![p] = s],
         md' = [md EXCEPT ![p] = c]
  PROVE  PlansMove
<1>1. /\ p \in PlanIds
      /\ state \in [PlanIds -> PlanState] /\ md \in [PlanIds -> Seq(Item)]
  BY DEF Plans, IInv, Frame
<1>2. ASSUME NEW q \in Plans PROVE Moves(state[q], md[q], state'[q], md'[q])
  <2>1. CASE q = p
    BY <1>1, <2>1
  <2>2. CASE q # p
    <3>1. q \in PlanIds /\ PlanOK(state[q], md[q])
      BY ExistingIsOK
    <3>2. state'[q] = state[q] /\ md'[q] = md[q]
      BY <1>1, <2>2, <3>1
    <3>. QED  BY <3>1, <3>2, StandsStill
  <2>. QED  BY <2>1, <2>2
<1>3. ASSUME NEW q \in PlanIds \ Plans
      PROVE  Seen(state'[q], md'[q]) = Seen(state[q], md[q])
  BY <1>1, <1>3
<1>4. \A q \in PlanIds : Gate!Step(Seen(state[q], md[q]), Seen(state'[q], md'[q]))
  BY <1>2, <1>3 DEF Moves, Gate!Step
<1>. QED  BY <1>2, <1>4 DEF PlansMove

LEMMA NothingMoves ==
  ASSUME IInv, UNCHANGED <<md, state>>
  PROVE  PlansMove
<1>1. \A q \in Plans : Moves(state[q], md[q], state'[q], md'[q])
  BY ExistingIsOK, StandsStill
<1>. QED  BY <1>1 DEF PlansMove, Gate!Step

\* Settling the status once or twice on the same boxes is the same.
LEMMA SettledTwice ==
  \A current, b : InferredStatus(InferredStatus(current, b), b) = InferredStatus(current, b)
BY DEF InferredStatus

\* A call that settles the status of a plan and does no more to its files.
LEMMA SyncedMoves ==
  ASSUME NEW st, NEW b, PlanOK(st, b)
  PROVE  /\ Synced(st, b).status = InferredStatus(st.status, b)
         /\ Synced(st, b).ledger = st.ledger
         /\ Synced(st, b) \in PlanState
         /\ Moves(st, b, Synced(st, b), b)
<1>1. PlanOK(Synced(st, b), b)
  BY OKIsTyped, SyncedOK
<1>2. /\ Synced(st, b).status = InferredStatus(st.status, b)
      /\ Synced(st, b).ledger = st.ledger
  BY DEF PlanOK, Synced, PlanState
<1>3. Synced(st, b) \in PlanState /\ st \in PlanState /\ b \in Seq(Item)
  BY <1>1 DEF PlanOK
<1>4. /\ KeepsPlaces(b, b)
      /\ st.ledger.handoffs <= st.ledger.handoffs
  BY <1>3, LedgerType, StaysInPlace
<1>. QED  BY <1>2, <1>3, <1>4, SettledTwice, WorkMoves

\* The same, of a call that then changes plan.md and settles again.
LEMMA ChangedEffect ==
  ASSUME NEW st, NEW b, PlanOK(st, b), NEW c \in Seq(Item), Contained(b, c)
  PROVE  /\ Synced(Synced(st, b), c).status
              = InferredStatus(InferredStatus(st.status, b), c)
         /\ Synced(Synced(st, b), c).ledger = st.ledger
         /\ Synced(Synced(st, b), c) \in PlanState
<1>1. PlanOK(Synced(Synced(st, b), c), c)
  BY ChangedOK
<1>2. /\ Synced(st, b).status = InferredStatus(st.status, b)
      /\ Synced(st, b).ledger = st.ledger
      /\ Synced(st, b) \in PlanState
  BY SyncedMoves
<1>. QED  BY <1>1, <1>2 DEF PlanOK, Synced, PlanState

LEMMA HandoffEffect ==
  ASSUME NEW st \in PlanState
  PROVE  /\ Handoff(st) \in PlanState
         /\ Handoff(st).status = st.status
         /\ Handoff(st).ledger.artifacts = st.ledger.artifacts
         /\ Handoff(st).ledger.handoffs = st.ledger.handoffs + 1
         /\ Handoff(st).ledger.records = st.ledger.records
BY DEF Handoff, PlanState, Ledger

LEMMA AttachedEffect ==
  ASSUME NEW st \in PlanState, NEW a \in Artifacts
  PROVE  /\ Attached(st, a) \in PlanState
         /\ Attached(st, a).status = st.status
         /\ Attached(st, a).ledger.artifacts = st.ledger.artifacts \cup {a}
         /\ Attached(st, a).ledger.handoffs = st.ledger.handoffs
         /\ Attached(st, a).ledger.records = st.ledger.records
BY DEF Attached, PlanState, Ledger

LEMMA ContextEffect ==
  ASSUME NEW st \in PlanState
  PROVE  /\ ContextWritten(st) \in PlanState
         /\ ContextWritten(st).status = "pending_verification"
         /\ ContextWritten(st).ledger = Attached(st, "verify_context").ledger
<1>1. Attached(st, "verify_context") \in PlanState
  BY AttachedEffect DEF Artifacts
<1>. QED  BY <1>1 DEF ContextWritten, PlanState, Statuses

LEMMA AbsentIsUnborn == Seen(Absent, << >>) = Gate!Unborn
<1>1. Absent.status = "absent" /\ Absent.ledger.records = << >>
  BY DEF Absent, EmptyLedger
<1>2. Len(<< >>) = 0
  BY EmptySeq
<1>3. OpenTasks(<< >>) = {} /\ OpenGates(<< >>) = {}
  BY <1>2 DEF OpenTasks, OpenGates, Unchecked
<1>4. VerdictsOf(<< >>) = << >>
  BY <1>2, EmptySeq DEF VerdictsOf
<1>. QED  BY <1>1, <1>3, <1>4 DEF Seen, Gate!Unborn

LEMMA CreateMoves ==
  ASSUME IInv, NEW p \in PlanIds, NEW kinds \in StepLists,
         NEW exports \in SUBSET ArtifactKeys, Create(p, kinds, exports)
  PROVE  PlansMove
<1> DEFINE b == Rendered(kinds)
           s == Synced(Fresh(exports), b)
<1>1. p \notin Plans /\ state[p] = Absent /\ md[p] = << >>
  BY DEF Create, IInv, EveryPlan, PlanOK, Plans
<1>2. /\ state \in [PlanIds -> PlanState] /\ md \in [PlanIds -> Seq(Item)]
      /\ state' = [state EXCEPT ![p] = s] /\ md' = [md EXCEPT ![p] = b]
  BY DEF Create, IInv, Frame
<1>3. OpenGates(b) # {}
  BY RenderedType, PlanAssumptions DEF Kinds
<1>4. s.status = InferredStatus("active", b) /\ s.ledger.records = << >>
  BY DEF Fresh, Synced
<1>5. VerdictsOf(<< >>) = << >>
  BY EmptySeq DEF VerdictsOf
<1> HIDE DEF s, b
<1>6. Gate!Born(Seen(state[p], md[p]), Seen(s, b))
  BY <1>1, <1>3, <1>4, <1>5, AbsentIsUnborn, InferredIsSettled DEF Gate!Born, Seen
<1>7. \A q \in PlanIds \ {p} : state'[q] = state[q] /\ md'[q] = md[q]
  BY <1>2
<1>8. state'[p] = s /\ md'[p] = b
  BY <1>2
<1>9. \A q \in PlanIds : Gate!Step(Seen(state[q], md[q]), Seen(state'[q], md'[q]))
  BY <1>6, <1>7, <1>8 DEF Gate!Step
<1>10. \A q \in Plans : Moves(state[q], md[q], state'[q], md'[q])
  BY <1>1, <1>7, ExistingIsOK, StandsStill
<1>. QED  BY <1>9, <1>10 DEF PlansMove

LEMMA SnapshotMoves ==
  ASSUME IInv, NEW p \in PlanIds, NEW tool \in {"quiet", "next", "next_default"},
         Snapshot(p, tool)
  PROVE  PlansMove
<1>1. Moves(state[p], md[p], Synced(state[p], md[p]), md[p])
  BY ExistingIsOK, SyncedMoves DEF Snapshot
<1>2. md' = [md EXCEPT ![p] = md[p]]
  BY DEF Snapshot, IInv, Frame
<1>. QED  BY <1>1, <1>2, OnePlanMoves DEF Snapshot

LEMMA BriefMoves == ASSUME IInv, Brief PROVE PlansMove
<1>1. \A q \in Plans : state'[q] = Synced(state[q], md[q]) /\ md'[q] = md[q]
  BY DEF Brief, SyncedAll, Plans
<1>2. \A q \in PlanIds \ Plans : state'[q] = state[q] /\ md'[q] = md[q]
  BY DEF Brief, SyncedAll
<1>3. \A q \in Plans : Moves(state[q], md[q], state'[q], md'[q])
  BY <1>1, ExistingIsOK, SyncedMoves
<1>4. \A q \in PlanIds : Gate!Step(Seen(state[q], md[q]), Seen(state'[q], md'[q]))
  BY <1>2, <1>3 DEF Moves, Gate!Step
<1>. QED  BY <1>3, <1>4 DEF PlansMove

LEMMA CompleteMoves ==
  ASSUME IInv, NEW p \in PlanIds, NEW i, Complete(p, i)
  PROVE  PlansMove
<1> DEFINE c == Check(md[p], i)
           s == Synced(Synced(state[p], md[p]), c)
<1>1. p \in Plans /\ i \in 1..Len(md[p])
  BY DEF Complete, Unchecked
<1>2. PlanOK(state[p], md[p]) /\ md[p] \in Seq(Item) /\ state[p] \in PlanState
  BY <1>1, ExistingIsOK DEF PlanOK
<1>3. c \in Seq(Item) /\ Contained(md[p], c) /\ KeepsPlaces(md[p], c)
  BY <1>1, <1>2, CheckType, CheckContained, CheckPlaces
<1>4. md' = [md EXCEPT ![p] = c] /\ md'[p] = c
  BY DEF Complete, IInv, Frame
<1>5. state' = [state EXCEPT ![p] = s]
  BY <1>4 DEF Complete
<1> HIDE DEF c
<1>6. /\ s.status = InferredStatus(InferredStatus(state[p].status, md[p]), c)
      /\ s.ledger = state[p].ledger /\ s \in PlanState
  BY <1>2, <1>3, ChangedEffect
<1> HIDE DEF s
<1>7. state[p].ledger.handoffs <= s.ledger.handoffs
  BY <1>2, <1>6, LedgerType
<1>8. Moves(state[p], md[p], s, c)
  BY <1>2, <1>3, <1>6, <1>7, WorkMoves
<1>. QED  BY <1>1, <1>4, <1>5, <1>8, OnePlanMoves

LEMMA RefineMoves ==
  ASSUME IInv, NEW p \in PlanIds, NEW kinds \in FixLists, Refine(p, kinds)
  PROVE  PlansMove
<1> DEFINE c == InsertFixes(md[p], kinds)
           s == Synced(Synced(state[p], md[p]), c)
<1>1. p \in Plans /\ kinds \in Seq(Kinds)
  BY PlanAssumptions DEF Refine, Kinds
<1>2. PlanOK(state[p], md[p]) /\ md[p] \in Seq(Item) /\ state[p] \in PlanState
  BY <1>1, ExistingIsOK DEF PlanOK
<1>3. c \in Seq(Item) /\ Contained(md[p], c) /\ KeepsPlaces(md[p], c)
  BY <1>1, <1>2, InsertFixesType, InsertFixesPlaces
<1>4. md' = [md EXCEPT ![p] = c] /\ md'[p] = c
  BY DEF Refine, IInv, Frame
<1>5. state' = [state EXCEPT ![p] = Handoff(s)]
  BY <1>4 DEF Refine
<1> HIDE DEF c
<1>6. /\ s.status = InferredStatus(InferredStatus(state[p].status, md[p]), c)
      /\ s.ledger = state[p].ledger /\ s \in PlanState
  BY <1>2, <1>3, ChangedEffect
<1> HIDE DEF s
<1>7. /\ Handoff(s) \in PlanState
      /\ Handoff(s).status = s.status
      /\ Handoff(s).ledger.artifacts = s.ledger.artifacts
      /\ Handoff(s).ledger.handoffs = s.ledger.handoffs + 1
      /\ Handoff(s).ledger.records = s.ledger.records
  BY <1>6, HandoffEffect
<1>8. state[p].ledger.handoffs <= Handoff(s).ledger.handoffs
  BY <1>2, <1>6, <1>7, LedgerType
<1>9. Moves(state[p], md[p], Handoff(s), c)
  BY <1>2, <1>3, <1>6, <1>7, <1>8, WorkMoves
<1>. QED  BY <1>1, <1>4, <1>5, <1>9, OnePlanMoves

LEMMA RecordArtifactMoves ==
  ASSUME IInv, NEW p \in PlanIds, NEW a \in ArtifactKeys, RecordArtifact(p, a)
  PROVE  PlansMove
<1> DEFINE s == Synced(state[p], md[p])
<1>1. p \in Plans /\ a \in Artifacts
  BY DEF RecordArtifact, Artifacts
<1>2. PlanOK(state[p], md[p]) /\ state[p] \in PlanState /\ md[p] \in Seq(Item)
  BY <1>1, ExistingIsOK DEF PlanOK
<1>3. /\ s.status = InferredStatus(state[p].status, md[p])
      /\ s.ledger = state[p].ledger /\ s \in PlanState
  BY <1>2, SyncedMoves
<1>4. md' = [md EXCEPT ![p] = md[p]] /\ state' = [state EXCEPT ![p] = Attached(s, a)]
  BY DEF RecordArtifact, IInv, Frame
<1> HIDE DEF s
<1>5. /\ Attached(s, a) \in PlanState
      /\ Attached(s, a).status = s.status
      /\ Attached(s, a).ledger.artifacts = s.ledger.artifacts \cup {a}
      /\ Attached(s, a).ledger.handoffs = s.ledger.handoffs
      /\ Attached(s, a).ledger.records = s.ledger.records
  BY <1>1, <1>3, AttachedEffect
<1>6. state[p].ledger.handoffs <= Attached(s, a).ledger.handoffs
  BY <1>2, <1>3, <1>5, LedgerType
<1>7. Moves(state[p], md[p], Attached(s, a), md[p])
  BY <1>2, <1>3, <1>5, <1>6, SettledTwice, StaysInPlace, WorkMoves
<1>. QED  BY <1>1, <1>4, <1>7, OnePlanMoves

LEMMA RecordHandoffMoves ==
  ASSUME IInv, NEW p \in PlanIds, RecordHandoff(p)
  PROVE  PlansMove
<1> DEFINE s == Synced(state[p], md[p])
<1>1. p \in Plans
  BY DEF RecordHandoff
<1>2. PlanOK(state[p], md[p]) /\ state[p] \in PlanState /\ md[p] \in Seq(Item)
  BY <1>1, ExistingIsOK DEF PlanOK
<1>3. /\ s.status = InferredStatus(state[p].status, md[p])
      /\ s.ledger = state[p].ledger /\ s \in PlanState
  BY <1>2, SyncedMoves
<1>4. md' = [md EXCEPT ![p] = md[p]] /\ state' = [state EXCEPT ![p] = Handoff(s)]
  BY DEF RecordHandoff, IInv, Frame
<1> HIDE DEF s
<1>5. /\ Handoff(s) \in PlanState
      /\ Handoff(s).status = s.status
      /\ Handoff(s).ledger.artifacts = s.ledger.artifacts
      /\ Handoff(s).ledger.handoffs = s.ledger.handoffs + 1
      /\ Handoff(s).ledger.records = s.ledger.records
  BY <1>3, HandoffEffect
<1>6. state[p].ledger.handoffs <= Handoff(s).ledger.handoffs
  BY <1>2, <1>3, <1>5, LedgerType
<1>7. Moves(state[p], md[p], Handoff(s), md[p])
  BY <1>2, <1>3, <1>5, <1>6, SettledTwice, StaysInPlace, WorkMoves
<1>. QED  BY <1>1, <1>4, <1>7, OnePlanMoves

\* Writing the verification context, with or without a snapshot after it.
LEMMA ContextMoves ==
  ASSUME NEW st, NEW b, PlanOK(st, b), OpenTasks(b) = {}
  PROVE  /\ Moves(st, b, ContextWritten(Synced(st, b)), b)
         /\ Moves(st, b, Synced(ContextWritten(Synced(st, b)), b), b)
<1> DEFINE s == Synced(st, b)
           w == ContextWritten(s)
<1>1. /\ st \in PlanState /\ s \in PlanState /\ s.ledger = st.ledger
      /\ "verify_context" \in Artifacts
  BY SyncedMoves DEF PlanOK, Artifacts
<1>2. PlanOK(w, b)
  BY OKIsTyped, SyncedOK, ContextWrittenOK
<1> HIDE DEF s
<1>3. /\ w.status = "pending_verification"
      /\ w.ledger = Attached(s, "verify_context").ledger
  BY <1>1, ContextEffect
<1>4. /\ w.ledger.artifacts = st.ledger.artifacts \cup {"verify_context"}
      /\ w.ledger.handoffs = st.ledger.handoffs
      /\ w.ledger.records = st.ledger.records
  BY <1>1, <1>3, AttachedEffect
<1> HIDE DEF w
<1>5. /\ Synced(w, b).status = InferredStatus("pending_verification", b)
      /\ Synced(w, b).ledger = w.ledger
      /\ Synced(w, b) \in PlanState /\ w \in PlanState
  BY <1>2, <1>3, SyncedMoves DEF PlanOK
<1>6. st.ledger.handoffs <= w.ledger.handoffs
  BY <1>1, <1>4, LedgerType
<1>7. Moves(st, b, w, b)
  BY <1>3, <1>4, <1>5, <1>6, GateMoves
<1>8. Moves(st, b, Synced(w, b), b)
  BY <1>4, <1>5, <1>6, GateMoves
<1>. QED  BY <1>7, <1>8 DEF s, w

LEMMA VerifyStartMoves ==
  ASSUME IInv, NEW p \in PlanIds, VerifyStart(p)
  PROVE  PlansMove
<1>1. p \in Plans /\ OpenTasks(md[p]) = {}
  BY DEF VerifyStart, MayVerify
<1>2. Moves(state[p], md[p], ContextWritten(Synced(state[p], md[p])), md[p])
  BY <1>1, ExistingIsOK, ContextMoves
<1>3. md' = [md EXCEPT ![p] = md[p]]
  BY DEF VerifyStart, IInv, Frame
<1>. QED  BY <1>1, <1>2, <1>3, OnePlanMoves DEF VerifyStart

LEMMA VerifyDryRunMoves ==
  ASSUME IInv, NEW p \in PlanIds, VerifyDryRun(p)
  PROVE  PlansMove
<1>1. p \in Plans /\ OpenTasks(md[p]) = {}
  BY DEF VerifyDryRun, MayVerify
<1>2. Moves(state[p], md[p], Synced(ContextWritten(Synced(state[p], md[p])), md[p]), md[p])
  BY <1>1, ExistingIsOK, ContextMoves
<1>3. md' = [md EXCEPT ![p] = md[p]]
  BY DEF VerifyDryRun, IInv, Frame
<1>. QED  BY <1>1, <1>2, <1>3, OnePlanMoves DEF VerifyDryRun

LEMMA VerifyReportMoves ==
  ASSUME IInv, NEW p \in PlanIds, NEW report \in Reports, VerifyReport(p, report)
  PROVE  PlansMove
<1> DEFINE v == Verdict(report)
           r == VerificationRecorded(state[p], md[p], v)
           c == BodyAfter(md[p], v)
<1>1. p \in Plans /\ v \in {"pass", "fail", "unknown"}
  BY VerdictType DEF VerifyReport, IInv, Frame
<1>2. PlanOK(state[p], md[p])
  BY <1>1, ExistingIsOK
<1>3. r \in PlanState
  BY <1>1, <1>2, VerificationOK DEF PlanOK
<1>4. md' = [md EXCEPT ![p] = c] /\ state' = [state EXCEPT ![p] = Handoff(r)]
  BY DEF VerifyReport
<1>5. /\ Handoff(r) \in PlanState
      /\ Handoff(r).status = r.status
      /\ Handoff(r).ledger.artifacts = r.ledger.artifacts
      /\ Handoff(r).ledger.handoffs = r.ledger.handoffs + 1
      /\ Handoff(r).ledger.records = r.ledger.records
  BY <1>3, HandoffEffect
<1>6. Handoff(r).ledger.handoffs >= r.ledger.handoffs
  BY <1>3, <1>5, LedgerType
<1> HIDE DEF v
<1>7. Moves(state[p], md[p], Handoff(r), c)
  BY <1>1, <1>2, <1>5, <1>6, VerdictMoves
<1> HIDE DEF r, c
<1>. QED  BY <1>1, <1>4, <1>7, OnePlanMoves

LEMMA RecordVerificationMoves ==
  ASSUME IInv, NEW p \in PlanIds, NEW report \in Reports, RecordVerification(p, report)
  PROVE  PlansMove
<1> DEFINE v == Verdict(report)
           r == VerificationRecorded(state[p], md[p], v)
           c == BodyAfter(md[p], v)
<1>1. p \in Plans /\ v \in {"pass", "fail", "unknown"}
  BY VerdictType DEF RecordVerification
<1>2. PlanOK(state[p], md[p])
  BY <1>1, ExistingIsOK
<1>3. r \in PlanState
  BY <1>1, <1>2, VerificationOK DEF PlanOK
<1>4. md' = [md EXCEPT ![p] = c] /\ state' = [state EXCEPT ![p] = r]
  BY DEF RecordVerification
<1>5. r.ledger.handoffs >= r.ledger.handoffs
  BY <1>3, LedgerType
<1> HIDE DEF v
<1>6. Moves(state[p], md[p], r, c)
  BY <1>1, <1>2, <1>3, <1>5, VerdictMoves
<1> HIDE DEF r, c
<1>. QED  BY <1>1, <1>4, <1>6, OnePlanMoves

LEMMA NextMoves == IInv /\ [Next]_vars => PlansMove
<1> SUFFICES ASSUME IInv, [Next]_vars PROVE PlansMove
  OBVIOUS
<1>1. CASE Brief
  BY <1>1, BriefMoves
<1>2. ASSUME NEW p \in PlanIds, NEW kinds \in StepLists,
             NEW exports \in SUBSET ArtifactKeys, Create(p, kinds, exports)
      PROVE  PlansMove
  BY <1>2, CreateMoves
<1>3. ASSUME NEW p \in PlanIds, NEW tool \in {"quiet", "next", "next_default"},
             Snapshot(p, tool)
      PROVE  PlansMove
  BY <1>3, SnapshotMoves
<1>4. ASSUME NEW p \in PlanIds, NEW i \in 1..MaxItems, Complete(p, i) PROVE PlansMove
  BY <1>4, CompleteMoves
<1>5. ASSUME NEW p \in PlanIds, NEW kinds \in FixLists, Refine(p, kinds) PROVE PlansMove
  BY <1>5, RefineMoves
<1>6. ASSUME NEW p \in PlanIds, NEW a \in ArtifactKeys, RecordArtifact(p, a)
      PROVE  PlansMove
  BY <1>6, RecordArtifactMoves
<1>7. ASSUME NEW p \in PlanIds, RecordHandoff(p) PROVE PlansMove
  BY <1>7, RecordHandoffMoves
<1>8. ASSUME NEW p \in PlanIds, VerifyStart(p) PROVE PlansMove
  BY <1>8, VerifyStartMoves
<1>9. ASSUME NEW p \in PlanIds, VerifyDryRun(p) PROVE PlansMove
  BY <1>9, VerifyDryRunMoves
<1>10. ASSUME NEW p \in PlanIds, VerifyAbandoned(p) PROVE PlansMove
  BY <1>10, NothingMoves DEF VerifyAbandoned
<1>11. ASSUME NEW p \in PlanIds, NEW report \in Reports, VerifyReport(p, report)
       PROVE  PlansMove
  BY <1>11, VerifyReportMoves
<1>12. ASSUME NEW p \in PlanIds, NEW report \in Reports, RecordVerification(p, report)
       PROVE  PlansMove
  BY <1>12, RecordVerificationMoves
<1>13. CASE UNCHANGED vars
  BY <1>13, NothingMoves DEF vars
<1>. QED  BY <1>1, <1>2, <1>3, <1>4, <1>5, <1>6, <1>7, <1>8, <1>9, <1>10, <1>11,
             <1>12, <1>13 DEF Next

-----------------------------------------------------------------------------
(* The theorems.                                                           *)

LEMMA Invariance == Spec => []IInv
BY InitIInv, NextIInv, PTL DEF Spec

\* Every state the store can reach is well typed, and only plans that exist
\* have items, a verification context, a verifier at work or a place in the
\* order of updates.
THEOREM TypeCorrect == Spec => []TypeOK
<1>1. IInv => TypeOK
  BY IInvImplies
<1>. QED  BY <1>1, Invariance, PTL

\* The attempt counter of state.json and the verdicts of the ledger agree
\* after every call of the store, for any number of plans and attempts.
THEOREM AttemptsAgree == Spec => []AttemptsMatchRecords
<1>1. IInv => AttemptsMatchRecords
  BY IInvImplies
<1>. QED  BY <1>1, Invariance, PTL

\* Whatever is completed, appended, verified or recorded, an active plan has
\* open work and a plan at the gate has none.
THEOREM StatusAgrees == Spec => []StatusTellsBoxes
<1>1. IInv => StatusTellsBoxes
  BY IInvImplies
<1>. QED  BY <1>1, Invariance, PTL

\* A failed plan always shows why: its last verdict is a fail, and plan.md has
\* a [FIX] item.
THEOREM FailedIsExplained == Spec => []FailedHasReason
<1>1. IInv => FailedHasReason
  BY IInvImplies
<1>. QED  BY <1>1, Invariance, PTL

\* For any number of plans, calls and verifications, what the ledger of a plan has
\* recorded stays recorded: no artifact, handoff or verdict is lost, not even by the
\* complete() that record_verification calls in its middle.
THEOREM LedgersOnlyGrow == Spec => LedgerGrows
<1>1. PlansMove =>
        \A p \in Plans :
          LET old == state[p].ledger
              new == state'[p].ledger
          IN  /\ old.artifacts \subseteq new.artifacts
              /\ old.handoffs <= new.handoffs
              /\ IsPrefix(old.records, new.records)
  BY DEF PlansMove, Moves, Grows
<1>. QED  BY <1>1, NextMoves, Invariance, PTL DEF Spec, LedgerGrows

\* No call unchecks, drops or reorders an item of any plan, and an item before the
\* first open [VERIFY] box keeps the index by which a planner knows it.
THEOREM PlacesKept == Spec => ItemsKeepTheirPlaces
<1>1. PlansMove => \A p \in Plans : KeepsPlaces(md[p], md'[p])
  BY DEF PlansMove, Moves
<1>. QED  BY <1>1, NextMoves, Invariance, PTL DEF Spec, ItemsKeepTheirPlaces

\* The store implements PlanGate: whatever calls are made, the status a reader finds
\* follows the verdicts and the open boxes as PlanGate says.
THEOREM KeepsGate == Spec => ImplementsGate
<1>1. \A p : SeenOf(p) = Seen(state[p], md[p])
  BY DEF SeenOf, Seen, VerdictsOf
<1>2. Init => Gate!GateInit
  <2> SUFFICES ASSUME Init PROVE Gate!GateInit
    OBVIOUS
  <2>1. \A p \in PlanIds : SeenOf(p) = Gate!Unborn
    BY <1>1, AbsentIsUnborn DEF Init
  <2>. QED  BY <2>1 DEF Gate!GateInit
<1>3. PlansMove => Gate!GateNext
  <2> SUFFICES ASSUME PlansMove, NEW p \in PlanIds
               PROVE  Gate!Step(SeenOf(p), SeenOf(p)')
    BY DEF Gate!GateNext
  <2>1. SeenOf(p)' = Seen(state'[p], md'[p])
    BY DEF SeenOf, Seen, VerdictsOf
  <2>. QED  BY <1>1, <2>1 DEF PlansMove
<1>. QED  BY <1>2, <1>3, NextMoves, Invariance, PTL DEF Spec, ImplementsGate, Gate!GateSpec
=============================================================================
