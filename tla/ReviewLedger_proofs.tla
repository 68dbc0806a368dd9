------------------------- MODULE ReviewLedger_proofs -------------------------
(***************************************************************************)
(* Proofs about ReviewLedger, for any contexts, findings, failure modes,   *)
(* candidates, cycles and clock.                                           *)
(*                                                                         *)
(* A delivery is decided on facts that hold when it is recorded.  That     *)
(* they go on holding has two parts: an operation only reaches what is     *)
(* about the current cycle, also in the tables that all cycles share, and  *)
(* the policy on a cycle reads nothing else.                               *)
(***************************************************************************)
EXTENDS ReviewLedger, TLAPS

\* What a gate refers to was there when it was recorded.
GatesLookBack ==
    \A i \in DOMAIN gates :
        /\ gates[i].cycle <= current
        /\ gates[i].revision <= revision
        /\ \A f \in gates[i].findings : finding[f] # None

\* The cycles after the current one are still to be started.
CyclesInOrder == \A c \in Cycles : c > current => status[c] = "unstarted"

SameSubject(i, j) ==
    gates[i].cycle = gates[j].cycle /\ gates[i].candidate = gates[j].candidate

\* Only the last gate of a cycle and candidate can be active.
NewerSupersedes ==
    \A i, j \in DOMAIN gates : (i < j /\ SameSubject(i, j)) => i \in superseded

\* Under a confirmed baseline a gate of the current revision saw the failure
\* modes as they are.
ModesAsReviewed ==
    baseline = "confirmed" =>
        \A i \in DOMAIN gates :
            (gates[i].cycle = current /\ gates[i].revision = revision) =>
                gates[i].seen = mode[current]

\* The facts a delivery was decided on still stand.
Settled(c) ==
    \E d \in Deliveries :
        /\ delivered[c] = d
        /\ d.gate \in DOMAIN gates
        /\ gates[d.gate].seen = mode[c]
        /\ Coherent(c)
        /\ Policy(d.gate, c, d.candidate, d.revision, d.at)

DeliveredIsSettled == \A c \in Cycles : status[c] = "delivered" => Settled(c)

\* The inductive invariant.
IInv ==
    /\ TypeOK
    /\ CyclesInOrder
    /\ GatesLookBack
    /\ NewerSupersedes
    /\ ModesAsReviewed
    /\ DeliveredIsSettled

\* A step leaves alone what the policy on cycle c reads ...
FactsKept(c) ==
    /\ <<mode'[c], evidence'[c]>> = <<mode[c], evidence[c]>>
    /\ \A f \in Findings :
        (\/ finding[f] # None /\ finding[f].cycle = c
         \/ finding'[f] # None /\ finding'[f].cycle = c)
            => finding'[f] = finding[f]
    /\ \A i \in DOMAIN gates : i \in DOMAIN gates' /\ gates'[i] = gates[i]
    /\ \A i \in DOMAIN gates' : gates'[i].cycle = c =>
        i \in DOMAIN gates /\ (i \in superseded' <=> i \in superseded)

\* ... and the rest of a cycle's record.
Kept(c) ==
    /\ FactsKept(c)
    /\ <<work'[c], delivered'[c], status'[c]>> = <<work[c], delivered[c], status[c]>>

-----------------------------------------------------------------------------
(* The types. *)

LEMMA InitTypeOK == Init => TypeOK
  BY MaxCycleAssumption DEF Init, TypeOK, Cycles, Assignments

\* An acceptance carried over to another revision is still a failure mode
\* (confirm_baseline).
LEMMA ReboundRow ==
    ASSUME NEW row \in FailureModes, NEW r \in Nat
    PROVE  [row EXCEPT !.revision = r] \in FailureModes
  BY Zenon DEF FailureModes

LEMMA ReboundModes ==
    ASSUME TypeOK, NEW r \in Nat
    PROVE  Rebound(r) \in [Cycles -> [Modes -> FailureModes \cup {None}]]
  <1>1. ASSUME NEW m \in Modes
        PROVE  (IF mode[current][m] # None /\ mode[current][m].status = "accepted"
                THEN [mode[current][m] EXCEPT !.revision = r]
                ELSE mode[current][m]) \in FailureModes \cup {None}
    <2>1. mode[current][m] \in FailureModes \cup {None}
      BY DEF TypeOK
    <2>2. CASE mode[current][m] = None
      BY <2>2
    <2>3. CASE mode[current][m] # None
      BY <2>1, <2>3, ReboundRow
    <2> QED BY <2>2, <2>3
  <1> DEFINE row == [m \in Modes |->
                IF mode[current][m] # None /\ mode[current][m].status = "accepted"
                THEN [mode[current][m] EXCEPT !.revision = r]
                ELSE mode[current][m]]
  <1>2. row \in [Modes -> FailureModes \cup {None}]
    BY <1>1
  <1>3. Rebound(r) = [mode EXCEPT ![current] = row]
    BY DEF Rebound
  <1> HIDE DEF row
  <1> QED BY <1>2, <1>3 DEF TypeOK

\* Every operation writes values of the declared types (the check constraints
\* of the tables).
LEMMA NextTypeOK == TypeOK /\ [Next]_vars => TypeOK'
  <1> SUFFICES ASSUME TypeOK, [Next]_vars PROVE TypeOK'
    OBVIOUS
  <1>1. ASSUME NEW s \in Sources, EditSource(s) PROVE TypeOK'
    BY <1>1 DEF EditSource, TypeOK, project
  <1>2. CASE Tick
    BY <1>2 DEF Tick, TypeOK, project
  <1>3. CASE RewriteGraph
    BY <1>3 DEF RewriteGraph, TypeOK
  <1>4. CASE FreezeBaseline
    BY <1>4 DEF FreezeBaseline, TypeOK
  <1>5. CASE ConfirmBaseline
    <2>1. mode' \in [Cycles -> [Modes -> FailureModes \cup {None}]]
      BY <1>5, ReboundModes DEF ConfirmBaseline, TypeOK
    <2> QED BY <1>5, <2>1 DEF ConfirmBaseline, TypeOK
  <1>6. CASE ConfirmScope
    BY <1>6 DEF ConfirmScope, TypeOK
  <1>7. ASSUME NEW t \in Tasks, NEW row \in Assignments,
               work' = [work EXCEPT ![current][t] = row],
               UNCHANGED <<source, now, project, evidence, mode, stale,
                           finding, gates, superseded, delivered>>
        PROVE  TypeOK'
    <2>1. work' \in [Cycles -> [Tasks -> Assignments]]
      BY <1>7 DEF TypeOK
    <2> QED BY <1>7, <2>1 DEF TypeOK, project
  <1>8. ASSUME NEW t \in Tasks, NEW context \in Contexts \cup {NoContext},
               SubmitTask(t, context)
        PROVE  TypeOK'
    <2>1. [status |-> "submitted", context |-> context] \in Assignments
      BY DEF Assignments
    <2> QED BY <1>7, <1>8, <2>1 DEF SubmitTask
  <1>9. ASSUME NEW t \in Tasks, NEW settled \in {"accepted", "dropped"},
               SettleTask(t, settled)
        PROVE  TypeOK'
    <2>1. [status |-> settled, context |-> work[current][t].context] \in Assignments
      BY DEF Assignments, TypeOK
    <2> QED BY <1>7, <1>9, <2>1 DEF SettleTask
  <1>10. ASSUME NEW modes \in SUBSET Modes, Verify(modes) PROVE TypeOK'
    <2>1. [candidate |-> source, modes |-> modes] \in Validations
      BY DEF Validations, TypeOK
    <2> HIDE DEF Validations
    <2> QED BY <1>10, <2>1 DEF Verify, TypeOK, project
  <1>11. ASSUME NEW modes \in SUBSET Modes, NEW sameSurface \in BOOLEAN,
                RecordJudgment(modes, sameSurface)
         PROVE  TypeOK'
    <2>1. evidence' \in [Cycles -> Validations \cup {None}]
      BY <1>11 DEF RecordJudgment, TypeOK
    <2> QED BY <1>11, <2>1 DEF RecordJudgment, TypeOK, project
  <1>12. ASSUME NEW m \in Modes, NEW level \in Levels,
                NEW stat \in {"identified", "accepted"}, NEW expires \in Expiries,
                NEW rewritten \in BOOLEAN, NEW named \in BOOLEAN,
                RecordMode(m, level, stat, expires, rewritten, named)
         PROVE  TypeOK'
    <2>1. PICK row : mode' = [mode EXCEPT ![current][m] = row]
                     /\ row \in FailureModes
      <3>1. expires \in Nat
        BY DEF Expiries
      <3>2. mode[current][m] # None => mode[current][m].rev \in Nat
        BY DEF TypeOK, FailureModes
      <3> DEFINE old == mode[current][m]
                 new == [level |-> level, status |-> stat,
                         revision |-> IF stat = "accepted" THEN revision ELSE 0,
                         expires |-> IF stat = "accepted" THEN expires ELSE 0,
                         rev |-> IF old = None THEN 1 ELSE old.rev + 1]
      <3>3. new \in FailureModes
        BY <3>1, <3>2 DEF FailureModes, TypeOK
      <3>4. mode' = [mode EXCEPT ![current][m] = new]
        BY <1>12 DEF RecordMode
      <3> QED BY <3>3, <3>4
    <2>2. mode' \in [Cycles -> [Modes -> FailureModes \cup {None}]]
      BY <2>1 DEF TypeOK
    <2>3. Invalidated(m, named) \subseteq Cycles \X Modes \X {"work", "quality_gate"}
      BY DEF Invalidated, TypeOK
    <2>4. stale' \subseteq stale \cup Invalidated(m, named)
      BY <1>12 DEF RecordMode
    <2> QED BY <1>12, <2>2, <2>3, <2>4 DEF RecordMode, TypeOK
  <1>13. ASSUME NEW f \in Findings, NEW severity \in Levels,
                NEW stat \in {"open", "accepted", "resolved"},
                NEW r \in 1 .. MaxRevision, NEW expires \in Expiries,
                RecordFinding(f, severity, stat, r, expires)
         PROVE  TypeOK'
    <2>1. PICK row \in FindingRows : finding' = [finding EXCEPT ![f] = row]
      <3>1. expires \in Nat /\ r \in Nat
        BY DEF Expiries
      <3> DEFINE new == [cycle |-> current, candidate |-> source, severity |-> severity,
                         status |-> stat,
                         revision |-> IF stat = "accepted" THEN r ELSE 0,
                         expires |-> IF stat = "accepted" THEN expires ELSE 0]
      <3>2. new \in FindingRows
        BY <3>1 DEF FindingRows, TypeOK
      <3>3. finding' = [finding EXCEPT ![f] = new]
        BY <1>13 DEF RecordFinding
      <3> QED BY <3>2, <3>3
    <2>2. finding' \in [Findings -> FindingRows \cup {None}]
      BY <2>1 DEF TypeOK
    <2> QED BY <1>13, <2>2 DEF RecordFinding, TypeOK, project
  <1>14. ASSUME NEW reviewer \in Contexts \cup {NoContext},
                NEW result \in {"pass", "fail"}, NEW linked \in SUBSET Findings,
                RecordGate(reviewer, result, linked)
         PROVE  TypeOK'
    <2>1. PICK g \in Gates : gates' = Append(gates, g)
      <3>1. Producers(current) \in SUBSET Contexts
        BY DEF Producers, TypeOK, Assignments
      <3>2. ReviewStatus(reviewer, Producers(current))
                \in {"reviewed-local", "same-context-degraded"}
        BY DEF ReviewStatus
      <3> DEFINE new == [cycle |-> current, candidate |-> source, result |-> result,
                         producers |-> Producers(current), reviewer |-> reviewer,
                         review |-> ReviewStatus(reviewer, Producers(current)),
                         findings |-> linked, revision |-> revision,
                         seen |-> mode[current]]
      <3>3. new \in Gates
        BY <3>1, <3>2 DEF Gates, TypeOK
      <3>4. gates' = Append(gates, new)
        BY <1>14 DEF RecordGate
      <3> QED BY <3>3, <3>4
    <2>2. gates' \in Seq(Gates)
      BY <2>1 DEF TypeOK
    <2>3. DOMAIN gates \subseteq Nat
      BY DEF TypeOK
    <2>4. superseded' \subseteq Nat
      BY <1>14, <2>3 DEF RecordGate, TypeOK
    <2>5. stale' \subseteq stale
      BY <1>14 DEF RecordGate
    <2> QED BY <1>14, <2>2, <2>4, <2>5 DEF RecordGate, TypeOK, project
  <1>15. ASSUME NEW i \in DOMAIN gates, Deliver(i) PROVE TypeOK'
    <2>1. [candidate |-> source, revision |-> revision, at |-> now, gate |-> i]
             \in Deliveries
      BY DEF Deliveries, TypeOK
    <2>2. delivered' \in [Cycles -> Deliveries \cup {None}]
      BY <1>15, <2>1 DEF Deliver, TypeOK
    <2> QED BY <1>15, <2>2 DEF Deliver, TypeOK
  <1>16. CASE Archive
    BY <1>16 DEF Archive, TypeOK
  <1>17. CASE StartCycle
    BY <1>17, MaxCycleAssumption DEF StartCycle, TypeOK, Cycles
  <1>18. CASE UNCHANGED vars
    BY <1>18 DEF vars, TypeOK, project
  <1> QED BY <1>1, <1>2, <1>3, <1>4, <1>5, <1>6, <1>8, <1>9, <1>10, <1>11,
             <1>12, <1>13, <1>14, <1>15, <1>16, <1>17, <1>18 DEF Next

\* Type correctness, for every value of the constants (TypeOK).
THEOREM TypeCorrect == Spec => []TypeOK
  BY InitTypeOK, NextTypeOK, PTL DEF Spec

-----------------------------------------------------------------------------
(* What the operations reach, and what the policy reads. *)

LEMMA RowIsNotNone == None \notin FindingRows
  <1>1. ASSUME None \in FindingRows PROVE FALSE
    <2>1. DOMAIN None = {"cycle", "candidate", "severity", "status", "revision", "expires"}
      BY <1>1 DEF FindingRows
    <2>2. DOMAIN None = {"none"}
      BY DEF None
    <2> QED BY <2>1, <2>2
  <1> QED BY <1>1

LEMMA GateTypes ==
    ASSUME TypeOK, NEW i \in DOMAIN gates
    PROVE  /\ i \in Nat
           /\ gates[i].cycle \in Cycles
           /\ gates[i].revision \in Nat
           /\ gates[i].findings \in SUBSET Findings
  <1>1. gates[i] \in Gates /\ i \in Nat
    BY DEF TypeOK
  <1> QED BY <1>1 DEF Gates

\* An operation that leaves the rows of the policy alone keeps the facts.
LEMMA UnchangedFacts ==
    ASSUME NEW c \in Cycles, UNCHANGED <<evidence, mode, finding, gates, superseded>>
    PROVE  FactsKept(c)
  BY DEF FactsKept

\* An operation on the current cycle does not reach a closed one
\* (_require_active_cycle_for_mutation).
LEMMA ClosedKept ==
    ASSUME TypeOK, CyclesInOrder, [Next]_vars, NEW c \in Cycles, Closed(c)
    PROVE  Kept(c)
  <1>0. Mutable => c # current
    BY DEF Mutable, Closed
  <1>1. ASSUME NEW s \in Sources, EditSource(s) PROVE Kept(c)
    BY <1>1, UnchangedFacts DEF EditSource, Kept, project
  <1>2. CASE Tick
    BY <1>2, UnchangedFacts DEF Tick, Kept, project
  <1>3. CASE RewriteGraph
    BY <1>3, UnchangedFacts DEF RewriteGraph, Kept
  <1>4. CASE FreezeBaseline
    BY <1>4, UnchangedFacts DEF FreezeBaseline, Kept
  <1>5. CASE ConfirmBaseline
    <2>1. mode'[c] = mode[c]
      BY <1>5, <1>0 DEF ConfirmBaseline, Rebound, TypeOK
    <2> QED BY <1>5, <2>1 DEF ConfirmBaseline, Kept, FactsKept
  <1>6. CASE ConfirmScope
    BY <1>6, UnchangedFacts DEF ConfirmScope, Kept
  <1>7. ASSUME NEW t \in Tasks, NEW context \in Contexts \cup {NoContext},
               SubmitTask(t, context)
        PROVE  Kept(c)
    BY <1>0, <1>7, UnchangedFacts DEF SubmitTask, Kept, project, TypeOK
  <1>8. ASSUME NEW t \in Tasks, NEW settled \in {"accepted", "dropped"},
               SettleTask(t, settled)
        PROVE  Kept(c)
    BY <1>0, <1>8, UnchangedFacts DEF SettleTask, Kept, project, TypeOK
  <1>9. ASSUME NEW modes \in SUBSET Modes, Verify(modes) PROVE Kept(c)
    <2>1. evidence'[c] = evidence[c]
      BY <1>0, <1>9 DEF Verify, TypeOK
    <2> QED BY <1>9, <2>1 DEF Verify, Kept, FactsKept, project
  <1>10. ASSUME NEW modes \in SUBSET Modes, NEW sameSurface \in BOOLEAN,
                RecordJudgment(modes, sameSurface)
         PROVE  Kept(c)
    <2>1. evidence'[c] = evidence[c]
      BY <1>0, <1>10 DEF RecordJudgment, TypeOK
    <2> QED BY <1>10, <2>1 DEF RecordJudgment, Kept, FactsKept, project
  <1>11. ASSUME NEW m \in Modes, NEW level \in Levels,
                NEW stat \in {"identified", "accepted"}, NEW expires \in Expiries,
                NEW rewritten \in BOOLEAN, NEW named \in BOOLEAN,
                RecordMode(m, level, stat, expires, rewritten, named)
         PROVE  Kept(c)
    <2>1. mode'[c] = mode[c]
      BY <1>0, <1>11 DEF RecordMode, TypeOK
    <2> QED BY <1>11, <2>1 DEF RecordMode, Kept, FactsKept
  <1>12. ASSUME NEW f \in Findings, NEW severity \in Levels,
                NEW stat \in {"open", "accepted", "resolved"},
                NEW r \in 1 .. MaxRevision, NEW expires \in Expiries,
                RecordFinding(f, severity, stat, r, expires)
         PROVE  Kept(c)
    <2>1. c # current
      BY <1>0, <1>12 DEF RecordFinding
    <2>2. finding'[f].cycle = current
      BY <1>12 DEF RecordFinding, TypeOK
    <2>3. \A h \in Findings \ {f} : finding'[h] = finding[h]
      BY <1>12 DEF RecordFinding, TypeOK
    <2>4. finding[f] # None => finding[f].cycle = current
      BY <1>12 DEF RecordFinding
    <2> QED BY <1>12, <2>1, <2>2, <2>3, <2>4 DEF RecordFinding, Kept, FactsKept, project
  <1>13. ASSUME NEW reviewer \in Contexts \cup {NoContext},
                NEW result \in {"pass", "fail"}, NEW linked \in SUBSET Findings,
                RecordGate(reviewer, result, linked)
         PROVE  Kept(c)
    <2>1. c # current
      BY <1>0, <1>13 DEF RecordGate
    <2>2. PICK g : gates' = Append(gates, g) /\ g.cycle = current
      BY <1>13 DEF RecordGate
    <2>3. \A i \in DOMAIN gates : i \in DOMAIN gates' /\ gates'[i] = gates[i]
      BY <2>2 DEF TypeOK
    <2>4. \A i \in DOMAIN gates' : i \in DOMAIN gates \/ gates'[i].cycle = current
      BY <2>2 DEF TypeOK
    <2>5. \A i \in DOMAIN gates : gates[i].cycle = c =>
             (i \in superseded' <=> i \in superseded)
      BY <1>13, <2>1 DEF RecordGate, IsLatestGate
    <2> QED BY <1>13, <2>1, <2>3, <2>4, <2>5 DEF RecordGate, Kept, FactsKept, project
  <1>14. ASSUME NEW i \in DOMAIN gates, Deliver(i) PROVE Kept(c)
    BY <1>0, <1>14, UnchangedFacts DEF Deliver, Kept, TypeOK
  <1>15. CASE Archive
    BY <1>0, <1>15, UnchangedFacts DEF Archive, Kept, TypeOK
  <1>16. CASE StartCycle
    <2>1. current + 1 \in Cycles
      BY <1>16, MaxCycleAssumption DEF StartCycle, Cycles, TypeOK
    <2>2. c # current + 1
      BY <2>1 DEF CyclesInOrder, Closed, Cycles, TypeOK
    <2> QED BY <1>16, <2>1, <2>2, UnchangedFacts DEF StartCycle, Kept, TypeOK
  <1>17. CASE UNCHANGED vars
    BY <1>17, UnchangedFacts DEF vars, Kept, project
  <1> QED BY <1>1, <1>2, <1>3, <1>4, <1>5, <1>6, <1>7, <1>8, <1>9, <1>10, <1>11,
             <1>12, <1>13, <1>14, <1>15, <1>16, <1>17 DEF Next

\* The policy reads nothing but the facts of the cycle (record_delivery,
\* evaluate_historical_cycle_report).
LEMMA PolicyKept ==
    ASSUME TypeOK, NEW c \in Cycles, FactsKept(c), NEW i \in DOMAIN gates,
           NEW s \in Sources, NEW r \in Nat, NEW at \in Nat,
           Policy(i, c, s, r, at)
    PROVE  Policy(i, c, s, r, at)'
  <1>1. gates'[i] = gates[i] /\ i \in DOMAIN gates'
    BY DEF FactsKept
  <1>2. IsLatestGate(i, c, s)'
    BY DEF Policy, IsLatestGate, FactsKept
  <1>3. \A f \in Findings : Unresolved(f, c, s)' =>
           Unresolved(f, c, s) /\ finding'[f] = finding[f]
    BY DEF Unresolved, FactsKept
  <1>4. \A f \in Findings : Unresolved(f, c, s) =>
           Unresolved(f, c, s)' /\ finding'[f] = finding[f]
    BY DEF Unresolved, FactsKept
  <1>5. FindingsAnswered(c, s, r, at)'
    BY <1>3 DEF Policy, FindingsAnswered
  <1>6. ModesAnswered(c, s, r, at)'
    BY DEF Policy, ModesAnswered, Covered, FactsKept
  <1>7. HighRisk(c, s)' => HighRisk(c, s)
    BY <1>3 DEF HighRisk, FactsKept
  <1>8. ReviewSuffices(gates[i], c, s)'
    BY <1>1, <1>7 DEF Policy, ReviewSuffices
  <1> QED BY <1>1, <1>2, <1>5, <1>6, <1>8 DEF Policy

\* So do the invariants on the gates and findings of the cycle.
LEMMA CoherentKept ==
    ASSUME TypeOK, GatesLookBack, NEW c \in Cycles, FactsKept(c), Coherent(c)
    PROVE  Coherent(c)'
  <1> SUFFICES ASSUME NEW i \in DOMAIN gates', gates'[i].cycle = c,
                      NEW f \in gates'[i].findings
               PROVE  finding'[f].cycle = c /\ finding'[f].candidate = gates'[i].candidate
    BY DEF Coherent, Agree
  <1>1. i \in DOMAIN gates /\ gates'[i] = gates[i]
    BY DEF FactsKept
  <1>2. f \in Findings
    BY <1>1, GateTypes
  <1>3. finding[f] # None
    BY <1>1 DEF GatesLookBack
  <1>4. finding[f].cycle = c /\ finding[f].candidate = gates[i].candidate
    BY <1>1 DEF Coherent, Agree
  <1> QED BY <1>1, <1>2, <1>3, <1>4 DEF FactsKept

LEMMA SettledKept ==
    ASSUME TypeOK, GatesLookBack, NEW c \in Cycles, Kept(c), Settled(c)
    PROVE  Settled(c)'
  <1>1. PICK d \in Deliveries :
           /\ delivered[c] = d
           /\ d.gate \in DOMAIN gates
           /\ gates[d.gate].seen = mode[c]
           /\ Coherent(c)
           /\ Policy(d.gate, c, d.candidate, d.revision, d.at)
    BY DEF Settled
  <1>2. d.candidate \in Sources /\ d.revision \in Nat /\ d.at \in Nat
    BY DEF Deliveries
  <1>3. FactsKept(c) /\ delivered'[c] = d
    BY <1>1 DEF Kept
  <1>4. Policy(d.gate, c, d.candidate, d.revision, d.at)'
    BY <1>1, <1>2, <1>3, PolicyKept
  <1>5. Coherent(c)'
    BY <1>1, <1>3, CoherentKept
  <1>6. d.gate \in DOMAIN gates' /\ gates'[d.gate].seen = mode'[c]
    BY <1>1, <1>3 DEF FactsKept
  <1> QED BY <1>3, <1>4, <1>5, <1>6 DEF Settled

-----------------------------------------------------------------------------
(* The invariant. *)

LEMMA InitIInv == Init => IInv
  <1> SUFFICES ASSUME Init PROVE IInv
    OBVIOUS
  <1>1. TypeOK
    BY InitTypeOK
  <1>2. DOMAIN gates = {}
    BY DEF Init
  <1>3. GatesLookBack /\ NewerSupersedes /\ ModesAsReviewed
    BY <1>2 DEF GatesLookBack, NewerSupersedes, ModesAsReviewed
  <1>4. CyclesInOrder
    BY DEF Init, CyclesInOrder, Cycles
  <1>5. DeliveredIsSettled
    BY DEF Init, DeliveredIsSettled
  <1> QED BY <1>1, <1>3, <1>4, <1>5 DEF IInv

LEMMA NextCyclesInOrder == IInv /\ [Next]_vars => CyclesInOrder'
  <1> SUFFICES ASSUME IInv, [Next]_vars PROVE CyclesInOrder'
    OBVIOUS
  <1> USE DEF IInv
  <1>1. CASE UNCHANGED <<current, status>>
    BY <1>1 DEF CyclesInOrder
  <1>2. ASSUME NEW i \in DOMAIN gates, Deliver(i) PROVE CyclesInOrder'
    BY <1>2 DEF Deliver, CyclesInOrder, TypeOK, Cycles
  <1>3. CASE Archive
    BY <1>3 DEF Archive, CyclesInOrder, TypeOK, Cycles
  <1>4. CASE StartCycle
    BY <1>4 DEF StartCycle, CyclesInOrder, TypeOK, Cycles
  <1> QED
    BY <1>1, <1>2, <1>3, <1>4
    DEF Next, vars, project, EditSource, Tick, RewriteGraph, FreezeBaseline,
        ConfirmBaseline, ConfirmScope, SubmitTask, SettleTask, Verify,
        RecordJudgment, RecordMode, RecordFinding, RecordGate

\* Nothing that a gate refers to goes away or gets younger than it.
LEMMA NextGatesLookBack == IInv /\ [Next]_vars => GatesLookBack'
  <1> SUFFICES ASSUME IInv, [Next]_vars PROVE GatesLookBack'
    OBVIOUS
  <1> USE DEF IInv
  <1>0. \A i \in DOMAIN gates : gates[i].cycle \in Nat /\ gates[i].revision \in Nat
                                /\ gates[i].findings \subseteq Findings
    BY GateTypes DEF Cycles
  <1>1. ASSUME UNCHANGED <<gates, finding>>, current' \in Nat, revision' \in Nat,
               current' >= current, revision' >= revision
        PROVE  GatesLookBack'
    BY <1>0, <1>1 DEF GatesLookBack, TypeOK, Cycles
  <1>2. CASE UNCHANGED <<gates, finding, current, revision>>
    BY <1>1, <1>2 DEF TypeOK, Cycles
  <1>3. CASE FreezeBaseline \/ ConfirmBaseline \/ ConfirmScope \/ Archive \/ StartCycle
    BY <1>1, <1>3 DEF FreezeBaseline, ConfirmBaseline, ConfirmScope, Archive,
                      StartCycle, TypeOK, Cycles
  <1>4. ASSUME NEW f \in Findings, NEW severity \in Levels,
               NEW stat \in {"open", "accepted", "resolved"},
               NEW r \in 1 .. MaxRevision, NEW expires \in Expiries,
               RecordFinding(f, severity, stat, r, expires)
        PROVE  GatesLookBack'
    <2>1. \A h \in Findings : finding[h] # None => finding'[h] # None
      BY <1>4, NextTypeOK, RowIsNotNone DEF RecordFinding, TypeOK, None
    <2> QED BY <1>0, <1>4, <2>1 DEF RecordFinding, GatesLookBack, project
  <1>5. ASSUME NEW reviewer \in Contexts \cup {NoContext},
               NEW result \in {"pass", "fail"}, NEW linked \in SUBSET Findings,
               RecordGate(reviewer, result, linked)
        PROVE  GatesLookBack'
    <2>1. PICK g : /\ gates' = Append(gates, g)
                   /\ g.cycle = current /\ g.revision = revision
                   /\ g.findings = linked
      BY <1>5 DEF RecordGate
    <2>2. \A i \in DOMAIN gates' : (i \in DOMAIN gates /\ gates'[i] = gates[i])
                                   \/ gates'[i] = g
      BY <2>1 DEF TypeOK
    <2>3. UNCHANGED <<finding, current, revision>>
      BY <1>5 DEF RecordGate, project
    <2>4. \A f \in linked : finding[f] # None
      BY <1>5 DEF RecordGate
    <2> QED BY <2>1, <2>2, <2>3, <2>4 DEF GatesLookBack, TypeOK, Cycles
  <1> QED
    BY <1>2, <1>3, <1>4, <1>5
    DEF Next, vars, project, EditSource, Tick, RewriteGraph, SubmitTask,
        SettleTask, Verify, RecordJudgment, RecordMode, Deliver

\* record_gate supersedes the active gate of the subject, the only one.
LEMMA NextNewerSupersedes == IInv /\ [Next]_vars => NewerSupersedes'
  <1> SUFFICES ASSUME IInv, [Next]_vars PROVE NewerSupersedes'
    OBVIOUS
  <1> USE DEF IInv
  <1>1. CASE UNCHANGED <<gates, superseded>>
    BY <1>1 DEF NewerSupersedes, SameSubject
  <1>2. ASSUME NEW reviewer \in Contexts \cup {NoContext},
               NEW result \in {"pass", "fail"}, NEW linked \in SUBSET Findings,
               RecordGate(reviewer, result, linked)
        PROVE  NewerSupersedes'
    <2>1. PICK g : /\ gates' = Append(gates, g)
                   /\ g.cycle = current /\ g.candidate = source
      BY <1>2 DEF RecordGate
    <2>2. SUFFICES ASSUME NEW i \in DOMAIN gates', NEW j \in DOMAIN gates', i < j,
                          gates'[i].cycle = gates'[j].cycle,
                          gates'[i].candidate = gates'[j].candidate
                   PROVE  i \in superseded'
      BY DEF NewerSupersedes, SameSubject
    <2>3. superseded' = superseded \cup
             {k \in DOMAIN gates : IsLatestGate(k, current, source)}
      BY <1>2 DEF RecordGate
    <2>4. i \in DOMAIN gates /\ gates'[i] = gates[i]
      BY <2>1, <2>2 DEF TypeOK
    <2>5. CASE j \in DOMAIN gates
      <3>1. gates'[j] = gates[j]
        BY <2>1, <2>5 DEF TypeOK
      <3> QED BY <2>2, <2>3, <2>4, <2>5, <3>1 DEF NewerSupersedes, SameSubject
    <2>6. CASE j \notin DOMAIN gates
      <3>1. gates'[j] = g
        BY <2>1, <2>6 DEF TypeOK
      <3>2. gates[i].cycle = current /\ gates[i].candidate = source
        BY <2>1, <2>2, <2>4, <3>1
      <3>3. CASE i \in superseded
        BY <3>3, <2>3
      <3>4. CASE i \notin superseded
        <4>1. ASSUME NEW k \in DOMAIN gates \ superseded,
                     gates[k].cycle = current, gates[k].candidate = source
              PROVE  k <= i
          BY <2>4, <3>2, <3>4, <4>1, GateTypes DEF NewerSupersedes, SameSubject
        <4>2. IsLatestGate(i, current, source)
          BY <2>4, <3>2, <3>4, <4>1 DEF IsLatestGate
        <4> QED BY <2>3, <2>4, <4>2
      <3> QED BY <3>3, <3>4
    <2> QED BY <2>5, <2>6
  <1> QED
    BY <1>1, <1>2
    DEF Next, vars, project, EditSource, Tick, RewriteGraph, FreezeBaseline,
        ConfirmBaseline, ConfirmScope, SubmitTask, SettleTask, Verify,
        RecordJudgment, RecordMode, RecordFinding, Deliver, Archive, StartCycle

\* Whatever rewrites a failure mode either moves the revision past every gate
\* or leaves a baseline that is not confirmed.
LEMMA NextModesAsReviewed == IInv /\ [Next]_vars => ModesAsReviewed'
  <1> SUFFICES ASSUME IInv, [Next]_vars PROVE ModesAsReviewed'
    OBVIOUS
  <1> USE DEF IInv
  <1>1. CASE UNCHANGED <<gates, baseline, current, revision, mode>>
    BY <1>1 DEF ModesAsReviewed
  <1>2. CASE baseline' # "confirmed"
    BY <1>2 DEF ModesAsReviewed
  <1>3. ASSUME UNCHANGED gates, revision' = revision + 1 PROVE ModesAsReviewed'
    <2>1. \A i \in DOMAIN gates' : gates'[i].revision # revision'
      BY <1>3, GateTypes DEF GatesLookBack, TypeOK
    <2> QED BY <2>1 DEF ModesAsReviewed
  <1>4. ASSUME NEW reviewer \in Contexts \cup {NoContext},
               NEW result \in {"pass", "fail"}, NEW linked \in SUBSET Findings,
               RecordGate(reviewer, result, linked)
        PROVE  ModesAsReviewed'
    <2>1. PICK g : gates' = Append(gates, g) /\ g.seen = mode[current]
      BY <1>4 DEF RecordGate
    <2>2. \A i \in DOMAIN gates' : (i \in DOMAIN gates /\ gates'[i] = gates[i])
                                   \/ gates'[i] = g
      BY <2>1 DEF TypeOK
    <2>3. UNCHANGED <<mode, current, revision, baseline>>
      BY <1>4 DEF RecordGate, project
    <2> QED BY <2>1, <2>2, <2>3 DEF ModesAsReviewed
  <1> QED
    BY <1>1, <1>2, <1>3, <1>4
    DEF Next, vars, project, EditSource, Tick, RewriteGraph, FreezeBaseline,
        ConfirmBaseline, ConfirmScope, SubmitTask, SettleTask, Verify,
        RecordJudgment, RecordMode, RecordFinding, Deliver, Archive, StartCycle

\* A cycle is delivered on settled facts, and they stay.
LEMMA NextDeliveredIsSettled == IInv /\ [Next]_vars => DeliveredIsSettled'
  <1> SUFFICES ASSUME IInv, [Next]_vars, NEW c \in Cycles, status'[c] = "delivered"
               PROVE  Settled(c)'
    BY DEF DeliveredIsSettled
  <1> USE DEF IInv
  <1>1. CASE status[c] = "delivered"
    <2>1. Kept(c)
      BY <1>1, ClosedKept DEF Closed
    <2>2. Settled(c)
      BY <1>1 DEF DeliveredIsSettled
    <2> QED BY <2>1, <2>2, SettledKept
  <1>2. ASSUME NEW i \in DOMAIN gates, Deliver(i), status[c] # "delivered"
        PROVE  Settled(c)'
    <2>1. c = current
      BY <1>2 DEF Deliver, TypeOK
    <2>2. PICK d \in Deliveries :
             d = [candidate |-> source, revision |-> revision, at |-> now, gate |-> i]
      <3>1. i \in Nat
        BY GateTypes
      <3> QED BY <3>1 DEF Deliveries, TypeOK
    <2>3. d.gate = i /\ d.candidate = source /\ d.revision = revision /\ d.at = now
      BY <2>2
    <2>4. d.candidate \in Sources /\ d.revision \in Nat /\ d.at \in Nat
      BY <2>3 DEF TypeOK
    <2>5. FactsKept(c)
      BY <1>2, UnchangedFacts DEF Deliver
    <2>6. Policy(i, current, source, revision, now) /\ Coherent(c)
      BY <1>2 DEF Deliver
    <2>7. Policy(d.gate, c, d.candidate, d.revision, d.at)
      BY <2>1, <2>3, <2>6
    <2>8. Policy(d.gate, c, d.candidate, d.revision, d.at)'
      BY <2>3, <2>4, <2>5, <2>7, PolicyKept
    <2>9. Coherent(c)'
      BY <2>5, <2>6, CoherentKept
    <2>10. delivered'[c] = d
      BY <1>2, <2>1, <2>2 DEF Deliver, TypeOK
    <2>11. gates[i].cycle = current /\ gates[i].revision = revision
      BY <2>6 DEF Policy, IsLatestGate
    <2>12. gates[i].seen = mode[c]
      BY <1>2, <2>1, <2>11 DEF Deliver, ModesAsReviewed
    <2>13. UNCHANGED <<gates, mode>>
      BY <1>2 DEF Deliver
    <2> QED BY <2>3, <2>8, <2>9, <2>10, <2>12, <2>13 DEF Settled
  <1>3. CASE UNCHANGED status
    BY <1>1, <1>3
  <1>4. CASE Archive \/ StartCycle
    BY <1>1, <1>4 DEF Archive, StartCycle, TypeOK
  <1> QED
    BY <1>1, <1>2, <1>3, <1>4
    DEF Next, vars, project, EditSource, Tick, RewriteGraph, FreezeBaseline,
        ConfirmBaseline, ConfirmScope, SubmitTask, SettleTask, Verify,
        RecordJudgment, RecordMode, RecordFinding, RecordGate

\* The inductive invariant, for every value of the constants.
THEOREM Invariance == Spec => []IInv
  <1>1. IInv /\ [Next]_vars => IInv'
    BY NextTypeOK, NextCyclesInOrder, NextGatesLookBack, NextNewerSupersedes,
       NextModesAsReviewed, NextDeliveredIsSettled DEF IInv
  <1> QED BY InitIInv, <1>1, PTL DEF Spec

-----------------------------------------------------------------------------
(* The properties. *)

\* What the deciding review linked is answered in a delivered cycle
\* (ReviewedFindingsAnswered).
THEOREM FindingsAreAnswered == Spec => []ReviewedFindingsAnswered
  <1>1. IInv => ReviewedFindingsAnswered
    <2> SUFFICES ASSUME IInv, NEW c \in Cycles, status[c] = "delivered",
                        NEW f \in gates[delivered[c].gate].findings
                 PROVE  \/ finding[f].severity = "low"
                        \/ finding[f].status = "resolved"
                        \/ Waived(finding[f], delivered[c].revision, delivered[c].at)
      BY DEF ReviewedFindingsAnswered
    <2>1. Settled(c)
      BY DEF IInv, DeliveredIsSettled
    <2>2. PICK d \in Deliveries :
             /\ delivered[c] = d
             /\ d.gate \in DOMAIN gates
             /\ Coherent(c)
             /\ Policy(d.gate, c, d.candidate, d.revision, d.at)
      BY <2>1 DEF Settled
    <2>3. f \in Findings /\ finding[f] # None
      BY <2>2, GateTypes DEF IInv, GatesLookBack
    <2>4. gates[d.gate].cycle = c /\ gates[d.gate].candidate = d.candidate
      BY <2>2 DEF Policy, IsLatestGate
    <2>5. finding[f].cycle = c /\ finding[f].candidate = d.candidate
      BY <2>2, <2>4 DEF Coherent, Agree
    <2>6. Unresolved(f, c, d.candidate) => Waived(finding[f], d.revision, d.at)
      BY <2>2, <2>3 DEF Policy, FindingsAnswered
    <2> QED BY <2>2, <2>3, <2>5, <2>6 DEF Unresolved
  <1> QED BY Invariance, <1>1, PTL

\* The last review of the delivered candidate passed (LastReviewDecides).
THEOREM LastReview == Spec => []LastReviewDecides
  <1>1. IInv => LastReviewDecides
    <2> SUFFICES ASSUME IInv, NEW c \in Cycles, status[c] = "delivered"
                 PROVE  /\ gates[delivered[c].gate].result = "pass"
                        /\ \A j \in DOMAIN gates :
                             (/\ gates[j].cycle = c
                              /\ gates[j].candidate = delivered[c].candidate)
                                => j <= delivered[c].gate
      BY DEF LastReviewDecides
    <2>1. PICK d \in Deliveries :
             /\ delivered[c] = d
             /\ d.gate \in DOMAIN gates
             /\ Policy(d.gate, c, d.candidate, d.revision, d.at)
      BY DEF IInv, DeliveredIsSettled, Settled
    <2>2. /\ gates[d.gate].result = "pass"
          /\ d.gate \notin superseded
          /\ gates[d.gate].cycle = c
          /\ gates[d.gate].candidate = d.candidate
      BY <2>1 DEF Policy, IsLatestGate
    <2>3. ASSUME NEW j \in DOMAIN gates, gates[j].cycle = c,
                 gates[j].candidate = d.candidate
          PROVE  j <= d.gate
      BY <2>1, <2>2, <2>3, GateTypes DEF IInv, NewerSupersedes, SameSubject
    <2> QED BY <2>1, <2>2, <2>3
  <1> QED BY Invariance, <1>1, PTL

\* The deciding review saw the failure modes as delivered
\* (DeliveredRisksWereReviewed).
THEOREM RisksWereReviewed == Spec => []DeliveredRisksWereReviewed
  <1>1. IInv => DeliveredRisksWereReviewed
    BY DEF IInv, DeliveredIsSettled, Settled, DeliveredRisksWereReviewed
  <1> QED BY Invariance, <1>1, PTL

\* A delivered cycle passes its audit at any later time (DeliveredAuditsClean).
THEOREM AuditsClean == Spec => []DeliveredAuditsClean
  <1>1. IInv => DeliveredAuditsClean
    BY DEF IInv, DeliveredIsSettled, Settled, DeliveredAuditsClean, AuditClean,
           AuditTime
  <1> QED BY Invariance, <1>1, PTL

\* No step changes what is recorded of a closed cycle (ClosedHistoryStands).
THEOREM HistoryStands == Spec => ClosedHistoryStands
  <1> DEFINE Stands ==
        \A c \in Cycles : Closed(c) =>
          /\ <<work'[c], evidence'[c], mode'[c], delivered'[c]>>
               = <<work[c], evidence[c], mode[c], delivered[c]>>
          /\ \A f \in Findings :
               (finding[f] # None /\ finding[f].cycle = c) => finding'[f] = finding[f]
          /\ \A i \in DOMAIN gates' : gates'[i].cycle = c =>
               /\ i \in DOMAIN gates
               /\ gates'[i] = gates[i]
               /\ i \in superseded' <=> i \in superseded
  <1>1. IInv /\ [Next]_vars => [Stands]_vars
    <2> SUFFICES ASSUME IInv, [Next]_vars PROVE Stands
      OBVIOUS
    <2>1. ASSUME NEW c \in Cycles, Closed(c) PROVE Kept(c)
      BY <2>1, ClosedKept DEF IInv
    <2> QED BY <2>1 DEF Kept, FactsKept
  <1> QED BY Invariance, <1>1, PTL DEF Spec, ClosedHistoryStands

-----------------------------------------------------------------------------
(* Refinement. *)

\* What is superseded is a gate (the update in record_gate).
SupersededAreGates == superseded \subseteq DOMAIN gates

\* No step supersedes what was not recorded.
LEMMA NextSupersededAreGates ==
    TypeOK /\ SupersededAreGates /\ [Next]_vars => SupersededAreGates'
  <1> SUFFICES ASSUME TypeOK, SupersededAreGates, [Next]_vars PROVE SupersededAreGates'
    OBVIOUS
  <1>1. CASE UNCHANGED <<gates, superseded>>
    BY <1>1 DEF SupersededAreGates
  <1>2. ASSUME NEW reviewer \in Contexts \cup {NoContext},
               NEW result \in {"pass", "fail"}, NEW linked \in SUBSET Findings,
               RecordGate(reviewer, result, linked)
        PROVE  SupersededAreGates'
    <2>1. PICK g : gates' = Append(gates, g)
      BY <1>2 DEF RecordGate
    <2>2. DOMAIN gates \subseteq DOMAIN gates'
      BY <2>1 DEF TypeOK
    <2> QED BY <1>2, <2>2 DEF RecordGate, SupersededAreGates
  <1> QED
    BY <1>1, <1>2
    DEF Next, vars, project, EditSource, Tick, RewriteGraph, FreezeBaseline,
        ConfirmBaseline, ConfirmScope, SubmitTask, SettleTask, Verify,
        RecordJudgment, RecordMode, RecordFinding, Deliver, Archive, StartCycle

\* A step that records no gate leaves the reviews of every cycle.
LEMMA ReviewsKept ==
    ASSUME NEW c \in Cycles, UNCHANGED <<gates, superseded>>
    PROVE  Reviewed(c)' = Reviewed(c)
  BY DEF Reviewed, Passed

\* An active gate is the latest of its subject.
LEMMA ActiveIsLatest ==
    ASSUME IInv, NEW i \in DOMAIN gates \ superseded
    PROVE  IsLatestGate(i, gates[i].cycle, gates[i].candidate)
  <1>1. ASSUME NEW j \in DOMAIN gates \ superseded, SameSubject(i, j)
        PROVE  j <= i
    BY <1>1, GateTypes DEF IInv, NewerSupersedes
  <1> QED BY <1>1 DEF IsLatestGate, SameSubject

\* The gate that is recorded takes the place of the active gate of its subject
\* (record_gate).
LEMMA GateReplaces ==
    ASSUME IInv, SupersededAreGates,
           NEW reviewer \in Contexts \cup {NoContext},
           NEW result \in {"pass", "fail"}, NEW linked \in SUBSET Findings,
           RecordGate(reviewer, result, linked)
    PROVE  Reviewed(current)' = Cycle(current)!OthersReviewed(source)
             \cup (IF result = "pass" THEN {<<source, mode[current]>>} ELSE {})
  <1> DEFINE n == Len(gates) + 1
             old == {i \in Passed(current) : gates[i].candidate # source}
  <1>1. PICK g : /\ gates' = Append(gates, g)
                 /\ g.cycle = current /\ g.candidate = source
                 /\ g.result = result /\ g.seen = mode[current]
    BY DEF RecordGate
  <1>2. /\ DOMAIN gates' = DOMAIN gates \cup {n}
        /\ n \notin DOMAIN gates
        /\ gates'[n] = g
        /\ \A i \in DOMAIN gates : gates'[i] = gates[i]
    BY <1>1 DEF IInv, TypeOK
  <1>3. superseded' = superseded \cup
           {k \in DOMAIN gates : IsLatestGate(k, current, source)}
    BY DEF RecordGate
  <1>4. n \notin superseded'
    BY <1>2, <1>3 DEF SupersededAreGates
  <1>5. current' = current
    BY DEF RecordGate, project
  <1> HIDE DEF n
  <1>6. ASSUME NEW i \in DOMAIN gates \ superseded, gates[i].cycle = current
        PROVE  i \in superseded' <=> gates[i].candidate = source
    BY <1>3, <1>6, ActiveIsLatest DEF IsLatestGate
  <1>7. Passed(current)' = old \cup (IF result = "pass" THEN {n} ELSE {})
    BY <1>1, <1>2, <1>3, <1>4, <1>5, <1>6 DEF Passed
  <1>8. Cycle(current)!OthersReviewed(source)
           = {<<gates[i].candidate, gates[i].seen>> : i \in old}
    BY DEF Cycle!OthersReviewed, Reviewed
  <1>9. \A i \in old : i \in DOMAIN gates
    BY DEF Passed
  <1> HIDE DEF old
  <1> QED BY <1>1, <1>2, <1>5, <1>7, <1>8, <1>9 DEF Reviewed

\* Reviews of the current cycle do not reach another one's.
LEMMA OtherReviewsKept ==
    ASSUME IInv, SupersededAreGates, NEW c \in Cycles, c # current,
           NEW reviewer \in Contexts \cup {NoContext},
           NEW result \in {"pass", "fail"}, NEW linked \in SUBSET Findings,
           RecordGate(reviewer, result, linked)
    PROVE  Reviewed(c)' = Reviewed(c)
  <1>1. PICK g : gates' = Append(gates, g) /\ g.cycle = current
    BY DEF RecordGate
  <1>2. /\ \A i \in DOMAIN gates : i \in DOMAIN gates' /\ gates'[i] = gates[i]
        /\ \A i \in DOMAIN gates' : i \notin DOMAIN gates => gates'[i] = g
    BY <1>1 DEF IInv, TypeOK
  <1>3. \A i \in DOMAIN gates : gates[i].cycle = c =>
            (i \in superseded' <=> i \in superseded)
    BY DEF RecordGate, IsLatestGate
  <1>4. Passed(c)' = Passed(c)
    BY <1>1, <1>2, <1>3 DEF Passed
  <1>5. \A i \in Passed(c) : gates'[i] = gates[i]
    BY <1>2 DEF Passed
  <1> QED BY <1>4, <1>5 DEF Reviewed

\* Every step of the ledger is, for each cycle, a step of a delivery cycle or
\* a stutter.
LEMMA StepSimulation ==
    ASSUME IInv, SupersededAreGates, [Next]_vars, NEW c \in Cycles
    PROVE  [Cycle(c)!CycleNext]_(Cycle(c)!cycleVars)
  <1> USE DEF IInv
  <1>0. TypeOK'
    BY NextTypeOK
  <1>1. ASSUME UNCHANGED <<mode[c], gates, superseded, status[c], delivered[c]>>
        PROVE  UNCHANGED Cycle(c)!cycleVars
    BY <1>1, ReviewsKept DEF Cycle!cycleVars, Closed
  <1>2. ASSUME Mutable, UNCHANGED <<gates, superseded, status, delivered>>,
               c # current => mode'[c] = mode[c]
        PROVE  [Cycle(c)!CycleNext]_(Cycle(c)!cycleVars)
    <2>1. CASE c # current
      BY <1>1, <1>2, <2>1
    <2>2. CASE c = current
      <3>1. ~Closed(c) /\ UNCHANGED <<Closed(c), Reviewed(c), status[c], delivered[c]>>
        BY <1>2, <2>2, ReviewsKept DEF Mutable, Closed
      <3>2. Cycle(c)!Rewrite
        BY <3>1 DEF Cycle!Rewrite
      <3> QED BY <3>2 DEF Cycle!CycleNext
    <2> QED BY <2>1, <2>2
  <1>3. CASE ConfirmBaseline
    <2>1. c # current => mode'[c] = mode[c]
      BY <1>3 DEF ConfirmBaseline, Rebound, TypeOK
    <2> QED BY <1>2, <1>3, <2>1 DEF ConfirmBaseline
  <1>4. ASSUME NEW m \in Modes, NEW level \in Levels,
               NEW stat \in {"identified", "accepted"}, NEW expires \in Expiries,
               NEW rewritten \in BOOLEAN, NEW named \in BOOLEAN,
               RecordMode(m, level, stat, expires, rewritten, named)
        PROVE  [Cycle(c)!CycleNext]_(Cycle(c)!cycleVars)
    <2>1. c # current => mode'[c] = mode[c]
      BY <1>4 DEF RecordMode, TypeOK
    <2> QED BY <1>2, <1>4, <2>1 DEF RecordMode
  <1>5. ASSUME NEW reviewer \in Contexts \cup {NoContext},
               NEW result \in {"pass", "fail"}, NEW linked \in SUBSET Findings,
               RecordGate(reviewer, result, linked)
        PROVE  [Cycle(c)!CycleNext]_(Cycle(c)!cycleVars)
    <2>1. UNCHANGED <<source, current, status, mode, delivered>> /\ status[current] = "active"
      BY <1>5 DEF RecordGate, project, Mutable
    <2>2. CASE c # current
      <3>1. Reviewed(c)' = Reviewed(c)
        BY <1>5, <2>2, OtherReviewsKept
      <3> QED BY <2>1, <3>1 DEF Cycle!cycleVars, Closed
    <2>3. CASE c = current
      <3>1. Reviewed(c)' = Cycle(c)!OthersReviewed(source)
              \cup (IF result = "pass" THEN {<<source, mode[c]>>} ELSE {})
        BY <1>5, <2>1, <2>3, GateReplaces
      <3>2. ~Closed(c) /\ UNCHANGED <<Closed(c), mode[c], status[c], delivered[c]>>
        BY <2>1, <2>3 DEF Closed
      <3>3. Cycle(c)!Pass(source) \/ Cycle(c)!Reject(source)
        BY <3>1, <3>2 DEF Cycle!Pass, Cycle!Reject
      <3> QED BY <3>3 DEF Cycle!CycleNext, TypeOK
    <2> QED BY <2>2, <2>3
  <1>6. ASSUME NEW i \in DOMAIN gates, Deliver(i)
        PROVE  [Cycle(c)!CycleNext]_(Cycle(c)!cycleVars)
    <2>1. UNCHANGED <<source, current, mode, gates, superseded>>
      BY <1>6 DEF Deliver
    <2>2. CASE c # current
      <3>1. status'[c] = status[c] /\ delivered'[c] = delivered[c]
        BY <1>6, <2>2 DEF Deliver, TypeOK
      <3> QED BY <1>1, <2>1, <3>1
    <2>3. CASE c = current
      <3>1. /\ status[c] = "active" /\ status'[c] = "delivered"
            /\ delivered'[c].candidate = source
        BY <1>6, <2>3 DEF Deliver, Mutable, TypeOK
      <3>2. /\ baseline = "confirmed"
            /\ IsLatestGate(i, c, source)
            /\ gates[i].result = "pass" /\ gates[i].revision = revision
        BY <1>6, <2>3 DEF Deliver, Policy
      <3>3. gates[i].seen = mode[c] /\ gates[i].candidate = source /\ i \in Passed(c)
        BY <2>3, <3>2 DEF ModesAsReviewed, IsLatestGate, Passed
      <3>4. <<source, mode[c]>> \in Reviewed(c)
        BY <3>3 DEF Reviewed
      <3>5. Reviewed(c)' = Reviewed(c) /\ mode'[c] = mode[c]
        BY <2>1, ReviewsKept
      <3>6. ~Closed(c) /\ Closed(c)'
        BY <3>1 DEF Closed
      <3>7. Cycle(c)!DeliverReviewed(source)
        BY <3>1, <3>4, <3>5, <3>6 DEF Cycle!DeliverReviewed
      <3> QED BY <3>7 DEF Cycle!CycleNext, TypeOK
    <2> QED BY <2>2, <2>3
  <1>7. CASE Archive
    <2>1. UNCHANGED <<current, mode, gates, superseded, delivered>>
      BY <1>7 DEF Archive
    <2>2. CASE c # current
      <3>1. status'[c] = status[c]
        BY <1>7, <2>2 DEF Archive, TypeOK
      <3> QED BY <1>1, <2>1, <3>1
    <2>3. CASE c = current
      <3>1. status[c] = "active" /\ status'[c] = "archived"
        BY <1>7, <2>3 DEF Archive, Mutable, TypeOK
      <3>2. Reviewed(c)' = Reviewed(c) /\ ~Closed(c) /\ Closed(c)'
        BY <2>1, <3>1, ReviewsKept DEF Closed
      <3>3. Cycle(c)!Abandon
        BY <2>1, <3>1, <3>2 DEF Cycle!Abandon
      <3> QED BY <3>3 DEF Cycle!CycleNext
    <2> QED BY <2>2, <2>3
  <1>8. CASE StartCycle
    <2>1. UNCHANGED <<mode, gates, superseded, delivered>>
      BY <1>8 DEF StartCycle
    <2>2. CASE c # current + 1
      <3>1. status'[c] = status[c]
        BY <1>8, <2>2 DEF StartCycle, TypeOK
      <3> QED BY <1>1, <2>1, <3>1
    <2>3. CASE c = current + 1
      <3>1. c > current
        BY <2>3 DEF TypeOK, Cycles
      <3>2. status[c] = "unstarted" /\ status'[c] = "active"
        BY <1>8, <2>3, <3>1 DEF StartCycle, CyclesInOrder, TypeOK
      <3> QED BY <2>1, <3>2, ReviewsKept DEF Cycle!cycleVars, Closed
    <2> QED BY <2>2, <2>3
  <1>9. CASE UNCHANGED <<mode, gates, superseded, status, delivered>>
    BY <1>1, <1>9
  <1> QED
    BY <1>3, <1>4, <1>5, <1>6, <1>7, <1>8, <1>9
    DEF Next, vars, project, EditSource, Tick, RewriteGraph, FreezeBaseline,
        ConfirmScope, SubmitTask, SettleTask, Verify, RecordJudgment, RecordFinding

\* Each cycle of the ledger implements a delivery cycle, whose deliveries are
\* those the last review passed and saw (record_gate, record_delivery).
THEOREM Refinement == Spec => ImplementsDeliveryCycles
  <1> SUFFICES ASSUME NEW c \in Cycles PROVE Spec => Cycle(c)!CycleSpec
    BY DEF ImplementsDeliveryCycles
  <1>1. Init => Cycle(c)!CycleInit
    BY DEF Init, Cycle!CycleInit, Closed, Reviewed, Passed
  <1>2. Init => SupersededAreGates
    BY DEF Init, SupersededAreGates
  <1>3. IInv /\ SupersededAreGates /\ [Next]_vars => SupersededAreGates'
    BY NextSupersededAreGates DEF IInv
  <1>4. IInv /\ SupersededAreGates /\ [Next]_vars
           => [Cycle(c)!CycleNext]_(Cycle(c)!cycleVars)
    BY StepSimulation
  <1> QED BY <1>1, <1>2, <1>3, <1>4, Invariance, PTL DEF Spec, Cycle!CycleSpec
=============================================================================
