----------------------- MODULE EvidenceChain_proofs -----------------------
(***************************************************************************)
(* Proofs about EvidenceChain, for every set of acceptances, targets,      *)
(* definitions and sources and every bound.                                *)
(*                                                                         *)
(* The evaluator compares a baseline with the graph and a gate with        *)
(* project.revision, never a gate with the graph. That the gate of a       *)
(* delivered cycle saw the delivered graph needs the order of three        *)
(* versions: what the baseline froze is no newer than what a gate recorded *)
(* at the current revision saw, and that is no newer than the graph. When  *)
(* the two ends are equal so is the middle.                                *)
(*                                                                         *)
(* A delivery commits without another look, so what its recheck found in   *)
(* the database has to last until then: no operation writes a row while    *)
(* it is in flight. What it found outside the database lasts only as far   *)
(* as nothing is noted as unseen.                                          *)
(***************************************************************************)
EXTENDS EvidenceChain, TLAPS

GraphLeq(g, h) ==
    /\ g.req <= h.req
    /\ \A a \in Acceptances : g.acc[a] <= h.acc[a]

\* What was frozen in a baseline is not ahead of the graph.
BaselineBehind == baseline # None => GraphLeq(baseline.graph, graph)

\* What a gate saw is not ahead of the graph, and not behind the baseline if
\* the gate was recorded at the current revision.
GatesBehind ==
    \A s \in Sources : gate[s] # None =>
        /\ gate[s].revision <= revision
        /\ GraphLeq(gate[s].seen, graph)
        /\ (gate[s].revision = revision /\ baseline # None)
              => GraphLeq(baseline.graph, gate[s].seen)

\* An active validation belongs to a qualification of its own acceptance and
\* target, made no later than the execution, which ran no later than now.
ValidationBehind(a, t) ==
    /\ val[a][t].qual \in DOMAIN quals
    /\ quals[val[a][t].qual].acceptance = a
    /\ quals[val[a][t].qual].target = t
    /\ quals[val[a][t].qual].rev <= val[a][t].seen.acc[a]
    /\ val[a][t].seen.acc[a] <= graph.acc[a]

ValidationsBehind ==
    \A a \in Acceptances, t \in Targets : val[a][t] # None => ValidationBehind(a, t)

\* Nothing is in flight when a cycle is closed.
ClosedIsQuiet == cycle.status # "active" => op = None

\* The gate of candidate c passed it and saw the graph, which the baseline froze.
ScopeWasReviewed(c) ==
    /\ baseline # None
    /\ baseline.graph = graph
    /\ gate[c] # None
    /\ gate[c].result = "pass"
    /\ gate[c].seen = graph

\* Each acceptance has a reviewed execution of candidate c, newer than itself.
EvidenceIsFresh(c) == \A a \in Acceptances : \E i \in gate[c].quals : DeliveredBy(a, i, c)

\* A delivery is past its recheck.
Looked == op # None /\ op.kind = "deliver" /\ op.stage # "evaluated"

\* What the recheck found in the database is still there.
RowsAreAsRechecked ==
    Looked => ScopeWasReviewed(op.candidate) /\ EvidenceIsFresh(op.candidate)

\* The inductive invariant.
IInv ==
    /\ TypeOK
    /\ BaselineBehind
    /\ GatesBehind
    /\ ValidationsBehind
    /\ ClosedIsQuiet
    /\ RowsAreAsRechecked
    /\ DeliveredScopeWasReviewed
    /\ DeliveredEvidenceIsFresh

-----------------------------------------------------------------------------
(* Versions of the graph. *)

\* Two graphs that are not ahead of one another are the same graph.
LEMMA GraphLeqAntisymmetric ==
    ASSUME NEW g \in Graphs, NEW h \in Graphs, GraphLeq(g, h), GraphLeq(h, g)
    PROVE  g = h
<1>1. g.req = h.req
  BY DEF Graphs, GraphLeq
<1>2. g.acc = h.acc
  <2>1. ASSUME NEW a \in Acceptances PROVE g.acc[a] = h.acc[a]
    <3>1. g.acc[a] \in Nat /\ h.acc[a] \in Nat
      BY DEF Graphs
    <3>2. g.acc[a] <= h.acc[a] /\ h.acc[a] <= g.acc[a]
      BY DEF GraphLeq
    <3> QED
      BY <3>1, <3>2
  <2> QED
    BY <2>1 DEF Graphs
<1> QED
  BY <1>1, <1>2 DEF Graphs

\* A version that is not ahead of an older one is not ahead of a newer one.
LEMMA GraphLeqTransitive ==
    ASSUME NEW g \in Graphs, NEW h \in Graphs, NEW k \in Graphs,
           GraphLeq(g, h), GraphLeq(h, k)
    PROVE  GraphLeq(g, k)
BY DEF Graphs, GraphLeq

\* Rewriting the requirement gives a graph the old one is not ahead of.
LEMMA RequirementGrows ==
    ASSUME NEW g \in Graphs
    PROVE  /\ [g EXCEPT !.req = @ + 1] \in Graphs
           /\ GraphLeq(g, [g EXCEPT !.req = @ + 1])
<1> DEFINE h == [g EXCEPT !.req = @ + 1]
<1>1. g.req + 1 \in Nat
  BY DEF Graphs
<1>2. h \in Graphs
  BY <1>1, Zenon DEF Graphs
<1>3. h.req = g.req + 1 /\ h.acc = g.acc
  BY Zenon DEF Graphs
<1>4. GraphLeq(g, h)
  BY <1>3 DEF GraphLeq, Graphs
<1> QED
  BY <1>2, <1>4

\* So does rewriting an acceptance.
LEMMA AcceptanceGrows ==
    ASSUME NEW g \in Graphs, NEW a \in Acceptances
    PROVE  /\ [g EXCEPT !.acc[a] = @ + 1] \in Graphs
           /\ GraphLeq(g, [g EXCEPT !.acc[a] = @ + 1])
<1> DEFINE h == [g EXCEPT !.acc[a] = @ + 1]
           f == [g.acc EXCEPT ![a] = @ + 1]
<1>1. f \in [Acceptances -> Nat]
  BY DEF Graphs
<1>2. h \in Graphs
  BY <1>1 DEF Graphs
<1>3. h.req = g.req /\ h.acc = f
  BY Zenon DEF Graphs
<1>4. \A b \in Acceptances : g.acc[b] <= f[b]
  BY DEF Graphs
<1>5. GraphLeq(g, h)
  BY <1>3, <1>4 DEF GraphLeq, Graphs
<1> QED
  BY <1>2, <1>5

-----------------------------------------------------------------------------
(* Type correctness. *)

\* Every step keeps the types.
LEMMA Typing == TypeOK /\ [Next]_vars => TypeOK'
<1> SUFFICES ASSUME TypeOK, [Next]_vars PROVE TypeOK'
  OBVIOUS
<1>0. ASSUME NEW part \in Outside, ChangesBehind(part)
      PROVE  op' \in Operations \cup {None}
  <2>1. CASE op # None /\ op.kind = "deliver"
    <3>1. op \in [kind : {"deliver"}, candidate : Sources,
                 stage : {"evaluated", "rechecked", "confirmed"}, unseen : SUBSET Outside]
      BY <2>1 DEF TypeOK, Operations
    <3>2. op' = [op EXCEPT !.unseen = op.unseen \cup {part}]
      BY <1>0, <2>1 DEF ChangesBehind
    <3>3. op.unseen \cup {part} \in SUBSET Outside
      BY <3>1
    <3>4. op' \in [kind : {"deliver"}, candidate : Sources,
                  stage : {"evaluated", "rechecked", "confirmed"}, unseen : SUBSET Outside]
      BY <3>1, <3>2, <3>3
    <3> QED
      BY <3>4 DEF Operations
  <2>2. CASE ~(op # None /\ op.kind = "deliver")
    <3>1. op' = op
      BY <1>0, <2>2 DEF ChangesBehind
    <3> QED
      BY <3>1 DEF TypeOK
  <2> QED
    BY <2>1, <2>2
<1>00. "source" \in Outside /\ "head" \in Outside /\ "artifacts" \in Outside
  BY DEF Outside
<1>a. ASSUME NEW stage \in {"rechecked", "confirmed"}, NEW known \in SUBSET Outside,
             op # None, op.kind = "deliver",
             op' = [op EXCEPT !.stage = stage, !.unseen = known]
      PROVE  op' \in Operations
  <2>1. op \in [kind : {"deliver"}, candidate : Sources,
               stage : {"evaluated", "rechecked", "confirmed"}, unseen : SUBSET Outside]
    BY <1>a DEF TypeOK, Operations
  <2>2. stage \in {"evaluated", "rechecked", "confirmed"}
    BY <1>a
  <2>3. op' = [[op EXCEPT !.stage = stage] EXCEPT !.unseen = known]
    BY <1>a
  <2>4. [op EXCEPT !.stage = stage] \in
            [kind : {"deliver"}, candidate : Sources,
             stage : {"evaluated", "rechecked", "confirmed"}, unseen : SUBSET Outside]
    BY <2>1, <2>2
  <2>5. op' \in [kind : {"deliver"}, candidate : Sources,
                stage : {"evaluated", "rechecked", "confirmed"}, unseen : SUBSET Outside]
    BY <1>a, <2>3, <2>4
  <2> QED
    BY <2>5 DEF Operations
<1>18a. CASE DeliverRecheck
  <2>1. op # None /\ op.kind = "deliver" /\ op' = [op EXCEPT !.stage = "rechecked", !.unseen = {}]
    BY <1>18a DEF DeliverRecheck, Delivering
  <2>3. "rechecked" \in {"rechecked", "confirmed"} /\ {} \in SUBSET Outside
    OBVIOUS
  <2>2. op' \in Operations
    BY <1>a, <2>1, <2>3, Zenon
  <2> QED
    BY <1>18a, <2>2 DEF DeliverRecheck, TypeOK, facts
<1>18b. CASE DeliverConfirm
  <2>1. /\ op # None /\ op.kind = "deliver"
        /\ op' = [op EXCEPT !.stage = "confirmed", !.unseen = op.unseen \ {"source"}]
    BY <1>18b DEF DeliverConfirm, Delivering
  <2>2. op.unseen \in SUBSET Outside
    BY <2>1 DEF TypeOK, Operations
  <2>3. op.unseen \ {"source"} \in SUBSET Outside
    BY <2>2
  <2>4. op' \in Operations
    BY <1>a, <2>1, <2>3
  <2> QED
    BY <1>18b, <2>4 DEF DeliverConfirm, TypeOK, facts
<1>1. CASE \E s \in Sources : EditSource(s)
  BY <1>1, <1>0, <1>00 DEF EditSource, TypeOK, facts
<1>2. CASE CommitSource
  BY <1>2, <1>0, <1>00 DEF CommitSource, TypeOK, facts
<1> USE DEF TypeOK, facts, Graphs, Confirmations, Baselines, Qualifications,
            Validations, Gates, Invalidations, Operations
<1>3. ASSUME NEW a \in Acceptances, NEW t \in Targets, LoseArtifact(a, t)
      PROVE  TypeOK'
  <2>1. val[a][t] \in Validations
    BY <1>3 DEF LoseArtifact
  <2>2. [val[a][t] EXCEPT !.intact = FALSE] \in Validations
    BY <2>1
  <2>3. val' \in [Acceptances -> [Targets -> Validations \cup {None}]]
    BY <1>3, <2>2 DEF LoseArtifact
  <2> QED
    BY <1>3, <2>3, <1>0, <1>00 DEF LoseArtifact
<1>4. ASSUME NEW changed \in BOOLEAN, RewriteRequirement(changed)
      PROVE  TypeOK'
  <2>1. graph' \in Graphs
    BY <1>4, RequirementGrows, Zenon DEF RewriteRequirement
  <2>2. stale' \subseteq Invalidations
    BY <1>4 DEF RewriteRequirement, Downstream, Requirement
  <2> QED
    BY <1>4, <2>1, <2>2 DEF RewriteRequirement
<1>5. ASSUME NEW a \in Acceptances, NEW changed \in BOOLEAN, RewriteAcceptance(a, changed)
      PROVE  TypeOK'
  <2>1. graph' \in Graphs
    BY <1>5, AcceptanceGrows, Zenon DEF RewriteAcceptance
  <2>2. stale' \subseteq Invalidations
    BY <1>5 DEF RewriteAcceptance, Downstream, Requirement
  <2> QED
    BY <1>5, <2>1, <2>2 DEF RewriteAcceptance
<1>6. CASE \E sameId \in BOOLEAN : FreezeBaseline(sameId)
  BY <1>6 DEF FreezeBaseline
<1>7. CASE ConfirmBaseline
  BY <1>7 DEF ConfirmBaseline
<1>8. CASE ConfirmScope
  <2>1. baseline \in Baselines
    BY <1>8 DEF ConfirmScope
  <2>2. [graph |-> baseline.graph, revision |-> revision + 1] \in Confirmations
    BY <2>1
  <2>3. baseline' \in Baselines
    BY <1>8, <2>1, <2>2, Zenon DEF ConfirmScope
  <2>4. /\ revision' = revision + 1
        /\ scope' = "confirmed"
        /\ UNCHANGED <<source, head, phase, cycle, graph, target, quals, val,
                       gate, stale, op>>
    BY <1>8 DEF ConfirmScope
  <2> QED
    BY <2>3, <2>4
<1>9. CASE \E t \in Targets, d \in Digests : RegisterTarget(t, d)
  BY <1>9 DEF RegisterTarget
<1>10. CASE \E a \in Acceptances, t \in Targets : Qualify(a, t)
  BY <1>10 DEF Qualify
<1>11. CASE \E i \in DOMAIN quals : VerifyStart(i)
  BY <1>11 DEF VerifyStart
<1>12. CASE VerifyCommit
  BY <1>12 DEF VerifyCommit
<1>13. CASE \E a \in Acceptances, t \in SUBSET Targets : RecordValidation(a, t)
  BY <1>13 DEF RecordValidation
<1>14. CASE \E result \in {"pass", "fail"}, Q \in SUBSET DOMAIN quals : GateStart(result, Q)
  BY <1>14 DEF GateStart
<1>15. CASE GateCommit
  BY <1>15 DEF GateCommit
<1>16. CASE EnterReadiness
  BY <1>16 DEF EnterReadiness
<1>17. CASE \E p \in {"retrospective", "archived"} : TransitionPhase(p)
  BY <1>17 DEF TransitionPhase
<1>18. CASE DeliverStart
  BY <1>18 DEF DeliverStart
<1>19. CASE DeliverCommit
  <2>1. op # None /\ op.kind = "deliver"
    BY <1>19 DEF DeliverCommit, Delivering
  <2>2. op.candidate \in Sources
    BY <2>1
  <2>3. cycle' \in [status : {"active", "delivered", "archived"},
                    candidate : Sources \cup {NoSource}]
    BY <1>19, <2>2 DEF DeliverCommit
  <2> QED
    BY <1>19, <2>3 DEF DeliverCommit
<1>20. CASE Abort
  BY <1>20 DEF Abort
<1>21. CASE Archive
  BY <1>21 DEF Archive
<1>22. CASE UNCHANGED vars
  BY <1>22 DEF vars
<1> QED
  BY <1>1, <1>2, <1>3, <1>4, <1>5, <1>6, <1>7, <1>8, <1>9, <1>10, <1>11,
     <1>12, <1>13, <1>14, <1>15, <1>16, <1>17, <1>18, <1>18a, <1>18b,
     <1>19, <1>20, <1>21, <1>22 DEF Next, Environment

\* The initial state is of the types.
LEMMA TypeInit == Init => TypeOK
<1> SUFFICES ASSUME Init PROVE TypeOK
  OBVIOUS
<1>1. target \in [Targets -> Digests]
  BY GateableAssumption DEF Init
<1>2. graph \in Graphs
  BY DEF Init, Graphs
<1>3. quals \in Seq(Qualifications)
  BY DEF Init
<1> QED
  BY <1>1, <1>2, <1>3 DEF Init, TypeOK

\* The types hold in every reachable state.
THEOREM TypeCorrect == Spec => []TypeOK
BY TypeInit, Typing, PTL DEF Spec

-----------------------------------------------------------------------------
(* The steps that keep or only move one of the versions. *)

Versions == <<revision, graph, baseline, gate, quals, val>>

\* A step that writes no versioned row keeps the order of the versions.
LEMMA VersionsKept ==
    ASSUME IInv, UNCHANGED Versions
    PROVE  BaselineBehind' /\ GatesBehind' /\ ValidationsBehind'
BY DEF IInv, Versions, BaselineBehind, GatesBehind, ValidationsBehind, ValidationBehind, GraphLeq

\* A step that leaves an open cycle open, with no delivery past its recheck, has
\* nothing to show for either.
LEMMA CycleStaysOpen ==
    ASSUME cycle.status = "active", cycle' = cycle, ~Looked'
    PROVE  /\ ClosedIsQuiet' /\ RowsAreAsRechecked'
           /\ DeliveredScopeWasReviewed' /\ DeliveredEvidenceIsFresh'
BY DEF ClosedIsQuiet, RowsAreAsRechecked, DeliveredScopeWasReviewed, DeliveredEvidenceIsFresh

\* Neither has a mutation that is over in one step, or that begins another
\* operation.
LEMMA MutationIsNoLook ==
    ASSUME Mutable,
           \/ op' = op
           \/ op' # None /\ op'.kind \in {"verify", "gate"}
           \/ op' # None /\ op'.stage = "evaluated"
    PROVE  ~Looked'
BY DEF Mutable, Looked

\* A change of the worktree or of an artifact is noted at most.
LEMMA ChangeIsNoted ==
    ASSUME TypeOK, NEW part \in Outside, ChangesBehind(part)
    PROVE  /\ op' = None <=> op = None
           /\ Looked' => Looked /\ op'.candidate = op.candidate
<1>1. CASE op # None /\ op.kind = "deliver"
  <2>1. op \in [kind : {"deliver"}, candidate : Sources,
               stage : {"evaluated", "rechecked", "confirmed"}, unseen : SUBSET Outside]
    BY <1>1 DEF TypeOK, Operations
  <2>2. op' = [op EXCEPT !.unseen = op.unseen \cup {part}]
    BY <1>1 DEF ChangesBehind
  <2>3. op'.kind = op.kind /\ op'.candidate = op.candidate /\ op'.stage = op.stage
    BY <2>1, <2>2
  <2>4. op' # None
    BY <2>1, <2>2 DEF None
  <2> QED
    BY <1>1, <2>3, <2>4 DEF Looked
<1>2. CASE ~(op # None /\ op.kind = "deliver")
  <2>1. op' = op
    BY <1>2 DEF ChangesBehind
  <2> QED
    BY <2>1 DEF Looked
<1> QED
  BY <1>1, <1>2

\* When project.revision grows no gate is at the current revision any more,
\* so the baseline may be replaced by any that is not ahead of the graph.
LEMMA RevisionGrows ==
    ASSUME IInv, TypeOK',
           revision' = revision + 1,
           baseline' # None => GraphLeq(baseline'.graph, graph),
           UNCHANGED <<graph, gate, quals, val>>
    PROVE  BaselineBehind' /\ GatesBehind' /\ ValidationsBehind'
<1>1. BaselineBehind'
  BY DEF BaselineBehind, GraphLeq
<1>2. ASSUME NEW s \in Sources, gate[s] # None
      PROVE  gate[s].revision <= revision /\ gate[s].revision \in Nat
  BY <1>2 DEF IInv, GatesBehind, TypeOK, Gates
<1>3. GatesBehind'
  BY <1>2 DEF IInv, GatesBehind, TypeOK, GraphLeq
<1>4. ValidationsBehind'
  BY DEF IInv, ValidationsBehind, ValidationBehind
<1> QED
  BY <1>1, <1>3, <1>4

\* A rewrite of the requirement or of an acceptance leaves everything that
\* was recorded behind.
LEMMA GraphGrows ==
    ASSUME IInv, TypeOK', GraphLeq(graph, graph'),
           UNCHANGED <<revision, baseline, gate, quals, val>>
    PROVE  BaselineBehind' /\ GatesBehind' /\ ValidationsBehind'
<1> USE DEF IInv, TypeOK
<1>1. graph \in Graphs /\ graph' \in Graphs
  OBVIOUS
<1>2. BaselineBehind'
  <2> SUFFICES ASSUME baseline # None PROVE GraphLeq(baseline.graph, graph')
    BY DEF BaselineBehind, GraphLeq
  <2>1. baseline.graph \in Graphs
    BY DEF Baselines
  <2>2. GraphLeq(baseline.graph, graph)
    BY DEF BaselineBehind
  <2> QED
    BY <1>1, <2>1, <2>2, GraphLeqTransitive
<1>3. GatesBehind'
  <2> SUFFICES ASSUME NEW s \in Sources, gate[s] # None
               PROVE  GraphLeq(gate[s].seen, graph')
    BY DEF GatesBehind, GraphLeq
  <2>1. gate[s].seen \in Graphs
    BY DEF Gates
  <2>2. GraphLeq(gate[s].seen, graph)
    BY DEF GatesBehind
  <2> QED
    BY <1>1, <2>1, <2>2, GraphLeqTransitive
<1>4. ValidationsBehind'
  <2> SUFFICES ASSUME NEW a \in Acceptances, NEW t \in Targets, val[a][t] # None
               PROVE  val[a][t].seen.acc[a] <= graph'.acc[a]
    BY DEF ValidationsBehind, ValidationBehind
  <2>1. val[a][t].seen.acc[a] \in Nat /\ graph.acc[a] \in Nat /\ graph'.acc[a] \in Nat
    BY DEF Validations, Graphs
  <2>2. val[a][t].seen.acc[a] <= graph.acc[a] /\ graph.acc[a] <= graph'.acc[a]
    BY DEF ValidationsBehind, ValidationBehind, GraphLeq
  <2> QED
    BY <2>1, <2>2
<1> QED
  BY <1>2, <1>3, <1>4

\* A step that changes nothing but the worktree, the phase, the
\* invalidations, or ends what is in flight keeps the whole invariant.
LEMMA Kept ==
    ASSUME IInv, TypeOK', UNCHANGED <<cycle, target, Versions>>,
           op = None => op' = None,
           Looked' => Looked /\ op'.candidate = op.candidate
    PROVE  IInv'
<1>1. BaselineBehind' /\ GatesBehind' /\ ValidationsBehind'
  BY VersionsKept
<1>2. ClosedIsQuiet'
  BY DEF IInv, ClosedIsQuiet
<1>3. DeliveredScopeWasReviewed' /\ DeliveredEvidenceIsFresh'
  BY DEF IInv, DeliveredScopeWasReviewed, DeliveredEvidenceIsFresh, DeliveredBy, EvidenceOf, Versions
<1>4. RowsAreAsRechecked'
  <2> SUFFICES ASSUME Looked'
               PROVE  (ScopeWasReviewed(op.candidate) /\ EvidenceIsFresh(op.candidate))'
    BY DEF RowsAreAsRechecked
  <2>1. ScopeWasReviewed(op.candidate) /\ EvidenceIsFresh(op.candidate)
    BY DEF IInv, RowsAreAsRechecked
  <2> QED
    BY <2>1 DEF ScopeWasReviewed, EvidenceIsFresh, DeliveredBy, EvidenceOf, Versions
<1> QED
  BY <1>1, <1>2, <1>3, <1>4 DEF IInv

\* Prerequisites that hold are about the graph as it is: the gate saw it, and so
\* did the executions.
LEMMA PrerequisitesAreFresh ==
    ASSUME IInv, NEW c \in Sources, Prerequisites(c)
    PROVE  ScopeWasReviewed(c) /\ EvidenceIsFresh(c)
<1> USE DEF IInv
<1>1. /\ baseline # None
      /\ baseline.graph = graph
      /\ gate[c] # None
      /\ gate[c].result = "pass"
      /\ gate[c].revision = revision
      /\ Proven(c)
  BY DEF Prerequisites, BaselineConfirmed, GatePasses
<1>2. gate[c].seen = graph
  <2>1. GraphLeq(gate[c].seen, graph) /\ GraphLeq(baseline.graph, gate[c].seen)
    BY <1>1 DEF GatesBehind
  <2>2. gate[c].seen \in Graphs /\ graph \in Graphs
    BY <1>1 DEF TypeOK, Gates
  <2> QED
    BY <1>1, <2>1, <2>2, GraphLeqAntisymmetric
<1>3. ASSUME NEW a \in Acceptances
      PROVE  \E i \in gate[c].quals : DeliveredBy(a, i, c)
  <2>1. PICK i \in DOMAIN quals :
            quals[i].acceptance = a /\ i \in gate[c].quals /\ Eligible(i, c)
    BY <1>1 DEF Proven
  <2>2. quals[i] \in Qualifications
    BY <2>1 DEF TypeOK
  <2> DEFINE t == quals[i].target
  <2>3. /\ t \in Targets
        /\ quals[i].rev = graph.acc[a]
        /\ quals[i].digest = target[t]
        /\ val[a][t] # None
        /\ val[a][t].qual = i
        /\ val[a][t].candidate = c
    BY <2>1, <2>2 DEF Eligible, CurrentQualification, EvidenceOf, Qualifications
  <2>4. quals[i].rev <= val[a][t].seen.acc[a] /\ val[a][t].seen.acc[a] <= graph.acc[a]
    BY <2>3 DEF ValidationsBehind, ValidationBehind
  <2>5. val[a][t].seen.acc[a] \in Nat /\ graph.acc[a] \in Nat
    BY <2>3 DEF TypeOK, Validations, Graphs
  <2>6. val[a][t].seen.acc[a] = graph.acc[a]
    BY <2>3, <2>4, <2>5
  <2> QED
    BY <2>1, <2>3, <2>6 DEF DeliveredBy, EvidenceOf
<1> QED
  BY <1>1, <1>2, <1>3 DEF ScopeWasReviewed, EvidenceIsFresh

-----------------------------------------------------------------------------
(* The inductive invariant. *)

\* Every step keeps the inductive invariant.
LEMMA Induction == IInv /\ [Next]_vars => IInv'
<1> SUFFICES ASSUME IInv, [Next]_vars PROVE IInv'
  OBVIOUS
<1> USE DEF IInv
<1>0. TypeOK'
  BY Typing
<1> USE <1>0
<1>1. CASE \E s \in Sources : EditSource(s)
  <2>1. UNCHANGED <<cycle, target, Versions>> /\ ChangesBehind("source")
    BY <1>1 DEF EditSource, facts, Versions
  <2>2. "source" \in Outside
    BY DEF Outside
  <2> QED
    BY <2>1, <2>2, ChangeIsNoted, Kept
<1>2. CASE CommitSource
  <2>1. UNCHANGED <<cycle, target, Versions>> /\ ChangesBehind("head")
    BY <1>2 DEF CommitSource, facts, Versions
  <2>2. "head" \in Outside
    BY DEF Outside
  <2> QED
    BY <2>1, <2>2, ChangeIsNoted, Kept
<1>3. ASSUME NEW a \in Acceptances, NEW t \in Targets, LoseArtifact(a, t)
      PROVE  IInv'
  <2>1. val[a][t] \in Validations
    BY <1>3 DEF LoseArtifact, TypeOK
  <2>2. ASSUME NEW b \in Acceptances, NEW u \in Targets
        PROVE  /\ val'[b][u] = None <=> val[b][u] = None
               /\ val[b][u] # None =>
                     /\ val'[b][u].qual = val[b][u].qual
                     /\ val'[b][u].candidate = val[b][u].candidate
                     /\ val'[b][u].seen = val[b][u].seen
    <3>1. CASE b = a /\ u = t
      <4>1. val'[a][t] = [val[a][t] EXCEPT !.intact = FALSE]
        BY <1>3 DEF LoseArtifact, TypeOK
      <4>2. val'[a][t] \in Validations
        BY <2>1, <4>1 DEF Validations
      <4>3. val'[a][t] # None /\ val[a][t] # None
        BY <2>1, <4>2 DEF Validations, None
      <4> QED
        BY <2>1, <3>1, <4>1, <4>3 DEF Validations
    <3>2. CASE ~(b = a /\ u = t)
      <4>1. val'[b][u] = val[b][u]
        BY <1>3, <3>2 DEF LoseArtifact, TypeOK
      <4> QED
        BY <4>1
    <3> QED
      BY <3>1, <3>2
  <2>3. UNCHANGED <<graph, baseline, gate, revision, quals, target, cycle>>
    BY <1>3 DEF LoseArtifact, facts
  <2>0. (op' = None <=> op = None) /\ (Looked' => Looked /\ op'.candidate = op.candidate)
    <3>1. ChangesBehind("artifacts") /\ "artifacts" \in Outside
      BY <1>3 DEF LoseArtifact, Outside
    <3> QED
      BY <3>1, ChangeIsNoted
  <2>4. BaselineBehind' /\ GatesBehind' /\ ClosedIsQuiet' /\ DeliveredScopeWasReviewed'
    BY <2>0, <2>3 DEF BaselineBehind, GatesBehind, GraphLeq, ClosedIsQuiet,
                DeliveredScopeWasReviewed
  <2>5. ValidationsBehind'
    BY <2>2, <2>3 DEF ValidationsBehind, ValidationBehind
  <2>6. ASSUME NEW c, NEW b \in Acceptances, NEW i, DeliveredBy(b, i, c)
        PROVE  DeliveredBy(b, i, c)'
    <3>1. quals[i] \in Qualifications
      BY <2>6 DEF TypeOK, DeliveredBy
    <3>2. quals[i].acceptance \in Acceptances /\ quals[i].target \in Targets
      BY <3>1 DEF Qualifications
    <3>3. /\ EvidenceOf(i)' # None
          /\ EvidenceOf(i)'.qual = i
          /\ EvidenceOf(i)'.candidate = c
          /\ EvidenceOf(i)'.seen.acc[b] = graph.acc[b]
      BY <2>2, <2>3, <2>6, <3>2 DEF DeliveredBy, EvidenceOf
    <3> QED
      BY <2>3, <2>6, <3>3 DEF DeliveredBy
  <2>7. ASSUME NEW c, EvidenceIsFresh(c)
        PROVE  \A b \in Acceptances : \E i \in gate[c].quals : DeliveredBy(b, i, c)'
    BY <2>6, <2>7 DEF EvidenceIsFresh
  <2>8. DeliveredEvidenceIsFresh'
    <3> SUFFICES ASSUME cycle.status = "delivered" PROVE DeliveredEvidenceIsFresh'
      BY <2>3 DEF DeliveredEvidenceIsFresh
    <3>1. PICK c : c = cycle.candidate
      OBVIOUS
    <3>2. EvidenceIsFresh(c)
      BY <3>1 DEF DeliveredEvidenceIsFresh, EvidenceIsFresh
    <3>3. \A b \in Acceptances : \E i \in gate[c].quals : DeliveredBy(b, i, c)'
      BY <2>7, <3>2
    <3>4. cycle'.candidate = c /\ gate' = gate
      BY <2>3, <3>1
    <3> QED
      BY <3>3, <3>4 DEF DeliveredEvidenceIsFresh, DeliveredBy, EvidenceOf
  <2>9. RowsAreAsRechecked'
    <3> SUFFICES ASSUME Looked'
                 PROVE  (ScopeWasReviewed(op.candidate) /\ EvidenceIsFresh(op.candidate))'
      BY DEF RowsAreAsRechecked
    <3>1. ScopeWasReviewed(op.candidate) /\ EvidenceIsFresh(op.candidate)
      BY <2>0 DEF RowsAreAsRechecked
    <3>2. PICK c : c = op.candidate
      OBVIOUS
    <3>3. op'.candidate = c
      BY <2>0, <3>2
    <3>4. \A b \in Acceptances : \E i \in gate[c].quals : DeliveredBy(b, i, c)'
      BY <2>7, <3>1, <3>2
    <3>5. EvidenceIsFresh(op.candidate)'
      BY <2>3, <3>3, <3>4 DEF EvidenceIsFresh, DeliveredBy, EvidenceOf
    <3> QED
      BY <2>3, <3>1, <3>2, <3>3, <3>5 DEF ScopeWasReviewed
  <2> QED
    BY <2>4, <2>5, <2>8, <2>9
<1>4. ASSUME NEW changed \in BOOLEAN, RewriteRequirement(changed)
      PROVE  IInv'
  <2>1. GraphLeq(graph, graph')
    BY <1>4, RequirementGrows, Zenon DEF RewriteRequirement, TypeOK
  <2>2. BaselineBehind' /\ GatesBehind' /\ ValidationsBehind'
    BY <1>4, <2>1, GraphGrows DEF RewriteRequirement
  <2> QED
    BY <1>4, <2>2, CycleStaysOpen, MutationIsNoLook DEF RewriteRequirement, Mutable
<1>5. ASSUME NEW a \in Acceptances, NEW changed \in BOOLEAN,
             RewriteAcceptance(a, changed)
      PROVE  IInv'
  <2>1. GraphLeq(graph, graph')
    BY <1>5, AcceptanceGrows, Zenon DEF RewriteAcceptance, TypeOK
  <2>2. BaselineBehind' /\ GatesBehind' /\ ValidationsBehind'
    BY <1>5, <2>1, GraphGrows DEF RewriteAcceptance
  <2> QED
    BY <1>5, <2>2, CycleStaysOpen, MutationIsNoLook DEF RewriteAcceptance, Mutable
<1>6. ASSUME NEW sameId \in BOOLEAN, FreezeBaseline(sameId)
      PROVE  IInv'
  <2>1. GraphLeq(baseline'.graph, graph)
    BY <1>6 DEF FreezeBaseline, GraphLeq, TypeOK, Graphs
  <2>2. BaselineBehind' /\ GatesBehind' /\ ValidationsBehind'
    BY <1>6, <2>1, RevisionGrows DEF FreezeBaseline
  <2> QED
    BY <1>6, <2>2, CycleStaysOpen, MutationIsNoLook DEF FreezeBaseline, Mutable
<1>7. CASE ConfirmBaseline
  <2>1. GraphLeq(baseline'.graph, graph)
    BY <1>7 DEF ConfirmBaseline, GraphLeq, TypeOK, Graphs
  <2>2. BaselineBehind' /\ GatesBehind' /\ ValidationsBehind'
    BY <1>7, <2>1, RevisionGrows DEF ConfirmBaseline
  <2> QED
    BY <1>7, <2>2, CycleStaysOpen, MutationIsNoLook DEF ConfirmBaseline, Mutable
<1>8. CASE ConfirmScope
  <2>1. baseline'.graph = graph
    BY <1>8 DEF ConfirmScope, TypeOK, Baselines
  <2>2. GraphLeq(baseline'.graph, graph)
    BY <2>1 DEF GraphLeq, TypeOK, Graphs
  <2>3. BaselineBehind' /\ GatesBehind' /\ ValidationsBehind'
    BY <1>8, <2>2, RevisionGrows DEF ConfirmScope
  <2> QED
    BY <1>8, <2>3, CycleStaysOpen, MutationIsNoLook DEF ConfirmScope, Mutable
<1>9. CASE \E t \in Targets, d \in Digests : RegisterTarget(t, d)
  BY <1>9, VersionsKept, CycleStaysOpen, MutationIsNoLook DEF RegisterTarget, Mutable, Versions
<1>10. ASSUME NEW a \in Acceptances, NEW t \in Targets, Qualify(a, t)
       PROVE  IInv'
  <2>1. \A i \in DOMAIN quals : i \in DOMAIN quals' /\ quals'[i] = quals[i]
    BY <1>10 DEF Qualify, TypeOK
  <2>2. ValidationsBehind'
    BY <1>10, <2>1 DEF Qualify, ValidationsBehind, ValidationBehind
  <2>3. BaselineBehind' /\ GatesBehind'
    BY <1>10 DEF Qualify, BaselineBehind, GatesBehind, GraphLeq
  <2> QED
    BY <1>10, <2>2, <2>3, CycleStaysOpen, MutationIsNoLook DEF Qualify, Mutable
<1>11. CASE \E i \in DOMAIN quals : VerifyStart(i)
  BY <1>11, VersionsKept, CycleStaysOpen, MutationIsNoLook DEF VerifyStart, Mutable, Versions, facts
<1>12. CASE VerifyCommit
  <2> DEFINE q == quals[op.qual]
             a == q.acceptance
             t == q.target
             v == [candidate |-> op.candidate, qual |-> op.qual,
                   seen |-> graph, intact |-> TRUE]
  <2>1. op.qual \in DOMAIN quals /\ q.rev = graph.acc[a]
    BY <1>12 DEF VerifyCommit, CurrentQualification
  <2>2. q \in Qualifications
    BY <2>1 DEF TypeOK
  <2>3. val' = [val EXCEPT ![a][t] = v]
    BY <1>12 DEF VerifyCommit
  <2>4. ASSUME NEW b \in Acceptances, NEW u \in Targets, val'[b][u] # None
        PROVE  /\ val'[b][u].qual \in DOMAIN quals
               /\ quals[val'[b][u].qual].acceptance = b
               /\ quals[val'[b][u].qual].target = u
               /\ quals[val'[b][u].qual].rev <= val'[b][u].seen.acc[b]
               /\ val'[b][u].seen.acc[b] <= graph.acc[b]
    <3>1. CASE b = a /\ u = t
      <4>1. val'[b][u] = v
        BY <2>3, <3>1 DEF TypeOK
      <4>2. graph.acc[a] \in Nat
        BY <2>2 DEF TypeOK, Graphs, Qualifications
      <4> QED
        BY <2>1, <3>1, <4>1, <4>2
    <3>2. CASE ~(b = a /\ u = t)
      <4>1. val'[b][u] = val[b][u]
        BY <2>3, <3>2 DEF TypeOK
      <4> QED
        BY <2>4, <4>1 DEF ValidationsBehind, ValidationBehind
    <3> QED
      BY <3>1, <3>2
  <2>5. ValidationsBehind'
    <3>1. quals' = quals /\ graph' = graph
      BY <1>12 DEF VerifyCommit
    <3> SUFFICES ASSUME NEW b \in Acceptances, NEW u \in Targets, val'[b][u] # None
                 PROVE  ValidationBehind(b, u)'
      BY DEF ValidationsBehind
    <3> QED
      BY <2>4, <3>1 DEF ValidationBehind
  <2>6. BaselineBehind' /\ GatesBehind'
    BY <1>12 DEF VerifyCommit, BaselineBehind, GatesBehind, GraphLeq
  <2>7. cycle.status = "active" /\ cycle' = cycle /\ ~Looked'
    BY <1>12 DEF VerifyCommit, ClosedIsQuiet, Looked
  <2> QED
    BY <2>5, <2>6, <2>7, CycleStaysOpen
<1>13. ASSUME NEW a \in Acceptances, NEW surfaces \in SUBSET Targets,
              RecordValidation(a, surfaces)
       PROVE  IInv'
  <2>1. ASSUME NEW b \in Acceptances, NEW u \in Targets, val'[b][u] # None
        PROVE  val'[b][u] = val[b][u]
    BY <1>13, <2>1 DEF RecordValidation, TypeOK
  <2>2. ValidationsBehind'
    <3> SUFFICES ASSUME NEW b \in Acceptances, NEW u \in Targets, val'[b][u] # None
                 PROVE  ValidationBehind(b, u)'
      BY DEF ValidationsBehind, ValidationBehind
    <3>1. val'[b][u] = val[b][u]
      BY <2>1
    <3>2. quals' = quals /\ graph' = graph
      BY <1>13 DEF RecordValidation
    <3> QED
      BY <3>1, <3>2 DEF ValidationsBehind, ValidationBehind
  <2>3. BaselineBehind' /\ GatesBehind'
    BY <1>13 DEF RecordValidation, BaselineBehind, GatesBehind, GraphLeq
  <2> QED
    BY <1>13, <2>2, <2>3, CycleStaysOpen, MutationIsNoLook DEF RecordValidation, Mutable
<1>14. CASE \E result \in {"pass", "fail"}, Q \in SUBSET DOMAIN quals : GateStart(result, Q)
  BY <1>14, VersionsKept, CycleStaysOpen, MutationIsNoLook DEF GateStart, Mutable, Versions, facts
<1>15. CASE GateCommit
  <2> DEFINE g == [result |-> op.result, quals |-> op.quals,
                   revision |-> revision, seen |-> graph]
  <2>1. GraphLeq(graph, graph)
    BY DEF GraphLeq, TypeOK, Graphs
  <2>2. ASSUME NEW s \in Sources, gate'[s] # None
        PROVE  /\ gate'[s].revision <= revision
               /\ GraphLeq(gate'[s].seen, graph)
               /\ (gate'[s].revision = revision /\ baseline # None)
                     => GraphLeq(baseline.graph, gate'[s].seen)
    <3>1. CASE s = op.candidate
      <4>1. gate'[s] = g
        BY <1>15, <3>1 DEF GateCommit, TypeOK
      <4> QED
        BY <2>1, <4>1 DEF BaselineBehind, TypeOK
    <3>2. CASE s # op.candidate
      <4>1. gate'[s] = gate[s]
        BY <1>15, <3>2 DEF GateCommit, TypeOK
      <4> QED
        BY <2>2, <4>1 DEF GatesBehind
    <3> QED
      BY <3>1, <3>2
  <2>3. GatesBehind'
    BY <1>15, <2>2 DEF GateCommit, GatesBehind, GraphLeq
  <2>4. BaselineBehind' /\ ValidationsBehind'
    BY <1>15 DEF GateCommit, BaselineBehind, ValidationsBehind, ValidationBehind, GraphLeq
  <2>5. cycle.status = "active" /\ cycle' = cycle /\ ~Looked'
    BY <1>15 DEF GateCommit, ClosedIsQuiet, Looked
  <2> QED
    BY <2>3, <2>4, <2>5, CycleStaysOpen
<1>16. CASE EnterReadiness
  BY <1>16, VersionsKept, CycleStaysOpen, MutationIsNoLook DEF EnterReadiness, Mutable, Versions
<1>17. CASE \E p \in {"retrospective", "archived"} : TransitionPhase(p)
  BY <1>17, VersionsKept, CycleStaysOpen, MutationIsNoLook DEF TransitionPhase, Mutable, Versions
<1>18. CASE DeliverStart
  BY <1>18, VersionsKept, CycleStaysOpen, MutationIsNoLook DEF DeliverStart, Mutable, Versions, facts
<1>18a. CASE DeliverRecheck
  <2>1. /\ op # None /\ op.kind = "deliver" /\ Prerequisites(op.candidate)
        /\ op' = [op EXCEPT !.stage = "rechecked", !.unseen = {}]
        /\ UNCHANGED <<cycle, target, Versions>>
    BY <1>18a DEF DeliverRecheck, Delivering, facts, Versions
  <2>2. op.candidate \in Sources
    BY <2>1 DEF TypeOK, Operations
  <2>3. ScopeWasReviewed(op.candidate) /\ EvidenceIsFresh(op.candidate)
    BY <2>1, <2>2, PrerequisitesAreFresh
  <2>4. op'.candidate = op.candidate
    BY <2>1 DEF TypeOK, Operations
  <2>5. RowsAreAsRechecked'
    BY <2>1, <2>3, <2>4 DEF RowsAreAsRechecked, ScopeWasReviewed, EvidenceIsFresh,
        DeliveredBy, EvidenceOf, Versions
  <2>6. BaselineBehind' /\ GatesBehind' /\ ValidationsBehind'
    BY <2>1, VersionsKept
  <2>7. cycle.status = "active"
    BY <2>1 DEF ClosedIsQuiet
  <2> QED
    BY <2>1, <2>5, <2>6, <2>7 DEF ClosedIsQuiet, DeliveredScopeWasReviewed,
        DeliveredEvidenceIsFresh
<1>18b. CASE DeliverConfirm
  <2>1. /\ op # None /\ op.kind = "deliver" /\ op.stage = "rechecked"
        /\ op' = [op EXCEPT !.stage = "confirmed", !.unseen = op.unseen \ {"source"}]
        /\ UNCHANGED <<cycle, target, Versions>>
    BY <1>18b DEF DeliverConfirm, Delivering, facts, Versions
  <2>2. op'.candidate = op.candidate /\ Looked
    BY <2>1 DEF TypeOK, Operations, Looked
  <2> QED
    BY <2>1, <2>2, Kept
<1>19. CASE DeliverCommit
  <2> DEFINE c == op.candidate
  <2>1. /\ cycle' = [status |-> "delivered", candidate |-> c]
        /\ op' = None
        /\ UNCHANGED <<revision, graph, baseline, target, quals, val, gate>>
    BY <1>19 DEF DeliverCommit
  <2>2. ScopeWasReviewed(c) /\ EvidenceIsFresh(c)
    BY <1>19 DEF DeliverCommit, Delivering, Looked, RowsAreAsRechecked
  <2>3. BaselineBehind' /\ GatesBehind' /\ ValidationsBehind'
    BY <2>1, VersionsKept DEF Versions
  <2>4. ClosedIsQuiet' /\ RowsAreAsRechecked'
    BY <2>1 DEF ClosedIsQuiet, RowsAreAsRechecked, Looked
  <2>5. DeliveredScopeWasReviewed'
    BY <2>1, <2>2 DEF DeliveredScopeWasReviewed, ScopeWasReviewed
  <2>6. DeliveredEvidenceIsFresh'
    BY <2>1, <2>2 DEF DeliveredEvidenceIsFresh, EvidenceIsFresh, DeliveredBy, EvidenceOf
  <2> QED
    BY <2>3, <2>4, <2>5, <2>6
<1>20. CASE Abort
  <2>1. UNCHANGED <<cycle, target, Versions>> /\ op' = None /\ ~Looked'
    BY <1>20 DEF Abort, facts, Versions, Looked
  <2> QED
    BY <2>1, Kept
<1>21. CASE Archive
  <2>1. BaselineBehind' /\ GatesBehind' /\ ValidationsBehind'
    BY <1>21, RevisionGrows DEF Archive, BaselineBehind
  <2>2. ClosedIsQuiet' /\ RowsAreAsRechecked'
    BY <1>21 DEF Archive, Mutable, ClosedIsQuiet, RowsAreAsRechecked, Looked
  <2>3. DeliveredScopeWasReviewed' /\ DeliveredEvidenceIsFresh'
    BY <1>21 DEF Archive, DeliveredScopeWasReviewed, DeliveredEvidenceIsFresh
  <2> QED
    BY <2>1, <2>2, <2>3
<1>22. CASE UNCHANGED vars
  <2>1. UNCHANGED <<cycle, target, Versions>> /\ op' = op /\ (Looked' => Looked)
    BY <1>22 DEF vars, Versions, Looked
  <2> QED
    BY <2>1, Kept
<1> QED
  BY <1>1, <1>2, <1>3, <1>4, <1>5, <1>6, <1>7, <1>8, <1>9, <1>10, <1>11,
     <1>12, <1>13, <1>14, <1>15, <1>16, <1>17, <1>18, <1>18a, <1>18b,
     <1>19, <1>20, <1>21, <1>22 DEF Next, Environment

\* The inductive invariant holds in every reachable state.
THEOREM Invariance == Spec => []IInv
<1>1. ASSUME Init PROVE IInv
  <2>1. /\ baseline = None
        /\ op = None
        /\ cycle.status = "active"
        /\ \A s \in Sources : gate[s] = None
        /\ \A a \in Acceptances, t \in Targets : val[a][t] = None
    BY <1>1 DEF Init
  <2>2. TypeOK
    BY <1>1, TypeInit
  <2> QED
    BY <2>1, <2>2 DEF IInv, BaselineBehind, GatesBehind, ValidationsBehind,
        ClosedIsQuiet, RowsAreAsRechecked, Looked, DeliveredScopeWasReviewed,
        DeliveredEvidenceIsFresh
<1>2. IInv /\ [Next]_vars => IInv'
  BY Induction
<1> QED
  BY <1>1, <1>2, PTL DEF Spec

-----------------------------------------------------------------------------
(* What it is for. *)

\* A cycle is never delivered with a requirement or a criterion that its
\* quality gate did not see (record_gate, evaluate_delivery_report).
THEOREM ScopeReviewed == Spec => []DeliveredScopeWasReviewed
<1>1. IInv => DeliveredScopeWasReviewed
  BY DEF IInv
<1> QED
  BY <1>1, Invariance, PTL

\* A cycle is never delivered on an execution that is older than the criterion
\* it is to show, or that the gate did not review (verify_run, record_gate).
THEOREM EvidenceFresh == Spec => []DeliveredEvidenceIsFresh
<1>1. IInv => DeliveredEvidenceIsFresh
  BY DEF IInv
<1> QED
  BY <1>1, Invariance, PTL

\* Only the worktree and its artifacts change behind a closed cycle
\* (_require_active_cycle_for_mutation, _project_mutation).
THEOREM ClosedFrozen == Spec => ClosedCycleIsFrozen
<1>1. ASSUME IInv, [Next]_vars PROVE LeavesClosedCycle
  <2> SUFFICES ASSUME cycle.status # "active" PROVE LeavesClosedCycle!2
    BY DEF LeavesClosedCycle
  <2>1. op = None /\ ~Mutable
    BY <1>1 DEF IInv, ClosedIsQuiet, Mutable
  <2>2. Environment \/ UNCHANGED vars
    BY <1>1, <2>1 DEF Next, RewriteRequirement, RewriteAcceptance, FreezeBaseline,
        ConfirmBaseline, ConfirmScope, RegisterTarget, Qualify, VerifyStart,
        VerifyCommit, RecordValidation, GateStart, GateCommit, EnterReadiness,
        TransitionPhase, DeliverStart, DeliverRecheck, DeliverConfirm, DeliverCommit,
        Delivering, Abort, Archive
  <2>3. CASE UNCHANGED <<facts, val>>
    BY <2>3
  <2>4. ASSUME NEW b \in Acceptances, NEW u \in Targets, LoseArtifact(b, u),
               NEW a \in Acceptances, NEW t \in Targets, val'[a][t] # val[a][t]
        PROVE  val[a][t] # None /\ val'[a][t] = [val[a][t] EXCEPT !.intact = FALSE]
    BY <1>1, <2>4 DEF LoseArtifact, IInv, TypeOK
  <2>5. CASE \E b \in Acceptances, u \in Targets : LoseArtifact(b, u)
    <3>1. UNCHANGED facts
      BY <2>5 DEF LoseArtifact
    <3> QED
      BY <2>4, <2>5, <3>1
  <2>6. CASE (\E s \in Sources : EditSource(s)) \/ CommitSource \/ UNCHANGED vars
    BY <2>3, <2>6 DEF EditSource, CommitSource, vars, facts
  <2> QED
    BY <2>2, <2>5, <2>6 DEF Environment
<1>2. IInv /\ [Next]_vars => [LeavesClosedCycle]_vars
  BY <1>1
<1> QED
  BY <1>2, Invariance, PTL DEF Spec, ClosedCycleIsFrozen

\* What a delivery past its recheck may be wrong about is noted as unseen.
UnseenIsNoted ==
    Looked =>
        /\ "source" \notin op.unseen => source = op.candidate
        /\ "head" \notin op.unseen => head = op.candidate
        /\ "artifacts" \notin op.unseen => ArtifactsInPlace(op.candidate)

\* Prerequisites that hold are about the worktree and the artifacts as they are.
LEMMA PrerequisitesAreInPlace ==
    ASSUME TypeOK, NEW c \in Sources, source = c, Prerequisites(c)
    PROVE  head = c /\ ArtifactsInPlace(c)
<1>1. head = c /\ Proven(c)
  BY DEF Prerequisites, Dirty
<1>2. ASSUME NEW a \in Acceptances
      PROVE  \E t \in Targets : /\ val[a][t] # None
                                /\ val[a][t].intact
                                /\ val[a][t].candidate = c
  <2>1. PICK i \in DOMAIN quals : quals[i].acceptance = a /\ Eligible(i, c)
    BY <1>1 DEF Proven
  <2>2. quals[i] \in Qualifications
    BY <2>1 DEF TypeOK
  <2>3. quals[i].target \in Targets
    BY <2>2 DEF Qualifications
  <2> QED
    BY <2>1, <2>3 DEF Eligible, EvidenceOf
<1> QED
  BY <1>1, <1>2 DEF ArtifactsInPlace

\* A change outside the database is noted, and nothing else than the recheck and
\* the last look takes a note away.
LEMMA UnseenStaysNoted == TypeOK /\ UnseenIsNoted /\ [Next]_vars => UnseenIsNoted'
<1> SUFFICES ASSUME TypeOK, UnseenIsNoted, [Next]_vars, Looked' PROVE UnseenIsNoted'
  BY DEF UnseenIsNoted
<1> DEFINE Deliveries == [kind : {"deliver"}, candidate : Sources,
                          stage : {"evaluated", "rechecked", "confirmed"},
                          unseen : SUBSET Outside]
<1>0. ASSUME op # None, op.kind = "deliver" PROVE op \in Deliveries
  BY <1>0 DEF TypeOK, Operations
<1>1. ASSUME NEW part \in Outside, ChangesBehind(part)
      PROVE  /\ Looked /\ op'.candidate = op.candidate
             /\ op'.unseen = op.unseen \cup {part}
  <2>1. Looked /\ op'.candidate = op.candidate
    BY <1>1, ChangeIsNoted
  <2>2. op \in Deliveries /\ op' = [op EXCEPT !.unseen = op.unseen \cup {part}]
    BY <1>0, <1>1, <2>1 DEF Looked, ChangesBehind
  <2> QED
    BY <2>1, <2>2
<1>2. CASE \E s \in Sources : EditSource(s)
  <2>1. ChangesBehind("source") /\ UNCHANGED <<head, val>> /\ "source" \in Outside
    BY <1>2 DEF EditSource, Outside
  <2> QED
    BY <1>1, <2>1 DEF UnseenIsNoted, ArtifactsInPlace
<1>3. CASE CommitSource
  <2>1. ChangesBehind("head") /\ UNCHANGED <<source, val>> /\ "head" \in Outside
    BY <1>3 DEF CommitSource, Outside
  <2> QED
    BY <1>1, <2>1 DEF UnseenIsNoted, ArtifactsInPlace
<1>4. CASE \E a \in Acceptances, t \in Targets : LoseArtifact(a, t)
  <2>1. ChangesBehind("artifacts") /\ UNCHANGED <<source, head>> /\ "artifacts" \in Outside
    BY <1>4 DEF LoseArtifact, Outside
  <2> QED
    BY <1>1, <2>1 DEF UnseenIsNoted
<1>5. CASE DeliverRecheck
  <2>1. /\ op # None /\ op.kind = "deliver"
        /\ source = op.candidate /\ Prerequisites(op.candidate)
        /\ op' = [op EXCEPT !.stage = "rechecked", !.unseen = {}]
        /\ UNCHANGED <<source, head, val>>
    BY <1>5 DEF DeliverRecheck, Delivering
  <2>2. op \in Deliveries
    BY <1>0, <2>1
  <2>3. head = op.candidate /\ ArtifactsInPlace(op.candidate)
    BY <2>1, <2>2, PrerequisitesAreInPlace
  <2>4. op'.candidate = op.candidate
    BY <2>1, <2>2
  <2> QED
    BY <2>1, <2>3, <2>4 DEF UnseenIsNoted, ArtifactsInPlace
<1>6. CASE DeliverConfirm
  <2>1. /\ op # None /\ op.kind = "deliver" /\ op.stage = "rechecked"
        /\ source = op.candidate
        /\ op' = [op EXCEPT !.stage = "confirmed", !.unseen = op.unseen \ {"source"}]
        /\ UNCHANGED <<source, head, val>>
    BY <1>6 DEF DeliverConfirm, Delivering
  <2>2. op \in Deliveries /\ Looked
    BY <1>0, <2>1 DEF Looked
  <2>3. op'.candidate = op.candidate /\ op'.unseen = op.unseen \ {"source"}
    BY <2>1, <2>2
  <2> QED
    BY <2>1, <2>2, <2>3 DEF UnseenIsNoted, ArtifactsInPlace
<1>7. CASE UNCHANGED vars
  BY <1>7 DEF vars, UnseenIsNoted, Looked, ArtifactsInPlace
<1>8. ASSUME op' = op, op = None PROVE FALSE
  BY <1>8 DEF Looked
<1>9. ASSUME op' = None PROVE FALSE
  BY <1>9 DEF Looked
<1>10. CASE \/ \E changed \in BOOLEAN : RewriteRequirement(changed)
            \/ \E a \in Acceptances, changed \in BOOLEAN : RewriteAcceptance(a, changed)
            \/ \E sameId \in BOOLEAN : FreezeBaseline(sameId)
            \/ ConfirmBaseline
            \/ ConfirmScope
            \/ \E t \in Targets, d \in Digests : RegisterTarget(t, d)
            \/ \E a \in Acceptances, t \in Targets : Qualify(a, t)
            \/ \E a \in Acceptances, t \in SUBSET Targets : RecordValidation(a, t)
            \/ EnterReadiness
            \/ \E p \in {"retrospective", "archived"} : TransitionPhase(p)
            \/ Archive
  <2>1. op = None /\ op' = op
    BY <1>10, ZenonT(30) DEF Mutable, RewriteRequirement, RewriteAcceptance, FreezeBaseline,
       ConfirmBaseline, ConfirmScope, RegisterTarget, Qualify, RecordValidation,
       EnterReadiness, TransitionPhase, Archive
  <2> QED
    BY <1>8, <2>1
<1>11. CASE \/ \E i \in DOMAIN quals : VerifyStart(i)
            \/ \E result \in {"pass", "fail"}, Q \in SUBSET DOMAIN quals :
                  GateStart(result, Q)
            \/ DeliverStart
  BY <1>11 DEF VerifyStart, GateStart, DeliverStart, Looked
<1>12. CASE VerifyCommit \/ GateCommit \/ DeliverCommit \/ Abort
  BY <1>9, <1>12 DEF VerifyCommit, GateCommit, DeliverCommit, Abort
<1> QED
  BY <1>2, <1>3, <1>4, <1>5, <1>6, <1>7, <1>10, <1>11, <1>12 DEF Next, Environment

\* A cycle that becomes delivered is wrong about the worktree, the commit and the
\* artifacts only where they changed after the last look at them
\* (revalidate_delivery_before_commit).
THEOREM LateChangesOnly == Spec => DeliveryMissesOnlyLateChanges
<1>1. Init => UnseenIsNoted
  BY DEF Init, UnseenIsNoted, Looked
<1>2. Spec => []UnseenIsNoted
  BY <1>1, UnseenStaysNoted, TypeCorrect, PTL DEF Spec
<1>3. ASSUME UnseenIsNoted, [Next]_vars PROVE MissesOnlyLateChanges
  <2> SUFFICES ASSUME cycle.status = "active", cycle'.status = "delivered"
               PROVE  MissesOnlyLateChanges!2
    BY DEF MissesOnlyLateChanges
  <2>1. DeliverCommit
    <3>1. cycle' # cycle
      OBVIOUS
    <3>2. ~Archive
      BY DEF Archive
    <3> QED
      BY <1>3, <3>1, <3>2 DEF Next, vars, facts, Environment, EditSource,
          CommitSource, LoseArtifact, RewriteRequirement, RewriteAcceptance,
          FreezeBaseline, ConfirmBaseline, ConfirmScope, RegisterTarget, Qualify,
          VerifyStart, VerifyCommit, RecordValidation, GateStart, GateCommit,
          EnterReadiness, TransitionPhase, DeliverStart, DeliverRecheck,
          DeliverConfirm, Abort
  <2>2. Looked /\ cycle' = [status |-> "delivered", candidate |-> op.candidate]
    BY <2>1 DEF DeliverCommit, Delivering, Looked
  <2> QED
    BY <1>3, <2>2 DEF UnseenIsNoted
<1>4. UnseenIsNoted /\ [Next]_vars => [MissesOnlyLateChanges]_vars
  BY <1>3
<1> QED
  BY <1>2, <1>4, PTL DEF Spec, DeliveryMissesOnlyLateChanges

-----------------------------------------------------------------------------
(* Refinement. *)

\* A gate replaces what earlier gates of its candidate said and leaves the
\* word of the others.
LEMMA GateReplaces ==
    ASSUME TypeOK, TypeOK', NEW c \in Sources, NEW row \in Gates,
           gate' = [gate EXCEPT ![c] = row]
    PROVE  Reviewed' = Cycle!OthersReviewed(c)
                \cup (IF row.result = "pass" THEN {<<c, row.seen>>} ELSE {})
<1>1. row # None
  BY DEF Gates, None
<1>2. gate'[c] = row /\ \A s \in Sources \ {c} : gate'[s] = gate[s]
  BY DEF TypeOK
<1>3. Passed' = (Passed \ {c}) \cup (IF row.result = "pass" THEN {c} ELSE {})
  BY <1>1, <1>2 DEF Passed
<1>4. Cycle!OthersReviewed(c) = {<<s, gate[s].seen>> : s \in Passed \ {c}}
  BY DEF Cycle!OthersReviewed, Reviewed
<1>5. \A s \in Passed \ {c} : gate'[s].seen = gate[s].seen
  BY <1>2 DEF Passed
<1> QED
  BY <1>2, <1>3, <1>4, <1>5 DEF Reviewed

\* Every step of the chain is a step of the delivery cycle or a stutter.
LEMMA StepSimulation == IInv /\ [Next]_vars => [Cycle!CycleNext]_(Cycle!cycleVars)
<1> SUFFICES ASSUME IInv, [Next]_vars PROVE [Cycle!CycleNext]_(Cycle!cycleVars)
  OBVIOUS
<1>0. TypeOK /\ TypeOK' /\ IInv'
  BY Typing, Induction DEF IInv
<1>1. CASE UNCHANGED <<graph, gate, cycle>>
  BY <1>1 DEF Cycle!cycleVars, Reviewed, Passed
<1>2. CASE Mutable /\ UNCHANGED <<gate, cycle>>
  BY <1>2 DEF Mutable, Cycle!CycleNext, Cycle!Rewrite, Reviewed, Passed
<1>3. CASE GateCommit
  <2> DEFINE row == [result |-> op.result, quals |-> op.quals,
                     revision |-> revision, seen |-> graph]
  <2>1. op \in Operations /\ op.kind = "gate"
    BY <1>0, <1>3 DEF GateCommit, TypeOK
  <2>2. op.candidate \in Sources /\ op.result \in {"pass", "fail"} /\ op.quals \in SUBSET Nat
    BY <2>1 DEF Operations
  <2>3. row \in Gates
    BY <1>0, <2>2 DEF Gates, TypeOK
  <2>4. row.result = op.result /\ row.seen = graph
    OBVIOUS
  <2>5. gate' = [gate EXCEPT ![op.candidate] = row] /\ UNCHANGED <<graph, cycle>>
    BY <1>3 DEF GateCommit
  <2>6. cycle.status = "active"
    BY <1>3 DEF GateCommit, IInv, ClosedIsQuiet
  <2> HIDE DEF row
  <2>7. Reviewed' = Cycle!OthersReviewed(op.candidate)
            \cup (IF op.result = "pass" THEN {<<op.candidate, graph>>} ELSE {})
    BY <1>0, <2>2, <2>3, <2>4, <2>5, GateReplaces
  <2>8. Cycle!Pass(op.candidate) \/ Cycle!Reject(op.candidate)
    BY <2>2, <2>5, <2>6, <2>7 DEF Cycle!Pass, Cycle!Reject
  <2> QED
    BY <2>2, <2>8 DEF Cycle!CycleNext
<1>4. CASE DeliverCommit
  <2>0. op # None /\ op.kind = "deliver" /\ Looked
    BY <1>4 DEF DeliverCommit, Delivering, Looked
  <2>1. /\ cycle' = [status |-> "delivered", candidate |-> op.candidate]
        /\ UNCHANGED <<graph, gate>>
        /\ gate[op.candidate].result = "pass"
        /\ gate[op.candidate] # None
    BY <1>4, <2>0 DEF DeliverCommit, IInv, RowsAreAsRechecked, ScopeWasReviewed
  <2>2. cycle.status = "active"
    BY <2>0 DEF IInv, ClosedIsQuiet
  <2>3. op.candidate \in Sources
    BY <1>0, <2>0 DEF TypeOK, Operations
  <2>4. gate[op.candidate].seen = graph
    BY <2>0 DEF IInv, RowsAreAsRechecked, ScopeWasReviewed
  <2>5. <<op.candidate, graph>> \in Reviewed
    BY <2>1, <2>3, <2>4 DEF Reviewed, Passed
  <2>6. UNCHANGED Reviewed
    BY <2>1 DEF Reviewed, Passed
  <2>7. Cycle!DeliverReviewed(op.candidate)
    BY <2>1, <2>2, <2>5, <2>6 DEF Cycle!DeliverReviewed
  <2> QED
    BY <2>3, <2>7 DEF Cycle!CycleNext
<1>5. CASE Archive
  BY <1>5 DEF Archive, Mutable, Cycle!CycleNext, Cycle!Abandon, Reviewed, Passed
<1> QED
  BY <1>1, <1>2, <1>3, <1>4, <1>5
  DEF Next, vars, facts, Environment, EditSource, CommitSource, LoseArtifact,
      RewriteRequirement, RewriteAcceptance, FreezeBaseline, ConfirmBaseline,
      ConfirmScope, RegisterTarget, Qualify, VerifyStart, VerifyCommit,
      RecordValidation, GateStart, EnterReadiness, TransitionPhase,
      DeliverStart, DeliverRecheck, DeliverConfirm, Abort

\* The chain of rows implements a delivery cycle, whose deliveries are those
\* the last review passed and saw (record_gate, record_delivery).
THEOREM Refinement == Spec => ImplementsDeliveryCycle
<1>1. Init => Cycle!CycleInit
  BY DEF Init, Cycle!CycleInit, Reviewed, Passed
<1> QED
  BY <1>1, StepSimulation, Invariance, PTL
  DEF Spec, ImplementsDeliveryCycle, Cycle!CycleSpec
=============================================================================
