--------------------------- MODULE EvidenceChain ---------------------------
(***************************************************************************)
(* The evidence chain of one delivery cycle: how scripts/harness_db.py     *)
(* turns a recorded requirement graph into a delivery record, and what the *)
(* evaluator of core/delivery.py demands on the way.                       *)
(*                                                                         *)
(*   criterion -> qualification -> execution and validation -> gate ->     *)
(*   delivery readiness -> delivery record                                 *)
(*                                                                         *)
(* Every link refers to versions of things that go on changing: the text   *)
(* of a criterion, the definition of a test target, the baseline, and,     *)
(* outside the database, the project source and the captured artifacts.    *)
(* The module is about whether the links still fit together when the cycle *)
(* is closed as delivered.                                                 *)
(*                                                                         *)
(* Simplifications.                                                        *)
(*  - One cycle, whose requirement and acceptances are recorded and linked *)
(*    and whose tasks are accepted (modules TaskGraph and ReviewLedger).    *)
(*  - A source tree is its content identity, a target definition its       *)
(*    digest, a baseline snapshot the revisions it was taken over: every   *)
(*    rewrite of a row increments that row's revision column.              *)
(*  - Only the active validation of an acceptance on a target's surface is *)
(*    kept, and only if an execution backs it: a superseded row or a       *)
(*    judgment-only row never counts for delivery.                         *)
(*  - Findings, failure modes and review contexts are not here.            *)
(*  - The rows of one table are created at non-decreasing times, so the    *)
(*    latest row is the last one written.                                  *)
(*  - The commit of a verification or a gate follows its last look at      *)
(*    once: what moves in between moves no row, and moves as well after    *)
(*    the commit. For a delivery the looks and the commit are steps of     *)
(*    their own, because its row claims something of the worktree.         *)
(***************************************************************************)
EXTENDS Naturals, Sequences

CONSTANTS
    Acceptances,     \* the active acceptance ids of the cycle
    Targets,         \* the registered test targets
    Digests,         \* digests a target's definition can have
    Gateable,        \* the definitions whose command may feed a gate
    Sources,         \* content identities of the project source
    NoSource,        \* the candidate of a cycle that is still open
    MaxRequirementRev, MaxAcceptanceRev, MaxRevision, MaxQuals  \* bounds

ASSUME GateableAssumption == Gateable \subseteq Digests
ASSUME NoSourceAssumption == NoSource \notin Sources

VARIABLES
    source,      \* content of the project source now
    head,        \* content at the last commit; the worktree is dirty iff it differs
    revision,    \* project.revision
    phase,       \* project.phase and delivery_cycles.phase, always set together
    scope,       \* project.scope_status
    cycle,       \* status and candidate_sha of the delivery cycle
    graph,       \* revisions of the requirement and of every acceptance
    baseline,    \* the latest baseline and the latest confirmation of its id
    target,      \* the live definition digest of every target
    quals,       \* acceptance_target_qualifications, in insertion order
    val,         \* the active execution-backed validation of a pair, if any
    gate,        \* the active quality gate of every candidate, if any
    stale,       \* unresolved invalidations, as <<source, kind of target>>
    op           \* the operation whose command or transaction is in flight

vars == <<source, head, revision, phase, scope, cycle, graph, baseline,
          target, quals, val, gate, stale, op>>

\* The facts the database stores.
facts == <<revision, phase, scope, cycle, graph, baseline, target, quals,
           gate, stale>>

None == [none |-> TRUE]
Requirement == "requirement"

Graphs == [req : Nat, acc : [Acceptances -> Nat]]
Confirmations == [graph : Graphs, revision : Nat]
Baselines == [graph : Graphs, revision : Nat,
              confirmation : Confirmations \cup {None}]
Qualifications == [acceptance : Acceptances, target : Targets,
                   rev : Nat, digest : Digests]
\* seen is a history component: the graph at the moment of the execution.
Validations == [candidate : Sources, qual : Nat, seen : Graphs, intact : BOOLEAN]
\* seen is a history component: the graph at the moment of the review.
Gates == [result : {"pass", "fail"}, quals : SUBSET Nat, revision : Nat,
          seen : Graphs]
Invalidations == (Acceptances \cup {Requirement}) \X {"work", "quality_gate"}
\* What no lock protects. unseen is a history component: what of it changed after
\* the delivery last looked at it.
Outside == {"source", "head", "artifacts"}
Operations == [kind : {"verify"}, qual : Nat, candidate : Sources]
         \cup [kind : {"gate"}, result : {"pass", "fail"},
               quals : SUBSET Nat, candidate : Sources]
         \cup [kind : {"deliver"}, candidate : Sources,
               stage : {"evaluated", "rechecked", "confirmed"},
               unseen : SUBSET Outside]

TypeOK ==
    /\ source \in Sources
    /\ head \in Sources
    /\ revision \in Nat
    /\ phase \in {"working", "delivery_readiness", "retrospective", "archived"}
    /\ scope \in {"unconfirmed", "confirmed"}
    /\ cycle \in [status : {"active", "delivered", "archived"},
                  candidate : Sources \cup {NoSource}]
    /\ graph \in Graphs
    /\ baseline \in Baselines \cup {None}
    /\ target \in [Targets -> Digests]
    /\ quals \in Seq(Qualifications)
    /\ val \in [Acceptances -> [Targets -> Validations \cup {None}]]
    /\ gate \in [Sources -> Gates \cup {None}]
    /\ stale \subseteq Invalidations
    /\ op \in Operations \cup {None}

Init ==
    /\ source \in Sources
    /\ head = source
    /\ revision = 1
    /\ phase = "working"
    /\ scope = "unconfirmed"
    /\ cycle = [status |-> "active", candidate |-> NoSource]
    /\ graph = [req |-> 1, acc |-> [a \in Acceptances |-> 1]]
    /\ baseline = None
    /\ target \in [Targets -> Gateable]
    /\ quals = <<>>
    /\ val = [a \in Acceptances |-> [t \in Targets |-> None]]
    /\ gate = [s \in Sources |-> None]
    /\ stale = {}
    /\ op = None

-----------------------------------------------------------------------------
(* What the operations read. *)

\* Mutant of Mutable: no operation looks at the status of the cycle.
Mutable_AnyCycle == op = None

\* Every mutation holds the project operation lock from its first read to the
\* end of its projections and refuses a closed cycle.
Mutable == op = None /\ cycle.status = "active"

Dirty == source # head

\* The newest qualification row of its acceptance and target.
IsLatest(i) ==
    \A j \in DOMAIN quals :
        (/\ quals[j].acceptance = quals[i].acceptance
         /\ quals[j].target = quals[i].target) => j <= i

\* Mutant of CurrentQualification: the criterion's revision is not compared.
CurrentQualification_AnyRevision(i) ==
    /\ i \in DOMAIN quals
    /\ IsLatest(i)
    /\ quals[i].digest = target[quals[i].target]

\* The latest row, made for the current criterion and the live definition.
CurrentQualification(i) ==
    /\ i \in DOMAIN quals
    /\ IsLatest(i)
    /\ quals[i].rev = graph.acc[quals[i].acceptance]
    /\ quals[i].digest = target[quals[i].target]

EvidenceOf(i) == val[quals[i].acceptance][quals[i].target]

\* The complete join: qualification, active passing validation, immutable
\* execution and its artifact, all for candidate c.
Eligible(i, c) ==
    /\ CurrentQualification(i)
    /\ EvidenceOf(i) # None
    /\ EvidenceOf(i).qual = i
    /\ EvidenceOf(i).candidate = c
    /\ EvidenceOf(i).intact
    /\ target[quals[i].target] \in Gateable

\* Invalidations an actual change of src creates: its accepted tasks always
\* exist, quality gates only once one was recorded.
Downstream(src) ==
    {<<src, "work">>}
        \cup (IF \E s \in Sources : gate[s] # None
              THEN {<<src, "quality_gate">>} ELSE {})

BaselineConfirmed ==
    /\ scope = "confirmed"
    /\ baseline # None
    /\ baseline.graph = graph
    /\ baseline.confirmation # None
    /\ baseline.confirmation.graph = baseline.graph
    /\ baseline.confirmation.revision \in {baseline.revision, baseline.revision + 1}

GatePasses(c) ==
    /\ gate[c] # None
    /\ gate[c].result = "pass"
    /\ gate[c].revision = revision

\* Mutant of Proven: one proven acceptance is taken for all of them.
Proven_SomeAcceptance(c) ==
    \E i \in DOMAIN quals : i \in gate[c].quals /\ Eligible(i, c)

\* Every acceptance has an eligible qualification the gate reviewed.
Proven(c) ==
    \A a \in Acceptances :
        \E i \in DOMAIN quals :
            /\ quals[i].acceptance = a
            /\ i \in gate[c].quals
            /\ Eligible(i, c)

\* The canonical prerequisites, without the phase.
Prerequisites(c) ==
    /\ BaselineConfirmed
    /\ stale = {}
    /\ GatePasses(c)
    /\ ~Dirty
    /\ Proven(c)

\* The invariant a closed cycle is held to: each of its qualifications, the
\* superseded ones included, names the live definition of its target.
QualificationsLive ==
    \A i \in DOMAIN quals : quals[i].digest = target[quals[i].target]

\* What delivered-consistency asks beyond the prerequisites: the invariant,
\* and that the gate reviewed the revision the confirmation event names.
DeliveredConsistent(c) ==
    /\ QualificationsLive
    /\ gate[c].revision = baseline.confirmation.revision

-----------------------------------------------------------------------------
(* Outside the database. *)

\* A delivery in flight does not see the change unless it looks again.
ChangesBehind(part) ==
    op' = IF op # None /\ op.kind = "deliver"
          THEN [op EXCEPT !.unseen = @ \cup {part}] ELSE op

\* An editor, an agent or a checkout changes the project files at any moment.
EditSource(s) ==
    /\ s # source
    /\ source' = s
    /\ ChangesBehind("source")
    /\ UNCHANGED <<head, facts, val>>

CommitSource ==
    /\ Dirty
    /\ head' = source
    /\ ChangesBehind("head")
    /\ UNCHANGED <<source, facts, val>>

\* A captured artifact under .ai-team/runtime is removed or altered.
LoseArtifact(a, t) ==
    /\ val[a][t] # None
    /\ val[a][t].intact
    /\ val' = [val EXCEPT ![a][t].intact = FALSE]
    /\ ChangesBehind("artifacts")
    /\ UNCHANGED <<source, head, facts>>

-----------------------------------------------------------------------------
(* The graph and its baseline. *)

\* add_requirement on an existing id: the revision grows even when the text
\* is the same, dependents are invalidated only when it is not.
RewriteRequirement(changed) ==
    /\ Mutable
    /\ graph.req < MaxRequirementRev
    /\ graph' = [graph EXCEPT !.req = @ + 1]
    /\ stale' = IF changed THEN stale \cup Downstream(Requirement) ELSE stale
    /\ UNCHANGED <<source, head, revision, phase, scope, cycle, baseline,
                   target, quals, val, gate, op>>

RewriteAcceptance(a, changed) ==
    /\ Mutable
    /\ graph.acc[a] < MaxAcceptanceRev
    /\ graph' = [graph EXCEPT !.acc[a] = @ + 1]
    /\ stale' = IF changed THEN stale \cup Downstream(a) ELSE stale
    /\ UNCHANGED <<source, head, revision, phase, scope, cycle, baseline,
                   target, quals, val, gate, op>>

\* freeze_baseline; with sameId the row of the latest baseline is rewritten
\* and its id keeps the confirmation event it had.
FreezeBaseline(sameId) ==
    /\ Mutable
    /\ revision < MaxRevision
    /\ sameId => baseline # None
    /\ revision' = revision + 1
    /\ scope' = "unconfirmed"
    /\ baseline' = [graph |-> graph, revision |-> revision + 1,
                    confirmation |-> IF sameId THEN baseline.confirmation ELSE None]
    /\ UNCHANGED <<source, head, phase, cycle, graph, target, quals, val,
                   gate, stale, op>>

\* Mutant of ConfirmBaseline: project.revision is not bumped.
ConfirmBaseline_NoBump ==
    /\ Mutable
    /\ revision < MaxRevision
    /\ revision' = revision
    /\ scope' = "confirmed"
    /\ baseline' = [graph |-> graph, revision |-> revision,
                    confirmation |-> [graph |-> graph, revision |-> revision]]
    /\ UNCHANGED <<source, head, phase, cycle, graph, target, quals, val,
                   gate, stale, op>>

ConfirmBaseline ==
    /\ Mutable
    /\ revision < MaxRevision
    /\ revision' = revision + 1
    /\ scope' = "confirmed"
    /\ baseline' = [graph |-> graph, revision |-> revision + 1,
                    confirmation |-> [graph |-> graph, revision |-> revision + 1]]
    /\ UNCHANGED <<source, head, phase, cycle, graph, target, quals, val,
                   gate, stale, op>>

\* confirm_scope: confirms the latest baseline without writing it again.
ConfirmScope ==
    /\ Mutable
    /\ revision < MaxRevision
    /\ baseline # None
    /\ baseline.graph = graph
    /\ revision' = revision + 1
    /\ scope' = "confirmed"
    /\ baseline' = [baseline EXCEPT !.confirmation =
                        [graph |-> baseline.graph, revision |-> revision + 1]]
    /\ UNCHANGED <<source, head, phase, cycle, graph, target, quals, val,
                   gate, stale, op>>

-----------------------------------------------------------------------------
(* Targets, qualifications and validations. *)

\* add_test_target with another definition: nothing that depends on the
\* target is invalidated, its digest just stops matching.
RegisterTarget(t, d) ==
    /\ Mutable
    /\ target[t] # d
    /\ target' = [target EXCEPT ![t] = d]
    /\ UNCHANGED <<source, head, revision, phase, scope, cycle, graph,
                   baseline, quals, val, gate, stale, op>>

\* qualify_test_target with a new id (with a known id it changes nothing).
Qualify(a, t) ==
    /\ Mutable
    /\ Len(quals) < MaxQuals
    /\ quals' = Append(quals, [acceptance |-> a, target |-> t,
                               rev |-> graph.acc[a], digest |-> target[t]])
    /\ UNCHANGED <<source, head, revision, phase, scope, cycle, graph,
                   baseline, target, val, gate, stale, op>>

\* verify_run up to the command: what it read is in op.
VerifyStart(i) ==
    /\ Mutable
    /\ CurrentQualification(i)
    /\ target[quals[i].target] \in Gateable
    /\ op' = [kind |-> "verify", qual |-> i, candidate |-> source]
    /\ UNCHANGED <<source, head, facts, val>>

\* The command passed: the candidate, the target and the qualification are
\* read again, then the execution and the validation are inserted, the active
\* validation of the same surface and acceptance is superseded and the
\* invalidations the acceptance caused are resolved.
VerifyCommit ==
    /\ op # None
    /\ op.kind = "verify"
    /\ source = op.candidate
    /\ CurrentQualification(op.qual)
    /\ LET a == quals[op.qual].acceptance
           t == quals[op.qual].target
       IN  /\ val' = [val EXCEPT ![a][t] =
                        [candidate |-> op.candidate, qual |-> op.qual,
                         seen |-> graph, intact |-> TRUE]]
           /\ stale' = stale \ ({a} \X {"work", "quality_gate"})
    /\ op' = None
    /\ UNCHANGED <<source, head, revision, phase, scope, cycle, graph,
                   baseline, target, quals, gate>>

\* record_validation: a judgment supersedes the active validation of its
\* surface and resolves the acceptance's invalidations, whatever its result.
RecordValidation(a, surfaces) ==
    /\ Mutable
    /\ val' = [val EXCEPT ![a] =
                 [t \in Targets |-> IF t \in surfaces THEN None ELSE val[a][t]]]
    /\ stale' = stale \ ({a} \X {"work", "quality_gate"})
    /\ UNCHANGED <<source, head, revision, phase, scope, cycle, graph,
                   baseline, target, quals, gate, op>>

-----------------------------------------------------------------------------
(* Gate, readiness, delivery. *)

\* record_gate up to the checks of its transaction.
GateStart(result, Q) ==
    /\ Mutable
    /\ result = "pass" => ~Dirty
    /\ \A i \in Q : Eligible(i, source)
    /\ op' = [kind |-> "gate", result |-> result, quals |-> Q, candidate |-> source]
    /\ UNCHANGED <<source, head, facts, val>>

\* The check before the commit passed: source and evidence are as reviewed.
GateCommit ==
    /\ op # None
    /\ op.kind = "gate"
    /\ source = op.candidate
    /\ \A i \in op.quals : Eligible(i, op.candidate)
    /\ gate' = [gate EXCEPT ![op.candidate] =
                  [result |-> op.result, quals |-> op.quals,
                   revision |-> revision, seen |-> graph]]
    /\ stale' = IF op.result = "pass"
                THEN {x \in stale : x[2] # "quality_gate"} ELSE stale
    /\ op' = None
    /\ UNCHANGED <<source, head, revision, phase, scope, cycle, graph,
                   baseline, target, quals, val>>

\* Mutant of EnterReadiness: project.status is written to the phase.
EnterReadiness_StatusAsPhase ==
    /\ Mutable
    /\ Prerequisites(source)
    /\ phase' = "ready-for-delivery"
    /\ UNCHANGED <<source, head, revision, scope, cycle, graph, baseline,
                   target, quals, val, gate, stale, op>>

EnterReadiness ==
    /\ Mutable
    /\ Prerequisites(source)
    /\ phase' = "delivery_readiness"
    /\ UNCHANGED <<source, head, revision, scope, cycle, graph, baseline,
                   target, quals, val, gate, stale, op>>

\* transition_phase past readiness; the cycle stays active in every phase.
TransitionPhase(p) ==
    /\ Mutable
    /\ <<phase, p>> \in {<<"delivery_readiness", "retrospective">>,
                        <<"retrospective", "archived">>}
    /\ phase' = p
    /\ UNCHANGED <<source, head, revision, scope, cycle, graph, baseline,
                   target, quals, val, gate, stale, op>>

\* record_delivery: the record-delivery evaluation ...
DeliverStart ==
    /\ Mutable
    /\ phase = "delivery_readiness"
    /\ Prerequisites(source)
    /\ op' = [kind |-> "deliver", candidate |-> source, stage |-> "evaluated",
              unseen |-> {}]
    /\ UNCHANGED <<source, head, facts, val>>

Delivering(stage) == op # None /\ op.kind = "deliver" /\ op.stage = stage

\* Mutant of DeliverRecheck: the evaluation of DeliverStart is trusted.
DeliverRecheck_Trusts ==
    /\ Delivering("evaluated")
    /\ op' = [op EXCEPT !.stage = "rechecked", !.unseen = {}]
    /\ UNCHANGED <<source, head, facts, val>>

\* ... the candidate compared and the written rows evaluated as those of a
\* delivered cycle, when the body ends and again when the transaction is about
\* to commit ...
DeliverRecheck ==
    /\ Delivering("evaluated")
    /\ source = op.candidate
    /\ Prerequisites(op.candidate)
    /\ DeliveredConsistent(op.candidate)
    /\ op' = [op EXCEPT !.stage = "rechecked", !.unseen = {}]
    /\ UNCHANGED <<source, head, facts, val>>

\* Mutant of DeliverConfirm: the candidate is not compared once more.
DeliverConfirm_Trusts ==
    /\ Delivering("rechecked")
    /\ op' = [op EXCEPT !.stage = "confirmed", !.unseen = @ \ {"source"}]
    /\ UNCHANGED <<source, head, facts, val>>

\* ... the last look of that evaluation, at the candidate alone ...
DeliverConfirm ==
    /\ Delivering("rechecked")
    /\ source = op.candidate
    /\ op' = [op EXCEPT !.stage = "confirmed", !.unseen = @ \ {"source"}]
    /\ UNCHANGED <<source, head, facts, val>>

\* ... and the commit, which asks for nothing any more.
DeliverCommit ==
    /\ Delivering("confirmed")
    /\ cycle' = [status |-> "delivered", candidate |-> op.candidate]
    /\ op' = None
    /\ UNCHANGED <<source, head, revision, phase, scope, graph, baseline,
                   target, quals, val, gate, stale>>

\* The command fails, a check refuses, a deadline passes or the process dies:
\* the transaction is rolled back and the operation lock is released.
Abort ==
    /\ op # None
    /\ op' = None
    /\ UNCHANGED <<source, head, facts, val>>

\* cycle_close with status archived.
Archive ==
    /\ Mutable
    /\ revision < MaxRevision
    /\ cycle' = [status |-> "archived", candidate |-> source]
    /\ phase' = "archived"
    /\ revision' = revision + 1
    /\ UNCHANGED <<source, head, scope, graph, baseline, target, quals, val,
                   gate, stale, op>>

-----------------------------------------------------------------------------
Environment ==
    \/ \E s \in Sources : EditSource(s)
    \/ CommitSource
    \/ \E a \in Acceptances, t \in Targets : LoseArtifact(a, t)

Next ==
    \/ Environment
    \/ \E changed \in BOOLEAN : RewriteRequirement(changed)
    \/ \E a \in Acceptances, changed \in BOOLEAN : RewriteAcceptance(a, changed)
    \/ \E sameId \in BOOLEAN : FreezeBaseline(sameId)
    \/ ConfirmBaseline
    \/ ConfirmScope
    \/ \E t \in Targets, d \in Digests : RegisterTarget(t, d)
    \/ \E a \in Acceptances, t \in Targets : Qualify(a, t)
    \/ \E i \in DOMAIN quals : VerifyStart(i)
    \/ VerifyCommit
    \/ \E a \in Acceptances, t \in SUBSET Targets : RecordValidation(a, t)
    \/ \E result \in {"pass", "fail"}, Q \in SUBSET DOMAIN quals : GateStart(result, Q)
    \/ GateCommit
    \/ EnterReadiness
    \/ \E p \in {"retrospective", "archived"} : TransitionPhase(p)
    \/ DeliverStart
    \/ DeliverRecheck
    \/ DeliverConfirm
    \/ DeliverCommit
    \/ Abort
    \/ Archive

Spec == Init /\ [][Next]_vars

-----------------------------------------------------------------------------
(* Properties. *)

\* The independent review that lets a cycle close as delivered was a review
\* of the very requirement and acceptance revisions that are delivered,
\* although record_gate stores only project.revision and the graph and the
\* baseline change without it (record_gate, evaluate_delivery_report).
DeliveredScopeWasReviewed ==
    cycle.status = "delivered" =>
        /\ gate[cycle.candidate] # None
        /\ gate[cycle.candidate].seen = graph
        /\ baseline.graph = graph

\* The candidates whose active gate passed, and what the gate saw.
Passed == {s \in Sources : gate[s] # None /\ gate[s].result = "pass"}
Reviewed == {<<s, gate[s].seen>> : s \in Passed}

Cycle == INSTANCE DeliveryCycle WITH
    Candidates <- Sources,
    subject <- graph,
    reviewed <- Reviewed,
    delivered <- IF cycle.status = "delivered" THEN {cycle.candidate} ELSE {},
    closed <- cycle.status # "active"

\* The chain keeps the promise of a delivery cycle: what it delivers is what
\* the last, passing review of the candidate saw, however the graph was
\* rewritten, frozen and confirmed since, and nothing moves once the cycle is
\* closed (record_gate, record_delivery, cycle_close).
ImplementsDeliveryCycle == Cycle!CycleSpec

\* Qualification i shows acceptance a for candidate c.
DeliveredBy(a, i, c) ==
    /\ i \in DOMAIN quals
    /\ quals[i].acceptance = a
    /\ quals[i].digest = target[quals[i].target]
    /\ EvidenceOf(i) # None
    /\ EvidenceOf(i).qual = i
    /\ EvidenceOf(i).candidate = c
    /\ EvidenceOf(i).seen.acc[a] = graph.acc[a]

\* Each criterion of a delivered cycle has an execution of the delivered
\* candidate that ran after the criterion last changed, with the definition
\* the target still has, and that the passing gate reviewed (verify_run,
\* qualified_validation_execution_issues, _structured_prerequisite_blockers).
DeliveredEvidenceIsFresh ==
    cycle.status = "delivered" =>
        \A a \in Acceptances :
            \E i \in gate[cycle.candidate].quals : DeliveredBy(a, i, cycle.candidate)

\* Every acceptance has an execution of candidate c whose artifact is there.
ArtifactsInPlace(c) ==
    \A a \in Acceptances : \E t \in Targets :
        /\ val[a][t] # None
        /\ val[a][t].intact
        /\ val[a][t].candidate = c

\* What the closing step calls delivered is in the worktree, is the last commit
\* and has its artifacts, each except for a change that came after the last look
\* at it.
MissesOnlyLateChanges ==
    (cycle.status = "active" /\ cycle'.status = "delivered") =>
        /\ "source" \notin op.unseen => source = cycle'.candidate
        /\ "head" \notin op.unseen => head = cycle'.candidate
        /\ "artifacts" \notin op.unseen => ArtifactsInPlace(cycle'.candidate)

\* No lock is held on the worktree and the artifacts, so a delivery can be
\* committed for a source that was edited a moment before. But it is wrong about
\* nothing that changed earlier, however source, commits and artifacts moved, also
\* to and fro, since readiness was entered: a change is missed only between the
\* last look at what it changed and the commit (record_delivery,
\* revalidate_delivery_before_commit, evaluate_delivery_report).
DeliveryMissesOnlyLateChanges == [][MissesOnlyLateChanges]_vars

\* The step loses an artifact at most, if the cycle is closed.
LeavesClosedCycle ==
    cycle.status # "active" =>
        /\ UNCHANGED facts
        /\ \A a \in Acceptances, t \in Targets :
              val'[a][t] # val[a][t] =>
                  /\ val[a][t] # None
                  /\ val'[a][t] = [val[a][t] EXCEPT !.intact = FALSE]

\* Nothing the database stores about a closed cycle changes any more, by no
\* operation, in flight or new (_require_active_cycle_for_mutation).
ClosedCycleIsFrozen == [][LeavesClosedCycle]_vars

\* "the old qualification and dependent validation become stale for delivery
\* without rewriting historical rows" (spec.md:609): a ready cycle whose
\* prerequisites hold can be recorded, whatever superseded rows it keeps.
StaleQualificationDoesNotBlockDelivery ==
    (/\ cycle.status = "active"
     /\ phase = "delivery_readiness"
     /\ Prerequisites(source)) => QualificationsLive

\* "Requirement, acceptance, or failure-mode changes invalidate dependent
\* validation and gate records until fresh evidence is recorded"
\* (independent-quality-gate/SKILL.md:85): executions and a passing gate that
\* all saw the current graph leave no invalidation behind.
FreshEvidenceClearsInvalidations ==
    (/\ cycle.status = "active"
     /\ BaselineConfirmed
     /\ GatePasses(source)
     /\ Proven(source)
     /\ gate[source].seen = graph
     /\ \A i \in gate[source].quals : EvidenceOf(i) # None /\ EvidenceOf(i).seen = graph)
    => stale = {}
=============================================================================
