---------------------------- MODULE ReviewLedger ----------------------------
(***************************************************************************)
(* What a delivery may leave unresolved: findings, failure modes, the      *)
(* acceptances of both that expire, and the quality gate that reviewed     *)
(* them (scripts/harness_db.py), as judged by the delivery policy of       *)
(* core/delivery.py when the delivery is recorded and again by every later *)
(* audit of the closed cycle.                                              *)
(*                                                                         *)
(* Findings are keyed by a global id and gates by candidate, both survive  *)
(* their cycle, and an acceptance holds for one project revision until its *)
(* expiry.  Rows are rewritten, the revision moves, the clock runs and the *)
(* source is edited in between.                                            *)
(*                                                                         *)
(* Simplifications.                                                        *)
(*  - One criterion on one target: evidence is its active validation with  *)
(*    the failure modes the validation names.  Module EvidenceChain has    *)
(*    the execution behind it, the uncommitted worktree and the gate's     *)
(*    qualifications, module TaskGraph the lifecycle and the phases; any   *)
(*    delivery this module forbids the code forbids.                       *)
(*  - high stands for high and critical, resolved for resolved and         *)
(*    false-positive, accepted for accepted and exempt.  An acceptance has *)
(*    its actor, reason and scope.                                         *)
(*  - A gate that names blocking findings in words is one that fails.      *)
(*  - Time is a clock that the operations read once.                       *)
(***************************************************************************)
EXTENDS Naturals, Sequences

CONSTANTS
    Tasks,           \* tasks of a cycle
    Contexts,        \* context ids of producers and reviewers
    Findings,        \* finding ids, global to the database
    Modes,           \* failure mode ids of a cycle
    Levels,          \* the risk levels and severities in use
    Sources,         \* content identities of the project source
    NoContext,       \* the reviewer of a gate without a fresh context
    MaxCycle, MaxRevision, MaxModeRev, MaxTime, MaxGates     \* bounds

ASSUME LevelsAssumption == Levels \subseteq {"low", "medium", "high"}
ASSUME NoContextAssumption == NoContext \notin Contexts
ASSUME MaxCycleAssumption == MaxCycle \in Nat \ {0}

Cycles == 1 .. MaxCycle

VARIABLES
    source,      \* content of the project source now
    now,         \* the clock
    current,     \* project.current_cycle_id
    revision,    \* project.revision
    baseline,    \* the current cycle's latest baseline, against the graph now
    status,      \* delivery_cycles.status
    work,        \* status and submitting context of every task
    evidence,    \* the active validation of a cycle's criterion
    mode,        \* failure_modes
    stale,       \* unresolved invalidations that failure modes caused
    finding,     \* findings
    gates,       \* quality_gates, in sequence order
    superseded,  \* the gates whose gate_status is superseded
    delivered    \* the delivery record of every cycle

project == <<current, revision, baseline, status>>
vars == <<source, now, project, work, evidence, mode, stale, finding, gates,
          superseded, delivered>>

None == [none |-> TRUE]

Assignments == [status : {"open", "submitted", "accepted", "dropped"},
                context : Contexts \cup {NoContext}]
Validations == [candidate : Sources, modes : SUBSET Modes]
FailureModes == [level : Levels, status : {"identified", "accepted"},
                 revision : Nat, expires : Nat, rev : Nat]
FindingRows == [cycle : Cycles, candidate : Sources, severity : Levels,
                status : {"open", "accepted", "resolved"},
                revision : Nat, expires : Nat]
\* seen is a history component: the failure modes at the moment of the review.
Gates == [cycle : Cycles, candidate : Sources, result : {"pass", "fail"},
          producers : SUBSET Contexts, reviewer : Contexts \cup {NoContext},
          review : {"reviewed-local", "same-context-degraded"},
          findings : SUBSET Findings, revision : Nat,
          seen : [Modes -> FailureModes \cup {None}]]
\* gate is a history component: the gate the delivery was decided on.
Deliveries == [candidate : Sources, revision : Nat, at : Nat, gate : Nat]

TypeOK ==
    /\ source \in Sources
    /\ now \in Nat
    /\ current \in Cycles
    /\ revision \in Nat
    /\ baseline \in {"outdated", "frozen", "confirmed"}
    /\ status \in [Cycles -> {"unstarted", "active", "delivered", "archived"}]
    /\ work \in [Cycles -> [Tasks -> Assignments]]
    /\ evidence \in [Cycles -> Validations \cup {None}]
    /\ mode \in [Cycles -> [Modes -> FailureModes \cup {None}]]
    /\ stale \subseteq Cycles \X Modes \X {"work", "quality_gate"}
    /\ finding \in [Findings -> FindingRows \cup {None}]
    /\ gates \in Seq(Gates)
    /\ superseded \subseteq Nat
    /\ delivered \in [Cycles -> Deliveries \cup {None}]

Init ==
    /\ source \in Sources
    /\ now = 0
    /\ current = 1
    /\ revision = 1
    /\ baseline = "outdated"
    /\ status = [c \in Cycles |-> IF c = 1 THEN "active" ELSE "unstarted"]
    /\ work = [c \in Cycles |->
                 [t \in Tasks |-> [status |-> "open", context |-> NoContext]]]
    /\ evidence = [c \in Cycles |-> None]
    /\ mode = [c \in Cycles |-> [m \in Modes |-> None]]
    /\ stale = {}
    /\ finding = [f \in Findings |-> None]
    /\ gates = <<>>
    /\ superseded = {}
    /\ delivered = [c \in Cycles |-> None]

-----------------------------------------------------------------------------
(* What the operations read. *)

\* Every mutation but the start of a cycle refuses a closed one.
Mutable == status[current] = "active"

\* The contexts that submitted the work of cycle c, as record_gate reads them.
Producers(c) ==
    {work[c][t].context : t \in {u \in Tasks :
        work[c][u].status \in {"submitted", "accepted"}}} \ {NoContext}

\* Mutant of ReviewStatus: the third status, which only evaluate_local_trust
\* knows and record_gate never writes.
ReviewStatus_Controller(reviewer, producers) ==
    IF reviewer # NoContext /\ producers # {}
    THEN "controller-verified" ELSE "same-context-degraded"

\* A fresh reviewer of work nobody submitted has reviewed nobody's work.
ReviewStatus(reviewer, producers) ==
    IF reviewer # NoContext /\ producers # {}
    THEN "reviewed-local" ELSE "same-context-degraded"

\* Mutant of IsLatestGate: the last gate that passed, superseded or not.
IsLatestGate_Passed(i, c, s) ==
    /\ i \in DOMAIN gates
    /\ <<gates[i].cycle, gates[i].candidate, gates[i].result>> = <<c, s, "pass">>
    /\ \A j \in DOMAIN gates :
        <<gates[j].cycle, gates[j].candidate, gates[j].result>> = <<c, s, "pass">>
            => j <= i

\* The active gate of cycle c and candidate s with the highest sequence.
IsLatestGate(i, c, s) ==
    /\ i \in DOMAIN gates \ superseded
    /\ gates[i].cycle = c
    /\ gates[i].candidate = s
    /\ \A j \in DOMAIN gates \ superseded :
        (gates[j].cycle = c /\ gates[j].candidate = s) => j <= i

\* Mutant of Agree: the candidates are not compared.
Agree_CycleOnly(g, f) == finding[f].cycle = g.cycle

\* A gate and a finding it links are of one cycle and one candidate.
Agree(g, f) ==
    /\ finding[f].cycle = g.cycle
    /\ finding[f].candidate = g.candidate

Coherent(c) ==
    \A i \in DOMAIN gates : gates[i].cycle = c =>
        \A f \in gates[i].findings : Agree(gates[i], f)

-----------------------------------------------------------------------------
(* The delivery policy, for candidate s of cycle c at project revision r   *)
(* and time at: _evaluate_local_delivery_policy and evaluate_local_trust.  *)

\* An acceptance answers for one revision until its expiry.
Waived(row, r, at) ==
    /\ row.status = "accepted"
    /\ row.revision = r
    /\ row.expires > at

Unresolved(f, c, s) ==
    /\ finding[f] # None
    /\ finding[f].cycle = c
    /\ finding[f].candidate = s
    /\ finding[f].severity # "low"
    /\ finding[f].status # "resolved"

FindingsAnswered(c, s, r, at) ==
    \A f \in Findings : Unresolved(f, c, s) => Waived(finding[f], r, at)

Covered(m, c, s) ==
    /\ evidence[c] # None
    /\ evidence[c].candidate = s
    /\ m \in evidence[c].modes

\* A medium mode is covered or accepted, a high one is always accepted.
ModesAnswered(c, s, r, at) ==
    \A m \in Modes : (mode[c][m] # None /\ mode[c][m].level # "low") =>
        /\ mode[c][m].status = "identified" => Covered(m, c, s)
        /\ (mode[c][m].level = "high" \/ mode[c][m].status = "accepted")
                => Waived(mode[c][m], r, at)

HighRisk(c, s) ==
    \/ \E m \in Modes : mode[c][m] # None /\ mode[c][m].level = "high"
    \/ \E f \in Findings : Unresolved(f, c, s) /\ finding[f].severity = "high"

ReviewSuffices(g, c, s) ==
    /\ HighRisk(c, s) => g.review = "reviewed-local"
    /\ g.review = "reviewed-local" =>
        /\ g.producers # {}
        /\ g.reviewer \notin g.producers \cup {NoContext}

Policy(i, c, s, r, at) ==
    /\ IsLatestGate(i, c, s)
    /\ gates[i].result = "pass"
    /\ gates[i].revision = r
    /\ ReviewSuffices(gates[i], c, s)
    /\ FindingsAnswered(c, s, r, at)
    /\ ModesAnswered(c, s, r, at)

\* Mutant of AuditTime: the audit judges expiries by the clock.
AuditTime_Now(c) == now

\* The audit of a closed cycle judges expiries as of the delivery event.
AuditTime(c) == delivered[c].at

\* evaluate_historical_cycle_report, on the facts of this module.
AuditClean(c) ==
    /\ Coherent(c)
    /\ \E i \in DOMAIN gates :
        Policy(i, c, delivered[c].candidate, delivered[c].revision, AuditTime(c))

-----------------------------------------------------------------------------
(* Outside the database. *)

EditSource(s) ==
    /\ s # source
    /\ source' = s
    /\ UNCHANGED <<now, project, work, evidence, mode, stale, finding, gates,
                   superseded, delivered>>

Tick ==
    /\ now < MaxTime
    /\ now' = now + 1
    /\ UNCHANGED <<source, project, work, evidence, mode, stale, finding,
                   gates, superseded, delivered>>

-----------------------------------------------------------------------------
(* The graph and its baseline. *)

\* A requirement or a criterion is recorded, linked or rewritten.
RewriteGraph ==
    /\ Mutable
    /\ baseline' = "outdated"
    /\ UNCHANGED <<source, now, current, revision, status, work, evidence,
                   mode, stale, finding, gates, superseded, delivered>>

FreezeBaseline ==
    /\ Mutable
    /\ revision < MaxRevision
    /\ revision' = revision + 1
    /\ baseline' = "frozen"
    /\ UNCHANGED <<source, now, current, status, work, evidence, mode, stale,
                   finding, gates, superseded, delivered>>

\* The accepted modes of the current cycle are bound to revision r.
Rebound(r) ==
    [mode EXCEPT ![current] =
        [m \in Modes |->
            IF mode[current][m] # None /\ mode[current][m].status = "accepted"
            THEN [mode[current][m] EXCEPT !.revision = r]
            ELSE mode[current][m]]]

\* Mutant of ConfirmBaseline: project.revision is not bumped.
ConfirmBaseline_NoBump ==
    /\ Mutable
    /\ baseline' = "confirmed"
    /\ mode' = Rebound(revision)
    /\ UNCHANGED <<source, now, current, revision, status, work, evidence,
                   stale, finding, gates, superseded, delivered>>

\* confirm_baseline writes a baseline of the graph as it is and carries the
\* accepted modes over to the new revision; findings keep the one they have.
ConfirmBaseline ==
    /\ Mutable
    /\ revision < MaxRevision
    /\ revision' = revision + 1
    /\ baseline' = "confirmed"
    /\ mode' = Rebound(revision + 1)
    /\ UNCHANGED <<source, now, current, status, work, evidence, stale,
                   finding, gates, superseded, delivered>>

\* confirm_scope confirms a baseline that is still current and carries no
\* acceptance over.
ConfirmScope ==
    /\ Mutable
    /\ baseline # "outdated"
    /\ revision < MaxRevision
    /\ revision' = revision + 1
    /\ baseline' = "confirmed"
    /\ UNCHANGED <<source, now, current, status, work, evidence, mode, stale,
                   finding, gates, superseded, delivered>>

-----------------------------------------------------------------------------
(* Work and its evidence. *)

\* submit_task: a task that was blocked or cancelled comes back as another.
SubmitTask(t, context) ==
    /\ Mutable
    /\ work[current][t].status = "open"
    /\ work' = [work EXCEPT ![current][t] =
                  [status |-> "submitted", context |-> context]]
    /\ UNCHANGED <<source, now, project, evidence, mode, stale, finding,
                   gates, superseded, delivered>>

\* accept_task (accepted) and block_task or cancel_task (dropped).
SettleTask(t, settled) ==
    /\ Mutable
    /\ work[current][t].status = "submitted"
    /\ work' = [work EXCEPT ![current][t] =
                  [status |-> settled, context |-> work[current][t].context]]
    /\ UNCHANGED <<source, now, project, evidence, mode, stale, finding,
                   gates, superseded, delivered>>

ResolvedBy(modes) == {x \in stale : x[1] = current /\ x[2] \in modes}

\* verify_run that names failure modes: the new validation supersedes the
\* active one, of whatever candidate.
Verify(modes) ==
    /\ Mutable
    /\ \A m \in modes : mode[current][m] # None
    /\ evidence' = [evidence EXCEPT ![current] =
                      [candidate |-> source, modes |-> modes]]
    /\ stale' = stale \ ResolvedBy(modes)
    /\ UNCHANGED <<source, now, project, work, mode, finding, gates,
                   superseded, delivered>>

\* record_validation: a judgment is no evidence, but it supersedes the
\* validation of its surface and criterion and resolves invalidations.
RecordJudgment(modes, sameSurface) ==
    /\ Mutable
    /\ \A m \in modes : mode[current][m] # None
    /\ evidence' = IF sameSurface THEN [evidence EXCEPT ![current] = None]
                                  ELSE evidence
    /\ stale' = stale \ ResolvedBy(modes)
    /\ UNCHANGED <<source, now, project, work, mode, finding, gates,
                   superseded, delivered>>

-----------------------------------------------------------------------------
(* Failure modes, findings, gates. *)

\* What a change of mode m invalidates: the tasks and validations that name
\* it, if any do, and the gates of the cycle.
Invalidated(m, named) ==
    (IF named THEN {<<current, m, "work">>} ELSE {})
        \cup (IF \E i \in DOMAIN gates : gates[i].cycle = current
              THEN {<<current, m, "quality_gate">>} ELSE {})

\* _record_failure_mode_conn: the row is written again and with it the
\* baseline's digest changes; dependents are invalidated when its text, level
\* or status did. An acceptance is bound to the revision it is recorded at,
\* whatever its expiry.
RecordMode(m, level, stat, expires, rewritten, named) ==
    LET old == mode[current][m]
    IN  /\ Mutable
        /\ old # None => old.rev < MaxModeRev
        /\ mode' = [mode EXCEPT ![current][m] =
              [level |-> level, status |-> stat,
               revision |-> IF stat = "accepted" THEN revision ELSE 0,
               expires |-> IF stat = "accepted" THEN expires ELSE 0,
               rev |-> IF old = None THEN 1 ELSE old.rev + 1]]
        /\ stale' =
              IF old # None
                 /\ (rewritten \/ old.level # level \/ old.status # stat)
              THEN stale \cup Invalidated(m, named) ELSE stale
        /\ baseline' = "outdated"
        /\ UNCHANGED <<source, now, current, revision, status, work, evidence,
                       finding, gates, superseded, delivered>>

\* Mutant of RecordFinding: the id of another cycle is taken over.
RecordFinding_AnyCycle(f, severity, stat, r, expires) ==
    /\ Mutable
    /\ finding' = [finding EXCEPT ![f] =
          [cycle |-> current, candidate |-> source, severity |-> severity,
           status |-> stat,
           revision |-> IF stat = "accepted" THEN r ELSE 0,
           expires |-> IF stat = "accepted" THEN expires ELSE 0]]
    /\ UNCHANGED <<source, now, project, work, evidence, mode, stale, gates,
                   superseded, delivered>>

\* record_finding: a known id of this cycle is written again, for the
\* candidate of now; the revision of a waiver is the caller's.
RecordFinding(f, severity, stat, r, expires) ==
    /\ Mutable
    /\ finding[f] # None => finding[f].cycle = current
    /\ finding' = [finding EXCEPT ![f] =
          [cycle |-> current, candidate |-> source, severity |-> severity,
           status |-> stat,
           revision |-> IF stat = "accepted" THEN r ELSE 0,
           expires |-> IF stat = "accepted" THEN expires ELSE 0]]
    /\ UNCHANGED <<source, now, project, work, evidence, mode, stale, gates,
                   superseded, delivered>>

\* record_gate: it may link findings of this cycle and candidate, takes the
\* place of the active gate of the candidate, and if it passes it resolves
\* the invalidations of the cycle's gates.
RecordGate(reviewer, result, linked) ==
    /\ Mutable
    /\ Len(gates) < MaxGates
    /\ reviewer \notin Producers(current)
    /\ \A f \in linked :
        /\ finding[f] # None
        /\ finding[f].cycle = current
        /\ finding[f].candidate = source
    /\ gates' = Append(gates,
          [cycle |-> current, candidate |-> source, result |-> result,
           producers |-> Producers(current), reviewer |-> reviewer,
           review |-> ReviewStatus(reviewer, Producers(current)),
           findings |-> linked, revision |-> revision,
           seen |-> mode[current]])
    /\ superseded' = superseded \cup
          {i \in DOMAIN gates : IsLatestGate(i, current, source)}
    /\ stale' = IF result = "pass"
                THEN {x \in stale : x[1] # current \/ x[3] # "quality_gate"}
                ELSE stale
    /\ UNCHANGED <<source, now, project, work, evidence, mode, finding,
                   delivered>>

-----------------------------------------------------------------------------
(* The cycles. *)

\* record_delivery: the canonical prerequisites, the invariants of every
\* cycle, and the policy on the latest gate.
Deliver(i) ==
    /\ Mutable
    /\ baseline = "confirmed"
    /\ \E t \in Tasks : work[current][t].status = "accepted"
    /\ evidence[current] # None
    /\ evidence[current].candidate = source
    /\ \A x \in stale : x[1] # current
    /\ \A c \in Cycles : Coherent(c)
    /\ Policy(i, current, source, revision, now)
    /\ status' = [status EXCEPT ![current] = "delivered"]
    /\ delivered' = [delivered EXCEPT ![current] =
          [candidate |-> source, revision |-> revision, at |-> now, gate |-> i]]
    /\ UNCHANGED <<source, now, current, revision, baseline, work, evidence,
                   mode, stale, finding, gates, superseded>>

\* cycle_close.
Archive ==
    /\ Mutable
    /\ revision < MaxRevision
    /\ revision' = revision + 1
    /\ status' = [status EXCEPT ![current] = "archived"]
    /\ UNCHANGED <<source, now, current, baseline, work, evidence, mode,
                   stale, finding, gates, superseded, delivered>>

\* cycle_start: the new cycle has no facts, and the old rows stay.
StartCycle ==
    /\ status[current] \in {"delivered", "archived"}
    /\ current < MaxCycle
    /\ revision < MaxRevision
    /\ current' = current + 1
    /\ revision' = revision + 1
    /\ baseline' = "outdated"
    /\ status' = [status EXCEPT ![current + 1] = "active"]
    /\ UNCHANGED <<source, now, work, evidence, mode, stale, finding, gates,
                   superseded, delivered>>

Expiries == 1 .. MaxTime + 1

Next ==
    \/ \E s \in Sources : EditSource(s)
    \/ Tick
    \/ RewriteGraph
    \/ FreezeBaseline
    \/ ConfirmBaseline
    \/ ConfirmScope
    \/ \E t \in Tasks :
        \/ \E context \in Contexts \cup {NoContext} : SubmitTask(t, context)
        \/ \E settled \in {"accepted", "dropped"} : SettleTask(t, settled)
    \/ \E modes \in SUBSET Modes :
        \/ Verify(modes)
        \/ \E sameSurface \in BOOLEAN : RecordJudgment(modes, sameSurface)
    \/ \E m \in Modes, level \in Levels, stat \in {"identified", "accepted"},
          expires \in Expiries, rewritten, named \in BOOLEAN :
        RecordMode(m, level, stat, expires, rewritten, named)
    \/ \E f \in Findings, severity \in Levels,
          stat \in {"open", "accepted", "resolved"},
          r \in 1 .. MaxRevision, expires \in Expiries :
        RecordFinding(f, severity, stat, r, expires)
    \/ \E reviewer \in Contexts \cup {NoContext}, result \in {"pass", "fail"},
          linked \in SUBSET Findings : RecordGate(reviewer, result, linked)
    \/ \E i \in DOMAIN gates : Deliver(i)
    \/ Archive
    \/ StartCycle

Spec == Init /\ [][Next]_vars

-----------------------------------------------------------------------------
(* Properties. *)

Closed(c) == status[c] \in {"delivered", "archived"}

\* The active gates of cycle c that passed, and what they saw.
Passed(c) ==
    {i \in DOMAIN gates \ superseded : gates[i].cycle = c /\ gates[i].result = "pass"}
Reviewed(c) == {<<gates[i].candidate, gates[i].seen>> : i \in Passed(c)}

\* Each cycle as a delivery cycle that is about its failure modes.
Cycle(c) == INSTANCE DeliveryCycle WITH
    Candidates <- Sources,
    subject <- mode[c],
    reviewed <- Reviewed(c),
    delivered <- IF status[c] = "delivered" THEN {delivered[c].candidate} ELSE {},
    closed <- Closed(c)

\* Every cycle of the ledger keeps the promise of a delivery cycle, whatever
\* happens in the others and after it: it is delivered with the failure modes
\* that the last, passing review of its candidate saw (record_gate,
\* record_delivery, cycle_start).
ImplementsDeliveryCycles == \A c \in Cycles : Cycle(c)!CycleSpec

\* No finding that the deciding review names is left behind: each of them is
\* low, resolved, or waived for the revision that was delivered and past the
\* moment of the delivery, and stays so; also when the finding was recorded
\* again, for another candidate, after the review (record_gate,
\* record_finding, the invariants and _finding_blocks in record_delivery).
ReviewedFindingsAnswered ==
    \A c \in Cycles : status[c] = "delivered" =>
        \A f \in gates[delivered[c].gate].findings :
            \/ finding[f].severity = "low"
            \/ finding[f].status = "resolved"
            \/ Waived(finding[f], delivered[c].revision, delivered[c].at)

\* The facts of a closed cycle stay what they were, and so does the part of
\* the global tables that is about it: its findings are not taken over by
\* the id, its gates neither superseded nor added to (spec.md:737-739 and
\* _require_active_cycle_for_mutation).
ClosedHistoryStands ==
    [][\A c \in Cycles : Closed(c) =>
        /\ <<work'[c], evidence'[c], mode'[c], delivered'[c]>>
             = <<work[c], evidence[c], mode[c], delivered[c]>>
        /\ \A f \in Findings :
             (finding[f] # None /\ finding[f].cycle = c) => finding'[f] = finding[f]
        /\ \A i \in DOMAIN gates' : gates'[i].cycle = c =>
             /\ i \in DOMAIN gates
             /\ gates'[i] = gates[i]
             /\ i \in superseded' <=> i \in superseded]_vars

\* The last word on a candidate decides: the gate a delivery stands on passed
\* and no review of the same cycle and candidate came after it, so a later
\* failing one cannot be passed over (record_gate, and the latest gate of
\* _evaluate_local_delivery_policy).
LastReviewDecides ==
    \A c \in Cycles : status[c] = "delivered" =>
        LET g == delivered[c].gate
        IN  /\ gates[g].result = "pass"
            /\ \A j \in DOMAIN gates :
                 (/\ gates[j].cycle = c
                  /\ gates[j].candidate = delivered[c].candidate) => j <= g

\* The review saw the failure modes as they are delivered, every level,
\* acceptance and rewriting of them, although a new mode invalidates no gate
\* and a judgment alone resolves the invalidations of a changed one
\* (_record_failure_mode_conn, confirm_baseline, record_gate).
DeliveredRisksWereReviewed ==
    \A c \in Cycles : status[c] = "delivered" =>
        gates[delivered[c].gate].seen = mode[c]

\* A delivered cycle passes its audit for good: later cycles, edits of the
\* source and the running clock, which expires what was accepted, do not turn
\* it (evaluate_historical_cycle_report; spec.md:742-744).
DeliveredAuditsClean ==
    \A c \in Cycles : status[c] = "delivered" => AuditClean(c)

\* "A quality gate MUST link findings from its own cycle and candidate"
\* (src/openspec/specs/local-delivery-kernel/spec.md:740).
GateFindingsAgree == \A c \in Cycles : Coherent(c)
=============================================================================
