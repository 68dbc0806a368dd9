---------------------------- MODULE DeliveryPlan ----------------------------
(***************************************************************************)
(* Delivery plans (core/delivery_plan.py and apply_delivery_plan,          *)
(* verified_patch in scripts/harness_db.py): one document that stands for  *)
(* a requirement, an acceptance, a task, a test target, its qualification  *)
(* and, if it names a risk, a failure mode. Applying it writes all of them *)
(* in one transaction with a marker event; applying it again has to notice *)
(* that they are there, or that somebody changed them. A verified patch    *)
(* finds the graph of a plan, runs its target and reports the result.      *)
(*                                                                         *)
(* The rows a plan makes have ids derived from its own: inside a cycle for *)
(* most, with a stem that holds for the whole database for the target and  *)
(* the qualification. The texts of a plan are one value, its digest; a row *)
(* holds the value it was written with, or "other". Both calls hold the    *)
(* operation lock from end to end, the commands of operators come between. *)
(***************************************************************************)
EXTENDS Naturals, Sequences

CONSTANTS
    PlanIds,        \* the ids of plans
    Digests,        \* the contents a plan can have
    LastCycle,      \* bound: cycles are 1, the default one, .. LastCycle
    Stem,           \* the global stem of a plan in a cycle
    MaxPlanCalls,   \* bound on the calls that are made
    MaxPlanActs     \* bound on what operators and editors do

PlanCycles == 1 .. LastCycle

ASSUME LastCycleAssumption == LastCycle \in Nat \ {0}
\* Normalised ids differ, so their stems in one cycle do; a plan of the first
\* cycle may have the stem of another plan in a later one.
ASSUME StemAssumption ==
    \A c \in PlanCycles, p, q \in PlanIds : Stem[<<c, p>>] = Stem[<<c, q>>] => p = q
\* A digest and a plan id are not mistaken for what stands in their place.
ASSUME PlanValuesAssumption ==
    Digests \cap {"absent", "other"} = {} /\ "absent" \notin PlanIds
ASSUME PlanBoundsAssumption == MaxPlanCalls \in Nat /\ MaxPlanActs \in Nat

Plans == [id : PlanIds, digest : Digests, risk : BOOLEAN]
CyclePlans == PlanCycles \X PlanIds
Stems == {Stem[k] : k \in CyclePlans}
Sources == 0 .. 1

Absent == "absent"
Other == "other"
LocalKinds == {"requirement", "acceptance", "task", "failure-mode"}

Relations(risk) ==
    {"requirement-acceptance", "task-acceptance", "task-target"}
        \cup IF risk THEN {"risk-acceptance", "task-risk"} ELSE {}

InsertOrder(risk) ==
    IF risk
    THEN <<"requirement", "acceptance", "requirement-acceptance", "failure-mode", "task",
           "target", "task-target", "qualification", "project", "marker">>
    ELSE <<"requirement", "acceptance", "requirement-acceptance", "task",
           "target", "task-target", "qualification", "project", "marker">>

VARIABLES
    graph,          \* the database, as far as plans look at it
    saved,          \* the database before the transaction that is open
    planCycle,      \* the current cycle
    cycleOpen,      \* whether it is active
    source,         \* the content of the project source, one of two
    planStep,       \* where the call is
    plan,           \* the plan it is about
    todo,           \* what the transaction still has to write
    execution,      \* what the verification recorded
    answer,         \* the answer of the last call
    forecast,       \* the last dry run and its answer, while nothing changed
    reviewed,       \* the plans in the graph when scope was last confirmed
    planCalls,      \* calls made
    planActs        \* what operators and editors did

planVars == <<graph, saved, planCycle, cycleOpen, source, planStep, plan, todo,
              execution, answer, forecast, reviewed, planCalls, planActs>>

NoPlan == [id |-> Absent, digest |-> Absent, risk |-> FALSE]
NoRow == [cycle |-> 0, plan |-> Absent, revision |-> 0, definition |-> Absent]
NoExecution == [candidate |-> 0, definition |-> Absent, qualification |-> Absent]
NoForecast == [plan |-> NoPlan, answer |-> "none"]

Graphs ==
    [text : [LocalKinds \X CyclePlans -> Digests \cup {Absent, Other}],
     definition : [Stems -> Digests \cup {Absent, Other}],
     revision : [CyclePlans -> Nat],
     qualification : [Stems -> [cycle : 0 .. LastCycle,
                                plan : PlanIds \cup {Absent}, revision : Nat,
                                definition : Digests \cup {Absent, Other}]],
     newest : [CyclePlans -> {"none", "own", "other"}],
     relations : [CyclePlans -> SUBSET Relations(TRUE)],
     marker : [CyclePlans -> Plans \cup {NoPlan}],
     scope : {"confirmed", "unconfirmed"}]

PlansTypeOK ==
    /\ graph \in Graphs
    /\ saved \in Graphs
    /\ planCycle \in PlanCycles
    /\ cycleOpen \in BOOLEAN
    /\ source \in Sources
    /\ planStep \in {"idle", "inserting", "resolved", "sampled", "recorded"}
    /\ plan \in Plans \cup {NoPlan}
    /\ \E risk \in BOOLEAN, n \in 1 .. 12 :
           todo = SubSeq(InsertOrder(risk), n, Len(InsertOrder(risk)))
    /\ execution.candidate \in Sources
    /\ answer \in {"none", "forecast", "changed", "unchanged", "conflict", "refused",
                   "failed", "verified"}
    /\ forecast.plan \in Plans \cup {NoPlan}
    /\ reviewed \subseteq CyclePlans
    /\ planCalls \in 0 .. MaxPlanCalls
    /\ planActs \in 0 .. MaxPlanActs

EmptyGraph ==
    [text |-> [k \in LocalKinds \X CyclePlans |-> Absent],
     definition |-> [s \in Stems |-> Absent],
     revision |-> [k \in CyclePlans |-> 0],
     qualification |-> [s \in Stems |-> NoRow],
     newest |-> [k \in CyclePlans |-> "none"],
     relations |-> [k \in CyclePlans |-> {}],
     marker |-> [k \in CyclePlans |-> NoPlan],
     scope |-> "unconfirmed"]

PlansInit ==
    /\ graph = EmptyGraph
    /\ saved = EmptyGraph
    /\ planCycle = 1
    /\ cycleOpen = TRUE
    /\ source = 0
    /\ planStep = "idle"
    /\ plan = NoPlan
    /\ todo = <<>>
    /\ execution = NoExecution
    /\ answer = "none"
    /\ forecast = NoForecast
    /\ reviewed = {}
    /\ planCalls = 0
    /\ planActs = 0

-----------------------------------------------------------------------------
(* What the database says about a plan. A key is a cycle and a plan id. *)

Key(p) == <<planCycle, p>>

RowsOf(risk) == {"requirement", "acceptance", "task"}
                    \cup IF risk THEN {"failure-mode"} ELSE {}

\* Mutant of QualificationHolds: any qualification by that id will do.
QualificationHolds_AnyRevision(k) ==
    /\ graph.newest[k] = "own"
    /\ graph.qualification[Stem[k]].cycle = k[1]
    /\ graph.qualification[Stem[k]].plan = k[2]

\* The qualification the plan made is the latest one of its acceptance and its
\* target, and both are as they were then.
QualificationHolds(k) ==
    LET q == graph.qualification[Stem[k]]
    IN  /\ graph.newest[k] = "own"
        /\ q.cycle = k[1] /\ q.plan = k[2]
        /\ q.revision = graph.revision[k]
        /\ q.definition = graph.definition[Stem[k]]

\* The graph a marker stands for is there and still says what it said.
GraphHolds(k) ==
    LET m == graph.marker[k]
    IN  /\ \A kind \in RowsOf(m.risk) : graph.text[<<kind, k>>] = m.digest
        /\ graph.definition[Stem[k]] = m.digest
        /\ Relations(m.risk) \subseteq graph.relations[k]
        /\ QualificationHolds(k)

\* A row with one of the plan's ids is there already.
Collides(p, risk) ==
    \/ \E kind \in RowsOf(risk) : graph.text[<<kind, Key(p)>>] # Absent
    \/ graph.definition[Stem[Key(p)]] # Absent
    \/ graph.qualification[Stem[Key(p)]] # NoRow

\* The same look for a dry run and for an apply.
Preflight(pl) ==
    LET m == graph.marker[Key(pl.id)]
    IN  IF m = NoPlan
        THEN IF Collides(pl.id, pl.risk) THEN "conflict" ELSE "changed"
        ELSE IF m.risk = pl.risk /\ GraphHolds(Key(pl.id)) /\ m.digest = pl.digest
        THEN "unchanged" ELSE "conflict"

-----------------------------------------------------------------------------
(* Applying a plan. *)

MayCall == planStep = "idle" /\ planCalls < MaxPlanCalls /\ planCalls' = planCalls + 1

Answer(a) == planStep' = "idle" /\ answer' = a /\ todo' = <<>>

\* Mutant of Foresees: a dry run looks for the marker only.
Foresees_SkipsCollisions(pl) ==
    IF graph.marker[Key(pl.id)] = NoPlan THEN "changed" ELSE Preflight(pl)

Foresees(pl) == Preflight(pl)

\* Reads only. A database that does not exist yet is the empty one.
DryRun ==
    /\ MayCall
    /\ cycleOpen
    /\ \E pl \in Plans : /\ plan' = pl
                         /\ forecast' = [plan |-> pl, answer |-> Foresees(pl)]
    /\ answer' = "forecast"
    /\ UNCHANGED <<graph, saved, planCycle, cycleOpen, source, planStep, todo,
                   execution, reviewed, planActs>>

\* The transaction begins, the cycle and the rows are looked at.
BeginApply ==
    /\ MayCall
    /\ \E pl \in Plans :
           /\ plan' = pl
           /\ IF ~cycleOpen THEN Answer("refused")
              ELSE IF Preflight(pl) # "changed" THEN Answer(Preflight(pl))
              ELSE /\ planStep' = "inserting"
                   /\ todo' = InsertOrder(pl.risk)
                   /\ UNCHANGED answer
    /\ saved' = graph
    /\ forecast' = IF answer = "forecast" THEN forecast ELSE NoForecast
    /\ UNCHANGED <<graph, planCycle, cycleOpen, source, execution, reviewed, planActs>>

\* Mutant of Reopened: a new plan leaves the scope confirmed.
Reopened_KeepsScope == graph

\* Mutant of Reopened: the project's status is written as the scope's.
Reopened_Draft == [graph EXCEPT !.scope = "draft"]

\* The scope has to be confirmed again.
Reopened == [graph EXCEPT !.scope = "unconfirmed"]

\* The helpers that write the rows. Those of the plan's own rows refuse an id
\* that is there; a target with the same definition is kept, and so is the very
\* same qualification.
RowWritten(kind, links) ==
    [graph EXCEPT !.text[<<kind, Key(plan.id)>>] = plan.digest,
                  !.relations[Key(plan.id)] = @ \cup links]

RequirementWritten == RowWritten("requirement", {})

AcceptanceWritten ==
    [RowWritten("acceptance", {}) EXCEPT !.revision[Key(plan.id)] = 1]

RiskWritten == RowWritten("failure-mode", {"risk-acceptance"})

TaskWritten ==
    RowWritten("task", {"task-acceptance"} \cup IF plan.risk THEN {"task-risk"} ELSE {})

TargetWritten == [graph EXCEPT !.definition[Stem[Key(plan.id)]] = plan.digest]

OwnQualification ==
    [cycle |-> planCycle, plan |-> plan.id, revision |-> graph.revision[Key(plan.id)],
     definition |-> graph.definition[Stem[Key(plan.id)]]]

QualificationWritten ==
    [graph EXCEPT !.qualification[Stem[Key(plan.id)]] = OwnQualification,
                  !.newest[Key(plan.id)] = "own"]

Linked(relation) == [graph EXCEPT !.relations[Key(plan.id)] = @ \cup {relation}]

MarkerWritten == [graph EXCEPT !.marker[Key(plan.id)] = plan]

MayWrite(what) ==
    LET s == Stem[Key(plan.id)]
    IN  /\ what \in LocalKinds => graph.text[<<what, Key(plan.id)>>] = Absent
        /\ what = "target" => graph.definition[s] \in {Absent, plan.digest}
        /\ what = "qualification" => graph.qualification[s] \in {NoRow, OwnQualification}

Inserted(what) ==
    CASE what = "requirement" -> RequirementWritten
      [] what = "acceptance" -> AcceptanceWritten
      [] what = "failure-mode" -> RiskWritten
      [] what = "task" -> TaskWritten
      [] what = "target" -> TargetWritten
      [] what = "qualification" -> QualificationWritten
      [] what \in {"requirement-acceptance", "task-target"} -> Linked(what)
      [] what = "project" -> Reopened
      [] what = "marker" -> MarkerWritten

InsertRow ==
    /\ planStep = "inserting"
    /\ todo # <<>>
    /\ MayWrite(Head(todo))
    /\ graph' = Inserted(Head(todo))
    /\ todo' = Tail(todo)
    /\ UNCHANGED <<saved, planCycle, cycleOpen, source, planStep, plan, execution,
                   answer, forecast, reviewed, planCalls, planActs>>

\* Mutant of Rollback: what was written stays.
Rollback_Keeps == UNCHANGED graph

\* A write or the commit fails, or the process dies, before the commit: the
\* journal brings back what was there.
Rollback == graph' = saved

FailApply ==
    /\ planStep = "inserting"
    /\ Rollback
    /\ Answer("failed")
    /\ UNCHANGED <<saved, planCycle, cycleOpen, source, plan, execution, forecast,
                   reviewed, planCalls, planActs>>

\* The postconditions are read back from the rows before the commit. The call
\* still fails when closing the database does.
CommitApply ==
    /\ planStep = "inserting"
    /\ todo = <<>>
    /\ GraphHolds(Key(plan.id))
    /\ Answer("changed") \/ Answer("failed")
    /\ UNCHANGED <<graph, saved, planCycle, cycleOpen, source, plan, execution,
                   forecast, reviewed, planCalls, planActs>>

-----------------------------------------------------------------------------
(* A verified patch. *)

\* The plan is found by its marker, and its graph has to hold.
BeginPatch ==
    /\ MayCall
    /\ \E p \in PlanIds :
           LET m == graph.marker[Key(p)]
           IN  IF cycleOpen /\ m # NoPlan /\ GraphHolds(Key(p))
               THEN /\ plan' = m
                    /\ planStep' = "resolved"
                    /\ UNCHANGED <<answer, todo>>
               ELSE /\ plan' = NoPlan
                    /\ Answer("refused")
    /\ forecast' = NoForecast
    /\ UNCHANGED <<graph, saved, planCycle, cycleOpen, source, execution, reviewed,
                   planActs>>

\* verify_run notes the candidate and runs the command.
SamplePatch ==
    /\ planStep = "resolved"
    /\ execution' = [candidate |-> source, definition |-> graph.definition[Stem[Key(plan.id)]],
                     qualification |-> Stem[Key(plan.id)]]
    /\ planStep' = "sampled"
    /\ UNCHANGED <<graph, saved, planCycle, cycleOpen, source, plan, todo, answer,
                   forecast, reviewed, planCalls, planActs>>

\* The result is recorded if the command passed and the source is still the same.
RecordPatch ==
    /\ planStep = "sampled"
    /\ \/ /\ execution.candidate = source
          /\ planStep' = "recorded"
          /\ UNCHANGED <<answer, todo>>
       \/ Answer("failed")
    /\ UNCHANGED <<graph, saved, planCycle, cycleOpen, source, plan, execution,
                   forecast, reviewed, planCalls, planActs>>

\* Mutant of CandidateIsRecorded: the candidate is not computed again.
CandidateIsRecorded_Trusts == TRUE

\* The rows are read back, and the candidate is computed once more.
CandidateIsRecorded == source = execution.candidate

FinishPatch ==
    /\ planStep = "recorded"
    /\ IF /\ CandidateIsRecorded
          /\ execution.definition = graph.definition[Stem[Key(plan.id)]]
       THEN Answer("verified") ELSE Answer("failed")
    /\ UNCHANGED <<graph, saved, planCycle, cycleOpen, source, plan, execution,
                   forecast, reviewed, planCalls, planActs>>

-----------------------------------------------------------------------------
(* Operators, with their own commands, and editors of the source. MaxPlanActs *)
(* is a bound of the model.                                                  *)

Act ==
    /\ planStep = "idle"
    /\ planActs < MaxPlanActs
    /\ planActs' = planActs + 1
    /\ plan' = NoPlan
    /\ answer' = "none"
    /\ forecast' = NoForecast
    /\ UNCHANGED <<saved, source, planStep, todo, execution, planCalls>>

\* A row is added by hand, rewritten, or written back to what its plan says.
\* Tasks are never rewritten. Rewriting an acceptance makes a revision of it,
\* whatever its text.
RewriteRow ==
    /\ Act
    /\ cycleOpen
    /\ \E kind \in LocalKinds, p \in PlanIds, text \in Digests \cup {Other} :
           /\ text \in {Other, graph.marker[Key(p)].digest}
           /\ kind = "task" => graph.text[<<kind, Key(p)>>] = Absent
           /\ graph' = [graph EXCEPT
                 !.text[<<kind, Key(p)>>] = text,
                 !.revision[Key(p)] = IF kind = "acceptance" THEN @ + 1 ELSE @]
    /\ UNCHANGED <<planCycle, cycleOpen, reviewed>>

\* A target that a closed cycle refers to keeps its definition.
RedefineTarget ==
    /\ Act
    /\ \E k \in CyclePlans, d \in Digests \cup {Other} :
           /\ d \in {Other, graph.marker[k].digest} \ {graph.definition[Stem[k]]}
           /\ \A c \in CyclePlans :
                 /\ Stem[c] = Stem[k]
                 /\ \/ "task-target" \in graph.relations[c]
                    \/ graph.qualification[Stem[c]].cycle = c[1]
                 => c[1] = planCycle /\ cycleOpen
           /\ graph' = [graph EXCEPT !.definition[Stem[k]] = d]
    /\ UNCHANGED <<planCycle, cycleOpen, reviewed>>

\* The target of a plan is qualified for its acceptance once more, under a new
\* id or under the one its plan would use.
Requalify ==
    /\ Act
    /\ cycleOpen
    /\ \E p \in PlanIds :
           LET k == Key(p)
               s == Stem[k]
           IN  /\ graph.text[<<"acceptance", k>>] # Absent
               /\ graph.definition[s] # Absent
               /\ \/ graph' = [graph EXCEPT !.newest[k] = "other"]
                  \/ /\ graph.qualification[s] = NoRow
                     /\ graph' = [graph EXCEPT
                           !.newest[k] = "other",
                           !.qualification[s] =
                               [cycle |-> planCycle, plan |-> Absent,
                                revision |-> graph.revision[k],
                                definition |-> graph.definition[s]]]
    /\ UNCHANGED <<planCycle, cycleOpen, reviewed>>

\* The facts of the cycle are frozen as a baseline and its scope is confirmed.
ConfirmPlans ==
    /\ Act
    /\ cycleOpen
    /\ graph' = [graph EXCEPT !.scope = "confirmed"]
    /\ reviewed' = {k \in CyclePlans : k[1] = planCycle /\ graph.marker[k] # NoPlan}
    /\ UNCHANGED <<planCycle, cycleOpen>>

EndCycle ==
    /\ Act
    /\ cycleOpen
    /\ cycleOpen' = FALSE
    /\ UNCHANGED <<graph, planCycle, reviewed>>

NextCycle ==
    /\ Act
    /\ ~cycleOpen
    /\ planCycle < LastCycle
    /\ planCycle' = planCycle + 1
    /\ cycleOpen' = TRUE
    /\ graph' = [graph EXCEPT !.scope = "unconfirmed"]
    /\ UNCHANGED reviewed

\* The source may be edited, and the edit undone, at any time.
ChangeSource ==
    /\ planActs < MaxPlanActs
    /\ planActs' = planActs + 1
    /\ source' = 1 - source
    /\ answer' = IF planStep = "idle" THEN "none" ELSE answer
    /\ UNCHANGED <<graph, saved, planCycle, cycleOpen, planStep, plan, todo, execution,
                   forecast, reviewed, planCalls>>

PlansNext ==
    \/ DryRun
    \/ BeginApply
    \/ InsertRow
    \/ FailApply
    \/ CommitApply
    \/ BeginPatch
    \/ SamplePatch
    \/ RecordPatch
    \/ FinishPatch
    \/ RewriteRow
    \/ RedefineTarget
    \/ Requalify
    \/ ConfirmPlans
    \/ EndCycle
    \/ NextCycle
    \/ ChangeSource

PlansSpec == PlansInit /\ [][PlansNext]_planVars

-----------------------------------------------------------------------------
Answered(a) == planStep = "idle" /\ answer = a

\* Between calls a plan is there with its marker and all of its rows and
\* relations, or not at all, whatever failed and however often it was applied.
PlanIsWhole ==
    planStep = "idle" =>
        \A k \in CyclePlans :
            LET m == graph.marker[k]
            IN  IF m = NoPlan
                THEN \A kind \in LocalKinds : graph.text[<<kind, k>>] \in {Absent, Other}
                ELSE /\ \A kind \in RowsOf(m.risk) : graph.text[<<kind, k>>] # Absent
                     /\ Relations(m.risk) \subseteq graph.relations[k]
                     /\ graph.definition[Stem[k]] # Absent
                     /\ graph.qualification[Stem[k]] # NoRow

\* The rows of a plan say what it says, and the latest qualification of its
\* acceptance by its target is its own and is about both as they are now.
Current(k, pl) ==
    /\ graph.marker[k] = pl
    /\ \A kind \in RowsOf(pl.risk) : graph.text[<<kind, k>>] = pl.digest
    /\ graph.definition[Stem[k]] = pl.digest
    /\ graph.newest[k] = "own"
    /\ graph.qualification[Stem[k]] =
           [cycle |-> k[1], plan |-> k[2], revision |-> graph.revision[k],
            definition |-> pl.digest]

\* "Nothing to change" is only answered when nothing was changed since the plan
\* was applied, or it was changed back.
UnchangedMeansCurrent == Answered("unchanged") => Current(Key(plan.id), plan)

\* A scope counts as confirmed only if it was confirmed after the last plan of
\* its cycle was applied.
ConfirmedScopeCoversPlans ==
    planStep = "idle" /\ graph.scope = "confirmed" =>
        \A k \in CyclePlans :
            k[1] = planCycle /\ graph.marker[k] # NoPlan => k \in reviewed

\* A verified patch is reported for the source and the target of that moment,
\* and for the plan as it was applied.
ReportIsCurrent ==
    Answered("verified") =>
        /\ execution.candidate = source
        /\ execution.definition = plan.digest
        /\ Current(Key(plan.id), plan)

\* An apply right after a dry run of the same plan answers what it foretold.
DryRunForetells ==
    /\ planStep = "idle"
    /\ answer \in {"changed", "unchanged", "conflict"}
    /\ forecast.plan = plan
    => forecast.answer = answer

\* What the database holds of plans: all of one or nothing, and no confirmation
\* that is older than they are (_apply_delivery_plan_locked).
PlansAreWhole == PlanIsWhole /\ ConfirmedScopeCoversPlans

\* What is answered about plans is so at that moment: nothing to change, verified,
\* and what a dry run foretold (apply_delivery_plan, verified_patch).
AnswersAreTrue == UnchangedMeansCurrent /\ ReportIsCurrent /\ DryRunForetells
=============================================================================
