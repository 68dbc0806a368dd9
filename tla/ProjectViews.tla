---------------------------- MODULE ProjectViews ----------------------------
(***************************************************************************)
(* The thirteen generated views of a project (core/projections.py) and the *)
(* commands that change what they show (scripts/harness_db.py).            *)
(*                                                                         *)
(* A command holds the operation lock, commits its facts and then writes   *)
(* again the views it names, one atomic write each; whatever it does not   *)
(* name stays as it was. The process may die or a write may fail between   *)
(* two of these steps, other programs edit the source, damage a view or    *)
(* put a link in its place, and doctor compares all views with a fresh     *)
(* rendering.                                                              *)
(*                                                                         *)
(* A fact is one table or a part of one that some view shows; a view is    *)
(* stale once a fact it reads changed after it was written. Two facts are  *)
(* not tables: "source", the project files and recorded artifacts, and     *)
(* "basis", what evidence was gathered for: the latest qualification of a  *)
(* criterion, its revision, the definition of its target. "coverage" is    *)
(* the active validations that carry a qualification.                      *)
(***************************************************************************)
EXTENDS Naturals, Sequences

CONSTANTS
    Exposed,        \* bound: the views that other programs touch
    MaxCommands,    \* bound on the commands that are run
    MaxEdits,       \* bound on what other programs do
    MaxUpsets       \* bound on the writes that fail and the processes that die

ASSUME ViewsBoundsAssumption ==
    MaxCommands \in Nat /\ MaxEdits \in Nat /\ MaxUpsets \in Nat

\* The order in which views are written.
RenderOrder ==
    <<"project-state", "requirements", "traceability", "acceptance", "failure-modes",
      "tasks", "test-targets", "validation", "executions", "findings", "gates",
      "deliveries", "decisions">>

Views == {RenderOrder[i] : i \in DOMAIN RenderOrder}

ASSUME ExposedAssumption == Exposed \subseteq Views

-----------------------------------------------------------------------------
(* What a view shows. Those of the cycle show the current cycle's rows. *)

ProjectStateReads == {"project"}
RequirementsReads == {"cycle", "requirements"}
TraceRowsRead == {"cycle", "requirements", "acceptance", "links", "accepted-tasks",
                  "deliveries"}
TraceIssuesRead == {"cycle", "requirements", "acceptance", "links", "accepted-tasks"}
CoverageReads == {"coverage", "basis", "source"}
AcceptanceReads == {"cycle", "acceptance"}
RisksRead == {"cycle", "failure-modes"}
TasksRead == {"cycle", "tasks", "accepted-tasks"}
TargetsRead == {"targets", "qualifications", "gates"}
ValidationReads == {"cycle", "validations", "coverage", "executions"}
ExecutionsRead == {"executions"}
FindingsRead == {"findings"}
GatesRead == {"cycle", "gates"}
\* The rows of delivered cycles do not change any more.
DeliveriesRead == {"deliveries", "source"}
DecisionsRead == {"decisions"}

Reads ==
    [v \in Views |->
        CASE v = "project-state" -> ProjectStateReads
          [] v = "requirements"  -> RequirementsReads
          [] v = "traceability"  -> TraceRowsRead \cup TraceIssuesRead \cup CoverageReads
          [] v = "acceptance"    -> AcceptanceReads
          [] v = "failure-modes" -> RisksRead \cup CoverageReads
          [] v = "tasks"         -> TasksRead
          [] v = "test-targets"  -> TargetsRead
          [] v = "validation"    -> ValidationReads
          [] v = "executions"    -> ExecutionsRead
          [] v = "findings"      -> FindingsRead
          [] v = "gates"         -> GatesRead
          [] v = "deliveries"    -> DeliveriesRead
          [] v = "decisions"     -> DecisionsRead]

Showing(facts) == {v \in Views : Reads[v] \cap facts # {}}

-----------------------------------------------------------------------------
(* What every command writes and which views it names. *)

Writing(facts, views) == [facts |-> facts, views |-> views]

CycleViews ==
    {"project-state", "requirements", "traceability", "acceptance", "failure-modes",
     "tasks", "validation", "gates", "deliveries"}

\* Mutant of StartCycle: a view of the cycle is forgotten.
StartCycle_KeepsValidation ==
    {Writing({"project", "cycle"}, CycleViews \ {"validation"})}

StartCycle == {Writing({"project", "cycle"}, CycleViews)}
CloseCycle == {Writing({"project"}, {})}
RecordOutcome == {Writing({}, {})}
TransitionPhase == {Writing({"project"}, {"project-state"})}
EnterReadiness == {Writing({"project"}, {"project-state"})}
ConfirmScope == {Writing({"project"}, {"project-state"})}
FreezeBaseline == {Writing({"project"}, {"project-state"})}
ConfirmBaseline ==
    {Writing({"project"} \cup risks, {"project-state", "failure-modes"}) :
         risks \in {{}, {"failure-modes"}}}
AddRequirement ==
    {Writing({"requirements"}, {"project-state", "requirements", "traceability"})}
AddAcceptance ==
    {Writing({"acceptance"} \cup rewritten, {"acceptance", "traceability"}) :
         rewritten \in {{}, {"basis"}}}
AddFailureMode == {Writing({"failure-modes"}, {"failure-modes"})}
LinkAcceptance == {Writing({"links"}, {"traceability"})}
AddTask ==
    {Writing({"tasks"}, {"tasks"} \cup linked) : linked \in {{}, {"traceability"}}}
\* A task is started, submitted or blocked.
MoveTask == {Writing({"tasks"}, {"tasks"})}
AcceptTask == {Writing({"accepted-tasks"}, {"tasks", "traceability"})}
CancelTask == {Writing({"tasks"}, {"tasks", "traceability"})}
RecordDecision == {Writing({"decisions"}, {"decisions"})}
AddTarget ==
    {Writing({"targets"} \cup redefined, {"test-targets"}) : redefined \in {{}, {"basis"}}}
LinkTaskTarget == {Writing({}, {})}
QualifyTarget == {Writing({"qualifications", "basis"}, {"test-targets"})}
\* Failure modes are named only for a criterion.
VerifyRun ==
    {Writing({"executions", "validations"}, {"executions", "validation"}),
     Writing({"executions", "validations", "coverage"},
             {"executions", "validation", "traceability"}),
     Writing({"executions", "validations", "coverage"},
             {"executions", "validation", "traceability", "failure-modes"})}
\* A judgment replaces the active validation of its surface and criterion.
RecordJudgment ==
    {Writing({"validations"}, {"validation"}),
     Writing({"validations"}, {"validation", "failure-modes", "traceability"}),
     Writing({"validations", "coverage"}, {"validation", "traceability"}),
     Writing({"validations", "coverage"},
             {"validation", "traceability", "failure-modes"})}
RecordFinding == {Writing({"findings"}, {"findings"})}
RecordGate == {Writing({"gates"}, {"gates", "test-targets"})}
RecordDelivery == {Writing({"deliveries"}, {"deliveries", "traceability"})}
\* Mutant of ApplyPlan: it names a view that does not exist.
ApplyPlan_NamesTargets ==
    {Writing({"targets", "qualifications"}, {"tasks", "targets"})}

ApplyPlan ==
    {Writing({"project", "requirements", "acceptance", "links", "tasks", "targets",
              "qualifications"} \cup risk.facts,
             {"project-state", "requirements", "traceability", "acceptance", "tasks",
              "test-targets"} \cup risk.views) :
         risk \in {Writing({}, {}), Writing({"failure-modes"}, {"failure-modes"})}}
\* Mutant of RenderAll: a view is left out.
RenderAll_NoGates == {Writing({}, Views \ {"gates"})}

RenderAll == {Writing({}, Views)}
Initialize == {Writing({"project", "cycle"}, Views)}

\* A command that opens a cycle, one that closes it, and the ones that do
\* neither; only some are allowed while no cycle is open.
Opening == StartCycle
Closing == CloseCycle \cup RecordDelivery
AllowedWhenClosed ==
    StartCycle \cup RecordOutcome \cup RecordDecision \cup RenderAll \cup Initialize

Commands ==
    UNION {StartCycle, CloseCycle, RecordOutcome, TransitionPhase, EnterReadiness,
           ConfirmScope, FreezeBaseline, ConfirmBaseline, AddRequirement,
           AddAcceptance, AddFailureMode, LinkAcceptance, AddTask, MoveTask,
           AcceptTask, CancelTask, RecordDecision, AddTarget, LinkTaskTarget,
           QualifyTarget, VerifyRun, RecordJudgment, RecordFinding, RecordGate,
           RecordDelivery, ApplyPlan, RenderAll, Initialize}

-----------------------------------------------------------------------------
VARIABLES
    running,    \* the command that holds the operation lock, doctor, or nobody
    stage,      \* where it is
    due,        \* the views it still has to write
    stale,      \* the views that no longer show the facts
    damaged,    \* the views whose file another program changed or removed
    linked,     \* the views with a link or a directory in their place
    active,     \* whether the current cycle is open
    found,      \* the views doctor complains about
    edited,     \* what others changed since the lock was taken: source, artifacts,
                \* views, and late artifacts, after doctor's last look at them
    reports,    \* what the programs reported so far
    upsets,     \* failed writes and dead processes
    edits       \* what other programs did

viewsVars == <<running, stage, due, stale, damaged, linked, active, found, edited,
               reports, upsets, edits>>

Nobody == Writing({"nothing"}, {})
Doctor == Writing({"nothing"}, Views)

ViewsTypeOK ==
    /\ running \in Commands \cup {Nobody, Doctor}
    /\ stage \in {"idle", "checked", "committed", "writing", "sampled", "compared",
                 "confirmed"}
    /\ due \subseteq Views
    /\ stale \subseteq Views
    /\ damaged \subseteq Views
    /\ linked \subseteq Views
    /\ active \in BOOLEAN
    /\ found \subseteq Views
    /\ edited \subseteq {"source", "artifacts", "late", "views"}
    /\ reports \in Seq({"ok", "refused", "failed", "died", "healthy", "unhealthy"})
    /\ upsets \in 0 .. MaxUpsets
    /\ edits \in 0 .. MaxEdits

\* After the first init.
ViewsInit ==
    /\ running = Nobody
    /\ stage = "idle"
    /\ due = {}
    /\ stale = {}
    /\ damaged = {}
    /\ linked = {}
    /\ active \in BOOLEAN
    /\ found = {}
    /\ edited = {}
    /\ reports = <<>>
    /\ upsets = 0
    /\ edits = 0

-----------------------------------------------------------------------------
(* A command, from the operation lock to its report. *)

Report(r) ==
    /\ running' = Nobody
    /\ stage' = "idle"
    /\ due' = {}
    /\ reports' = Append(reports, r)

\* Every view and every retired one is a plain file or missing.
PathsAreSafe == linked = {}

\* The lock is taken, the paths and the cycle are looked at; a refusal leaves
\* everything as it was. MaxCommands is a bound of the model.
BeginCommand ==
    /\ stage = "idle"
    /\ Len(reports) < MaxCommands
    /\ \E c \in Commands :
           /\ PathsAreSafe
           /\ active \/ c \in AllowedWhenClosed
           /\ c \in Opening => ~active
           /\ running' = c
           /\ stage' = "checked"
           /\ edited' = {}
    /\ UNCHANGED <<due, stale, damaged, linked, active, found, reports, upsets, edits>>

\* The transaction. Its refusals change nothing; closing the connection can
\* fail when the facts are committed already.
CommitFacts ==
    /\ stage = "checked"
    /\ \/ /\ stale' = stale \cup Showing(running.facts)
          /\ active' = (running \in Opening \/ (active /\ running \notin Closing))
          /\ \/ /\ due' = running.views
                /\ stage' = "committed"
                /\ UNCHANGED <<running, reports, upsets>>
             \/ /\ upsets < MaxUpsets
                /\ upsets' = upsets + 1
                /\ Report("failed")
       \/ /\ Report("refused")
          /\ UNCHANGED <<stale, active, upsets>>
    /\ UNCHANGED <<damaged, linked, found, edited, edits>>

\* All paths are looked at once more before the first view is written.
CheckPaths ==
    /\ stage = "committed"
    /\ IF due = {} THEN Report("ok")
       ELSE IF PathsAreSafe THEN stage' = "writing" /\ UNCHANGED <<running, due, reports>>
       ELSE Report("failed")
    /\ UNCHANGED <<stale, damaged, linked, active, found, edited, upsets, edits>>

\* The next view in order is written from the facts of this moment.
NextDue == LET i == CHOOSE i \in DOMAIN RenderOrder :
                        /\ RenderOrder[i] \in due
                        /\ \A j \in 1 .. i - 1 : RenderOrder[j] \notin due
           IN  RenderOrder[i]

WriteView ==
    /\ stage = "writing"
    /\ due # {}
    /\ \/ /\ NextDue \notin linked
          /\ stale' = stale \ {NextDue}
          /\ damaged' = damaged \ {NextDue}
          /\ due' = due \ {NextDue}
          /\ UNCHANGED <<running, stage, reports, upsets>>
       \/ /\ NextDue \in linked \/ upsets < MaxUpsets
          /\ upsets' = IF NextDue \in linked THEN upsets ELSE upsets + 1
          /\ Report("failed")
          /\ UNCHANGED <<stale, damaged>>
    /\ UNCHANGED <<linked, active, found, edited, edits>>

FinishViews ==
    /\ stage = "writing"
    /\ due = {}
    /\ Report("ok")
    /\ UNCHANGED <<stale, damaged, linked, active, found, edited, upsets, edits>>

\* The process ends and the system releases its lock.
DieRendering ==
    /\ stage # "idle"
    /\ upsets < MaxUpsets
    /\ upsets' = upsets + 1
    /\ Report("died")
    /\ UNCHANGED <<stale, damaged, linked, active, found, edited, edits>>

-----------------------------------------------------------------------------
(* Doctor, which holds the operation lock as well. *)

\* The database is copied, the candidate noted, the artifacts copied, and all
\* views are rendered elsewhere.
SampleProject ==
    /\ stage = "idle"
    /\ Len(reports) < MaxCommands
    /\ running' = Doctor
    /\ stage' = "sampled"
    /\ found' = stale
    /\ edited' = {}
    /\ UNCHANGED <<due, stale, damaged, linked, active, reports, upsets, edits>>

CompareViews ==
    /\ stage = "sampled"
    /\ found' = found \cup damaged \cup linked
    /\ stage' = "compared"
    /\ UNCHANGED <<running, due, stale, damaged, linked, active, edited, reports,
                   upsets, edits>>

\* Mutant of SourceIsAsSampled: doctor trusts its first look.
SourceIsAsSampled_Trusts == TRUE

\* The candidate has to be the one that was noted.
SourceIsAsSampled == "source" \notin edited

\* Mutant of ArtifactsAreAsSampled: the artifacts are not looked at again.
ArtifactsAreAsSampled_Trusts == TRUE

\* Each artifact has to be the file that was copied.
ArtifactsAreAsSampled == "artifacts" \notin edited

\* The artifacts are looked at first; after a complaint the look at the candidate
\* can change nothing, and the report is made at once.
ConfirmArtifacts ==
    /\ stage = "compared"
    /\ IF ArtifactsAreAsSampled
       THEN stage' = "confirmed" /\ UNCHANGED <<running, due, reports>>
       ELSE Report("unhealthy")
    /\ UNCHANGED <<stale, damaged, linked, active, found, edited, upsets, edits>>

ConfirmSample ==
    /\ stage = "confirmed"
    /\ Report(IF found = {} /\ SourceIsAsSampled THEN "healthy" ELSE "unhealthy")
    /\ UNCHANGED <<stale, damaged, linked, active, found, edited, upsets, edits>>

-----------------------------------------------------------------------------
(* The other programs, which know nothing of the lock. MaxEdits is a bound of *)
(* the model.                                                                *)

EditSource ==
    /\ edits < MaxEdits
    /\ edits' = edits + 1
    /\ \E part \in {"source", IF stage = "confirmed" THEN "late" ELSE "artifacts"} :
           edited' = edited \cup {part}
    /\ stale' = stale \cup Showing({"source"})
    /\ UNCHANGED <<running, stage, due, damaged, linked, active, found, reports, upsets>>

DamageView ==
    /\ edits < MaxEdits
    /\ edits' = edits + 1
    /\ edited' = edited \cup {"views"}
    /\ \E v \in Exposed :
           \/ damaged' = damaged \cup {v} /\ UNCHANGED linked
           \/ linked' = linked \cup {v} /\ UNCHANGED damaged
    /\ UNCHANGED <<running, stage, due, stale, active, found, reports, upsets>>

\* The owner of the project takes the link away.
UnlinkView ==
    /\ \E v \in linked :
           /\ linked' = linked \ {v}
           /\ damaged' = damaged \cup {v}
    /\ UNCHANGED <<running, stage, due, stale, active, found, edited, reports, upsets,
                   edits>>

ViewsNext ==
    \/ BeginCommand
    \/ CommitFacts
    \/ CheckPaths
    \/ WriteView
    \/ FinishViews
    \/ DieRendering
    \/ SampleProject
    \/ CompareViews
    \/ ConfirmArtifacts
    \/ ConfirmSample
    \/ EditSource
    \/ DamageView
    \/ UnlinkView

ViewsSpec == ViewsInit /\ [][ViewsNext]_viewsVars

-----------------------------------------------------------------------------
\* The views whose command always writes them with the facts they show. The
\* others also show whether evidence still counts, which commands that name
\* other views, and edits of the source, can change.
EvidenceViews == {"traceability", "failure-modes", "deliveries"}

NoneGaveUp == \A i \in DOMAIN reports : reports[i] \notin {"failed", "died"}

\* As long as every command reported success, the views outside the evidence
\* views show the facts whenever no command runs; project-state does while a
\* cycle is open, because closing one writes no view.
SuccessLeavesViewsCurrent ==
    stage = "idle" /\ NoneGaveUp
        => /\ stale \subseteq EvidenceViews \cup {"project-state"}
           /\ active => "project-state" \notin stale

RebuildSucceeds ==
    running \in RenderAll \cup Initialize /\ reports' = Append(reports, "ok")

\* A rebuild that reports success leaves every view showing the facts, whatever
\* was stale, damaged or interrupted before it.
RebuildHeals ==
    [][RebuildSucceeds => /\ edited \subseteq {"views"} => stale' = {}
                          /\ edited = {} => damaged' = {}
      ]_viewsVars

\* What an artifact that changes behind doctor's last look at it makes stale.
Unseen == IF "late" \in edited THEN Showing({"source"}) ELSE {}

\* Doctor calls a project healthy only if every view shows the facts and the
\* source of that very moment, and the artifacts as they were when it looked at
\* them last, an instant before.
HealthyMeansCurrent ==
    [][reports' = Append(reports, "healthy")
           => /\ stale \subseteq Unseen
              /\ edited = {} => damaged = {} /\ linked = {}
      ]_viewsVars

\* What the operator relies on to repair the views: a rebuild heals them, and the
\* doctor is right about them (rebuild_views, projection_content_issues).
RepairIsTrue == RebuildHeals /\ HealthyMeansCurrent
=============================================================================
