----------------------------- MODULE CommandRuns -----------------------------
(***************************************************************************)
(* Running the command of a test target and making a record of it          *)
(* (LocalExecutor, ContainerExecutor, validate_execution_result in         *)
(* core/execution.py, verify_run in scripts/harness_db.py). The command    *)
(* runs in the project or in a container that gets a copy of it. Its       *)
(* verdict is read from what it prints or from a report file the target    *)
(* declares. What was run with is noted before and compared again before   *)
(* the record is made, three times.                                        *)
(*                                                                         *)
(* Meanwhile other programs may write the report file, alter the captured  *)
(* output, replace the interpreter of the harness, switch the context of   *)
(* the container engine or move an image tag. Whether a report is a pass   *)
(* is TestReports.tla's subject; here it is "passing" or "failing".        *)
(***************************************************************************)
EXTENDS Naturals

CONSTANTS
    Endpoints,      \* the container daemons of the machine
    MaxTrials,      \* bound on the verifications
    MaxMeddling     \* bound on what other programs do

ASSUME RunBoundsAssumption == MaxTrials \in Nat /\ MaxMeddling \in Nat
ASSUME EndpointsAssumption == Endpoints # {}

VARIABLES
    trialStep,      \* where the verification is
    trial,          \* the runner and the target's demands
    tools,          \* the interpreter, the daemon in use, the image by its tag
    noted,          \* the tools as noted before the command ran
    ranOn,          \* the daemon and the image the command did run on
    report,         \* the report file in the project
    reportBefore,   \* the report file when it was looked at before the run
    reportTouched,        \* whether the report file changed between that and its reading
    exitKind,           \* how the command ended
    printed,        \* what it printed
    judged,         \* what the verdict was read as, and from what
    stored,         \* the file with its output, in the runtime directory
    unseen,         \* what others changed since it was last compared
    trialRound,          \* which of the comparisons is next
    trials,         \* verifications begun
    meddling        \* what other programs did

trialVars == <<trialStep, trial, tools, noted, ranOn, report, reportBefore, reportTouched,
               exitKind, printed, judged, stored, unseen, trialRound,
               trials, meddling>>

NoDaemon == "nowhere"
Versions == 0 .. 1
Comparisons == 3
ReportContents == {"nothing", "passing", "failing"}

Trials ==
    [runner : {"local", "container"}, structured : BOOLEAN, declared : BOOLEAN,
     isolated : BOOLEAN]
Tools == [runtime : Versions, daemon : Endpoints, image : [Endpoints -> Versions]]
Notes == [runtime : Versions, daemon : Endpoints \cup {NoDaemon}, image : Versions]

\* A file, by its identity, and what is in it. Writing in place keeps the file;
\* a new file may have the identity of one that was removed.
ReportFiles == {1, 2}
NoReport == [file |-> 0, content |-> "nothing"]

TrialsTypeOK ==
    /\ trialStep \in {"idle", "begun", "noted", "resolving", "ready", "ran", "read",
                      "written", "compared", "recorded", "refused"}
    /\ trial \in Trials
    /\ tools \in Tools
    /\ noted \in Notes
    /\ ranOn.daemon \in Endpoints \cup {NoDaemon} /\ ranOn.image \in Versions
    /\ report.file \in ReportFiles \cup {0} /\ report.content \in ReportContents
    /\ report.content = "nothing" <=> report.file = 0
    /\ reportBefore.content \in ReportContents
    /\ exitKind \in {"none", "zero", "nonzero", "timeout"}
    /\ printed \in [content : ReportContents, truncated : BOOLEAN]
    /\ judged.content \in ReportContents
    /\ judged.from \in {"none", "output", "report", "container"}
    /\ stored \in {"none", "own", "altered"}
    /\ unseen \subseteq {"tools", "output"}
    /\ trialRound \in 1 .. Comparisons + 1
    /\ trials \in 0 .. MaxTrials
    /\ meddling \in 0 .. MaxMeddling

TrialsInit ==
    /\ trialStep = "idle"
    /\ trial = [runner |-> "local", structured |-> FALSE, declared |-> FALSE,
                isolated |-> FALSE]
    /\ tools \in [runtime : {0}, daemon : Endpoints, image : {[e \in Endpoints |-> 0]}]
    /\ noted = [runtime |-> 0, daemon |-> NoDaemon, image |-> 0]
    /\ ranOn = [daemon |-> NoDaemon, image |-> 0]
    /\ report \in {NoReport, [file |-> 1, content |-> "passing"]}
    /\ reportBefore = NoReport
    /\ reportTouched = FALSE
    /\ exitKind = "none"
    /\ printed = [content |-> "nothing", truncated |-> FALSE]
    /\ judged = [content |-> "nothing", from |-> "none"]
    /\ stored = "none"
    /\ unseen = {}
    /\ trialRound = 1
    /\ trials = 0
    /\ meddling = 0

Surroundings == <<tools, report, reportTouched, unseen, meddling, trialRound>>
TrialStep(from, to) == trialStep = from /\ trialStep' = to
TrialsOver == {"idle", "recorded", "refused"}

-----------------------------------------------------------------------------
(* Before the command. *)

\* A target that has to be isolated is not run in the project. A report file is
\* declared for structured results only.
BeginTrial ==
    /\ trialStep \in TrialsOver
    /\ trials < MaxTrials
    /\ trials' = trials + 1
    /\ trial' \in {t \in Trials : t.declared => t.structured}
    /\ trialStep' = IF trial'.isolated /\ trial'.runner = "local" THEN "refused" ELSE "begun"
    /\ exitKind' = "none"
    /\ printed' = [content |-> "nothing", truncated |-> FALSE]
    /\ judged' = [content |-> "nothing", from |-> "none"]
    /\ stored' = "none"
    /\ noted' = [runtime |-> 0, daemon |-> NoDaemon, image |-> 0]
    /\ ranOn' = [daemon |-> NoDaemon, image |-> 0]
    /\ reportBefore' = NoReport
    /\ unseen' = {}
    /\ trialRound' = 1
    /\ UNCHANGED <<tools, report, reportTouched, meddling>>

NoteRuntime ==
    /\ TrialStep("begun", "noted")
    /\ noted' = [noted EXCEPT !.runtime = tools.runtime]
    /\ UNCHANGED <<Surroundings, trial, ranOn, reportBefore, exitKind, printed, judged, stored, trials>>

\* In the project: the report that is there already is looked at.
LookAtReport ==
    /\ TrialStep("noted", "ready")
    /\ trial.runner = "local"
    /\ reportBefore' = IF trial.declared THEN report ELSE NoReport
    /\ reportTouched' = FALSE
    /\ UNCHANGED <<tools, report, unseen, meddling, trialRound, trial, noted, ranOn, exitKind,
                   printed, judged, stored, trials>>

\* In a container: the daemon of the current context is found, then the image its
\* tag stands for at that daemon, and either may be missing.
FindDaemon ==
    /\ trial.runner = "container"
    /\ \/ /\ TrialStep("noted", "resolving")
          /\ noted' = [noted EXCEPT !.daemon = tools.daemon]
       \/ TrialStep("noted", "refused") /\ UNCHANGED noted
    /\ UNCHANGED <<Surroundings, trial, ranOn, reportBefore, exitKind, printed, judged, stored, trials>>

FindImage ==
    /\ \/ /\ TrialStep("resolving", "ready")
          /\ noted' = [noted EXCEPT !.image = tools.image[noted.daemon]]
       \/ TrialStep("resolving", "refused") /\ UNCHANGED noted
    /\ UNCHANGED <<Surroundings, trial, ranOn, reportBefore, exitKind, printed, judged, stored, trials>>

-----------------------------------------------------------------------------
(* The command. *)

Printed ==
    IF trial.declared THEN {[content |-> "nothing", truncated |-> FALSE]}
    ELSE [content : {"passing", "failing"}, truncated : BOOLEAN]

Reports == {[file |-> f, content |-> c] : f \in ReportFiles, c \in {"passing", "failing"}}

\* It may write the report, and may end in any way. A command that cannot be
\* started counts as ended with an error. What it prints is not read if the target
\* declares a report.
RunInProject ==
    /\ TrialStep("ready", "ran")
    /\ trial.runner = "local"
    /\ exitKind' \in {"zero", "nonzero", "timeout"}
    /\ printed' \in Printed
    /\ \/ trial.declared /\ report' \in Reports /\ reportTouched' = TRUE
       \/ UNCHANGED <<report, reportTouched>>
    /\ UNCHANGED <<tools, unseen, meddling, trialRound, trial, noted, ranOn, reportBefore,
                   judged, stored, trials>>

\* Mutant of RunImage: the image is named by its tag.
RunImage_ByTag == [daemon |-> noted.daemon, image |-> tools.image[noted.daemon]]

\* The engine is told the daemon and the digest.
RunImage == [daemon |-> noted.daemon, image |-> noted.image]

\* Mutant of CopiedReport: the copy of an old report stays in the workspace.
CopiedReport_Stays == IF report = NoReport THEN "none" ELSE "copy"

\* What the copy of the project holds under the report's name when the command
\* starts: it is removed first.
CopiedReport == "none"

\* The command writes its report in the copy. If it is killed, nothing is copied
\* out; a report that was not declared is refused.
RunInContainer ==
    /\ trialStep = "ready" /\ trial.runner = "container"
    /\ ranOn' = RunImage
    /\ exitKind' \in {"zero", "nonzero", "timeout"}
    /\ printed' \in Printed
    /\ \/ /\ TrialStep("ready", "ran")
          /\ \/ judged' = [content |-> IF CopiedReport = "copy" /\ exitKind' # "timeout"
                                       THEN report.content ELSE "nothing",
                           from |-> CopiedReport]
             \/ /\ trial.declared /\ exitKind' # "timeout"
                /\ \E c \in {"passing", "failing"} :
                       judged' = [content |-> c, from |-> "container"]
       \/ TrialStep("ready", "refused") /\ UNCHANGED judged
    /\ UNCHANGED <<Surroundings, trial, noted, reportBefore, stored, trials>>

-----------------------------------------------------------------------------
(* Its result. *)

\* Mutant of IsStale: any report that is there will do.
IsStale_Never == FALSE

\* The report is still the one that was there before the run.
IsStale == report # NoReport /\ report = reportBefore

\* Output that was cut off is no structured result; a report that is not there
\* counts as an empty one.
ReadResult ==
    /\ \/ /\ \/ trial.structured /\ ~trial.declared /\ printed.truncated
             \/ trial.declared /\ trial.runner = "local" /\ IsStale
          /\ TrialStep("ran", "refused")
          /\ UNCHANGED judged
       \/ /\ ~trial.declared
          /\ trial.structured => ~printed.truncated
          /\ TrialStep("ran", "read")
          /\ judged' = [content |-> printed.content, from |-> "output"]
       \/ /\ trial.declared /\ trial.runner = "local" /\ ~IsStale
          /\ TrialStep("ran", "read")
          /\ judged' = [content |-> report.content, from |-> "report"]
       \/ /\ trial.declared /\ trial.runner = "container"
          /\ TrialStep("ran", "read")
          /\ UNCHANGED judged
    /\ UNCHANGED <<Surroundings, trial, noted, ranOn, reportBefore, exitKind, printed, stored, trials>>

\* The output is stored under the id of the execution, or storing it fails.
StoreOutput ==
    /\ \/ TrialStep("read", "written") /\ stored' = "own"
       \/ TrialStep("read", "refused") /\ UNCHANGED stored
    /\ UNCHANGED <<Surroundings, trial, noted, ranOn, reportBefore, exitKind, printed, judged, trials>>

Passed == exitKind = "zero" /\ judged.content = "passing"

\* Mutant of SameTools: what was noted is not compared.
SameTools_Trusts == TRUE

\* The tools are what was noted, as far as the runner uses them.
SameTools ==
    /\ tools.runtime = noted.runtime
    /\ trial.runner = "container" =>
          tools.daemon = noted.daemon /\ tools.image[tools.daemon] = noted.image

\* Compared after the command, and twice in the transaction: before the record is
\* inserted and before it is committed. The tools are looked at first.
CompareTools ==
    /\ trialStep = "written"
    /\ trialStep' = IF Passed /\ SameTools THEN "compared" ELSE "refused"
    /\ unseen' = unseen \ {"tools"}
    /\ UNCHANGED <<tools, report, reportTouched, meddling, trial, noted, ranOn, reportBefore,
                   exitKind, printed, judged, stored, trialRound, trials>>

\* Then the output. The transaction may fail for other reasons.
CompareOutput ==
    /\ trialStep = "compared"
    /\ \/ /\ stored = "own"
          /\ trialStep' = IF trialRound < Comparisons THEN "written" ELSE "recorded"
          /\ trialRound' = trialRound + 1
       \/ trialStep' = "refused" /\ UNCHANGED trialRound
    /\ unseen' = unseen \ {"output"}
    /\ UNCHANGED <<tools, report, reportTouched, meddling, trial, noted, ranOn, reportBefore,
                   exitKind, printed, judged, stored, trials>>

-----------------------------------------------------------------------------
(* Other programs. MaxMeddling is a bound of the model.                        *)

MeddleOnce ==
    /\ meddling < MaxMeddling
    /\ meddling' = meddling + 1
    /\ UNCHANGED <<trialStep, trial, noted, ranOn, reportBefore, exitKind, printed, judged,
                   trialRound, trials>>

\* The report is written, replaced, given other permissions (which counts as
\* another file) or removed. Only a report that is declared is ever looked at.
MeddleReport ==
    /\ MeddleOnce
    /\ trial.declared /\ trial.runner = "local"
    /\ report' \in Reports \cup {NoReport}
    /\ reportTouched' = (reportTouched \/ trialStep \in {"ready", "ran"})
    /\ UNCHANGED <<tools, stored, unseen>>

MeddleOutput ==
    /\ MeddleOnce
    /\ stored = "own"
    /\ stored' = "altered"
    /\ unseen' = unseen \cup {"output"}
    /\ UNCHANGED <<tools, report, reportTouched>>

\* The interpreter is replaced, the context is switched, or a tag is moved.
MeddleTools ==
    /\ MeddleOnce
    /\ \/ tools' = [tools EXCEPT !.runtime = 1 - @]
       \/ \E e \in Endpoints : \/ tools' = [tools EXCEPT !.daemon = e]
                               \/ tools' = [tools EXCEPT !.image[e] = 1 - @]
    /\ unseen' = unseen \cup {"tools"}
    /\ UNCHANGED <<report, reportTouched, stored>>

TrialsNext ==
    \/ BeginTrial
    \/ NoteRuntime
    \/ LookAtReport
    \/ FindDaemon
    \/ FindImage
    \/ RunInProject
    \/ RunInContainer
    \/ ReadResult
    \/ StoreOutput
    \/ CompareTools
    \/ CompareOutput
    \/ MeddleReport
    \/ MeddleOutput
    \/ MeddleTools

TrialsSpec == TrialsInit /\ [][TrialsNext]_trialVars

-----------------------------------------------------------------------------
Recorded == trialStep = "recorded"

\* A recorded pass with a declared report rests on a report that changed after
\* the run began, or that the command left in its container; never on one that
\* was there before.
RecordedReportIsFresh ==
    Recorded /\ trial.declared =>
        /\ judged.from = IF trial.runner = "local" THEN "report" ELSE "container"
        /\ judged.from = "report" => reportTouched

\* The daemon and the image of a record are those the command ran on, wherever the
\* context and the tag pointed meanwhile.
RecordedImageIsWhatRan ==
    Recorded /\ trial.runner = "container" =>
        ranOn = [daemon |-> noted.daemon, image |-> noted.image]

\* When a record is made the tools are those it names and its output is intact,
\* except for what changed after the last comparison.
DriftIsNoticed ==
    Recorded =>
        /\ "tools" \notin unseen =>
              /\ noted.runtime = tools.runtime
              /\ trial.runner = "container" =>
                    noted.daemon = tools.daemon /\ noted.image = tools.image[tools.daemon]
        /\ "output" \notin unseen => stored = "own"

\* What is recorded of a run is what happened: its report is of this run, it names
\* the image that ran, and nothing that is still changed at the last comparison goes
\* unnoticed; a change undone before it, or made after it, does (verify_run,
\* validate_execution_result).
RecordIsTrue == RecordedReportIsFresh /\ RecordedImageIsWhatRan /\ DriftIsNoticed
=============================================================================
