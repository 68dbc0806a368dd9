-------------------------- MODULE Delivery_proofs ---------------------------
(***************************************************************************)
(* Proofs about what a delivery rests on: the run of a test command, for any*)
(* daemons and any changes by other programs, the reading of its report, for*)
(* any number of events, packages and tests, and the plans that a delivery *)
(* begins with, for any plans, cycles, calls and crashes.                  *)
(***************************************************************************)
EXTENDS CommandRuns, TestReports, DeliveryPlan, SequenceTheorems,
        FiniteSetTheorems, TLAPS

\* The command has run, and its result has been read.
HasRun == {"ran", "read", "written", "compared", "recorded"}
HasResult == HasRun \ {"ran"}

\* A daemon is known before its image is looked for, and there are three
\* comparisons.
TrialInOrder ==
    /\ trialStep = "resolving" => trial.runner = "container" /\ noted.daemon \in Endpoints
    /\ trialRound <= Comparisons \/ trialStep \in TrialsOver

\* A result that is not empty comes from a report of this run.
ResultIsFresh ==
    /\ trialStep \in {"ready", "ran"} /\ trial.runner = "local" /\ trial.declared
           => report = reportBefore \/ reportTouched
    /\ trialStep \in HasResult /\ trial.declared =>
           /\ trial.runner = "local" =>
                 judged.from = "report" /\ (judged.content # "nothing" => reportTouched)
           /\ trial.runner = "container" => judged.from = "container" \/ judged.content = "nothing"
    /\ trialStep = "ran" /\ trial.runner = "container" =>
           judged.from = "container" \/ judged.content = "nothing"
    /\ trialStep \in {"compared", "recorded"} => Passed

\* What the command ran on is what was noted.
ImageIsNoted ==
    trialStep \in HasRun /\ trial.runner = "container" =>
        ranOn = [daemon |-> noted.daemon, image |-> noted.image]

\* What was compared is the same until others change it.
ComparedIsSame ==
    /\ trialStep \in {"compared", "recorded"} /\ "tools" \notin unseen => SameTools
    /\ trialStep = "recorded" /\ "output" \notin unseen => stored = "own"

\* The inductive invariant.
TrialsInv ==
    /\ TrialsTypeOK
    /\ TrialInOrder
    /\ ResultIsFresh
    /\ ImageIsNoted
    /\ ComparedIsSame

-----------------------------------------------------------------------------
(* A step preserves each part. *)

\* What a command prints is a report, cut off or not.
LEMMA PrintedType == Printed \subseteq [content : ReportContents, truncated : BOOLEAN]
<1>1. CASE trial.declared
  <2>1. Printed = {[content |-> "nothing", truncated |-> FALSE]}
    BY <1>1, Zenon DEF Printed
  <2>2. [content |-> "nothing", truncated |-> FALSE]
            \in [content : ReportContents, truncated : BOOLEAN]
    BY DEF ReportContents
  <2>3. QED
    BY <2>1, <2>2, Zenon
<1>2. CASE ~trial.declared
  <2>1. Printed = [content : {"passing", "failing"}, truncated : BOOLEAN]
    BY <1>2, Zenon DEF Printed
  <2>2. QED
    BY <2>1 DEF ReportContents
<1>3. QED
  BY <1>1, <1>2

\* Every step of a verification keeps the types.
LEMMA TrialsTypeStep ==
    ASSUME TrialsTypeOK, TrialInOrder, [TrialsNext]_trialVars
    PROVE  TrialsTypeOK'
<1> USE RunBoundsAssumption
   DEF TrialsTypeOK, Trials, Tools, Notes, Versions, ReportContents, ReportFiles, NoReport,
       Comparisons, TrialsOver, Surroundings, TrialStep, MeddleOnce
<1>1. ASSUME BeginTrial PROVE TrialsTypeOK'
  BY <1>1 DEF BeginTrial
<1>2. ASSUME NoteRuntime PROVE TrialsTypeOK'
  BY <1>2 DEF NoteRuntime
<1>3. ASSUME LookAtReport PROVE TrialsTypeOK'
  BY <1>3 DEF LookAtReport
<1>4. ASSUME FindDaemon PROVE TrialsTypeOK'
  BY <1>4 DEF FindDaemon
<1>5. ASSUME FindImage PROVE TrialsTypeOK'
  <2>1. noted' \in Notes
    BY <1>5 DEF FindImage, TrialInOrder
  <2>2. QED
    BY <1>5, <2>1 DEF FindImage
<1>6. ASSUME RunInProject PROVE TrialsTypeOK'
  <2>1. printed' \in [content : ReportContents, truncated : BOOLEAN]
    <3>1. printed' \in Printed
      BY <1>6 DEF RunInProject
    <3>2. QED
      BY <3>1, PrintedType
  <2>2. /\ report'.file \in ReportFiles \cup {0} /\ report'.content \in ReportContents
        /\ report'.content = "nothing" <=> report'.file = 0
    BY <1>6 DEF RunInProject, Reports
  <2>3. QED
    BY <1>6, <2>1, <2>2 DEF RunInProject
<1>7. ASSUME RunInContainer PROVE TrialsTypeOK'
  <2>1. printed' \in [content : ReportContents, truncated : BOOLEAN]
    <3>1. printed' \in Printed
      BY <1>7 DEF RunInContainer
    <3>2. QED
      BY <3>1, PrintedType
  <2>2. ranOn'.daemon \in Endpoints \cup {NoDaemon} /\ ranOn'.image \in Versions
    BY <1>7 DEF RunInContainer, RunImage
  <2>3. /\ judged'.content \in ReportContents
        /\ judged'.from \in {"none", "output", "report", "container"}
    BY <1>7 DEF RunInContainer, CopiedReport
  <2>4. trialStep' \in {"ran", "refused"} /\ exitKind' \in {"zero", "nonzero", "timeout"}
    BY <1>7 DEF RunInContainer
  <2>5. QED
    BY <1>7, <2>1, <2>2, <2>3, <2>4 DEF RunInContainer
<1>8. ASSUME ReadResult PROVE TrialsTypeOK'
  BY <1>8 DEF ReadResult, IsStale
<1>9. ASSUME StoreOutput PROVE TrialsTypeOK'
  BY <1>9 DEF StoreOutput
<1>10. ASSUME CompareTools PROVE TrialsTypeOK'
  BY <1>10 DEF CompareTools, Passed, SameTools
<1>11. ASSUME CompareOutput PROVE TrialsTypeOK'
  <2>1. trialStep' \in {"written", "recorded", "refused"}
    BY <1>11 DEF CompareOutput
  <2>2. trialRound \in 1 .. Comparisons
    BY <1>11 DEF CompareOutput, TrialInOrder
  <2>3. trialRound' \in 1 .. Comparisons + 1
    BY <1>11, <2>2 DEF CompareOutput
  <2>4. QED
    BY <1>11, <2>1, <2>3 DEF CompareOutput
<1>12. ASSUME MeddleReport PROVE TrialsTypeOK'
  BY <1>12 DEF MeddleReport, Reports
<1>13. ASSUME MeddleOutput PROVE TrialsTypeOK'
  BY <1>13 DEF MeddleOutput
<1>14. ASSUME MeddleTools PROVE TrialsTypeOK'
  BY <1>14 DEF MeddleTools
<1>15. ASSUME UNCHANGED trialVars PROVE TrialsTypeOK'
  BY <1>15 DEF trialVars
<1>16. QED
  BY <1>1, <1>2, <1>3, <1>4, <1>5, <1>6, <1>7, <1>8, <1>9, <1>10, <1>11, <1>12, <1>13,
     <1>14, <1>15
     DEF TrialsNext

\* The daemon is known before its image is looked for.
LEMMA TrialOrderStep ==
    ASSUME TrialsTypeOK, TrialInOrder, [TrialsNext]_trialVars
    PROVE  TrialInOrder'
<1> USE RunBoundsAssumption
   DEF TrialInOrder, TrialsTypeOK, Tools, Notes, Trials, TrialsOver, Comparisons,
       Surroundings, TrialStep, MeddleOnce
<1>1. ASSUME BeginTrial PROVE TrialInOrder'
  BY <1>1 DEF BeginTrial
<1>2. ASSUME NoteRuntime PROVE TrialInOrder'
  BY <1>2 DEF NoteRuntime
<1>3. ASSUME LookAtReport PROVE TrialInOrder'
  BY <1>3 DEF LookAtReport
<1>4. ASSUME FindDaemon PROVE TrialInOrder'
  BY <1>4 DEF FindDaemon
<1>5. ASSUME FindImage PROVE TrialInOrder'
  BY <1>5 DEF FindImage
<1>6. ASSUME RunInProject PROVE TrialInOrder'
  BY <1>6 DEF RunInProject, Printed, Reports
<1>7. ASSUME RunInContainer PROVE TrialInOrder'
  BY <1>7 DEF RunInContainer, Printed, RunImage, CopiedReport
<1>8. ASSUME ReadResult PROVE TrialInOrder'
  BY <1>8 DEF ReadResult, IsStale
<1>9. ASSUME StoreOutput PROVE TrialInOrder'
  BY <1>9 DEF StoreOutput
<1>10. ASSUME CompareTools PROVE TrialInOrder'
  BY <1>10 DEF CompareTools, Passed, SameTools
<1>11. ASSUME CompareOutput PROVE TrialInOrder'
  BY <1>11 DEF CompareOutput
<1>12. ASSUME MeddleReport PROVE TrialInOrder'
  BY <1>12 DEF MeddleReport, Reports, NoReport
<1>13. ASSUME MeddleOutput PROVE TrialInOrder'
  BY <1>13 DEF MeddleOutput
<1>14. ASSUME MeddleTools PROVE TrialInOrder'
  BY <1>14 DEF MeddleTools
<1>15. ASSUME UNCHANGED trialVars PROVE TrialInOrder'
  BY <1>15 DEF trialVars
<1>16. QED
  BY <1>1, <1>2, <1>3, <1>4, <1>5, <1>6, <1>7, <1>8, <1>9, <1>10, <1>11, <1>12, <1>13,
     <1>14, <1>15
     DEF TrialsNext

\* A result that was read is the one that this run printed.
LEMMA FreshStep ==
    ASSUME TrialsTypeOK, TrialInOrder, ResultIsFresh, [TrialsNext]_trialVars
    PROVE  ResultIsFresh'
<1> USE RunBoundsAssumption
   DEF TrialInOrder, ResultIsFresh, TrialsTypeOK, Trials, HasRun, HasResult, Passed,
       TrialsOver, NoReport, Surroundings, TrialStep, MeddleOnce
<1>1. ASSUME BeginTrial PROVE ResultIsFresh'
  BY <1>1 DEF BeginTrial
<1>2. ASSUME NoteRuntime PROVE ResultIsFresh'
  BY <1>2 DEF NoteRuntime
<1>3. ASSUME LookAtReport PROVE ResultIsFresh'
  BY <1>3 DEF LookAtReport
<1>4. ASSUME FindDaemon PROVE ResultIsFresh'
  BY <1>4 DEF FindDaemon
<1>5. ASSUME FindImage PROVE ResultIsFresh'
  BY <1>5 DEF FindImage
<1>6. ASSUME RunInProject PROVE ResultIsFresh'
  BY <1>6 DEF RunInProject, Printed, Reports
<1>7. ASSUME RunInContainer PROVE ResultIsFresh'
  BY <1>7 DEF RunInContainer, Printed, RunImage, CopiedReport
<1>8. ASSUME ReadResult PROVE ResultIsFresh'
  BY <1>8 DEF ReadResult, IsStale
<1>9. ASSUME StoreOutput PROVE ResultIsFresh'
  BY <1>9 DEF StoreOutput
<1>10. ASSUME CompareTools PROVE ResultIsFresh'
  BY <1>10 DEF CompareTools, SameTools
<1>11. ASSUME CompareOutput PROVE ResultIsFresh'
  BY <1>11 DEF CompareOutput, Comparisons
<1>12. ASSUME MeddleReport PROVE ResultIsFresh'
  BY <1>12 DEF MeddleReport, Reports
<1>13. ASSUME MeddleOutput PROVE ResultIsFresh'
  BY <1>13 DEF MeddleOutput
<1>14. ASSUME MeddleTools PROVE ResultIsFresh'
  BY <1>14 DEF MeddleTools
<1>15. ASSUME UNCHANGED trialVars PROVE ResultIsFresh'
  BY <1>15 DEF trialVars
<1>16. QED
  BY <1>1, <1>2, <1>3, <1>4, <1>5, <1>6, <1>7, <1>8, <1>9, <1>10, <1>11, <1>12, <1>13,
     <1>14, <1>15
     DEF TrialsNext

\* The image that was noted is the one that runs.
LEMMA ImageStep ==
    ASSUME TrialsTypeOK, ImageIsNoted, [TrialsNext]_trialVars
    PROVE  ImageIsNoted'
<1> USE RunBoundsAssumption
   DEF ImageIsNoted, TrialsTypeOK, Trials, HasRun, TrialsOver, Surroundings, TrialStep,
       MeddleOnce
<1>1. ASSUME BeginTrial PROVE ImageIsNoted'
  BY <1>1 DEF BeginTrial
<1>2. ASSUME NoteRuntime PROVE ImageIsNoted'
  BY <1>2 DEF NoteRuntime
<1>3. ASSUME LookAtReport PROVE ImageIsNoted'
  BY <1>3 DEF LookAtReport
<1>4. ASSUME FindDaemon PROVE ImageIsNoted'
  BY <1>4 DEF FindDaemon
<1>5. ASSUME FindImage PROVE ImageIsNoted'
  BY <1>5 DEF FindImage
<1>6. ASSUME RunInProject PROVE ImageIsNoted'
  BY <1>6 DEF RunInProject, Printed, Reports
<1>7. ASSUME RunInContainer PROVE ImageIsNoted'
  BY <1>7 DEF RunInContainer, Printed, RunImage, CopiedReport
<1>8. ASSUME ReadResult PROVE ImageIsNoted'
  BY <1>8 DEF ReadResult, IsStale
<1>9. ASSUME StoreOutput PROVE ImageIsNoted'
  BY <1>9 DEF StoreOutput
<1>10. ASSUME CompareTools PROVE ImageIsNoted'
  BY <1>10 DEF CompareTools, Passed, SameTools
<1>11. ASSUME CompareOutput PROVE ImageIsNoted'
  BY <1>11 DEF CompareOutput, Comparisons
<1>12. ASSUME MeddleReport PROVE ImageIsNoted'
  BY <1>12 DEF MeddleReport, Reports, NoReport
<1>13. ASSUME MeddleOutput PROVE ImageIsNoted'
  BY <1>13 DEF MeddleOutput
<1>14. ASSUME MeddleTools PROVE ImageIsNoted'
  BY <1>14 DEF MeddleTools
<1>15. ASSUME UNCHANGED trialVars PROVE ImageIsNoted'
  BY <1>15 DEF trialVars
<1>16. QED
  BY <1>1, <1>2, <1>3, <1>4, <1>5, <1>6, <1>7, <1>8, <1>9, <1>10, <1>11, <1>12, <1>13,
     <1>14, <1>15
     DEF TrialsNext

\* What was compared with the source is what is there until it is recorded.
LEMMA SameStep ==
    ASSUME TrialsTypeOK, ComparedIsSame, [TrialsNext]_trialVars
    PROVE  ComparedIsSame'
<1> USE RunBoundsAssumption
   DEF ComparedIsSame, TrialsTypeOK, Trials, SameTools, TrialsOver, Surroundings,
       TrialStep, MeddleOnce
<1>1. ASSUME BeginTrial PROVE ComparedIsSame'
  BY <1>1 DEF BeginTrial
<1>2. ASSUME NoteRuntime PROVE ComparedIsSame'
  BY <1>2 DEF NoteRuntime
<1>3. ASSUME LookAtReport PROVE ComparedIsSame'
  BY <1>3 DEF LookAtReport
<1>4. ASSUME FindDaemon PROVE ComparedIsSame'
  BY <1>4 DEF FindDaemon
<1>5. ASSUME FindImage PROVE ComparedIsSame'
  BY <1>5 DEF FindImage
<1>6. ASSUME RunInProject PROVE ComparedIsSame'
  BY <1>6 DEF RunInProject, Printed, Reports
<1>7. ASSUME RunInContainer PROVE ComparedIsSame'
  BY <1>7 DEF RunInContainer, Printed, RunImage, CopiedReport
<1>8. ASSUME ReadResult PROVE ComparedIsSame'
  BY <1>8 DEF ReadResult, IsStale
<1>9. ASSUME StoreOutput PROVE ComparedIsSame'
  BY <1>9 DEF StoreOutput
<1>10. ASSUME CompareTools PROVE ComparedIsSame'
  BY <1>10 DEF CompareTools, Passed
<1>11. ASSUME CompareOutput PROVE ComparedIsSame'
  BY <1>11 DEF CompareOutput, Comparisons
<1>12. ASSUME MeddleReport PROVE ComparedIsSame'
  BY <1>12 DEF MeddleReport, Reports, NoReport
<1>13. ASSUME MeddleOutput PROVE ComparedIsSame'
  BY <1>13 DEF MeddleOutput
<1>14. ASSUME MeddleTools PROVE ComparedIsSame'
  BY <1>14 DEF MeddleTools
<1>15. ASSUME UNCHANGED trialVars PROVE ComparedIsSame'
  BY <1>15 DEF trialVars
<1>16. QED
  BY <1>1, <1>2, <1>3, <1>4, <1>5, <1>6, <1>7, <1>8, <1>9, <1>10, <1>11, <1>12, <1>13,
     <1>14, <1>15
     DEF TrialsNext

-----------------------------------------------------------------------------
\* No verification has begun.
LEMMA TrialsInitInv == TrialsInit => TrialsInv
<1> SUFFICES ASSUME TrialsInit PROVE TrialsInv
  OBVIOUS
<1>1. trials \in 0 .. MaxTrials /\ meddling \in 0 .. MaxMeddling
  BY RunBoundsAssumption DEF TrialsInit
<1>2. tools \in Tools
  BY DEF TrialsInit, Tools, Versions
<1>3. trial \in Trials /\ noted \in Notes
  BY DEF TrialsInit, Trials, Notes, Versions
<1>4. TrialsTypeOK
  BY <1>1, <1>2, <1>3
     DEF TrialsInit, TrialsTypeOK, Versions, ReportContents, ReportFiles, NoReport,
         Comparisons
<1>5. TrialInOrder /\ ResultIsFresh /\ ImageIsNoted /\ ComparedIsSame
  BY DEF TrialsInit, TrialInOrder, ResultIsFresh, ImageIsNoted, ComparedIsSame, HasRun,
         HasResult, Comparisons
<1>6. QED
  BY <1>4, <1>5 DEF TrialsInv

\* Every step of a verification or of others keeps the invariant.
LEMMA TrialsStepInv == TrialsInv /\ [TrialsNext]_trialVars => TrialsInv'
BY TrialsTypeStep, TrialOrderStep, FreshStep, ImageStep, SameStep DEF TrialsInv

\* The inductive invariant holds in every reachable state (the executors of
\* core/execution.py).
THEOREM TrialsInvariance == TrialsSpec => []TrialsInv
<1>1. TrialsInit => TrialsInv
  BY TrialsInitInv
<1>2. TrialsInv /\ [TrialsNext]_trialVars => TrialsInv'
  BY TrialsStepInv
<1>3. QED
  BY <1>1, <1>2, PTL DEF TrialsSpec

\* The variables of a verification keep their types: what a verdict was read from
\* is never the copy of an old report, and the image and the daemon of a record
\* are ones of the machine.
THEOREM TrialsTypeCorrect == TrialsSpec => []TrialsTypeOK
<1>1. TrialsInv => TrialsTypeOK
  BY DEF TrialsInv
<1>2. QED
  BY <1>1, TrialsInvariance, PTL

\* A recorded pass with a declared report rests on a report of this run, however
\* the report file was changed before, during and after it (LocalExecutor.run,
\* ContainerExecutor.run).
THEOREM RecordedReportFresh == TrialsSpec => []RecordedReportIsFresh
<1>1. TrialsInv => RecordedReportIsFresh
  <2> SUFFICES ASSUME TrialsInv, Recorded, trial.declared
               PROVE  /\ judged.from = IF trial.runner = "local" THEN "report" ELSE "container"
                      /\ judged.from = "report" => reportTouched
    BY DEF RecordedReportIsFresh
  <2>1. judged.content = "passing" /\ trial.runner \in {"local", "container"}
    BY DEF TrialsInv, ResultIsFresh, Passed, Recorded, TrialsTypeOK, Trials
  <2>2. QED
    BY <2>1 DEF TrialsInv, ResultIsFresh, HasRun, HasResult, Recorded
<1>2. QED
  BY <1>1, TrialsInvariance, PTL

\* The daemon and the image of a record are those the command ran on
\* (ContainerExecutor.run names both by digest).
THEOREM RecordedImageRan == TrialsSpec => []RecordedImageIsWhatRan
<1>1. TrialsInv => RecordedImageIsWhatRan
  BY DEF TrialsInv, ImageIsNoted, RecordedImageIsWhatRan, Recorded, HasRun
<1>2. QED
  BY <1>1, TrialsInvariance, PTL

\* A change of the tools or of the stored output before the last comparison keeps
\* the record from being made (validate_execution_result).
THEOREM DriftNoticed == TrialsSpec => []DriftIsNoticed
<1>1. TrialsInv => DriftIsNoticed
  BY DEF TrialsInv, ComparedIsSame, DriftIsNoticed, Recorded, SameTools
<1>2. QED
  BY <1>1, TrialsInvariance, PTL

\* What is recorded of a run is what happened, but for changes undone before the
\* last comparison or made after it (verify_run).
THEOREM RecordTrue == TrialsSpec => []RecordIsTrue
BY RecordedReportFresh, RecordedImageRan, DriftNoticed, PTL DEF RecordIsTrue

-----------------------------------------------------------------------------
(* The reading of a report. *)

(* What reading a stream of go events keeps. *)

\* What the reader of go events holds.
GoReader ==
    [active : SUBSET (Packages \X GoTests), ran : SUBSET Packages,
     failedIn : SUBSET Packages, passed : Nat, failed : Nat,
     closed : [Packages -> {"open", "pass", "fail"}]]

\* Some test of the package, or of any, came to this.
SomeTest(p, a) ==
    \E i \in DOMAIN events :
        events[i].package = p /\ events[i].test # Missing /\ events[i].action = a

AnyTest(a) == \E i \in DOMAIN events : events[i].test # Missing /\ events[i].action = a

\* The event ends the package with this outcome.
ClosesWith(p, i, a) ==
    events[i].package = p /\ events[i].test = Missing /\ events[i].action = a

\* The last that happened to a test is that it was started.
IsRunning(p, t) ==
    \E i \in History(p, t) :
        events[i].action = "run" /\ \A m \in History(p, t) : m <= i

\* What was started ended, or still runs.
StartsEnd(p, t) ==
    \A i \in History(p, t) :
        events[i].action = "run" =>
            \/ \E j \in History(p, t) :
                  Successive(p, t, i, j) /\ events[j].action \in {"pass", "skip", "fail"}
            \/ <<p, t>> \in reader.active /\ \A m \in History(p, t) : m <= i

\* What ended was started.
EndsWereStarted(p, t) ==
    \A i \in History(p, t) :
        events[i].action # "run" =>
            \E j \in History(p, t) : Successive(p, t, j, i) /\ events[j].action = "run"

\* A package that is closed was closed by one event, after all of its tests.
ClosedByOne(p) ==
    /\ reader.closed[p] = "open" =>
          \A i \in DOMAIN events : ~ClosesWith(p, i, "pass") /\ ~ClosesWith(p, i, "fail")
    /\ reader.closed[p] # "open" =>
          \E i \in DOMAIN events :
              /\ ClosesWith(p, i, reader.closed[p])
              /\ \A j \in DOMAIN events \ {i} :
                    events[j].package = p =>
                        \/ events[j].test = Missing /\ events[j].action = "skip"
                        \/ events[j].test # Missing /\ j < i

GoEventsSound ==
    /\ events \in Seq(GoEvents)
    /\ reader \in GoReader
    /\ \A i \in DOMAIN events : events[i].package # Missing

GoTestsFollowed ==
    \A p \in Packages, t \in GoTests :
        /\ StartsEnd(p, t)
        /\ EndsWereStarted(p, t)
        /\ <<p, t>> \in reader.active => IsRunning(p, t)

GoTallied ==
    /\ \A p \in Packages : p \in reader.ran <=> SomeTest(p, "run")
    /\ \A p \in reader.failedIn : SomeTest(p, "fail")
    /\ reader.passed > 0 <=> AnyTest("pass")
    /\ reader.failed > 0 <=> AnyTest("fail")

GoClosed == \A p \in Packages : ClosedByOne(p)

\* The reader knows what the events read so far say.
GoFollowed == GoEventsSound /\ GoTestsFollowed /\ GoTallied /\ GoClosed

\* At the start of a stream the reader knows all there is.
LEMMA NoGoFollows ==
    ASSUME events = <<>>, reader = NoGo
    PROVE  GoFollowed
<1>1. DOMAIN events = {} /\ events \in Seq(GoEvents)
  OBVIOUS
<1>2. \A p, t : History(p, t) = {}
  BY <1>1 DEF History
<1>3. GoEventsSound
  BY <1>1 DEF GoEventsSound, GoReader, NoGo
<1>4. GoTestsFollowed
  BY <1>2 DEF GoTestsFollowed, StartsEnd, EndsWereStarted, NoGo
<1>5. GoTallied
  BY <1>1 DEF GoTallied, SomeTest, AnyTest, NoGo
<1>6. GoClosed
  BY <1>1 DEF GoClosed, ClosedByOne, NoGo
<1> QED BY <1>3, <1>4, <1>5, <1>6 DEF GoFollowed

\* The events are those before and one more.
LEMMA OneMoreEvent ==
    ASSUME NEW Event, events \in Seq(Event), NEW e \in Event, events' = Append(events, e)
    PROVE  /\ events' \in Seq(Event)
           /\ Len(events) \in Nat
           /\ DOMAIN events = 1 .. Len(events)
           /\ DOMAIN events' = 1 .. Len(events) + 1
           /\ DOMAIN events' = DOMAIN events \cup {Len(events) + 1}
           /\ events'[Len(events) + 1] = e
           /\ \A i \in DOMAIN events : events'[i] = events[i] /\ i < Len(events) + 1 /\ i \in Nat
<1>1. Len(events) \in Nat /\ DOMAIN events = 1 .. Len(events)
  OBVIOUS
<1>2. /\ events' \in Seq(Event)
      /\ Len(events') = Len(events) + 1
      /\ events'[Len(events) + 1] = e
      /\ \A i \in 1 .. Len(events) : events'[i] = events[i]
  BY AppendProperties
<1>3. DOMAIN events' = 1 .. Len(events) + 1
  BY <1>2
<1>4. 1 .. Len(events) + 1 = (1 .. Len(events)) \cup {Len(events) + 1}
  BY <1>1
<1> QED BY <1>1, <1>2, <1>3, <1>4

\* What the history of a test is after one more event.
LEMMA HistoryGrows ==
    ASSUME events \in Seq(GoEvents), NEW e \in GoEvents, events' = Append(events, e),
           NEW p, NEW t
    PROVE  History(p, t)' = IF e.package = p /\ e.test = t /\ e.action # "output"
                            THEN History(p, t) \cup {Len(events) + 1}
                            ELSE History(p, t)
BY OneMoreEvent DEF History

\* An event is of a test, or ends a package.
LEMMA GoEventFields ==
    ASSUME NEW e \in GoEvents
    PROVE  /\ e.package \in Packages \cup {Missing}
           /\ e.action \in {"run", "pass", "fail", "skip", "output"}
           /\ e.test # Missing => e.test \in GoTests
           /\ e.test = Missing => e.package \in Packages /\ e.action \in {"pass", "fail", "skip"}
BY MissingAssumption DEF GoEvents

GoReads(e) ==
    /\ e \in GoEvents
    /\ ~GoRefuses(reader, e)
    /\ events' = Append(events, e)
    /\ reader' = GoAfter(reader, e)

\* What an event does to what the reader holds.
LEMMA GoAfterFields ==
    ASSUME reader \in GoReader, NEW e \in GoEvents, ~GoRefuses(reader, e),
           reader' = GoAfter(reader, e)
    PROVE  /\ reader' \in GoReader
           /\ reader'.active = IF e.test # Missing /\ e.action = "run"
                               THEN reader.active \cup {EventKey(e)}
                               ELSE IF e.test # Missing /\ e.action \in {"pass", "fail", "skip"}
                               THEN reader.active \ {EventKey(e)}
                               ELSE reader.active
           /\ reader'.ran = IF e.test # Missing /\ e.action = "run"
                            THEN reader.ran \cup {e.package} ELSE reader.ran
           /\ reader'.passed = IF e.test # Missing /\ e.action = "pass"
                               THEN reader.passed + 1 ELSE reader.passed
           /\ reader'.failed = IF e.test # Missing /\ e.action = "fail"
                               THEN reader.failed + 1 ELSE reader.failed
           /\ reader'.failedIn = IF e.test # Missing /\ e.action = "fail"
                                 THEN reader.failedIn \cup {e.package} ELSE reader.failedIn
           /\ reader'.closed = IF Closes(e)
                               THEN [reader.closed EXCEPT ![e.package] = e.action]
                               ELSE reader.closed
<1>1. e.test # Missing => EventKey(e) \in Packages \X GoTests
  BY GoEventFields DEF GoRefuses, EventKey
<1>2. e.test # Missing => e.package \in Packages
  BY GoEventFields DEF GoRefuses
<1>3. CASE e.test # Missing /\ e.action = "run"
  BY <1>1, <1>2, <1>3, GoEventFields DEF GoReader, GoAfter, Closes
<1>4. CASE e.test # Missing /\ e.action = "pass"
  <2>1. reader' = [reader EXCEPT !.active = @ \ {EventKey(e)}, !.passed = @ + 1]
    BY <1>4 DEF GoAfter, Closes
  <2>2. reader.passed + 1 \in Nat /\ reader.active \ {EventKey(e)} \subseteq Packages \X GoTests
    BY DEF GoReader
  <2> QED BY <2>1, <2>2, <1>4 DEF GoReader, Closes
<1>5. CASE e.test # Missing /\ e.action = "fail"
  <2>1. reader' = [reader EXCEPT !.active = @ \ {EventKey(e)}, !.failed = @ + 1,
                                 !.failedIn = @ \cup {e.package}]
    BY <1>5 DEF GoAfter, Closes
  <2>2. /\ reader.failed + 1 \in Nat /\ reader.active \ {EventKey(e)} \subseteq Packages \X GoTests
        /\ reader.failedIn \cup {e.package} \subseteq Packages
    BY <1>2, <1>5 DEF GoReader
  <2> QED BY <2>1, <2>2, <1>5 DEF GoReader, Closes
<1>6. CASE e.test # Missing /\ e.action = "skip"
  BY <1>1, <1>2, <1>6, GoEventFields DEF GoReader, GoAfter, Closes
<1>7. CASE e.test # Missing /\ e.action = "output"
  BY <1>1, <1>2, <1>7, GoEventFields DEF GoReader, GoAfter, Closes
<1>8. CASE Closes(e)
  BY <1>8, GoEventFields DEF GoReader, GoAfter, Closes
<1>9. CASE e.test = Missing /\ ~Closes(e)
  BY <1>9, GoEventFields DEF GoReader, GoAfter, Closes
<1> QED BY <1>3, <1>4, <1>5, <1>6, <1>7, <1>8, <1>9, GoEventFields

\* An event that is read keeps the types, and names its package.
LEMMA GoEventsStaySound ==
    ASSUME GoEventsSound, NEW e \in GoEvents, GoReads(e)
    PROVE  GoEventsSound'
<1>1. e.package # Missing
  BY GoEventFields, MissingAssumption DEF GoReads, GoRefuses
<1>2. reader' \in GoReader
  BY GoAfterFields DEF GoReads, GoEventsSound
<1>3. events' \in Seq(GoEvents) /\ \A i \in DOMAIN events' : events'[i].package # Missing
  BY <1>1, OneMoreEvent DEF GoReads, GoEventsSound
<1> QED BY <1>2, <1>3 DEF GoEventsSound

\* An event that is read keeps the book on the tests: it starts one that does
\* not run or ends one that does.
LEMMA GoTestsStayFollowed ==
    ASSUME GoEventsSound, GoTestsFollowed, NEW e \in GoEvents, GoReads(e)
    PROVE  GoTestsFollowed'
<1> PICK n : n = Len(events) + 1
  OBVIOUS
<1>0. /\ events \in Seq(GoEvents) /\ reader \in GoReader
      /\ events' = Append(events, e) /\ ~GoRefuses(reader, e)
      /\ reader' = GoAfter(reader, e)
  BY DEF GoReads, GoEventsSound
<1> SUFFICES ASSUME NEW p \in Packages, NEW t \in GoTests
             PROVE  /\ StartsEnd(p, t)' /\ EndsWereStarted(p, t)'
                    /\ (<<p, t>> \in reader.active)' => IsRunning(p, t)'
  BY DEF GoTestsFollowed
<1>1. /\ n \in Nat /\ events'[n] = e
      /\ \A i \in DOMAIN events : events'[i] = events[i] /\ i < n /\ i \in Nat
  BY <1>0, OneMoreEvent
<1>2. /\ StartsEnd(p, t) /\ EndsWereStarted(p, t)
      /\ <<p, t>> \in reader.active => IsRunning(p, t)
  BY DEF GoTestsFollowed
<1>3. t # Missing
  BY MissingAssumption
<1>4. \A i \in History(p, t) : i \in Nat /\ i < n /\ events'[i] = events[i]
  BY <1>1 DEF History
<1>5. EventKey(e) = <<p, t>> <=> e.package = p /\ e.test = t
  BY DEF EventKey
<1>6. CASE ~(e.package = p /\ e.test = t /\ e.action # "output")
  <2>1. History(p, t)' = History(p, t)
    BY <1>0, <1>6, HistoryGrows
  <2>2. <<p, t>> \in reader'.active <=> <<p, t>> \in reader.active
    BY <1>0, <1>5, <1>6, GoAfterFields
  <2>3. StartsEnd(p, t)'
    BY <2>1, <2>2, <1>2, <1>4 DEF StartsEnd, Successive
  <2>4. EndsWereStarted(p, t)'
    BY <2>1, <1>2, <1>4 DEF EndsWereStarted, Successive
  <2>5. (<<p, t>> \in reader.active)' => IsRunning(p, t)'
    BY <2>1, <2>2, <1>2, <1>4 DEF IsRunning
  <2> QED BY <2>3, <2>4, <2>5
<1>7. CASE e.package = p /\ e.test = t /\ e.action # "output"
  <2>1. History(p, t)' = History(p, t) \cup {n}
    BY <1>0, <1>7, HistoryGrows
  <2>2. \A i, j \in History(p, t) : Successive(p, t, i, j)' <=> Successive(p, t, i, j)
    BY <2>1, <1>4, <1>1 DEF Successive
  <2>3. CASE e.action = "run"
    <3>1. <<p, t>> \notin reader.active
      BY <1>0, <1>3, <1>5, <1>7, <2>3 DEF GoRefuses
    <3>2. <<p, t>> \in reader'.active
      BY <1>0, <1>3, <1>5, <1>7, <2>3, GoAfterFields
    <3>3. StartsEnd(p, t)'
      BY <2>1, <2>2, <3>1, <3>2, <1>2, <1>4, <1>1 DEF StartsEnd
    <3>4. EndsWereStarted(p, t)'
      BY <2>1, <2>2, <2>3, <1>2, <1>4, <1>1 DEF EndsWereStarted
    <3>5. IsRunning(p, t)'
      BY <2>1, <2>3, <1>4, <1>1 DEF IsRunning
    <3> QED BY <3>3, <3>4, <3>5
  <2>4. CASE e.action \in {"pass", "fail", "skip"}
    <3>1. <<p, t>> \in reader.active
      BY <1>0, <1>3, <1>5, <1>7, <2>4 DEF GoRefuses
    <3>2. <<p, t>> \notin reader'.active
      BY <1>0, <1>3, <1>5, <1>7, <2>4, GoAfterFields
    <3>3. PICK k \in History(p, t) :
              events[k].action = "run" /\ \A m \in History(p, t) : m <= k
      BY <3>1, <1>2 DEF IsRunning
    <3>4. Successive(p, t, k, n)'
      BY <2>1, <3>3, <1>4, <1>1 DEF Successive
    <3>5. StartsEnd(p, t)'
      <4> SUFFICES ASSUME NEW i \in History(p, t)', events'[i].action = "run"
                   PROVE  \E j \in History(p, t)' :
                             /\ Successive(p, t, i, j)'
                             /\ events'[j].action \in {"pass", "skip", "fail"}
        BY DEF StartsEnd
      <4>1. i \in History(p, t) /\ events[i].action = "run"
        BY <2>1, <2>4, <1>1, <1>4
      <4>2. CASE i = k
        BY <4>2, <3>4, <2>1, <2>4, <1>1
      <4>3. CASE i # k
        <5>1. ~(\A m \in History(p, t) : m <= i)
          BY <4>3, <4>1, <3>3, <1>4
        <5>2. PICK j \in History(p, t) : Successive(p, t, i, j) /\ events[j].action \in {"pass", "skip", "fail"}
          BY <5>1, <4>1, <1>2 DEF StartsEnd
        <5> QED BY <5>2, <4>1, <2>1, <2>2, <1>4
      <4> QED BY <4>2, <4>3
    <3>6. EndsWereStarted(p, t)'
      <4> SUFFICES ASSUME NEW i \in History(p, t)', events'[i].action # "run"
                   PROVE  \E j \in History(p, t)' :
                             Successive(p, t, j, i)' /\ events'[j].action = "run"
        BY DEF EndsWereStarted
      <4>1. CASE i = n
        BY <4>1, <3>3, <3>4, <2>1, <1>4
      <4>2. CASE i # n
        <5>1. PICK j \in History(p, t) : Successive(p, t, j, i) /\ events[j].action = "run"
          BY <4>2, <2>1, <1>2, <1>4 DEF EndsWereStarted
        <5> QED BY <5>1, <4>2, <2>1, <2>2, <1>4
      <4> QED BY <4>1, <4>2
    <3> QED BY <3>2, <3>5, <3>6
  <2> QED BY <2>3, <2>4, <1>7, GoEventFields
<1> QED BY <1>6, <1>7

\* What happened to some test, after one more event.
LEMMA SomeTestGrows ==
    ASSUME events \in Seq(GoEvents), NEW e \in GoEvents, events' = Append(events, e), NEW a
    PROVE  /\ AnyTest(a)' <=> AnyTest(a) \/ (e.test # Missing /\ e.action = a)
           /\ \A p : SomeTest(p, a)' <=>
                       SomeTest(p, a) \/ (e.package = p /\ e.test # Missing /\ e.action = a)
BY OneMoreEvent DEF AnyTest, SomeTest

\* An event that is read is counted.
LEMMA GoStaysTallied ==
    ASSUME GoEventsSound, GoTallied, NEW e \in GoEvents, GoReads(e)
    PROVE  GoTallied'
<1>0. /\ events \in Seq(GoEvents) /\ reader \in GoReader
      /\ events' = Append(events, e) /\ ~GoRefuses(reader, e)
      /\ reader' = GoAfter(reader, e)
  BY DEF GoReads, GoEventsSound
<1>1. \A p \in Packages : p \in reader'.ran <=> SomeTest(p, "run")'
  <2>1. \A p : SomeTest(p, "run")' <=>
                 SomeTest(p, "run") \/ (e.package = p /\ e.test # Missing /\ e.action = "run")
    BY <1>0, SomeTestGrows
  <2>2. reader'.ran = IF e.test # Missing /\ e.action = "run"
                      THEN reader.ran \cup {e.package} ELSE reader.ran
    BY <1>0, GoAfterFields
  <2> QED BY <2>1, <2>2 DEF GoTallied
<1>2. \A p \in reader'.failedIn : SomeTest(p, "fail")'
  <2>1. \A p : SomeTest(p, "fail")' <=>
                 SomeTest(p, "fail") \/ (e.package = p /\ e.test # Missing /\ e.action = "fail")
    BY <1>0, SomeTestGrows
  <2>2. reader'.failedIn = IF e.test # Missing /\ e.action = "fail"
                           THEN reader.failedIn \cup {e.package} ELSE reader.failedIn
    BY <1>0, GoAfterFields
  <2> QED BY <2>1, <2>2 DEF GoTallied
<1>3. reader.passed \in Nat /\ reader.failed \in Nat
  BY <1>0 DEF GoReader
<1>4. reader'.passed > 0 <=> AnyTest("pass")'
  <2>1. AnyTest("pass")' <=> AnyTest("pass") \/ (e.test # Missing /\ e.action = "pass")
    BY <1>0, SomeTestGrows
  <2>2. reader'.passed = IF e.test # Missing /\ e.action = "pass"
                         THEN reader.passed + 1 ELSE reader.passed
    BY <1>0, GoAfterFields
  <2> QED BY <2>1, <2>2, <1>3 DEF GoTallied
<1>5. reader'.failed > 0 <=> AnyTest("fail")'
  <2>1. AnyTest("fail")' <=> AnyTest("fail") \/ (e.test # Missing /\ e.action = "fail")
    BY <1>0, SomeTestGrows
  <2>2. reader'.failed = IF e.test # Missing /\ e.action = "fail"
                         THEN reader.failed + 1 ELSE reader.failed
    BY <1>0, GoAfterFields
  <2> QED BY <2>1, <2>2, <1>3 DEF GoTallied
<1> QED BY <1>1, <1>2, <1>4, <1>5 DEF GoTallied

\* A package is closed by one event, and no test of it follows.
LEMMA GoStaysClosed ==
    ASSUME GoEventsSound, GoTestsFollowed, GoClosed, NEW e \in GoEvents, GoReads(e)
    PROVE  GoClosed'
<1> PICK n : n = Len(events) + 1
  OBVIOUS
<1>0. /\ events \in Seq(GoEvents) /\ reader \in GoReader
      /\ events' = Append(events, e) /\ ~GoRefuses(reader, e)
      /\ reader' = GoAfter(reader, e)
  BY DEF GoReads, GoEventsSound
<1> SUFFICES ASSUME NEW p \in Packages PROVE ClosedByOne(p)'
  BY DEF GoClosed
<1>1. /\ n \in Nat /\ events'[n] = e /\ DOMAIN events' = DOMAIN events \cup {n}
      /\ \A i \in DOMAIN events : events'[i] = events[i] /\ i < n /\ i \in Nat
  BY <1>0, OneMoreEvent
<1>2. ClosedByOne(p) /\ reader.closed \in [Packages -> {"open", "pass", "fail"}]
  BY <1>0 DEF GoClosed, GoReader
<1>3. CASE e.package # p
  <2>1. reader'.closed[p] = reader.closed[p]
    BY <1>0, <1>2, <1>3, GoAfterFields
  <2> QED BY <2>1, <1>1, <1>2, <1>3 DEF ClosedByOne, ClosesWith
<1>4. CASE e.package = p /\ Closes(e)
  <2>1. reader.closed[p] = "open" /\ \A k \in reader.active : k[1] # p
    BY <1>0, <1>4 DEF GoRefuses, Closes
  <2>2. reader'.closed[p] = e.action
    BY <1>0, <1>2, <1>4, GoAfterFields
  <2>3. e.test = Missing /\ e.action \in {"pass", "fail"}
    BY <1>4 DEF Closes
  <2>4. ClosesWith(p, n, e.action)'
    BY <1>1, <1>4, <2>3 DEF ClosesWith
  <2>5. \A j \in DOMAIN events : events[j].package = p =>
            \/ events[j].test = Missing /\ events[j].action = "skip"
            \/ events[j].test # Missing
    <3>1. \A j \in DOMAIN events : events[j] \in GoEvents
      BY <1>0
    <3> QED BY <3>1, <1>2, <2>1, GoEventFields DEF ClosedByOne, ClosesWith
  <2>6. \A j \in DOMAIN events' \ {n} :
            events'[j].package = p =>
                \/ events'[j].test = Missing /\ events'[j].action = "skip"
                \/ events'[j].test # Missing /\ j < n
    BY <2>5, <1>1
  <2> QED BY <2>2, <2>3, <2>4, <2>6, <1>1 DEF ClosedByOne, ClosesWith
<1>5. CASE e.package = p /\ e.test = Missing /\ ~Closes(e)
  <2>1. reader'.closed[p] = reader.closed[p] /\ e.action = "skip"
    BY <1>0, <1>2, <1>5, GoAfterFields, GoEventFields DEF Closes
  <2> QED BY <2>1, <1>1, <1>2, <1>5 DEF ClosedByOne, ClosesWith
<1>6. CASE e.package = p /\ e.test # Missing
  <2>1. reader'.closed[p] = reader.closed[p] /\ reader.closed[p] = "open"
    BY <1>0, <1>2, <1>6, GoAfterFields DEF Closes, GoRefuses
  <2> QED BY <2>1, <1>1, <1>2, <1>6 DEF ClosedByOne, ClosesWith
<1> QED BY <1>3, <1>4, <1>5, <1>6

\* The reader follows the stream, event by event.
LEMMA GoStaysFollowed ==
    ASSUME GoFollowed, NEW e \in GoEvents, GoReads(e)
    PROVE  GoFollowed'
BY GoEventsStaySound, GoTestsStayFollowed, GoStaysTallied, GoStaysClosed DEF GoFollowed

\* An event that the reader refuses is a contradiction: no report that goes on
\* from there passes, and so neither does this one.
LEMMA RefusedGoFails ==
    ASSUME GoFollowed, NEW e \in GoEvents, GoRefuses(reader, e), events' = Append(events, e)
    PROVE  ~GoReportPasses'
<1> PICK n : n = Len(events) + 1
  OBVIOUS
<1>0. /\ events \in Seq(GoEvents) /\ reader \in GoReader /\ GoTestsFollowed /\ GoClosed
  BY DEF GoFollowed, GoEventsSound
<1>1. /\ n \in Nat /\ events'[n] = e /\ DOMAIN events' = DOMAIN events \cup {n}
      /\ \A i \in DOMAIN events : events'[i] = events[i] /\ i < n /\ i \in Nat
  BY <1>0, OneMoreEvent
<1>2. \A p, t : \A i \in History(p, t) :
          i \in Nat /\ i < n /\ events'[i] = events[i] /\ i \in DOMAIN events
  BY <1>1 DEF History
<1> SUFFICES ASSUME GoReportPasses'
             PROVE  FALSE
  OBVIOUS
<1>3. \A i \in DOMAIN events' :
          /\ events'[i].package # Missing
          /\ events'[i].action # "fail"
          /\ events'[i].action = "run" \/ (events'[i].test = Missing /\ events'[i].action = "pass")
                => \A q : events'[i].package = q => PackagePasses(q)'
  <2> SUFFICES ASSUME NEW i \in DOMAIN events'
               PROVE  /\ events'[i].package # Missing
                      /\ events'[i].action # "fail"
                      /\ events'[i].action = "run" \/ (events'[i].test = Missing /\ events'[i].action = "pass")
                            => \A q : events'[i].package = q => PackagePasses(q)'
    OBVIOUS
  <2>1. events'[i].package # Missing /\ events'[i].action # "fail"
    BY DEF GoReportPasses
  <2>2. events'[i].action = "run" \/ (events'[i].test = Missing /\ events'[i].action = "pass")
            => \A q : events'[i].package = q => PackagePasses(q)'
    BY DEF GoReportPasses, PackagePasses
  <2> QED BY <2>1, <2>2
<1>4. \A p \in Packages, t \in GoTests : RunsAndPasses(p, t)'
  BY DEF GoReportPasses
<1>p. PICK p \in Packages : p = e.package
  BY <1>1, <1>3, GoEventFields
<1>5. ASSUME reader.closed[p] # "open", e.test # Missing \/ Closes(e)
      PROVE  FALSE
  <2>1. PICK i \in DOMAIN events : ClosesWith(p, i, reader.closed[p])
    BY <1>0, <1>5 DEF GoClosed, ClosedByOne
  <2>2. reader.closed[p] = "pass"
    <3>1. reader.closed[p] \in {"open", "pass", "fail"}
      BY <1>0 DEF GoReader
    <3> QED BY <3>1, <2>1, <1>1, <1>3, <1>5 DEF ClosesWith
  <2>3. PackagePasses(p)'
    BY <2>1, <2>2, <1>1, <1>3 DEF ClosesWith
  <2>4. PICK k \in DOMAIN events' :
            /\ events'[k] = [package |-> p, test |-> Missing, action |-> "pass"]
            /\ \A j \in DOMAIN events' \ {k} :
                  events'[j].package = p =>
                      \/ events'[j].test = Missing /\ events'[j].action = "skip"
                      \/ events'[j].test # Missing /\ j < k
    BY <2>3 DEF PackagePasses
  <2>5. k = i
    BY <2>1, <2>2, <2>4, <1>1 DEF ClosesWith
  <2>6. i # n /\ i < n /\ i \in Nat
    BY <1>1
  <2> QED BY <2>4, <2>5, <2>6, <1>1, <1>p, <1>5 DEF Closes
<1>6. ASSUME NEW t \in GoTests, <<p, t>> \in reader.active
      PROVE  \E i \in History(p, t) :
                /\ events'[i].action = "run"
                /\ \A m \in History(p, t) : m <= i
                /\ \E j \in History(p, t)' : Successive(p, t, i, j)' /\ events'[j].action \in {"pass", "skip"}
  <2>1. PICK i \in History(p, t) :
            events[i].action = "run" /\ \A m \in History(p, t) : m <= i
    BY <1>0, <1>6 DEF GoTestsFollowed, IsRunning
  <2>2. i \in History(p, t)'
    BY <1>0, HistoryGrows
  <2>3. RunsAndPasses(p, t)' /\ events'[i].action = "run"
    BY <2>1, <1>2, <1>4
  <2>4. \E j \in History(p, t)' : Successive(p, t, i, j)' /\ events'[j].action \in {"pass", "skip"}
    BY <2>2, <2>3 DEF RunsAndPasses
  <2> QED BY <2>1, <2>3, <2>4
<1>7. CASE e.test # Missing
  <2>1. PICK t \in GoTests : t = e.test
    BY <1>7, GoEventFields
  <2>2. EventKey(e) = <<p, t>>
    BY <1>p, <2>1 DEF EventKey
  <2>3. CASE e.action = "run" /\ <<p, t>> \in reader.active
    <3>1. PICK i \in History(p, t) :
              /\ \A m \in History(p, t) : m <= i
              /\ \E j \in History(p, t)' :
                    Successive(p, t, i, j)' /\ events'[j].action \in {"pass", "skip"}
      BY <2>3, <1>6
    <3>2. PICK j \in History(p, t)' :
              i < j /\ events'[j].action \in {"pass", "skip"}
      BY <3>1 DEF Successive
    <3>3. j \in History(p, t) \/ j = n
      BY <1>0, HistoryGrows
    <3> QED BY <3>1, <3>2, <3>3, <2>3, <1>1, <1>2
  <2>4. CASE e.action \in {"pass", "fail", "skip"} /\ <<p, t>> \notin reader.active
    <3>1. History(p, t)' = History(p, t) \cup {n}
      BY <1>0, <1>p, <2>1, <2>4, HistoryGrows
    <3>2. PICK j \in History(p, t)' : Successive(p, t, j, n)' /\ events'[j].action = "run"
      <4>1. n \in History(p, t)' /\ events'[n].action # "run"
        BY <3>1, <2>4, <1>1
      <4>2. RunsAndPasses(p, t)'
        BY <1>4
      <4> QED BY <4>1, <4>2 DEF RunsAndPasses
    <3>3. j \in History(p, t) /\ events[j].action = "run"
      BY <3>1, <3>2, <2>4, <1>1, <1>2
    <3>4. PICK k \in History(p, t) : j < k
      BY <3>3, <2>4, <1>0 DEF GoTestsFollowed, StartsEnd, Successive
    <3> QED BY <3>1, <3>2, <3>4, <1>2 DEF Successive
  <2> QED BY <2>2, <2>3, <2>4, <1>5, <1>7, <1>p, <1>1, <1>3 DEF GoRefuses
<1>8. CASE e.test = Missing
  <2>1. Closes(e)
    BY <1>8 DEF GoRefuses
  <2>2. PICK k \in reader.active : k[1] = p
    BY <2>1, <1>5, <1>8, <1>p DEF GoRefuses
  <2>3. PICK t \in GoTests : k = <<p, t>>
    BY <2>2, <1>0 DEF GoReader
  <2>4. PICK i \in History(p, t) :
            /\ \A m \in History(p, t) : m <= i
            /\ \E j \in History(p, t)' :
                  Successive(p, t, i, j)' /\ events'[j].action \in {"pass", "skip"}
    BY <2>3, <1>6
  <2>5. History(p, t)' = History(p, t)
    BY <1>0, <1>8, MissingAssumption, HistoryGrows
  <2> QED BY <2>4, <2>5, <1>2 DEF Successive
<1> QED BY <1>7, <1>8

\* At the end the reader lets the report pass exactly if it passes as a whole.
LEMMA GoEndIsRight ==
    ASSUME GoFollowed
    PROVE  /\ GoBreaksOff(reader) => ~GoReportPasses
           /\ ~GoBreaksOff(reader) =>
                 (VerdictOn(reader.passed + reader.failed, GoFailures(reader)) = "pass"
                     <=> GoReportPasses)
<1>0. /\ events \in Seq(GoEvents) /\ reader \in GoReader /\ GoTestsFollowed /\ GoClosed
      /\ GoTallied /\ \A i \in DOMAIN events : events[i].package # Missing
  BY DEF GoFollowed, GoEventsSound
<1>e. \A i \in DOMAIN events : events[i] \in GoEvents /\ i \in Nat
  BY <1>0
<1>h. \A p, t : \A i \in History(p, t) : i \in Nat /\ i \in DOMAIN events /\ events[i].package = p
                                         /\ events[i].test = t
  BY <1>e DEF History
<1>n. reader.passed \in Nat /\ reader.failed \in Nat
  BY <1>0 DEF GoReader
<1>v. VerdictOn(reader.passed + reader.failed, GoFailures(reader)) = "pass"
         <=> /\ reader.failed = 0 /\ reader.passed > 0
             /\ \A p \in Packages : reader.closed[p] # "fail"
  BY <1>n DEF VerdictOn, Passes, GoFailures
<1>1. ASSUME GoReportPasses
      PROVE  ~GoBreaksOff(reader) /\ reader.failed = 0 /\ reader.passed > 0
             /\ \A p \in Packages : reader.closed[p] # "fail"
  <2>1. \A i \in DOMAIN events :
            /\ events[i].action # "fail"
            /\ events[i].action = "run" \/ (events[i].test = Missing /\ events[i].action = "pass")
                  => PackagePasses(events[i].package)
    BY <1>1 DEF GoReportPasses
  <2>2. reader.active = {}
    <3> SUFFICES ASSUME NEW k \in reader.active PROVE FALSE
      OBVIOUS
    <3>1. PICK p \in Packages, t \in GoTests : k = <<p, t>>
      BY <1>0 DEF GoReader
    <3>2. PICK i \in History(p, t) : events[i].action = "run" /\ \A m \in History(p, t) : m <= i
      BY <3>1, <1>0 DEF GoTestsFollowed, IsRunning
    <3>3. PICK j \in History(p, t) : Successive(p, t, i, j)
      BY <3>2, <1>1 DEF GoReportPasses, RunsAndPasses
    <3> QED BY <3>2, <3>3, <1>h DEF Successive
  <2>3. reader.failed = 0 /\ reader.failedIn = {}
    BY <2>1, <1>0, <1>n DEF GoTallied, AnyTest, SomeTest
  <2>4. reader.passed > 0
    BY <1>1, <1>0 DEF GoTallied, AnyTest, GoReportPasses
  <2>5. ASSUME NEW p \in reader.ran PROVE reader.closed[p] # "open"
    <3>1. p \in Packages
      BY <1>0 DEF GoReader
    <3>2. PackagePasses(p)
      BY <3>1, <2>1, <1>0 DEF GoTallied, SomeTest
    <3>3. PICK i \in DOMAIN events : ClosesWith(p, i, "pass")
      BY <3>2 DEF PackagePasses, ClosesWith
    <3> QED BY <3>1, <3>3, <1>0 DEF GoClosed, ClosedByOne
  <2>6. \A p \in Packages : reader.closed[p] # "fail"
    BY <2>1, <1>0 DEF GoClosed, ClosedByOne, ClosesWith
  <2> QED BY <2>2, <2>3, <2>4, <2>5, <2>6, <1>n DEF GoBreaksOff
<1>2. ASSUME ~GoBreaksOff(reader), reader.failed = 0, reader.passed > 0,
             \A p \in Packages : reader.closed[p] # "fail"
      PROVE  GoReportPasses
  <2>1. reader.active = {} /\ \A p \in reader.ran : reader.closed[p] # "open"
    BY <1>2 DEF GoBreaksOff
  <2>2. ~AnyTest("fail") /\ AnyTest("pass")
    BY <1>2, <1>0 DEF GoTallied
  <2>c. reader.closed \in [Packages -> {"open", "pass", "fail"}]
    BY <1>0 DEF GoReader
  <2>3. ASSUME NEW p \in Packages, reader.closed[p] # "open"
        PROVE  PackagePasses(p) /\ \A i \in DOMAIN events : ~ClosesWith(p, i, "fail")
    <3>1. reader.closed[p] = "pass"
      BY <2>3, <2>c, <1>2
    <3>2. PICK i \in DOMAIN events :
              /\ ClosesWith(p, i, "pass")
              /\ \A j \in DOMAIN events \ {i} :
                    events[j].package = p =>
                        \/ events[j].test = Missing /\ events[j].action = "skip"
                        \/ events[j].test # Missing /\ j < i
      BY <3>1, <1>0 DEF GoClosed, ClosedByOne
    <3>3. events[i] = [package |-> p, test |-> Missing, action |-> "pass"]
      BY <3>2, <1>e DEF ClosesWith, GoEvents
    <3>4. PackagePasses(p)
      BY <3>2, <3>3 DEF PackagePasses
    <3>5. \A j \in DOMAIN events : ~ClosesWith(p, j, "fail")
      BY <3>2 DEF ClosesWith
    <3> QED BY <3>4, <3>5
  <2>4. ASSUME NEW i \in DOMAIN events
        PROVE  /\ events[i].package # Missing
               /\ events[i].action # "fail"
               /\ events[i].action = "run" \/ (events[i].test = Missing /\ events[i].action = "pass")
                     => PackagePasses(events[i].package)
    <3>1. /\ events[i].package \in Packages
          /\ events[i].test = Missing => events[i].action \in {"pass", "fail", "skip"}
      BY <1>e, <1>0, GoEventFields
    <3>2. events[i].action # "fail"
      BY <3>1, <2>2, <2>3, <1>0 DEF AnyTest, ClosesWith, GoClosed, ClosedByOne
    <3>3. events[i].action = "run" => events[i].package \in reader.ran
      BY <3>1, <1>0 DEF GoTallied, SomeTest
    <3>4. events[i].test = Missing /\ events[i].action = "pass"
             => reader.closed[events[i].package] # "open"
      BY <3>1, <1>0 DEF GoClosed, ClosedByOne, ClosesWith
    <3> QED BY <3>1, <3>2, <3>3, <3>4, <2>1, <2>3, <1>0
  <2>5. ASSUME NEW p \in Packages, NEW t \in GoTests
        PROVE  RunsAndPasses(p, t)
    <3>0. t # Missing
      BY MissingAssumption
    <3>1. \A i \in History(p, t) : events[i].action \in {"run", "pass", "skip"}
      BY <3>0, <1>h, <1>e, <2>2, GoEventFields DEF AnyTest, History
    <3>2. StartsEnd(p, t) /\ EndsWereStarted(p, t)
      BY <1>0 DEF GoTestsFollowed
    <3>3. ASSUME NEW i \in History(p, t), events[i].action = "run"
          PROVE  \E j \in History(p, t) :
                    Successive(p, t, i, j) /\ events[j].action \in {"pass", "skip"}
      BY <3>1, <3>2, <3>3, <2>1 DEF StartsEnd
    <3>4. ASSUME NEW i \in History(p, t), events[i].action # "run"
          PROVE  /\ events[i].action \in {"pass", "skip"}
                 /\ \E j \in History(p, t) : Successive(p, t, j, i) /\ events[j].action = "run"
      BY <3>1, <3>2, <3>4 DEF EndsWereStarted
    <3> QED BY <3>3, <3>4 DEF RunsAndPasses
  <2> QED BY <2>2, <2>4, <2>5 DEF GoReportPasses, AnyTest
<1> QED BY <1>1, <1>2, <1>v

NextestSuite ==
    [open : BOOLEAN, count : 0 .. 2, active : SUBSET Tests, measured : SUBSET Tests,
     outcome : [Tests -> {Missing, "ok", "failed", "ignored"}]]

NextestReader == [suite : NextestSuite, suites : Nat, executed : Nat, failed : Nat]

OfSuite(i) == events[i].type = "suite"

\* In the open suite a test, or none, came to this.
Came(o) == \E t \in Tests : reader.suite.outcome[t] = o

NextestSound ==
    /\ events \in Seq(NextestEvents)
    /\ reader \in NextestReader
    /\ ~reader.suite.open => reader.suite = NoSuite
    /\ \A t \in reader.suite.active : reader.suite.outcome[t] = Missing

\* A failure that was read is remembered.
FailuresKept ==
    \A i \in DOMAIN events :
        events[i].event = "failed" => reader.failed > 0 \/ Came("failed")

\* What counts as executed was read.
ExecutedWasRead ==
    reader.executed > 0 \/ Came("ok") \/ Came("failed") \/ reader.suite.measured # {} =>
        \E i \in DOMAIN events :
            (~OfSuite(i) /\ events[i].event \in {"ok", "failed"}) \/ events[i].event = "measured"

\* Until j, the test that i speaks of ended, in the same suite.
EndsIn(i, j) ==
    /\ ~OfSuite(j) /\ events[j].name = events[i].name
    /\ events[j].event \in {"ok", "ignored", "measured", "failed"}
    /\ \A m \in i .. j : ~OfSuite(m)

\* A test that was started ended, or runs in the suite that is open.
StartedEnds ==
    \A i \in DOMAIN events :
        events[i].event = "started" /\ ~OfSuite(i) =>
            \/ \E j \in DOMAIN events : i < j /\ EndsIn(i, j)
            \/ /\ events[i].name \in reader.suite.active
               /\ \A m \in DOMAIN events : i <= m => ~OfSuite(m)

NextestFollowed == NextestSound /\ FailuresKept /\ ExecutedWasRead /\ StartedEnds

\* At the start of a stream the reader knows all there is.
LEMMA NoNextestFollows ==
    ASSUME events = <<>>, reader = NoNextest
    PROVE  NextestFollowed
<1>1. DOMAIN events = {} /\ events \in Seq(NextestEvents)
  OBVIOUS
<1>2. reader.suite = NoSuite /\ reader.executed = 0
  BY DEF NoNextest
<1>3. NoSuite \in NextestSuite
  BY DEF NoSuite, NextestSuite
<1>4. NextestSound
  BY <1>1, <1>2, <1>3 DEF NextestSound, NextestReader, NoNextest, NoSuite
<1>5. ~Came("ok") /\ ~Came("failed") /\ reader.suite.measured = {}
  BY <1>2, MissingAssumption DEF Came, NoSuite
<1> QED BY <1>1, <1>2, <1>4, <1>5 DEF NextestFollowed, FailuresKept, ExecutedWasRead, StartedEnds

\* An outcome is counted if a test of the suite has it.
LEMMA OutcomesCounted ==
    ASSUME NEW suite \in NextestSuite, NEW o
    PROVE  /\ WithOutcome(suite, o) \in Nat
           /\ WithOutcome(suite, o) > 0 <=> \E t \in Tests : suite.outcome[t] = o
<1> DEFINE S == {t \in Tests : suite.outcome[t] = o}
<1>1. IsFiniteSet(S)
  BY TestsAssumption, FS_Subset
<1>2. Cardinality(S) \in Nat /\ (Cardinality(S) = 0 <=> S = {})
  BY <1>1, FS_CardinalityType, FS_EmptySet
<1>3. WithOutcome(suite, o) = Cardinality(S)
  BY DEF WithOutcome
<1> HIDE DEF S
<1>4. WithOutcome(suite, o) \in Nat /\ (WithOutcome(suite, o) > 0 <=> S # {})
  BY <1>2, <1>3
<1> QED BY <1>4 DEF S

\* What was measured is counted.
LEMMA MeasuredCounted ==
    ASSUME NEW suite \in NextestSuite
    PROVE  /\ Cardinality(suite.measured) \in Nat
           /\ Cardinality(suite.measured) > 0 <=> suite.measured # {}
<1>1. IsFiniteSet(suite.measured)
  BY TestsAssumption, FS_Subset DEF NextestSuite
<1>2. Cardinality(suite.measured) \in Nat /\ (Cardinality(suite.measured) = 0 <=> suite.measured = {})
  BY <1>1, FS_CardinalityType, FS_EmptySet
<1> QED BY <1>2

\* Something was executed if a test passed, failed or was measured.
LEMMA ExecutedCounted ==
    ASSUME NEW suite \in NextestSuite
    PROVE  /\ SuiteExecuted(suite) \in Nat
           /\ SuiteExecuted(suite) > 0 <=>
                 \/ \E t \in Tests : suite.outcome[t] = "ok"
                 \/ \E t \in Tests : suite.outcome[t] = "failed"
                 \/ suite.measured # {}
<1>1. /\ WithOutcome(suite, "ok") \in Nat
      /\ WithOutcome(suite, "ok") > 0 <=> \E t \in Tests : suite.outcome[t] = "ok"
  BY OutcomesCounted
<1>2. /\ WithOutcome(suite, "failed") \in Nat
      /\ WithOutcome(suite, "failed") > 0 <=> \E t \in Tests : suite.outcome[t] = "failed"
  BY OutcomesCounted
<1> QED BY <1>1, <1>2, MeasuredCounted DEF SuiteExecuted

(* The forms of a step: what one event makes of the suite that is open.        *)

NextestReads(e) ==
    /\ ~NextestRefuses(reader, e)
    /\ events' = Append(events, e)
    /\ reader' = NextestAfter(reader, e)

SuiteOpens(e) == e.type = "suite" /\ e.event = "started"
SuiteEnds(e) == e.type = "suite" /\ e.event \in {"ok", "failed"}
TestStarts(e) == e.type = "test" /\ e.event = "started"
TestEnds(e) == e.type = "test" /\ e.event \in {"ok", "failed", "ignored"}
TestTimesOut(e) == e.type = "test" /\ e.event = "timeout"
BenchEnds(e) == e.type = "bench" /\ e.event = "measured"

\* The six kinds of events that the reader tells apart.
LEMMA NextestEventForms ==
    ASSUME NEW e \in NextestEvents
    PROVE  /\ \/ SuiteOpens(e) /\ e.count \in 0 .. 2
              \/ SuiteEnds(e)
              \/ TestStarts(e)
              \/ TestEnds(e)
              \/ TestTimesOut(e)
              \/ BenchEnds(e)
           /\ e.type # "suite" => e.name \in Tests \cup {Missing}
<1>1. CASE e \in [type : {"suite"}, event : {"started"}, count : 0 .. 2]
  BY <1>1 DEF SuiteOpens
<1>2. CASE e \in [type : {"suite"}, event : {"ok", "failed"}, agrees : BOOLEAN]
  BY <1>2 DEF SuiteEnds
<1>3. CASE e \in [type : {"test"}, event : {"started", "ok", "failed", "ignored", "timeout"},
                  name : Tests \cup {Missing}]
  BY <1>3 DEF TestStarts, TestEnds, TestTimesOut
<1>4. CASE e \in [type : {"bench"}, event : {"measured"}, name : Tests]
  BY <1>4 DEF BenchEnds
<1> QED BY <1>1, <1>2, <1>3, <1>4 DEF NextestEvents

\* A suite that begins is the only one, and empty.
LEMMA SuiteOpening ==
    ASSUME NEW e \in NextestEvents, NextestSound, NextestReads(e), SuiteOpens(e)
    PROVE  /\ reader.suite = NoSuite /\ reader' \in NextestReader
           /\ reader'.suite = [NoSuite EXCEPT !.open = TRUE, !.count = e.count]
           /\ reader'.executed = reader.executed /\ reader'.failed = reader.failed
<1>1. reader.suite = NoSuite
  BY DEF NextestReads, NextestRefuses, SuiteOpens, NextestSound
<1>2. reader' = [reader EXCEPT !.suite = [NoSuite EXCEPT !.open = TRUE, !.count = e.count]]
  BY DEF NextestReads, NextestAfter, SuiteOpens
<1>3. e.count \in 0 .. 2
  BY NextestEventForms DEF SuiteOpens, SuiteEnds, TestStarts, TestEnds, TestTimesOut, BenchEnds
<1>4. [NoSuite EXCEPT !.open = TRUE, !.count = e.count] \in NextestSuite
  BY <1>3 DEF NoSuite, NextestSuite
<1> QED BY <1>1, <1>2, <1>4 DEF NextestSound, NextestReader

\* A suite ends with what it counted, and leaves no suite open.
LEMMA SuiteEnding ==
    ASSUME NEW e \in NextestEvents, NextestSound, NextestReads(e), SuiteEnds(e)
    PROVE  /\ ~SuiteEndRefused(reader.suite, e) /\ reader' \in NextestReader
           /\ reader'.suite = NoSuite
           /\ reader'.executed = reader.executed + SuiteExecuted(reader.suite)
           /\ reader'.failed = reader.failed + WithOutcome(reader.suite, "failed")
<1>1. ~SuiteEndRefused(reader.suite, e)
  BY DEF NextestReads, NextestRefuses, SuiteEnds
<1>2. reader' = [suite |-> NoSuite, suites |-> reader.suites + 1,
                 executed |-> reader.executed + SuiteExecuted(reader.suite),
                 failed |-> reader.failed + WithOutcome(reader.suite, "failed")]
  BY DEF NextestReads, NextestAfter, SuiteEnds
<1>3. NoSuite \in NextestSuite
  BY DEF NoSuite, NextestSuite
<1>4. /\ reader.suite \in NextestSuite
      /\ reader.suites \in Nat /\ reader.executed \in Nat /\ reader.failed \in Nat
  BY DEF NextestSound, NextestReader
<1>5. SuiteExecuted(reader.suite) \in Nat /\ WithOutcome(reader.suite, "failed") \in Nat
  BY <1>4, ExecutedCounted, OutcomesCounted
<1>6. /\ reader.suites + 1 \in Nat /\ reader.executed + SuiteExecuted(reader.suite) \in Nat
      /\ reader.failed + WithOutcome(reader.suite, "failed") \in Nat
  BY <1>4, <1>5
<1> QED BY <1>1, <1>2, <1>3, <1>6 DEF NextestReader

\* A test starts in the open suite, for the first time.
LEMMA TestStarting ==
    ASSUME NEW e \in NextestEvents, NextestSound, NextestReads(e), TestStarts(e)
    PROVE  /\ e.name \in Tests /\ reader.suite.outcome[e.name] = Missing
           /\ reader' \in NextestReader /\ reader.suite.open
           /\ reader'.suite = [reader.suite EXCEPT !.active = @ \cup {e.name}]
           /\ reader'.executed = reader.executed /\ reader'.failed = reader.failed
<1>1. e.name \in Tests /\ reader.suite.outcome[e.name] = Missing /\ reader.suite.open
  BY NextestEventForms DEF NextestReads, NextestRefuses, TestStarts
<1>2. reader' = [reader EXCEPT !.suite.active = @ \cup {e.name}]
  BY DEF NextestReads, NextestAfter, TestStarts
<1>3. reader \in NextestReader /\ reader.suite \in NextestSuite
  BY DEF NextestSound, NextestReader
<1>4. [reader.suite EXCEPT !.active = @ \cup {e.name}] \in NextestSuite
  BY <1>1, <1>3 DEF NextestSuite
<1>5. reader' = [reader EXCEPT !.suite = [reader.suite EXCEPT !.active = @ \cup {e.name}]]
  BY <1>2
<1> QED BY <1>1, <1>3, <1>4, <1>5 DEF NextestReader

\* A test ends that runs in the open suite.
LEMMA TestEnding ==
    ASSUME NEW e \in NextestEvents, NextestSound, NextestReads(e), TestEnds(e)
    PROVE  /\ e.name \in reader.suite.active /\ reader' \in NextestReader /\ reader.suite.open
           /\ reader'.suite = [reader.suite EXCEPT !.active = @ \ {e.name},
                                                   !.outcome[e.name] = e.event]
           /\ reader'.executed = reader.executed /\ reader'.failed = reader.failed
<1>1. e.name \in reader.suite.active /\ reader.suite.open
  BY NextestEventForms DEF NextestReads, NextestRefuses, TestEnds
<1>2. reader' = [reader EXCEPT !.suite.active = @ \ {e.name}, !.suite.outcome[e.name] = e.event]
  BY DEF NextestReads, NextestAfter, TestEnds
<1>3. reader \in NextestReader /\ reader.suite \in NextestSuite
  BY DEF NextestSound, NextestReader
<1>4. [reader.suite EXCEPT !.active = @ \ {e.name}, !.outcome[e.name] = e.event] \in NextestSuite
  BY <1>1, <1>3 DEF NextestSuite, TestEnds
<1>5. reader' = [reader EXCEPT !.suite = [reader.suite EXCEPT !.active = @ \ {e.name},
                                                              !.outcome[e.name] = e.event]]
  BY <1>2, <1>3 DEF NextestReader, NextestSuite
<1> QED BY <1>1, <1>3, <1>4, <1>5 DEF NextestReader

\* A measured test ran in the open suite.
LEMMA BenchEnding ==
    ASSUME NEW e \in NextestEvents, NextestSound, NextestReads(e), BenchEnds(e)
    PROVE  /\ e.name \in reader.suite.active /\ reader' \in NextestReader /\ reader.suite.open
           /\ reader'.suite = [reader.suite EXCEPT !.active = @ \ {e.name},
                                                   !.measured = @ \cup {e.name}]
           /\ reader'.executed = reader.executed /\ reader'.failed = reader.failed
<1>1. e.name \in reader.suite.active /\ reader.suite.open
  BY NextestEventForms DEF NextestReads, NextestRefuses, BenchEnds
<1>2. reader' = [reader EXCEPT !.suite.active = @ \ {e.name}, !.suite.measured = @ \cup {e.name}]
  BY DEF NextestReads, NextestAfter, BenchEnds
<1>3. reader \in NextestReader /\ reader.suite \in NextestSuite
  BY DEF NextestSound, NextestReader
<1>4. [reader.suite EXCEPT !.active = @ \ {e.name}, !.measured = @ \cup {e.name}] \in NextestSuite
  BY <1>1, <1>3 DEF NextestSuite
<1>5. reader' = [reader EXCEPT !.suite = [reader.suite EXCEPT !.active = @ \ {e.name},
                                                              !.measured = @ \cup {e.name}]]
  BY <1>2, <1>3 DEF NextestReader, NextestSuite
<1> QED BY <1>1, <1>3, <1>4, <1>5 DEF NextestReader

\* A timeout is only told.
LEMMA TestTimingOut ==
    ASSUME NEW e \in NextestEvents, NextestSound, NextestReads(e), TestTimesOut(e)
    PROVE  reader' = reader
BY DEF NextestReads, NextestAfter, TestTimesOut

\* An event that is read keeps the types, and the tests that run have no
\* outcome yet.
LEMMA NextestStaysSound ==
    ASSUME NEW e \in NextestEvents, NextestSound, NextestReads(e)
    PROVE  NextestSound'
<1>0. reader \in NextestReader /\ reader.suite \in NextestSuite
  BY DEF NextestSound, NextestReader
<1>1. events' \in Seq(NextestEvents)
  BY OneMoreEvent DEF NextestSound, NextestReads
<1>2. CASE SuiteOpens(e)
  <2>1. /\ reader' \in NextestReader
        /\ reader'.suite = [NoSuite EXCEPT !.open = TRUE, !.count = e.count]
    BY <1>2, SuiteOpening
  <2> QED BY <2>1, <1>1 DEF NextestSound, NoSuite
<1>3. CASE SuiteEnds(e)
  <2>1. reader' \in NextestReader /\ reader'.suite = NoSuite
    BY <1>3, SuiteEnding
  <2> QED BY <2>1, <1>1 DEF NextestSound, NoSuite
<1>4. CASE TestStarts(e)
  <2>1. /\ e.name \in Tests /\ reader.suite.outcome[e.name] = Missing
        /\ reader' \in NextestReader /\ reader.suite.open
        /\ reader'.suite = [reader.suite EXCEPT !.active = @ \cup {e.name}]
    BY <1>4, TestStarting
  <2> QED BY <2>1, <1>0, <1>1 DEF NextestSound, NextestSuite
<1>5. CASE TestEnds(e)
  <2>1. /\ reader' \in NextestReader /\ reader.suite.open
        /\ reader'.suite = [reader.suite EXCEPT !.active = @ \ {e.name},
                                                !.outcome[e.name] = e.event]
    BY <1>5, TestEnding
  <2> QED BY <2>1, <1>0, <1>1 DEF NextestSound, NextestSuite
<1>6. CASE BenchEnds(e)
  <2>1. /\ reader' \in NextestReader /\ reader.suite.open
        /\ reader'.suite = [reader.suite EXCEPT !.active = @ \ {e.name},
                                                !.measured = @ \cup {e.name}]
    BY <1>6, BenchEnding
  <2> QED BY <2>1, <1>0, <1>1 DEF NextestSound, NextestSuite
<1>7. CASE TestTimesOut(e)
  BY <1>7, <1>1, TestTimingOut DEF NextestSound
<1> QED BY <1>2, <1>3, <1>4, <1>5, <1>6, <1>7, NextestEventForms

\* What an event adds to the outcomes of the suite that is open.
LEMMA OutcomesKept ==
    ASSUME NEW e \in NextestEvents, NextestSound, NextestReads(e), ~SuiteEnds(e), NEW o, o # Missing
    PROVE  Came(o)' <=> Came(o) \/ (TestEnds(e) /\ e.event = o)
<1>0. reader \in NextestReader /\ reader.suite \in NextestSuite
  BY DEF NextestSound, NextestReader
<1>2. CASE SuiteOpens(e)
  <2>1. /\ reader.suite = NoSuite
        /\ reader'.suite = [NoSuite EXCEPT !.open = TRUE, !.count = e.count]
    BY <1>2, SuiteOpening
  <2>2. reader'.suite.outcome = reader.suite.outcome
    BY <2>1 DEF NoSuite
  <2> QED BY <2>2, <1>2 DEF Came, SuiteOpens, TestEnds
<1>4. CASE TestStarts(e)
  <2>1. reader'.suite = [reader.suite EXCEPT !.active = @ \cup {e.name}]
    BY <1>4, TestStarting
  <2> QED BY <2>1, <1>0, <1>4 DEF Came, NextestSuite, TestStarts, TestEnds
<1>5. CASE TestEnds(e)
  <2>1. /\ e.name \in reader.suite.active
        /\ reader'.suite = [reader.suite EXCEPT !.active = @ \ {e.name},
                                                !.outcome[e.name] = e.event]
    BY <1>5, TestEnding
  <2>2. e.name \in Tests /\ reader.suite.outcome[e.name] = Missing
    BY <2>1, <1>0 DEF NextestSound, NextestSuite
  <2>3. reader'.suite.outcome = [reader.suite.outcome EXCEPT ![e.name] = e.event]
    BY <2>1, <1>0 DEF NextestSuite
  <2>4. reader.suite.outcome \in [Tests -> {Missing, "ok", "failed", "ignored"}]
    BY <1>0 DEF NextestSuite
  <2> QED BY <2>2, <2>3, <2>4, <1>5 DEF Came
<1>6. CASE BenchEnds(e)
  <2>1. reader'.suite = [reader.suite EXCEPT !.active = @ \ {e.name},
                                             !.measured = @ \cup {e.name}]
    BY <1>6, BenchEnding
  <2> QED BY <2>1, <1>0, <1>6 DEF Came, NextestSuite, BenchEnds, TestEnds
<1>7. CASE TestTimesOut(e)
  BY <1>7, TestTimingOut DEF Came, TestTimesOut, TestEnds
<1> QED BY <1>2, <1>4, <1>5, <1>6, <1>7, NextestEventForms

\* A failure that was read is not forgotten at the end of its suite.
LEMMA FailuresStayKept ==
    ASSUME NEW e \in NextestEvents, NextestSound, FailuresKept, NextestReads(e)
    PROVE  FailuresKept'
<1> PICK n : n = Len(events) + 1
  OBVIOUS
<1>0. /\ reader \in NextestReader /\ reader.suite \in NextestSuite /\ reader.failed \in Nat
      /\ events \in Seq(NextestEvents) /\ events' = Append(events, e)
  BY DEF NextestSound, NextestReader, NextestReads
<1>1. /\ events'[n] = e /\ DOMAIN events' = DOMAIN events \cup {n}
      /\ \A i \in DOMAIN events : events'[i] = events[i]
  BY <1>0, OneMoreEvent
<1> SUFFICES ASSUME NEW i \in DOMAIN events', events'[i].event = "failed"
             PROVE  reader'.failed > 0 \/ Came("failed")'
  BY DEF FailuresKept
<1>2. CASE SuiteEnds(e)
  <2>1. /\ ~SuiteEndRefused(reader.suite, e)
        /\ reader'.failed = reader.failed + WithOutcome(reader.suite, "failed")
    BY <1>2, SuiteEnding
  <2>2. /\ WithOutcome(reader.suite, "failed") \in Nat
        /\ WithOutcome(reader.suite, "failed") > 0 <=> Came("failed")
    BY <1>0, OutcomesCounted DEF Came
  <2>3. CASE i = n
    BY <2>1, <2>2, <2>3, <1>0, <1>1 DEF SuiteEndRefused
  <2>4. CASE i \in DOMAIN events
    BY <2>1, <2>2, <2>4, <1>0, <1>1 DEF FailuresKept
  <2> QED BY <2>3, <2>4, <1>1
<1>3. CASE ~SuiteEnds(e)
  <2>1. Came("failed")' <=> Came("failed") \/ (TestEnds(e) /\ e.event = "failed")
    BY <1>3, OutcomesKept, MissingAssumption
  <2>2. reader'.failed = reader.failed
    BY <1>3, SuiteOpening, TestStarting, TestEnding, BenchEnding, TestTimingOut, NextestEventForms
  <2>3. CASE i = n
    BY <2>1, <2>3, <1>1, <1>3, NextestEventForms
       DEF SuiteOpens, SuiteEnds, TestStarts, TestEnds, TestTimesOut, BenchEnds
  <2>4. CASE i \in DOMAIN events
    BY <2>1, <2>2, <2>4, <1>1 DEF FailuresKept
  <2> QED BY <2>3, <2>4, <1>1
<1> QED BY <1>2, <1>3

\* What is counted as executed was read.
LEMMA ExecutedStaysRead ==
    ASSUME NEW e \in NextestEvents, NextestSound, ExecutedWasRead, NextestReads(e)
    PROVE  ExecutedWasRead'
<1> PICK n : n = Len(events) + 1
  OBVIOUS
<1>0. /\ reader \in NextestReader /\ reader.suite \in NextestSuite /\ reader.executed \in Nat
      /\ events \in Seq(NextestEvents) /\ events' = Append(events, e)
  BY DEF NextestSound, NextestReader, NextestReads
<1>1. /\ events'[n] = e /\ DOMAIN events' = DOMAIN events \cup {n}
      /\ \A i \in DOMAIN events : events'[i] = events[i]
  BY <1>0, OneMoreEvent
<1> SUFFICES ASSUME reader'.executed > 0 \/ Came("ok")' \/ Came("failed")'
                        \/ reader'.suite.measured # {}
             PROVE  \E i \in DOMAIN events' :
                       \/ ~OfSuite(i)' /\ events'[i].event \in {"ok", "failed"}
                       \/ events'[i].event = "measured"
  BY DEF ExecutedWasRead
<1>2. ASSUME reader.executed > 0 \/ Came("ok") \/ Came("failed") \/ reader.suite.measured # {}
      PROVE  \E i \in DOMAIN events' :
                \/ ~OfSuite(i)' /\ events'[i].event \in {"ok", "failed"}
                \/ events'[i].event = "measured"
  BY <1>1, <1>2 DEF ExecutedWasRead, OfSuite
<1>3. CASE SuiteEnds(e)
  <2>1. /\ reader'.suite = NoSuite
        /\ reader'.executed = reader.executed + SuiteExecuted(reader.suite)
    BY <1>3, SuiteEnding
  <2>2. /\ SuiteExecuted(reader.suite) \in Nat
        /\ SuiteExecuted(reader.suite) > 0 <=>
              Came("ok") \/ Came("failed") \/ reader.suite.measured # {}
    BY <1>0, ExecutedCounted DEF Came
  <2>3. ~Came("ok")' /\ ~Came("failed")' /\ reader'.suite.measured = {}
    BY <2>1, MissingAssumption DEF Came, NoSuite
  <2> QED BY <2>1, <2>2, <2>3, <1>0, <1>2
<1>4. CASE TestEnds(e) /\ e.event \in {"ok", "failed"}
  BY <1>1, <1>4 DEF TestEnds, OfSuite
<1>5. CASE BenchEnds(e)
  BY <1>1, <1>5 DEF BenchEnds
<1>6. CASE ~SuiteEnds(e) /\ ~(TestEnds(e) /\ e.event \in {"ok", "failed"}) /\ ~BenchEnds(e)
  <2>1. (Came("ok")' => Came("ok")) /\ (Came("failed")' => Came("failed"))
    BY <1>6, OutcomesKept, MissingAssumption
  <2>2. reader'.executed = reader.executed
    BY <1>6, SuiteOpening, TestStarting, TestEnding, TestTimingOut, NextestEventForms
  <2>3. reader'.suite.measured = reader.suite.measured
    <3>1. CASE SuiteOpens(e)
      <4>1. /\ reader.suite = NoSuite
            /\ reader'.suite = [NoSuite EXCEPT !.open = TRUE, !.count = e.count]
        BY <3>1, SuiteOpening
      <4> QED BY <4>1 DEF NoSuite
    <3>2. CASE TestStarts(e)
      <4>1. reader'.suite = [reader.suite EXCEPT !.active = @ \cup {e.name}]
        BY <3>2, TestStarting
      <4> QED BY <4>1, <1>0 DEF NextestSuite
    <3>3. CASE TestEnds(e)
      <4>1. reader'.suite = [reader.suite EXCEPT !.active = @ \ {e.name},
                                                 !.outcome[e.name] = e.event]
        BY <3>3, TestEnding
      <4> QED BY <4>1, <1>0 DEF NextestSuite
    <3> QED BY <3>1, <3>2, <3>3, <1>6, TestTimingOut, NextestEventForms
  <2> QED BY <2>1, <2>2, <2>3, <1>2
<1> QED BY <1>3, <1>4, <1>5, <1>6

\* A test that was started ends before its suite, or still runs.
LEMMA StartedStillEnds ==
    ASSUME NEW e \in NextestEvents, NextestSound, StartedEnds, NextestReads(e)
    PROVE  StartedEnds'
<1> PICK n : n = Len(events) + 1
  OBVIOUS
<1>0. /\ reader \in NextestReader /\ reader.suite \in NextestSuite
      /\ events \in Seq(NextestEvents) /\ events' = Append(events, e)
  BY DEF NextestSound, NextestReader, NextestReads
<1>1. /\ n \in Nat /\ events'[n] = e /\ DOMAIN events' = DOMAIN events \cup {n}
      /\ \A i \in DOMAIN events : events'[i] = events[i] /\ i < n /\ i \in Nat
      /\ DOMAIN events = 1 .. n - 1
  BY <1>0, OneMoreEvent
<1>2. \A i, j \in DOMAIN events : EndsIn(i, j) => EndsIn(i, j)'
  BY <1>1 DEF EndsIn, OfSuite
<1> SUFFICES ASSUME NEW i \in DOMAIN events', events'[i].event = "started", ~OfSuite(i)'
             PROVE  \/ \E j \in DOMAIN events' : i < j /\ EndsIn(i, j)'
                    \/ /\ events'[i].name \in reader'.suite.active
                       /\ \A m \in DOMAIN events' : i <= m => ~OfSuite(m)'
  BY DEF StartedEnds
<1>3. CASE i = n
  <2>1. TestStarts(e)
    BY <1>1, <1>3, NextestEventForms
       DEF OfSuite, SuiteOpens, SuiteEnds, TestStarts, TestEnds, TestTimesOut, BenchEnds
  <2>2. reader'.suite = [reader.suite EXCEPT !.active = @ \cup {e.name}]
    BY <2>1, TestStarting
  <2>3. e.name \in reader'.suite.active
    BY <2>2, <1>0 DEF NextestSuite
  <2>4. \A m \in DOMAIN events' : i <= m => m = n
    BY <1>1, <1>3
  <2> QED BY <2>3, <2>4, <1>1, <1>3
<1>4. CASE i \in DOMAIN events /\ \E j \in DOMAIN events : i < j /\ EndsIn(i, j)
  BY <1>1, <1>2, <1>4
<1>5. CASE /\ i \in DOMAIN events /\ events[i].name \in reader.suite.active
           /\ \A m \in DOMAIN events : i <= m => ~OfSuite(m)
  <2>1. CASE SuiteOpens(e)
    BY <2>1, <1>5, SuiteOpening DEF NoSuite
  <2>2. CASE SuiteEnds(e)
    BY <2>2, <1>5, SuiteEnding DEF SuiteEndRefused
  <2>3. ASSUME e.type # "suite"
        PROVE  \A m \in DOMAIN events' : i <= m => ~OfSuite(m)'
    BY <2>3, <1>1, <1>5 DEF OfSuite
  <2>4. CASE TestStarts(e)
    <3>1. reader'.suite = [reader.suite EXCEPT !.active = @ \cup {e.name}]
      BY <2>4, TestStarting
    <3> QED BY <3>1, <2>3, <2>4, <1>0, <1>1, <1>5 DEF NextestSuite, TestStarts
  <2>5. ASSUME TestEnds(e) \/ BenchEnds(e), e.name = events[i].name
        PROVE  i < n /\ EndsIn(i, n)'
    <3>1. ~OfSuite(n)' /\ e.event \in {"ok", "ignored", "measured", "failed"}
      BY <2>5, <1>1 DEF OfSuite, TestEnds, BenchEnds
    <3>2. \A m \in i .. n : ~OfSuite(m)'
      <4>1. \A m \in i .. n : m \in DOMAIN events' /\ i <= m
        BY <1>1, <1>5
      <4> QED BY <4>1, <2>3, <2>5 DEF TestEnds, BenchEnds
    <3> QED BY <3>1, <3>2, <2>5, <1>1, <1>5 DEF EndsIn
  <2>6. CASE TestEnds(e)
    <3>1. reader'.suite = [reader.suite EXCEPT !.active = @ \ {e.name},
                                               !.outcome[e.name] = e.event]
      BY <2>6, TestEnding
    <3>2. reader'.suite.active = reader.suite.active \ {e.name}
      BY <3>1, <1>0 DEF NextestSuite
    <3> QED BY <3>2, <2>3, <2>5, <2>6, <1>1, <1>5 DEF TestEnds
  <2>7. CASE BenchEnds(e)
    <3>1. reader'.suite = [reader.suite EXCEPT !.active = @ \ {e.name},
                                               !.measured = @ \cup {e.name}]
      BY <2>7, BenchEnding
    <3>2. reader'.suite.active = reader.suite.active \ {e.name}
      BY <3>1, <1>0 DEF NextestSuite
    <3> QED BY <3>2, <2>3, <2>5, <2>7, <1>1, <1>5 DEF BenchEnds
  <2>8. CASE TestTimesOut(e)
    BY <2>3, <2>8, <1>1, <1>5, TestTimingOut DEF TestTimesOut
  <2> QED BY <2>1, <2>2, <2>4, <2>6, <2>7, <2>8, NextestEventForms
<1>6. i \in DOMAIN events => events[i].event = "started" /\ ~OfSuite(i)
  BY <1>1 DEF OfSuite
<1> QED BY <1>1, <1>3, <1>4, <1>5, <1>6 DEF StartedEnds

\* The reader follows the stream, event by event.
LEMMA NextestStaysFollowed ==
    ASSUME NEW e \in NextestEvents, NextestFollowed, NextestReads(e)
    PROVE  NextestFollowed'
BY NextestStaysSound, FailuresStayKept, ExecutedStaysRead, StartedStillEnds DEF NextestFollowed

\* A stream of nextest events that the reader lets pass.
LEMMA NextestEndIsRight ==
    ASSUME NextestFollowed, ~NextestBreaksOff(reader),
           VerdictOn(reader.executed, reader.failed) = "pass"
    PROVE  /\ \A i \in DOMAIN events : events[i].event # "failed"
           /\ \E i \in DOMAIN events :
                 (events[i].event = "ok" /\ ~OfSuite(i)) \/ events[i].event = "measured"
           /\ \A i \in DOMAIN events :
                 events[i].event = "started" /\ ~OfSuite(i) =>
                     \E j \in i + 1 .. Len(events) :
                         /\ ~OfSuite(j) /\ events[j].name = events[i].name
                         /\ events[j].event \in {"ok", "ignored", "measured"}
                         /\ \A m \in i .. j : ~OfSuite(m)
<1>1. reader.suite = NoSuite /\ reader.executed > 0 /\ reader.failed = 0
  BY DEF NextestFollowed, NextestSound, NextestBreaksOff, VerdictOn, Passes
<1>2. ~Came("failed")
  BY <1>1, MissingAssumption DEF Came, NoSuite
<1>3. \A i \in DOMAIN events : events[i].event # "failed"
  BY <1>1, <1>2 DEF NextestFollowed, FailuresKept
<1>4. \E i \in DOMAIN events :
          (events[i].event = "ok" /\ ~OfSuite(i)) \/ events[i].event = "measured"
  BY <1>1, <1>3 DEF NextestFollowed, ExecutedWasRead
<1>5. ASSUME NEW i \in DOMAIN events, events[i].event = "started", ~OfSuite(i)
      PROVE  \E j \in i + 1 .. Len(events) :
                 /\ ~OfSuite(j) /\ events[j].name = events[i].name
                 /\ events[j].event \in {"ok", "ignored", "measured"}
                 /\ \A m \in i .. j : ~OfSuite(m)
  <2>1. PICK j \in DOMAIN events : i < j /\ EndsIn(i, j)
    BY <1>1, <1>5 DEF NextestFollowed, StartedEnds, NoSuite
  <2>2. j \in i + 1 .. Len(events)
    BY <2>1 DEF NextestFollowed, NextestSound
  <2> QED BY <2>1, <2>2, <1>3 DEF EndsIn
<1> QED BY <1>3, <1>4, <1>5

\* The cases with an outcome are counted one by one.
LEMMA CasesCounted ==
    ASSUME NEW d, NEW o
    PROVE  /\ CasesWith(d, o) = (IF d.cases[1] = o THEN 1 ELSE 0) + (IF d.cases[2] = o THEN 1 ELSE 0)
<1> DEFINE S == {i \in 1 .. 2 : d.cases[i] = o}
<1>0. CasesWith(d, o) = Cardinality(S)
  BY DEF CasesWith
<1>1. Cardinality({}) = 0 /\ Cardinality({1}) = 1 /\ Cardinality({2}) = 1
  BY FS_EmptySet, FS_Singleton
<1>2. Cardinality({1} \cup {2}) = 2
  <2>1. IsFiniteSet({1})
    BY FS_Singleton
  <2>2. 2 \notin {1}
    OBVIOUS
  <2> QED BY <2>1, <2>2, <1>1, FS_AddElement
<1>3. /\ d.cases[1] = o /\ d.cases[2] = o => S = {1} \cup {2}
      /\ d.cases[1] = o /\ d.cases[2] # o => S = {1}
      /\ d.cases[1] # o /\ d.cases[2] = o => S = {2}
      /\ d.cases[1] # o /\ d.cases[2] # o => S = {}
  OBVIOUS
<1> HIDE DEF S
<1> QED BY <1>0, <1>1, <1>2, <1>3

\* Nothing is refused or counted as a failure in a document that passes.
LEMMA VerdictPasses ==
    ASSUME NEW count, NEW failures, VerdictOn(count, failures) = "pass"
    PROVE  failures = 0 /\ count > 0
BY DEF VerdictOn, Passes

\* Of the two parts of a sum of zero none counts anything.
LEMMA NothingTold ==
    ASSUME NEW t \in Totals, NEW k \in JunitKeys
    PROVE  /\ Told(t, k) \in Nat
           /\ Told(t, k) = 0 => t[k] \in {0, Missing}
           /\ t[k] # Missing => Told(t, k) = t[k]
<1>1. t # Missing
  BY MissingAssumption
<1>2. t[k] \in Nat \cup {Missing}
  BY DEF Totals, Counts
<1> QED BY <1>1, <1>2 DEF Told, Given

\* A junit document with cases passes on them, and no level counts a failure.
LEMMA ListedJunitPasses ==
    ASSUME NEW d \in JunitDocuments, JunitVerdict(d) = "pass", WithCases(d)
    PROVE  JunitPassIsSaid(d)
<1>1. /\ ~d.outside /\ ~CasesContradicted(d)
      /\ VerdictOn(JunitCount(d, "tests") - JunitCount(d, "skipped"),
                   JunitCount(d, "failures")) = "pass"
  BY DEF JunitVerdict, JunitRefuses
<1>2. /\ JunitCount(d, "tests") = 2 - CasesWith(d, Missing)
      /\ JunitCount(d, "skipped") = CasesWith(d, "skipped")
      /\ JunitCount(d, "failures") = CasesWith(d, "failure")
      /\ CaseCounts(d)["failures"] = CasesWith(d, "failure")
  BY DEF JunitCount, CaseCounts
<1>3. /\ CasesWith(d, "failure") = 0
      /\ 2 - CasesWith(d, Missing) - CasesWith(d, "skipped") > 0
  BY <1>1, <1>2, VerdictPasses
<1>5. \A i \in 1 .. 2 : i = 1 \/ i = 2
  OBVIOUS
<1>6. d.cases[1] \in CaseOutcomes \cup {Missing} /\ d.cases[2] \in CaseOutcomes \cup {Missing}
  <2>1. CASE d \in JunitTotals
    <3>1. d.cases = [i \in 1 .. 2 |-> Missing]
      BY <2>1 DEF JunitTotals, NoCases
    <3> QED BY <3>1
  <2>2. CASE d \in JunitLists
    BY <2>2 DEF JunitLists
  <2> QED BY <2>1, <2>2 DEF JunitDocuments
<1>7. \A i \in 1 .. 2 : d.cases[i] \notin {"failure", "two-outcomes"}
  <2>1. CasesWith(d, "failure") = (IF d.cases[1] = "failure" THEN 1 ELSE 0)
                                     + (IF d.cases[2] = "failure" THEN 1 ELSE 0)
    BY CasesCounted
  <2>2. d.cases[1] # "failure" /\ d.cases[2] # "failure"
    BY <2>1, <1>3
  <2>3. \A i \in 1 .. 2 : d.cases[i] # "two-outcomes"
    BY <1>1 DEF CasesContradicted
  <2> QED BY <2>2, <2>3, <1>5
<1>8. ASSUME d.cases[1] # "passed", d.cases[2] # "passed"
      PROVE  FALSE
  <2>1. CasesWith(d, Missing) = (IF d.cases[1] = Missing THEN 1 ELSE 0)
                                     + (IF d.cases[2] = Missing THEN 1 ELSE 0)
    BY CasesCounted
  <2>2. CasesWith(d, "skipped") = (IF d.cases[1] = "skipped" THEN 1 ELSE 0)
                                     + (IF d.cases[2] = "skipped" THEN 1 ELSE 0)
    BY CasesCounted
  <2>3. \A i \in 1 .. 2 : d.cases[i] \in {Missing, "skipped"}
    BY <1>5, <1>6, <1>7, <1>8 DEF CaseOutcomes
  <2>4. d.cases[1] \in {Missing, "skipped"} /\ d.cases[2] \in {Missing, "skipped"}
    BY <2>3
  <2>5. Missing # "skipped"
    BY MissingAssumption DEF CaseOutcomes
  <2>6. CasesWith(d, Missing) + CasesWith(d, "skipped") = 2
    BY <2>1, <2>2, <2>4, <2>5
  <2>7. CasesWith(d, Missing) \in Nat /\ CasesWith(d, "skipped") \in Nat
    BY <2>1, <2>2
  <2> QED BY <2>6, <2>7, <1>3
<1>9. \E i \in 1 .. 2 : d.cases[i] = "passed"
  BY <1>8, <1>5
<1>10. \A t \in {d.root} \cup Suites(d) : t["failures"] \in {0, Missing}
  BY <1>1, <1>2, <1>3 DEF CasesContradicted, JunitKeys
<1> QED BY <1>1, <1>7, <1>9, <1>10 DEF JunitPassIsSaid

\* A junit document without cases passes on the level that decides.
LEMMA UnlistedJunitPasses ==
    ASSUME NEW d \in JunitDocuments, JunitVerdict(d) = "pass", ~WithCases(d)
    PROVE  JunitPassIsSaid(d)
<1>1. VerdictOn(JunitCount(d, "tests") - JunitCount(d, "skipped"), JunitCount(d, "failures"))
          = "pass"
  BY DEF JunitVerdict
<1>2. JunitCount(d, "failures") = 0 /\ JunitCount(d, "tests") - JunitCount(d, "skipped") > 0
  BY <1>1, VerdictPasses
<1>3. /\ d.root \in Totals
      /\ d.suites[1] \in Totals \cup {Missing}
      /\ d.suites[2] \in Totals \cup {Missing}
  <2>1. CASE d \in JunitTotals
    BY <2>1 DEF JunitTotals
  <2>2. CASE d \in JunitLists
    <3>1. d.root \in Totals /\ d.suites \in {<<t, Missing>> : t \in Totals}
      BY <2>2 DEF JunitLists
    <3>2. PICK t \in Totals : d.suites = <<t, Missing>>
      BY <3>1
    <3> QED BY <3>1, <3>2
  <2> QED BY <2>1, <2>2 DEF JunitDocuments
<1>4. "tests" \in JunitKeys /\ "failures" \in JunitKeys /\ "skipped" \in JunitKeys
  BY DEF JunitKeys
<1>5. ASSUME NEW t \in Totals, Told(t, "tests") > Told(t, "skipped")
      PROVE  t["tests"] # Missing /\ t["tests"] > Given(t["skipped"], 0)
  <2>1. t # Missing
    BY MissingAssumption
  <2>2. Told(t, "skipped") = Given(t["skipped"], 0) /\ Told(t, "tests") = Given(t["tests"], 0)
    BY <2>1 DEF Told
  <2>3. Told(t, "skipped") \in Nat
    BY <1>4, NothingTold
  <2>4. t["tests"] # Missing
    BY <2>2, <2>3, <1>5 DEF Given
  <2> QED BY <2>2, <2>4, <1>5 DEF Given
<1>6. CASE d.root["tests"] # Missing
  <2>1. Deciding(d) = {d.root}
    BY <1>6 DEF Deciding
  <2>2. Told(d.root, "failures") = 0 /\ Told(d.root, "tests") - Told(d.root, "skipped") > 0
    BY <1>2, <1>6 DEF JunitCount
  <2>3. d.root["failures"] \in {0, Missing}
    BY <2>2, <1>3, <1>4, NothingTold
  <2>4. Told(d.root, "tests") \in Nat /\ Told(d.root, "skipped") \in Nat
    BY <1>3, <1>4, NothingTold
  <2>5. Told(d.root, "tests") > Told(d.root, "skipped")
    BY <2>2, <2>4
  <2>6. d.root["tests"] > Given(d.root["skipped"], 0)
    BY <2>5, <1>3, <1>5
  <2> QED BY <2>1, <2>3, <2>6, <1>6 DEF JunitPassIsSaid
<1>7. CASE d.root["tests"] = Missing
  <2> DEFINE one == d.suites[1]  two == d.suites[2]
  <2>1. Deciding(d) = {one, two} \ {Missing}
    BY <1>7 DEF Deciding, Suites
  <2>a. ASSUME NEW k \in JunitKeys PROVE JunitCount(d, k) = Told(one, k) + Told(two, k)
    BY <1>7 DEF JunitCount
  <2>b. /\ JunitCount(d, "failures") = Told(one, "failures") + Told(two, "failures")
        /\ JunitCount(d, "tests") = Told(one, "tests") + Told(two, "tests")
        /\ JunitCount(d, "skipped") = Told(one, "skipped") + Told(two, "skipped")
    BY <2>a, <1>4
  <2>2. /\ Told(one, "failures") + Told(two, "failures") = 0
        /\ (Told(one, "tests") + Told(two, "tests")) - (Told(one, "skipped") + Told(two, "skipped")) > 0
    <3> HIDE DEF one, two
    <3> QED BY <1>2, <2>b
  <2>3. ASSUME NEW t \in Totals \cup {Missing}, NEW k \in JunitKeys
        PROVE  Told(t, k) \in Nat
    BY NothingTold DEF Told
  <2>4. one \in Totals \cup {Missing} /\ two \in Totals \cup {Missing}
    BY <1>3
  <2>5. /\ Told(one, "failures") \in Nat /\ Told(two, "failures") \in Nat
        /\ Told(one, "tests") \in Nat /\ Told(two, "tests") \in Nat
        /\ Told(one, "skipped") \in Nat /\ Told(two, "skipped") \in Nat
    BY <2>3, <2>4, <1>4
  <2> HIDE DEF one, two
  <2>6. Told(one, "failures") = 0 /\ Told(two, "failures") = 0
    BY <2>2, <2>5
  <2>7. ASSUME NEW t \in Deciding(d) PROVE t["failures"] \in {0, Missing}
    <3>1. t \in Totals /\ Told(t, "failures") = 0
      BY <2>1, <2>4, <2>6
    <3> QED BY <3>1, <1>4, NothingTold
  <2>8. Told(one, "tests") > Told(one, "skipped") \/ Told(two, "tests") > Told(two, "skipped")
    BY <2>2, <2>5
  <2>9. Told(Missing, "tests") = 0 /\ Told(Missing, "skipped") = 0
    BY DEF Told
  <2>10. PICK t \in {one, two} : Told(t, "tests") > Told(t, "skipped")
    BY <2>8
  <2>11. t # Missing
    BY <2>9, <2>10
  <2>12. t \in Totals /\ t \in Deciding(d)
    BY <2>1, <2>4, <2>10, <2>11
  <2>13. t["tests"] # Missing /\ t["tests"] > Given(t["skipped"], 0)
    BY <2>10, <2>12, <1>5
  <2> QED BY <2>7, <2>12, <2>13 DEF JunitPassIsSaid
<1> QED BY <1>6, <1>7

\* A pytest document passes on its summary and on the tests it lists.
LEMMA PytestPasses ==
    ASSUME NEW d \in PytestDocuments, PytestVerdict(d) = "pass"
    PROVE  PytestPassIsSaid(d)
<1> DEFINE failed == d.summary["failed"] + d.summary["errors"]
           passed == d.summary["passed"] + d.summary["xpassed"]
<1>1. /\ d.summary["failed"] \in Nat /\ d.summary["errors"] \in Nat
      /\ d.summary["passed"] \in Nat /\ d.summary["xpassed"] \in Nat
  BY DEF PytestDocuments, PytestKeys
<1>2. /\ ChildrenAgree(d.children, passed, failed, d.summary["skipped"] + d.summary["xfailed"])
      /\ VerdictOn(passed + failed, failed) = "pass"
  BY DEF PytestVerdict
<1>3. failed = 0 /\ passed + failed > 0
  BY <1>2, VerdictPasses
<1>4. /\ d.summary["failed"] = 0 /\ d.summary["errors"] = 0
      /\ d.summary["passed"] > 0 \/ d.summary["xpassed"] > 0
      /\ passed > 0
  BY <1>1, <1>3
<1>5. d.children.listed => d.children.passed = passed /\ d.children.failed = failed
  BY <1>2 DEF ChildrenAgree
<1> HIDE DEF passed, failed
<1> QED BY <1>3, <1>4, <1>5 DEF PytestPassIsSaid

\* A jest document passes on its summary, and on the tests and suites it lists.
LEMMA JestPasses ==
    ASSUME NEW d \in JestDocuments, JestVerdict(d) = "pass"
    PROVE  JestPassIsSaid(d)
<1> DEFINE failed == d.summary["failed"]
           passed == d.summary["passed"]
<1>1. passed \in Nat /\ failed \in Nat
  BY DEF JestDocuments, JestKeys
<1>2. /\ ChildrenAgree(d.children, passed, failed, d.summary["skipped"] + d.summary["todo"])
      /\ ~(d.children.listed /\ d.suiteFailed /\ JestSuccess(d))
      /\ VerdictOn(passed + failed, IF JestSuccess(d) THEN failed ELSE 1) = "pass"
  BY DEF JestVerdict
<1>3. (IF JestSuccess(d) THEN failed ELSE 1) = 0 /\ passed + failed > 0
  BY <1>2, VerdictPasses
<1>4. JestSuccess(d) /\ failed = 0 /\ passed > 0
  BY <1>1, <1>3
<1>5. d.success # FALSE
  <2> SUFFICES ASSUME d.success = FALSE PROVE FALSE
    OBVIOUS
  <2>1. d.success # Missing
    BY MissingAssumption
  <2>2. JestSuccess(d) = d.success
    BY <2>1 DEF JestSuccess
  <2> QED BY <1>4, <2>2
<1>6. d.children.listed => d.children.passed = passed /\ d.children.failed = failed
  BY <1>2 DEF ChildrenAgree
<1> QED BY <1>2, <1>4, <1>5, <1>6 DEF JestPassIsSaid

\* A playwright document that lists a test passes on its last executed attempt.
LEMMA ListedPlaywrightPasses ==
    ASSUME NEW d \in PlaywrightDocuments, PlaywrightVerdict(d) = "pass", d.listed
    PROVE  d.test # Missing /\ EndsAsExpected(d.test)
<1>1. /\ ~PlaywrightRefuses(d)
      /\ d.stats["expected"] + d.stats["flaky"] > 0
  BY DEF PlaywrightVerdict, VerdictOn, Passes
<1>2. PICK k \in {"expected", "flaky"} : d.stats[k] # 0
  <2>1. d.stats["expected"] \in 0 .. 1 /\ d.stats["flaky"] \in 0 .. 1
    BY DEF PlaywrightDocuments, TestStatuses
  <2>2. d.stats["expected"] # 0 \/ d.stats["flaky"] # 0
    BY <1>1, <2>1
  <2> QED BY <2>2
<1>3. /\ d.test # Missing /\ StatusOf(d.test) = k /\ StatusFits(d.test)
  BY <1>1, <1>2 DEF PlaywrightRefuses, TestStatuses
<1>4. d.test.results \in UNION {[1 .. n -> Attempts] : n \in 0 .. 2}
  BY <1>3 DEF PlaywrightDocuments, PlaywrightTests
<1>5. PICK n \in 0 .. 2 : d.test.results \in [1 .. n -> Attempts]
  BY <1>4
<1>6. CASE k = "flaky"
  BY <1>3, <1>6 DEF StatusFits
<1>7. CASE k = "expected"
  <2>1. Executed(d.test) # {} /\ Steady(d.test)
    BY <1>3, <1>7 DEF StatusFits
  <2>2. Executed(d.test) = 1 .. n
    BY <2>1, <1>5 DEF Steady
  <2>3. n \in 1 .. n /\ \A j \in 1 .. n : j <= n
    BY <2>1, <2>2
  <2>4. d.test.results[n] = d.test.expects
    BY <2>1, <2>3, <1>5 DEF Steady
  <2> QED BY <1>3, <2>2, <2>3, <2>4 DEF EndsAsExpected
<1> QED BY <1>2, <1>3, <1>6, <1>7

\* A playwright document passes on its numbers as well.
LEMMA PlaywrightPasses ==
    ASSUME NEW d \in PlaywrightDocuments, PlaywrightVerdict(d) = "pass"
    PROVE  PlaywrightPassIsSaid(d)
<1>1. VerdictOn(d.stats["expected"] + d.stats["flaky"],
                IF d.status = "failed" THEN 1 ELSE d.stats["unexpected"]) = "pass"
  BY DEF PlaywrightVerdict
<1>2. /\ (IF d.status = "failed" THEN 1 ELSE d.stats["unexpected"]) = 0
      /\ d.stats["expected"] + d.stats["flaky"] > 0
  BY <1>1, VerdictPasses
<1>3. d.stats["expected"] \in Nat /\ d.stats["flaky"] \in Nat
  <2>1. d.stats \in [TestStatuses -> 0 .. 1]
    BY DEF PlaywrightDocuments
  <2>2. d.stats["expected"] \in 0 .. 1 /\ d.stats["flaky"] \in 0 .. 1
    BY <2>1 DEF TestStatuses
  <2> QED BY <2>2
<1>4. d.status # "failed" /\ d.stats["unexpected"] = 0
  BY <1>2
<1>5. d.stats["expected"] > 0 \/ d.stats["flaky"] > 0
  BY <1>2, <1>3
<1>6. d.listed => d.test # Missing /\ EndsAsExpected(d.test)
  BY ListedPlaywrightPasses
<1> QED BY <1>4, <1>5, <1>6 DEF PlaywrightPassIsSaid

\* A text passes on what it says of tests that ran.
LEMMA RegexPasses ==
    ASSUME NEW d \in RegexDocuments, RegexVerdict(d) = "pass"
    PROVE  RegexPassIsSaid(d)
<1>1. RegexCount(d) > 0
  BY VerdictPasses DEF RegexVerdict
<1> QED BY <1>1 DEF RegexCount, RegexPassIsSaid

(* The invariant and the theorem. *)

ReportsInv ==
    /\ format \in Streams \cup Documents
    /\ format = "go-json" /\ verdict = "reading" => GoFollowed
    /\ format = "cargo-nextest-json" /\ verdict = "reading" => NextestFollowed
    /\ format \in Documents => events = <<>> /\ reader = Missing
    /\ verdict \in {"reading", "pass", "fail", "malformed"}
    /\ PassIsEarned

\* Nothing has been read.
LEMMA ReportsInvInit == ReportsInit => ReportsInv
<1> SUFFICES ASSUME ReportsInit PROVE ReportsInv
  OBVIOUS
<1>1. verdict = "reading" /\ events = <<>> /\ format \in Streams \cup Documents
  BY DEF ReportsInit
<1>2. format = "go-json" => GoFollowed
  BY NoGoFollows DEF ReportsInit
<1>3. format = "cargo-nextest-json" => NextestFollowed
  BY NoNextestFollows DEF ReportsInit
<1>4. format \in Documents => reader = Missing
  BY DEF ReportsInit, Documents
<1>5. PassIsEarned
  BY <1>1 DEF PassIsEarned, GoPassIsWhole, NextestPassIsWhole, DocumentPassIsSaid
<1> QED BY <1>1, <1>2, <1>3, <1>4, <1>5 DEF ReportsInv

\* A go event is read, or refused for good.
LEMMA ReportsInvGoEvent == ReportsInv /\ ReadGoEvent => ReportsInv'
<1> SUFFICES ASSUME ReportsInv, ReadGoEvent PROVE ReportsInv'
  OBVIOUS
<1>0. PICK e \in GoEvents : ReadEvent(GoRefuses(reader, e), GoAfter(reader, e), e)
  BY DEF ReadGoEvent
<1>1. /\ format = "go-json" /\ format' = format /\ verdict = "reading" /\ GoFollowed
      /\ events' = Append(events, e)
  BY <1>0 DEF ReadGoEvent, ReadEvent, ReportsInv
<1>2. CASE GoRefuses(reader, e)
  <2>1. verdict' = "malformed" /\ ~GoReportPasses'
    BY <1>0, <1>1, <1>2, RefusedGoFails DEF ReadEvent
  <2> QED BY <2>1, <1>1 DEF ReportsInv, PassIsEarned, GoPassIsWhole, NextestPassIsWhole,
                            DocumentPassIsSaid, Documents, Streams
<1>3. CASE ~GoRefuses(reader, e)
  <2>1. verdict' = "reading" /\ GoReads(e)
    BY <1>0, <1>1, <1>3 DEF ReadEvent, GoReads
  <2>2. GoFollowed'
    BY <2>1, <1>1, GoStaysFollowed
  <2> QED BY <2>1, <2>2, <1>1 DEF ReportsInv, PassIsEarned, GoPassIsWhole, NextestPassIsWhole,
                                  DocumentPassIsSaid, Documents, Streams
<1> QED BY <1>2, <1>3

\* A nextest event is read, or refused for good.
LEMMA ReportsInvNextestEvent == ReportsInv /\ ReadNextestEvent => ReportsInv'
<1> SUFFICES ASSUME ReportsInv, ReadNextestEvent PROVE ReportsInv'
  OBVIOUS
<1>0. PICK e \in NextestEvents : ReadEvent(NextestRefuses(reader, e), NextestAfter(reader, e), e)
  BY DEF ReadNextestEvent
<1>1. /\ format = "cargo-nextest-json" /\ format' = format /\ verdict = "reading"
      /\ NextestFollowed /\ events' = Append(events, e)
  BY <1>0 DEF ReadNextestEvent, ReadEvent, ReportsInv
<1>2. CASE NextestRefuses(reader, e)
  <2>1. verdict' = "malformed"
    BY <1>0, <1>2 DEF ReadEvent
  <2> QED BY <2>1, <1>1 DEF ReportsInv, PassIsEarned, GoPassIsWhole, NextestPassIsWhole,
                            DocumentPassIsSaid, Documents, Streams
<1>3. CASE ~NextestRefuses(reader, e)
  <2>1. verdict' = "reading" /\ NextestReads(e)
    BY <1>0, <1>1, <1>3 DEF ReadEvent, NextestReads
  <2>2. NextestFollowed'
    BY <2>1, <1>1, NextestStaysFollowed
  <2> QED BY <2>1, <2>2, <1>1 DEF ReportsInv, PassIsEarned, GoPassIsWhole, NextestPassIsWhole,
                                  DocumentPassIsSaid, Documents, Streams
<1> QED BY <1>2, <1>3

\* The verdict on a go stream is the one on the whole of it.
LEMMA ReportsInvEndGo == ReportsInv /\ EndGo => ReportsInv'
<1> SUFFICES ASSUME ReportsInv, EndGo PROVE ReportsInv'
  OBVIOUS
<1>1. /\ format = "go-json" /\ format' = format /\ events' = events /\ GoFollowed
      /\ verdict' = IF GoBreaksOff(reader) THEN "malformed"
                    ELSE VerdictOn(reader.passed + reader.failed, GoFailures(reader))
  BY DEF EndGo, Judged, ReportsInv
<1>2. GoReportPasses' <=> GoReportPasses
  BY <1>1 DEF GoReportPasses, RunsAndPasses, PackagePasses, History, Successive
<1>3. verdict' = "pass" <=> GoReportPasses
  BY <1>1, GoEndIsRight
<1>4. verdict' \in {"pass", "fail", "malformed"}
  BY <1>1 DEF VerdictOn
<1> QED BY <1>1, <1>2, <1>3, <1>4
        DEF ReportsInv, PassIsEarned, GoPassIsWhole, NextestPassIsWhole,
            DocumentPassIsSaid, Documents, Streams

\* A nextest stream passes if what was read of it says so.
LEMMA ReportsInvEndNextest == ReportsInv /\ EndNextest => ReportsInv'
<1> SUFFICES ASSUME ReportsInv, EndNextest PROVE ReportsInv'
  OBVIOUS
<1>1. /\ format = "cargo-nextest-json" /\ format' = format /\ events' = events /\ NextestFollowed
      /\ verdict' = IF NextestBreaksOff(reader) THEN "malformed"
                    ELSE VerdictOn(reader.executed, reader.failed)
  BY DEF EndNextest, Judged, ReportsInv
<1>2. verdict' \in {"pass", "fail", "malformed"}
  BY <1>1 DEF VerdictOn
<1>3. NextestPassIsWhole'
  BY <1>1, NextestEndIsRight DEF NextestPassIsWhole, OfSuite
<1> QED BY <1>1, <1>2, <1>3
        DEF ReportsInv, PassIsEarned, GoPassIsWhole, DocumentPassIsSaid, Documents, Streams

\* A document is judged at once.
LEMMA ReportsInvDocument == ReportsInv /\ ReadDocument => ReportsInv'
<1> SUFFICES ASSUME ReportsInv, ReadDocument PROVE ReportsInv'
  OBVIOUS
<1>1. /\ format \in Documents /\ UNCHANGED <<format, events, reader>>
      /\ verdict' \in {"pass", "fail", "malformed"}
  BY DEF ReadDocument, Judged, Documents, RegexVerdict, JunitVerdict, PytestVerdict, JestVerdict,
         PlaywrightVerdict, VerdictOn
<1>2. ASSUME verdict' = "pass"
      PROVE  DocumentPassIsSaid'
  <2>1. CASE format = "regex"
    BY <1>1, <1>2, <2>1, RegexPasses DEF ReadDocument, Judged, DocumentPassIsSaid
  <2>2. CASE format = "junit"
    BY <1>1, <1>2, <2>2, ListedJunitPasses, UnlistedJunitPasses DEF ReadDocument, Judged, DocumentPassIsSaid
  <2>3. CASE format = "pytest-json"
    BY <1>1, <1>2, <2>3, PytestPasses DEF ReadDocument, Judged, DocumentPassIsSaid
  <2>4. CASE format = "jest-json"
    BY <1>1, <1>2, <2>4, JestPasses DEF ReadDocument, Judged, DocumentPassIsSaid
  <2>5. CASE format = "playwright-json"
    BY <1>1, <1>2, <2>5, PlaywrightPasses DEF ReadDocument, Judged, DocumentPassIsSaid
  <2> QED BY <2>1, <2>2, <2>3, <2>4, <2>5, <1>1 DEF Documents
<1>3. DocumentPassIsSaid'
  BY <1>2 DEF DocumentPassIsSaid
<1> QED BY <1>1, <1>3
        DEF ReportsInv, PassIsEarned, GoPassIsWhole, NextestPassIsWhole, Documents, Streams

\* Between two steps nothing is forgotten.
LEMMA ReportsInvStutter == ReportsInv /\ UNCHANGED reportVars => ReportsInv'
<1> SUFFICES ASSUME ReportsInv, UNCHANGED reportVars PROVE ReportsInv'
  OBVIOUS
<1>0. UNCHANGED <<format, document, events, reader, verdict>>
  BY DEF reportVars
<1>1. GoFollowed => GoFollowed'
  BY <1>0 DEF GoFollowed, GoEventsSound, GoTestsFollowed, GoTallied, GoClosed, StartsEnd,
         EndsWereStarted, IsRunning, History, Successive, SomeTest, AnyTest, ClosedByOne, ClosesWith
<1>2. NextestFollowed => NextestFollowed'
  BY <1>0 DEF NextestFollowed, NextestSound, FailuresKept, ExecutedWasRead, StartedEnds, EndsIn,
         OfSuite, Came
<1>3. PassIsEarned'
  BY <1>0 DEF ReportsInv, PassIsEarned, GoPassIsWhole, NextestPassIsWhole, DocumentPassIsSaid,
         GoReportPasses, RunsAndPasses, PackagePasses, History, Successive
<1> QED BY <1>0, <1>1, <1>2, <1>3 DEF ReportsInv

\* At every event the reader knows what the stream says so far, and the verdict
\* is the one on the whole of it (parse_structured_result).
THEOREM ReportsInvariance == ReportsSpec => []ReportsInv
<1>1. ReportsInv /\ [ReportsNext]_reportVars => ReportsInv'
  BY ReportsInvGoEvent, ReportsInvNextestEvent, ReportsInvEndGo, ReportsInvEndNextest,
     ReportsInvDocument, ReportsInvStutter DEF ReportsNext
<1> QED BY <1>1, ReportsInvInit, PTL DEF ReportsSpec

\* No stream that is cut off, contradicts itself or has a failure in it passes,
\* whatever its tests and the number of its events, and no document in which a part
\* that is read names a failure or no test that ran. Nothing is said of the failures
\* in a text and of the junit levels that do not decide, which are not read
\* (parse_structured_result, parse_executed_count, _junit_counts).
THEOREM OnlyEarnedPasses == ReportsSpec => []PassIsEarned
<1>1. ReportsInv => PassIsEarned
  BY DEF ReportsInv
<1> QED BY <1>1, ReportsInvariance, PTL

\* The events and the reader are those of the format.
ReportsTyped ==
    /\ format = "go-json" => events \in Seq(GoEvents) /\ reader \in GoReader
    /\ format = "cargo-nextest-json" => events \in Seq(NextestEvents) /\ reader \in NextestReader
    /\ Len(events) <= MaxEvents

\* The reader keeps the types, of an event that it refuses as well.
LEMMA ReportsTypedStep ==
    ASSUME ReportsInv, ReportsTyped, [ReportsNext]_reportVars
    PROVE  ReportsTyped'
<1>1. CASE ReadGoEvent
  <2>0. PICK e \in GoEvents : ReadEvent(GoRefuses(reader, e), GoAfter(reader, e), e)
    BY <1>1 DEF ReadGoEvent
  <2>1. /\ format = "go-json" /\ format' = format /\ events' = Append(events, e)
        /\ Len(events) < MaxEvents /\ GoFollowed
        /\ events \in Seq(GoEvents) /\ reader \in GoReader
    BY <1>1, <2>0 DEF ReadGoEvent, ReadEvent, ReportsInv, ReportsTyped
  <2>2. events' \in Seq(GoEvents) /\ Len(events') = Len(events) + 1 /\ Len(events) \in Nat
    BY <2>1, AppendProperties
  <2>3. reader' \in GoReader
    <3>1. CASE GoRefuses(reader, e)
      BY <2>0, <2>1, <3>1 DEF ReadEvent
    <3>2. CASE ~GoRefuses(reader, e)
      <4>1. GoReads(e)
        BY <2>0, <3>2, <2>1 DEF ReadEvent, GoReads
      <4> QED BY <4>1, <2>1, GoStaysFollowed DEF GoFollowed, GoEventsSound
    <3> QED BY <3>1, <3>2
  <2>4. Len(events') <= MaxEvents
    BY <2>1, <2>2, ReportBoundsAssumption
  <2> QED BY <2>1, <2>2, <2>3, <2>4 DEF ReportsTyped
<1>2. CASE ReadNextestEvent
  <2>0. PICK e \in NextestEvents : ReadEvent(NextestRefuses(reader, e), NextestAfter(reader, e), e)
    BY <1>2 DEF ReadNextestEvent
  <2>1. /\ format = "cargo-nextest-json" /\ format' = format /\ events' = Append(events, e)
        /\ Len(events) < MaxEvents /\ NextestFollowed
        /\ events \in Seq(NextestEvents) /\ reader \in NextestReader
    BY <1>2, <2>0 DEF ReadNextestEvent, ReadEvent, ReportsInv, ReportsTyped
  <2>2. events' \in Seq(NextestEvents) /\ Len(events') = Len(events) + 1 /\ Len(events) \in Nat
    BY <2>1, AppendProperties
  <2>3. reader' \in NextestReader
    <3>1. CASE NextestRefuses(reader, e)
      BY <2>0, <2>1, <3>1 DEF ReadEvent
    <3>2. CASE ~NextestRefuses(reader, e)
      <4>1. NextestReads(e)
        BY <2>0, <3>2, <2>1 DEF ReadEvent, NextestReads
      <4> QED BY <4>1, <2>1, NextestStaysFollowed DEF NextestFollowed, NextestSound
    <3> QED BY <3>1, <3>2
  <2>4. Len(events') <= MaxEvents
    BY <2>1, <2>2, ReportBoundsAssumption
  <2> QED BY <2>1, <2>2, <2>3, <2>4 DEF ReportsTyped
<1>3. CASE EndGo \/ EndNextest \/ ReadDocument \/ UNCHANGED reportVars
  <2>1. UNCHANGED <<format, events, reader>>
    BY <1>3 DEF EndGo, EndNextest, ReadDocument, Judged, reportVars
  <2> QED BY <2>1 DEF ReportsTyped
<1> QED BY <1>1, <1>2, <1>3 DEF ReportsNext

\* The events, the reader and the verdict have their types
\* (parse_structured_result).
THEOREM ReportsTypeCorrect == ReportsSpec => []ReportsTypeOK
<1>1. ReportsInit => ReportsTyped
  <2> SUFFICES ASSUME ReportsInit PROVE ReportsTyped
    OBVIOUS
  <2>1. events = <<>> /\ Len(events) = 0 /\ events \in Seq(GoEvents) /\ events \in Seq(NextestEvents)
    BY DEF ReportsInit
  <2>2. /\ format = "go-json" => reader = NoGo
        /\ format = "cargo-nextest-json" => reader = NoNextest
    BY DEF ReportsInit
  <2>3. format = "go-json" => reader \in GoReader
    BY <2>1, <2>2, NoGoFollows DEF GoFollowed, GoEventsSound
  <2>4. format = "cargo-nextest-json" => reader \in NextestReader
    BY <2>1, <2>2, NoNextestFollows DEF NextestFollowed, NextestSound
  <2> QED BY <2>1, <2>3, <2>4, ReportBoundsAssumption DEF ReportsTyped
<1>2. ReportsInv /\ ReportsTyped => ReportsTypeOK
  <2> SUFFICES ASSUME ReportsInv, ReportsTyped PROVE ReportsTypeOK
    OBVIOUS
  <2>1. events \in Seq(GoEvents) \cup Seq(NextestEvents)
    <3>1. format \in Documents => events = <<>>
      BY DEF ReportsInv
    <3>2. <<>> \in Seq(GoEvents)
      OBVIOUS
    <3> QED BY <3>1, <3>2 DEF ReportsInv, ReportsTyped, Streams
  <2>2. format = "go-json" =>
            /\ reader.active \subseteq (Packages \X GoTests)
            /\ reader.closed \in [Packages -> {"open", "pass", "fail"}]
    BY DEF ReportsTyped, GoReader
  <2>3. format = "cargo-nextest-json" =>
            /\ reader.suite.active \cup reader.suite.measured \subseteq Tests
            /\ reader.suites \in Nat
    BY DEF ReportsTyped, NextestReader, NextestSuite
  <2> QED BY <2>1, <2>2, <2>3 DEF ReportsTypeOK, ReportsInv, ReportsTyped
<1>3. ReportsInv /\ ReportsTyped /\ [ReportsNext]_reportVars => ReportsTyped'
  BY ReportsTypedStep
<1> QED BY <1>1, <1>2, <1>3, ReportsInvariance, PTL DEF ReportsSpec

-----------------------------------------------------------------------------
(* The plans. *)

\* What holds of a database between calls.
WholeIn(g) ==
    \A k \in CyclePlans :
        LET m == g.marker[k]
        IN  IF m = NoPlan
            THEN \A kind \in LocalKinds : g.text[<<kind, k>>] \in {Absent, Other}
            ELSE /\ \A kind \in RowsOf(m.risk) : g.text[<<kind, k>>] # Absent
                 /\ Relations(m.risk) \subseteq g.relations[k]
                 /\ g.definition[Stem[k]] # Absent
                 /\ g.qualification[Stem[k]] # NoRow

ScopeCovers(g, cycle, known) ==
    g.scope = "confirmed" =>
        \A k \in CyclePlans : k[1] = cycle /\ g.marker[k] # NoPlan => k \in known

MarkersAreOwn(g) == \A k \in CyclePlans : g.marker[k] = NoPlan \/ g.marker[k].id = k[2]

GoodGraph(g, cycle, known) == WholeIn(g) /\ ScopeCovers(g, cycle, known) /\ MarkersAreOwn(g)

Patching == {"resolved", "sampled", "recorded"}

CallHasItsPlan == planStep # "idle" => plan \in Plans

\* The database is good between the calls, and what an open transaction goes back
\* to is.
GraphIsGood ==
    /\ planStep # "inserting" => GoodGraph(graph, planCycle, reviewed)
    /\ planStep = "inserting" => GoodGraph(saved, planCycle, reviewed)

\* An open transaction touches the rows of its plan, takes none away from others,
\* reopens the scope and writes the marker last.
InsertsOnly ==
    planStep = "inserting" =>
        /\ \A k \in CyclePlans \ {Key(plan.id)} :
               /\ graph.marker[k] = saved.marker[k]
               /\ \A kind \in LocalKinds : graph.text[<<kind, k>>] = saved.text[<<kind, k>>]
               /\ graph.relations[k] = saved.relations[k]
        /\ \A s \in Stems :
               /\ saved.definition[s] # Absent => graph.definition[s] # Absent
               /\ saved.qualification[s] # NoRow => graph.qualification[s] # NoRow
        /\ Len(todo) \in {0, 1} => graph.scope = "unconfirmed"
        /\ todo = <<>> => graph.marker[Key(plan.id)] = plan

\* A patch is about a plan whose graph holds.
PatchHasItsGraph ==
    planStep \in Patching =>
        graph.marker[Key(plan.id)] = plan /\ GraphHolds(Key(plan.id))

\* A dry run is good until something changes.
ForecastIsGood ==
    /\ planStep = "idle" /\ answer = "forecast" =>
           forecast.plan \in Plans /\ forecast.answer = Preflight(forecast.plan)
    /\ planStep = "inserting" /\ forecast.plan = plan => forecast.answer = "changed"

PlansInv ==
    /\ PlansTypeOK
    /\ CallHasItsPlan
    /\ GraphIsGood
    /\ InsertsOnly
    /\ PatchHasItsGraph
    /\ ForecastIsGood
    /\ AnswersAreTrue

PlanRows == LocalKinds \cup {"requirement-acceptance", "task-target", "target",
                             "qualification", "project", "marker"}

\* The rows of a plan in order: the project before the marker, and the marker last.
LEMMA InsertOrderEnds ==
    ASSUME NEW risk \in BOOLEAN
    PROVE  /\ InsertOrder(risk) \in Seq(PlanRows)
           /\ Len(InsertOrder(risk)) \in 9 .. 10
           /\ InsertOrder(risk)[Len(InsertOrder(risk))] = "marker"
           /\ InsertOrder(risk)[Len(InsertOrder(risk)) - 1] = "project"
  <1> DEFINE long == <<"requirement", "acceptance", "requirement-acceptance", "failure-mode",
                       "task", "target", "task-target", "qualification", "project", "marker">>
             short == <<"requirement", "acceptance", "requirement-acceptance", "task",
                        "target", "task-target", "qualification", "project", "marker">>
  <1>1. long \in Seq(PlanRows) /\ Len(long) = 10 /\ long[10] = "marker" /\ long[9] = "project"
    BY DEF PlanRows, LocalKinds
  <1>2. short \in Seq(PlanRows) /\ Len(short) = 9 /\ short[9] = "marker" /\ short[8] = "project"
    BY DEF PlanRows, LocalKinds
  <1>3. InsertOrder(risk) = IF risk THEN long ELSE short  BY DEF InsertOrder
  <1> HIDE DEF long, short
  <1> DEFINE order == InsertOrder(risk)
  <1>4. /\ order \in Seq(PlanRows)
        /\ \/ Len(order) = 10 /\ order[10] = "marker" /\ order[9] = "project"
           \/ Len(order) = 9 /\ order[9] = "marker" /\ order[8] = "project"
    BY <1>1, <1>2, <1>3, Zenon
  <1> HIDE DEF order
  <1>5. Len(order) \in 9 .. 10 /\ order[Len(order)] = "marker" /\ order[Len(order) - 1] = "project"
    BY <1>4
  <1> QED  BY <1>4, <1>5 DEF order

TodoIsSuffix(s) ==
    \E risk \in BOOLEAN, n \in 1 .. 12 :
        s = SubSeq(InsertOrder(risk), n, Len(InsertOrder(risk)))

\* What is still to be written, without the arithmetic.
LEMMA TodoEnds ==
    ASSUME TodoIsSuffix(todo)
    PROVE  /\ todo \in Seq(PlanRows)
           /\ todo # <<>> => 
                /\ Head(todo) \in PlanRows
                /\ Len(todo) = 1 => Head(todo) = "marker"
                /\ Len(todo) = 2 => Head(todo) = "project"
                /\ Len(todo) \in Nat \ {0}
                /\ Len(Tail(todo)) = Len(todo) - 1
                /\ TodoIsSuffix(Tail(todo))
  <1>1. PICK risk \in BOOLEAN, n \in 1 .. 12 :
            todo = SubSeq(InsertOrder(risk), n, Len(InsertOrder(risk)))
    BY DEF TodoIsSuffix
  <1> DEFINE s == InsertOrder(risk)
  <1>2. s \in Seq(PlanRows) /\ Len(s) \in 9 .. 10 /\ s[Len(s)] = "marker" /\ s[Len(s) - 1] = "project"
    BY InsertOrderEnds
  <1>3. todo = SubSeq(s, n, Len(s))  BY <1>1
  <1>4. \A m \in 1 .. 12 : TodoIsSuffix(SubSeq(s, m, Len(s)))  BY DEF TodoIsSuffix
  <1> HIDE DEF s
  <1>5. todo \in Seq(PlanRows)  BY <1>2, <1>3
  <1> SUFFICES ASSUME todo # <<>>
               PROVE  /\ Head(todo) \in PlanRows
                      /\ Len(todo) = 1 => Head(todo) = "marker"
                      /\ Len(todo) = 2 => Head(todo) = "project"
                      /\ Len(todo) \in Nat \ {0}
                      /\ Len(Tail(todo)) = Len(todo) - 1
                      /\ TodoIsSuffix(Tail(todo))
    BY <1>5
  <1>6. n <= Len(s)
    <2> SUFFICES ASSUME n > Len(s) PROVE FALSE  BY <1>2
    <2> QED  BY <1>2, <1>3
  <1>7. Len(todo) = Len(s) - n + 1  BY <1>2, <1>3, <1>6
  <1>8. \A i \in 1 .. Len(todo) : todo[i] = s[n + i - 1]
    BY <1>2, <1>3, <1>6, <1>7
  <1>9. Head(todo) = s[n]  BY <1>2, <1>5, <1>6, <1>7, <1>8
  <1>10. Tail(todo) = SubSeq(s, n + 1, Len(s))
    BY <1>2, <1>3, <1>5, <1>6, <1>7, <1>8
  <1>11. TodoIsSuffix(Tail(todo))
    <2>1. n + 1 \in 1 .. 12  BY <1>2, <1>6
    <2> QED  BY <2>1, <1>4, <1>10
  <1> QED  BY <1>2, <1>5, <1>6, <1>7, <1>9, <1>11

\* Sequences as long as the list of rows to insert.
LEMMA Suffixes ==
    ASSUME NEW S, NEW s \in Seq(S), Len(s) \in 9 .. 10
    PROVE  SubSeq(s, 12, Len(s)) = <<>> /\ SubSeq(s, 1, Len(s)) = s /\ Len(s) \notin {0, 1} /\ s # <<>>
  <1>1. Len(s) \notin {0, 1} /\ s # <<>>
    <2>1. \A n \in 9 .. 10 : n \notin {0, 1}  OBVIOUS
    <2>2. s # <<>>  OBVIOUS
    <2> QED  BY <2>1, <2>2, Zenon
  <1>2. SubSeq(s, 1, Len(s)) = s  OBVIOUS
  <1>3. SubSeq(s, 12, Len(s)) = <<>>  OBVIOUS
  <1> QED  BY <1>1, <1>2, <1>3

\* Nothing to insert is the end of every list.
LEMMA EmptyTodo == TodoIsSuffix(<<>>)
  <1>1. SubSeq(InsertOrder(TRUE), 12, Len(InsertOrder(TRUE))) = <<>>
    BY InsertOrderEnds, Suffixes, Zenon
  <1>2. 12 \in 1 .. 12  OBVIOUS
  <1> QED  BY <1>1, <1>2, Zenon DEF TodoIsSuffix

\* Everything to insert is the whole list.
LEMMA WholeTodo ==
    ASSUME NEW risk \in BOOLEAN
    PROVE  /\ TodoIsSuffix(InsertOrder(risk))
           /\ Len(InsertOrder(risk)) \notin {0, 1}
           /\ InsertOrder(risk) # <<>>
  <1>1. /\ SubSeq(InsertOrder(risk), 1, Len(InsertOrder(risk))) = InsertOrder(risk)
        /\ Len(InsertOrder(risk)) \notin {0, 1}
        /\ InsertOrder(risk) # <<>>
    BY InsertOrderEnds, Suffixes, Zenon
  <1>2. 1 \in 1 .. 12  OBVIOUS
  <1> QED  BY <1>1, <1>2, Zenon DEF TodoIsSuffix

\* The types of the parts of a database.
LEMMA GraphParts ==
    ASSUME NEW g \in Graphs
    PROVE  /\ g.text \in [LocalKinds \X CyclePlans -> Digests \cup {Absent, Other}]
           /\ g.definition \in [Stems -> Digests \cup {Absent, Other}]
           /\ g.revision \in [CyclePlans -> Nat]
           /\ g.qualification \in [Stems -> [cycle : 0 .. LastCycle, plan : PlanIds \cup {Absent},
                                              revision : Nat, definition : Digests \cup {Absent, Other}]]
           /\ g.newest \in [CyclePlans -> {"none", "own", "other"}]
           /\ g.relations \in [CyclePlans -> SUBSET Relations(TRUE)]
           /\ g.marker \in [CyclePlans -> Plans \cup {NoPlan}]
           /\ g.scope \in {"confirmed", "unconfirmed"}
  BY DEF Graphs

\* A plan of the current cycle has a key, and a stem for its ids.
LEMMA KeyIsKey ==
    ASSUME planCycle \in PlanCycles, NEW p \in PlanIds
    PROVE  /\ Key(p) \in CyclePlans
           /\ Key(p)[1] = planCycle /\ Key(p)[2] = p
           /\ Stem[Key(p)] \in Stems
  <1>1. Key(p) = <<planCycle, p>> /\ Key(p)[1] = planCycle /\ Key(p)[2] = p  BY DEF Key
  <1>2. Key(p) \in CyclePlans  BY DEF Key, CyclePlans
  <1>3. Stem[Key(p)] \in Stems  BY <1>2, Zenon DEF Stems
  <1> QED  BY <1>1, <1>2, <1>3, Zenon

\* Every key has a stem, a cycle and a plan.
LEMMA StemOfKey ==
    ASSUME NEW k \in CyclePlans
    PROVE  Stem[k] \in Stems /\ k[1] \in PlanCycles /\ k[2] \in PlanIds
  <1>1. k[1] \in PlanCycles /\ k[2] \in PlanIds  BY DEF CyclePlans
  <1> QED  BY <1>1, Zenon DEF Stems

\* The parts of a plan are none of what stands for a missing or a foreign row.
LEMMA PlanParts ==
    ASSUME NEW pl \in Plans
    PROVE  pl.id \in PlanIds /\ pl.digest \in Digests /\ pl.risk \in BOOLEAN
           /\ pl.digest # Absent /\ pl.digest # Other /\ pl # NoPlan
  BY PlanValuesAssumption DEF Plans, Absent, Other, NoPlan

\* What the calls and the operators may do to a database: they take no marker, row
\* or relation away, a plan's own or a foreign one.
AddsRows(h) ==
    /\ h \in Graphs
    /\ \A k \in CyclePlans \ {Key(plan.id)} :
           /\ h.marker[k] = graph.marker[k]
           /\ \A kind \in LocalKinds : h.text[<<kind, k>>] = graph.text[<<kind, k>>]
           /\ h.relations[k] = graph.relations[k]
    /\ \A s \in Stems :
           /\ graph.definition[s] # Absent => h.definition[s] # Absent
           /\ graph.qualification[s] # NoRow => h.qualification[s] # NoRow

Applying == graph \in Graphs /\ plan \in Plans /\ planCycle \in PlanCycles

\* The insertion of an own row adds rows and overwrites none.
LEMMA RowWrittenAdds ==
    ASSUME Applying, NEW kind \in LocalKinds, NEW links \in SUBSET Relations(TRUE)
    PROVE  AddsRows(RowWritten(kind, links)) /\ RowWritten(kind, links).scope = graph.scope
  <1> USE DEF Applying
  <1> DEFINE K == Key(plan.id)
             g == RowWritten(kind, links)
  <1>1. K \in CyclePlans /\ plan.digest \in Digests  BY KeyIsKey, PlanParts
  <1>2. [graph.text EXCEPT ![<<kind, K>>] = plan.digest]
            \in [LocalKinds \X CyclePlans -> Digests \cup {Absent, Other}]
    BY <1>1, GraphParts
  <1>3. [graph.relations EXCEPT ![K] = @ \cup links]
            \in [CyclePlans -> SUBSET Relations(TRUE)]
    BY <1>1, GraphParts
  <1>4. /\ g.text = [graph.text EXCEPT ![<<kind, K>>] = plan.digest]
        /\ g.relations = [graph.relations EXCEPT ![K] = @ \cup links]
        /\ g.definition = graph.definition /\ g.qualification = graph.qualification
        /\ g.marker = graph.marker /\ g.scope = graph.scope
    BY DEF RowWritten, Graphs
  <1>5. g \in Graphs  BY <1>2, <1>3 DEF RowWritten, Graphs
  <1> HIDE DEF g, K
  <1>6. ASSUME NEW k \in CyclePlans \ {K}
        PROVE  /\ g.relations[k] = graph.relations[k]
               /\ \A n \in LocalKinds : g.text[<<n, k>>] = graph.text[<<n, k>>]
    <2>1. g.relations[k] = graph.relations[k]  BY <1>1, <1>4, GraphParts
    <2>2. ASSUME NEW n \in LocalKinds PROVE g.text[<<n, k>>] = graph.text[<<n, k>>]
      <3>1. <<n, k>> \in LocalKinds \X CyclePlans /\ <<n, k>> # <<kind, K>>  OBVIOUS
      <3>2. graph.text \in [LocalKinds \X CyclePlans -> Digests \cup {Absent, Other}]
        BY GraphParts
      <3> QED  BY <1>4, <3>1, <3>2, Zenon
    <2> QED  BY <2>1, <2>2
  <1> QED  BY <1>4, <1>5, <1>6 DEF AddsRows, g, K

\* So does that of the acceptance of a requirement.
LEMMA AcceptanceWrittenAdds ==
    ASSUME Applying
    PROVE  AddsRows(AcceptanceWritten) /\ AcceptanceWritten.scope = graph.scope
  <1> DEFINE g == RowWritten("acceptance", {})
             h == [g EXCEPT !.revision[Key(plan.id)] = 1]
  <1>1. AddsRows(g) /\ g.scope = graph.scope
    BY RowWrittenAdds DEF LocalKinds
  <1>2. AcceptanceWritten = h  BY DEF AcceptanceWritten
  <1> HIDE DEF g
  <1>3. g \in Graphs /\ Key(plan.id) \in CyclePlans
    BY <1>1, KeyIsKey, PlanParts DEF AddsRows, Applying
  <1>4. [g.revision EXCEPT ![Key(plan.id)] = 1] \in [CyclePlans -> Nat]
    BY <1>3, GraphParts
  <1>5. h \in Graphs  BY <1>3, <1>4 DEF Graphs
  <1>6. /\ h.text = g.text /\ h.relations = g.relations /\ h.definition = g.definition
        /\ h.qualification = g.qualification /\ h.marker = g.marker /\ h.scope = g.scope
    BY <1>3 DEF Graphs
  <1> HIDE DEF h
  <1> QED  BY <1>1, <1>2, <1>5, <1>6 DEF AddsRows

\* So does that of a test target, which another plan may have defined.
LEMMA TargetWrittenAdds ==
    ASSUME Applying
    PROVE  AddsRows(TargetWritten) /\ TargetWritten.scope = graph.scope
  <1> USE DEF Applying
  <1> DEFINE s == Stem[Key(plan.id)]
             h == TargetWritten
  <1>1. s \in Stems /\ plan.digest \in Digests /\ plan.digest # Absent
    BY KeyIsKey, PlanParts
  <1>2. [graph.definition EXCEPT ![s] = plan.digest] \in [Stems -> Digests \cup {Absent, Other}]
    BY <1>1, GraphParts
  <1>3. h \in Graphs  BY <1>2 DEF TargetWritten, Graphs
  <1>4. /\ h.definition = [graph.definition EXCEPT ![s] = plan.digest]
        /\ h.text = graph.text /\ h.relations = graph.relations
        /\ h.qualification = graph.qualification /\ h.marker = graph.marker
        /\ h.scope = graph.scope
    BY DEF TargetWritten, Graphs
  <1> HIDE DEF h, s
  <1>5. \A t \in Stems : graph.definition[t] # Absent => h.definition[t] # Absent
    BY <1>1, <1>4, GraphParts
  <1> QED  BY <1>3, <1>4, <1>5 DEF AddsRows, h

\* So does that of the qualification of the target.
LEMMA QualificationWrittenAdds ==
    ASSUME Applying
    PROVE  AddsRows(QualificationWritten) /\ QualificationWritten.scope = graph.scope
  <1> USE DEF Applying
  <1> DEFINE s == Stem[Key(plan.id)]
             K == Key(plan.id)
             h == QualificationWritten
  <1>1. s \in Stems /\ K \in CyclePlans  BY KeyIsKey, PlanParts
  <1>2. OwnQualification \in [cycle : 0 .. LastCycle, plan : PlanIds \cup {Absent},
                              revision : Nat, definition : Digests \cup {Absent, Other}]
    <2>1. /\ graph.revision[K] \in Nat
          /\ graph.definition[s] \in Digests \cup {Absent, Other}
      BY <1>1, GraphParts
    <2>2. planCycle \in 0 .. LastCycle  BY LastCycleAssumption DEF PlanCycles
    <2>3. plan.id \in PlanIds \cup {Absent}  BY PlanParts
    <2> QED  BY <2>1, <2>2, <2>3 DEF OwnQualification
  <1>3. OwnQualification # NoRow
    BY LastCycleAssumption DEF OwnQualification, NoRow, PlanCycles
  <1>4. [graph.qualification EXCEPT ![s] = OwnQualification]
            \in [Stems -> [cycle : 0 .. LastCycle, plan : PlanIds \cup {Absent},
                           revision : Nat, definition : Digests \cup {Absent, Other}]]
    BY <1>1, <1>2, GraphParts
  <1>5. [graph.newest EXCEPT ![K] = "own"] \in [CyclePlans -> {"none", "own", "other"}]
    BY <1>1, GraphParts
  <1>6. h \in Graphs  BY <1>4, <1>5 DEF QualificationWritten, Graphs
  <1>7. /\ h.qualification = [graph.qualification EXCEPT ![s] = OwnQualification]
        /\ h.text = graph.text /\ h.relations = graph.relations
        /\ h.definition = graph.definition /\ h.marker = graph.marker
        /\ h.scope = graph.scope
    BY DEF QualificationWritten, Graphs
  <1> HIDE DEF h, s, K
  <1>8. \A t \in Stems : graph.qualification[t] # NoRow => h.qualification[t] # NoRow
    BY <1>1, <1>3, <1>7, GraphParts
  <1> QED  BY <1>6, <1>7, <1>8 DEF AddsRows, h

\* So does that of a relation.
LEMMA LinkedAdds ==
    ASSUME Applying, NEW relation \in Relations(TRUE)
    PROVE  AddsRows(Linked(relation)) /\ Linked(relation).scope = graph.scope
  <1> USE DEF Applying
  <1> DEFINE K == Key(plan.id)
             h == Linked(relation)
  <1>1. K \in CyclePlans  BY KeyIsKey, PlanParts
  <1>2. [graph.relations EXCEPT ![K] = @ \cup {relation}]
            \in [CyclePlans -> SUBSET Relations(TRUE)]
    BY <1>1, GraphParts
  <1>3. h \in Graphs  BY <1>2 DEF Linked, Graphs
  <1>4. /\ h.relations = [graph.relations EXCEPT ![K] = @ \cup {relation}]
        /\ h.text = graph.text /\ h.qualification = graph.qualification
        /\ h.definition = graph.definition /\ h.marker = graph.marker
        /\ h.scope = graph.scope
    BY DEF Linked, Graphs
  <1> HIDE DEF h, K
  <1>5. \A k \in CyclePlans \ {K} : h.relations[k] = graph.relations[k]
    BY <1>1, <1>4, GraphParts
  <1> QED  BY <1>3, <1>4, <1>5 DEF AddsRows, h, K

\* The update of the project takes back its confirmation, and no row.
LEMMA ReopenedAdds ==
    ASSUME Applying
    PROVE  AddsRows(Reopened) /\ Reopened.scope = "unconfirmed"
  <1> USE DEF Applying
  <1>1. Reopened \in Graphs  BY DEF Reopened, Graphs
  <1>2. /\ Reopened.scope = "unconfirmed"
        /\ Reopened.text = graph.text /\ Reopened.qualification = graph.qualification
        /\ Reopened.definition = graph.definition /\ Reopened.marker = graph.marker
        /\ Reopened.relations = graph.relations
    BY DEF Reopened, Graphs
  <1> QED  BY <1>1, <1>2 DEF AddsRows

\* The marker is added, and names the plan as it was applied.
LEMMA MarkerWrittenAdds ==
    ASSUME Applying
    PROVE  /\ AddsRows(MarkerWritten) /\ MarkerWritten.scope = graph.scope
           /\ MarkerWritten.marker[Key(plan.id)] = plan
  <1> USE DEF Applying
  <1> DEFINE K == Key(plan.id)
             h == MarkerWritten
  <1>1. K \in CyclePlans  BY KeyIsKey, PlanParts
  <1>2. [graph.marker EXCEPT ![K] = plan] \in [CyclePlans -> Plans \cup {NoPlan}]
    BY <1>1, GraphParts
  <1>3. h \in Graphs  BY <1>2 DEF MarkerWritten, Graphs
  <1>4. /\ h.marker = [graph.marker EXCEPT ![K] = plan]
        /\ h.text = graph.text /\ h.qualification = graph.qualification
        /\ h.definition = graph.definition /\ h.relations = graph.relations
        /\ h.scope = graph.scope
    BY DEF MarkerWritten, Graphs
  <1> HIDE DEF h, K
  <1>5. /\ \A k \in CyclePlans \ {K} : h.marker[k] = graph.marker[k]
        /\ h.marker[K] = plan
    BY <1>1, <1>4, GraphParts
  <1> QED  BY <1>3, <1>4, <1>5 DEF AddsRows, h, K

\* Every insertion adds rows; the one of the project takes back the
\* confirmation, the one of the marker says whose rows they are.
LEMMA InsertedAdds ==
    ASSUME Applying, NEW what \in PlanRows
    PROVE  /\ AddsRows(Inserted(what))
           /\ what # "project" => Inserted(what).scope = graph.scope
           /\ what = "project" => Inserted(what).scope = "unconfirmed"
           /\ what = "marker" => Inserted(what).marker[Key(plan.id)] = plan
  <1>1. {} \in SUBSET Relations(TRUE) /\ {"risk-acceptance"} \in SUBSET Relations(TRUE)
    BY DEF Relations
  <1>2. {"task-acceptance"} \cup (IF plan.risk THEN {"task-risk"} ELSE {})
            \in SUBSET Relations(TRUE)
    BY DEF Relations
  <1>3. CASE what = "requirement"
    <2>1. Inserted(what) = RowWritten("requirement", {})
      BY <1>3 DEF Inserted, RequirementWritten
    <2> QED  BY <1>1, <1>3, <2>1, RowWrittenAdds DEF LocalKinds
  <1>4. CASE what = "acceptance"
    <2>1. Inserted(what) = AcceptanceWritten  BY <1>4 DEF Inserted
    <2> QED  BY <1>4, <2>1, AcceptanceWrittenAdds
  <1>5. CASE what = "failure-mode"
    <2>1. Inserted(what) = RowWritten("failure-mode", {"risk-acceptance"})
      BY <1>5 DEF Inserted, RiskWritten
    <2> QED  BY <1>1, <1>5, <2>1, RowWrittenAdds DEF LocalKinds
  <1>6. CASE what = "task"
    <2>1. Inserted(what) = RowWritten("task",
                {"task-acceptance"} \cup (IF plan.risk THEN {"task-risk"} ELSE {}))
      BY <1>6 DEF Inserted, TaskWritten
    <2> QED  BY <1>2, <1>6, <2>1, RowWrittenAdds DEF LocalKinds
  <1>7. CASE what = "target"
    <2>1. Inserted(what) = TargetWritten  BY <1>7 DEF Inserted
    <2> QED  BY <1>7, <2>1, TargetWrittenAdds
  <1>8. CASE what = "qualification"
    <2>1. Inserted(what) = QualificationWritten  BY <1>8 DEF Inserted
    <2> QED  BY <1>8, <2>1, QualificationWrittenAdds
  <1>9. CASE what \in {"requirement-acceptance", "task-target"}
    <2>1. Inserted(what) = Linked(what) /\ what \in Relations(TRUE)
      BY <1>9 DEF Inserted, Relations
    <2>2. what # "project" /\ what # "marker"  BY <1>9
    <2>3. AddsRows(Linked(what)) /\ Linked(what).scope = graph.scope  BY <2>1, LinkedAdds
    <2> QED  BY <2>1, <2>2, <2>3
  <1>10. CASE what = "project"
    <2>1. Inserted(what) = Reopened  BY <1>10 DEF Inserted
    <2> QED  BY <1>10, <2>1, ReopenedAdds
  <1>11. CASE what = "marker"
    <2>1. Inserted(what) = MarkerWritten  BY <1>11 DEF Inserted
    <2> QED  BY <1>11, <2>1, MarkerWrittenAdds
  <1> QED
    BY <1>3, <1>4, <1>5, <1>6, <1>7, <1>8, <1>9, <1>10, <1>11 DEF PlanRows, LocalKinds

\* The forms of a step of the operators.
LEMMA PlanIsFound ==
    ASSUME graph \in Graphs, NEW k \in CyclePlans, graph.marker[k] # NoPlan
    PROVE  graph.marker[k] \in Plans
  BY GraphParts

\* The comparison of a plan with the database has three outcomes.
LEMMA PreflightAnswers ==
    ASSUME NEW pl
    PROVE  Preflight(pl) \in {"conflict", "changed", "unchanged"}
  BY DEF Preflight

\* A graph that holds is whole.
LEMMA HoldingIsWhole ==
    ASSUME graph \in Graphs, NEW k \in CyclePlans, NEW pl \in Plans,
           graph.marker[k] = pl, GraphHolds(k)
    PROVE  /\ \A kind \in RowsOf(pl.risk) : graph.text[<<kind, k>>] # Absent
           /\ Relations(pl.risk) \subseteq graph.relations[k]
           /\ graph.definition[Stem[k]] # Absent
           /\ graph.qualification[Stem[k]] # NoRow
  <1>1. pl.digest # Absent /\ k[1] \in PlanCycles  BY PlanParts, StemOfKey
  <1>2. k[1] # 0  BY <1>1, LastCycleAssumption DEF PlanCycles
  <1>3. graph.qualification[Stem[k]].cycle # 0
    BY <1>2 DEF GraphHolds, QualificationHolds
  <1> QED  BY <1>1, <1>3 DEF GraphHolds, NoRow

\* And the rows of its plan are current.
LEMMA HoldingIsCurrent ==
    ASSUME graph \in Graphs, NEW k \in CyclePlans, NEW pl \in Plans,
           graph.marker[k] = pl, GraphHolds(k)
    PROVE  Current(k, pl)
  <1> DEFINE q == graph.qualification[Stem[k]]
  <1>1. q \in [cycle : 0 .. LastCycle, plan : PlanIds \cup {Absent}, revision : Nat,
               definition : Digests \cup {Absent, Other}]
    BY GraphParts, StemOfKey
  <1>2. /\ q.cycle = k[1] /\ q.plan = k[2] /\ q.revision = graph.revision[k]
        /\ q.definition = pl.digest
    BY DEF GraphHolds, QualificationHolds
  <1>3. q = [cycle |-> k[1], plan |-> k[2], revision |-> graph.revision[k],
             definition |-> pl.digest]
    <2> HIDE DEF q
    <2> QED  BY <1>1, <1>2
  <1> QED  BY <1>3 DEF GraphHolds, QualificationHolds, Current

\* What the operators may do to a database: they leave markers and relations alone,
\* take no row away, and write by hand what no plan says.
KeepsRows(h) ==
    /\ h \in Graphs
    /\ h.marker = graph.marker
    /\ h.relations = graph.relations
    /\ \A k \in CyclePlans : \A kind \in LocalKinds :
           \/ h.text[<<kind, k>>] = graph.text[<<kind, k>>]
           \/ /\ h.text[<<kind, k>>] # Absent
              /\ graph.marker[k] = NoPlan => h.text[<<kind, k>>] = Other
    /\ \A s \in Stems :
           /\ graph.definition[s] # Absent => h.definition[s] # Absent
           /\ graph.qualification[s] # NoRow => h.qualification[s] # NoRow

\* Where rows are kept, plans stay whole.
LEMMA KeptRowsAreWhole ==
    ASSUME WholeIn(graph), NEW h, KeepsRows(h)
    PROVE  WholeIn(h)
  <1> SUFFICES ASSUME NEW k \in CyclePlans
               PROVE  LET m == graph.marker[k]
                      IN  IF m = NoPlan
                          THEN \A kind \in LocalKinds : h.text[<<kind, k>>] \in {Absent, Other}
                          ELSE /\ \A kind \in RowsOf(m.risk) : h.text[<<kind, k>>] # Absent
                               /\ Relations(m.risk) \subseteq h.relations[k]
                               /\ h.definition[Stem[k]] # Absent
                               /\ h.qualification[Stem[k]] # NoRow
    BY DEF WholeIn, KeepsRows
  <1>1. Stem[k] \in Stems  BY StemOfKey
  <1>2. CASE graph.marker[k] = NoPlan  BY <1>2 DEF WholeIn, KeepsRows
  <1>3. CASE graph.marker[k] # NoPlan
    <2>1. \A kind \in RowsOf(graph.marker[k].risk) : kind \in LocalKinds
      BY DEF RowsOf, LocalKinds
    <2> QED  BY <1>1, <1>3, <2>1 DEF WholeIn, KeepsRows
  <1> QED  BY <1>2, <1>3

\* An operator who edits a row leaves a row.
LEMMA RewriteKeepsRows ==
    ASSUME PlansTypeOK, RewriteRow
    PROVE  KeepsRows(graph') /\ graph'.scope = graph.scope
  <1>1. graph \in Graphs /\ planCycle \in PlanCycles  BY DEF PlansTypeOK
  <1>2. PICK kind \in LocalKinds, p \in PlanIds, text \in Digests \cup {Other} :
            /\ text \in {Other, graph.marker[Key(p)].digest}
            /\ graph' = [graph EXCEPT
                  !.text[<<kind, Key(p)>>] = text,
                  !.revision[Key(p)] = IF kind = "acceptance" THEN @ + 1 ELSE @]
    BY DEF RewriteRow
  <1> DEFINE K == Key(p)
             rows == [graph.text EXCEPT ![<<kind, K>>] = text]
             revised == [graph.revision EXCEPT ![K] = IF kind = "acceptance" THEN @ + 1 ELSE @]
  <1>3. K \in CyclePlans  BY <1>1, KeyIsKey
  <1>4. graph' = [graph EXCEPT !.text = rows, !.revision = revised]
    BY <1>2
  <1>5. rows \in [LocalKinds \X CyclePlans -> Digests \cup {Absent, Other}]
    BY <1>1, <1>3, GraphParts
  <1>6. revised \in [CyclePlans -> Nat]
    <2>1. graph.revision \in [CyclePlans -> Nat]  BY <1>1, GraphParts
    <2>2. CASE kind = "acceptance"
      <3>1. revised = [graph.revision EXCEPT ![K] = @ + 1]  BY <2>2
      <3> QED  BY <1>3, <2>1, <3>1
    <2>3. CASE kind # "acceptance"
      <3>1. revised = graph.revision  BY <1>3, <2>1, <2>3
      <3> QED  BY <2>1, <3>1
    <2> QED  BY <2>2, <2>3
  <1>7. text # Absent /\ (graph.marker[K] = NoPlan => text = Other)
    BY <1>2, PlanValuesAssumption DEF NoPlan, Absent, Other
  <1> HIDE DEF K
  <1>8. \A k \in CyclePlans : \A n \in LocalKinds :
            \/ rows[<<n, k>>] = graph.text[<<n, k>>]
            \/ k = K /\ rows[<<n, k>>] = text
    <2> SUFFICES ASSUME NEW k \in CyclePlans, NEW n \in LocalKinds
                 PROVE  \/ rows[<<n, k>>] = graph.text[<<n, k>>]
                        \/ k = K /\ rows[<<n, k>>] = text
      OBVIOUS
    <2>1. <<n, k>> \in LocalKinds \X CyclePlans  OBVIOUS
    <2>2. graph.text \in [LocalKinds \X CyclePlans -> Digests \cup {Absent, Other}]
      BY <1>1, GraphParts
    <2>3. CASE <<n, k>> = <<kind, K>>
      <3>1. k = K  BY <2>3
      <3> QED  BY <2>1, <2>2, <2>3, <3>1, Zenon
    <2>4. CASE <<n, k>> # <<kind, K>>  BY <2>1, <2>2, <2>4, Zenon
    <2> QED  BY <2>3, <2>4
  <1> HIDE DEF rows, revised
  <1>9. graph' \in Graphs  BY <1>1, <1>4, <1>5, <1>6 DEF Graphs
  <1>10. /\ graph'.text = rows /\ graph'.marker = graph.marker
         /\ graph'.relations = graph.relations /\ graph'.definition = graph.definition
         /\ graph'.qualification = graph.qualification /\ graph'.scope = graph.scope
    BY <1>1, <1>4 DEF Graphs
  <1> QED  BY <1>7, <1>8, <1>9, <1>10 DEF KeepsRows

\* An operator who redefines a target leaves a definition.
LEMMA RedefineKeepsRows ==
    ASSUME PlansTypeOK, RedefineTarget
    PROVE  KeepsRows(graph') /\ graph'.scope = graph.scope
  <1>1. graph \in Graphs  BY DEF PlansTypeOK
  <1>2. PICK k \in CyclePlans, d \in Digests \cup {Other} :
            graph' = [graph EXCEPT !.definition[Stem[k]] = d]
    BY DEF RedefineTarget
  <1> DEFINE s == Stem[k]
             defined == [graph.definition EXCEPT ![s] = d]
  <1>3. s \in Stems /\ d # Absent
    BY StemOfKey, PlanValuesAssumption DEF Absent, Other
  <1>4. graph' = [graph EXCEPT !.definition = defined]  BY <1>2
  <1> HIDE DEF s
  <1>5. defined \in [Stems -> Digests \cup {Absent, Other}]  BY <1>1, <1>3, GraphParts
  <1>6. \A t \in Stems : graph.definition[t] # Absent => defined[t] # Absent
    BY <1>1, <1>3, GraphParts
  <1> HIDE DEF defined
  <1>7. graph' \in Graphs  BY <1>1, <1>4, <1>5 DEF Graphs
  <1>8. /\ graph'.text = graph.text /\ graph'.marker = graph.marker
        /\ graph'.relations = graph.relations /\ graph'.definition = defined
        /\ graph'.qualification = graph.qualification /\ graph'.scope = graph.scope
    BY <1>1, <1>4 DEF Graphs
  <1> QED  BY <1>6, <1>7, <1>8 DEF KeepsRows

\* A qualification is run again and the row stays.
LEMMA RequalifyKeepsRows ==
    ASSUME PlansTypeOK, Requalify
    PROVE  KeepsRows(graph') /\ graph'.scope = graph.scope
  <1>1. graph \in Graphs /\ planCycle \in PlanCycles  BY DEF PlansTypeOK
  <1>2. PICK p \in PlanIds :
            \/ graph' = [graph EXCEPT !.newest[Key(p)] = "other"]
            \/ graph' = [graph EXCEPT
                   !.newest[Key(p)] = "other",
                   !.qualification[Stem[Key(p)]] =
                       [cycle |-> planCycle, plan |-> Absent,
                        revision |-> graph.revision[Key(p)],
                        definition |-> graph.definition[Stem[Key(p)]]]]
    BY DEF Requalify
  <1> DEFINE K == Key(p)
             s == Stem[K]
             row == [cycle |-> planCycle, plan |-> Absent, revision |-> graph.revision[K],
                     definition |-> graph.definition[s]]
             newest == [graph.newest EXCEPT ![K] = "other"]
             qualified == [graph.qualification EXCEPT ![s] = row]
  <1>3. K \in CyclePlans /\ s \in Stems  BY <1>1, KeyIsKey
  <1>4. newest \in [CyclePlans -> {"none", "own", "other"}]  BY <1>1, <1>3, GraphParts
  <1>5. /\ row \in [cycle : 0 .. LastCycle, plan : PlanIds \cup {Absent},
                    revision : Nat, definition : Digests \cup {Absent, Other}]
        /\ row # NoRow
    <2>1. /\ graph.revision[K] \in Nat
          /\ graph.definition[s] \in Digests \cup {Absent, Other}
      BY <1>1, <1>3, GraphParts
    <2>2. planCycle \in 0 .. LastCycle /\ planCycle # 0
      BY <1>1, LastCycleAssumption DEF PlanCycles
    <2> HIDE DEF K, s
    <2> QED  BY <2>1, <2>2 DEF NoRow
  <1>6. \/ graph' = [graph EXCEPT !.newest = newest]
        \/ graph' = [graph EXCEPT !.newest = newest, !.qualification = qualified]
    BY <1>2
  <1> HIDE DEF s, K, row, newest
  <1>7. qualified \in [Stems -> [cycle : 0 .. LastCycle, plan : PlanIds \cup {Absent},
                                 revision : Nat, definition : Digests \cup {Absent, Other}]]
    BY <1>1, <1>3, <1>5, GraphParts
  <1>8. \A t \in Stems : graph.qualification[t] # NoRow => qualified[t] # NoRow
    BY <1>1, <1>3, <1>5, GraphParts
  <1> HIDE DEF qualified
  <1>9. graph' \in Graphs  BY <1>1, <1>4, <1>6, <1>7 DEF Graphs
  <1>10. /\ graph'.text = graph.text /\ graph'.marker = graph.marker
         /\ graph'.relations = graph.relations /\ graph'.definition = graph.definition
         /\ graph'.qualification \in {graph.qualification, qualified}
         /\ graph'.scope = graph.scope
    BY <1>1, <1>6 DEF Graphs
  <1> QED  BY <1>8, <1>9, <1>10 DEF KeepsRows

\* Confirmation and a new cycle touch no row of a plan.
LEMMA ScopeKeepsRows ==
    ASSUME PlansTypeOK, ConfirmPlans \/ NextCycle
    PROVE  /\ KeepsRows(graph')
           /\ NextCycle => graph'.scope = "unconfirmed"
  <1>1. graph \in Graphs  BY DEF PlansTypeOK
  <1>2. \/ graph' = [graph EXCEPT !.scope = "confirmed"]
        \/ graph' = [graph EXCEPT !.scope = "unconfirmed"]
    BY DEF ConfirmPlans, NextCycle
  <1>3. graph' \in Graphs  BY <1>1, <1>2 DEF Graphs
  <1>4. /\ graph'.text = graph.text /\ graph'.marker = graph.marker
        /\ graph'.relations = graph.relations /\ graph'.definition = graph.definition
        /\ graph'.qualification = graph.qualification
    BY <1>1, <1>2 DEF Graphs
  <1>5. NextCycle => graph'.scope = "unconfirmed"
    BY <1>1 DEF NextCycle, Graphs
  <1> QED  BY <1>3, <1>4, <1>5 DEF KeepsRows

\* The operators leave a good database good.
LEMMA OperatorsKeepGood ==
    ASSUME PlansTypeOK, GoodGraph(graph, planCycle, reviewed),
           RewriteRow \/ RedefineTarget \/ Requalify \/ ConfirmPlans \/ EndCycle \/ NextCycle
    PROVE  graph' \in Graphs /\ GoodGraph(graph', planCycle', reviewed')
  <1>1. CASE EndCycle
    BY <1>1 DEF EndCycle, PlansTypeOK
  <1>2. CASE RewriteRow \/ RedefineTarget \/ Requalify \/ ConfirmPlans \/ NextCycle
    <2>1. KeepsRows(graph')
      BY <1>2, RewriteKeepsRows, RedefineKeepsRows, RequalifyKeepsRows, ScopeKeepsRows
    <2>2. WholeIn(graph')  BY <2>1, KeptRowsAreWhole DEF GoodGraph
    <2>3. MarkersAreOwn(graph')  BY <2>1 DEF GoodGraph, MarkersAreOwn, KeepsRows
    <2>4. ScopeCovers(graph', planCycle', reviewed')
      <3>1. CASE RewriteRow \/ RedefineTarget \/ Requalify
        <4>1. graph'.scope = graph.scope
          BY <3>1, RewriteKeepsRows, RedefineKeepsRows, RequalifyKeepsRows
        <4>2. planCycle' = planCycle /\ reviewed' = reviewed
          BY <3>1 DEF RewriteRow, RedefineTarget, Requalify
        <4> QED  BY <2>1, <4>1, <4>2 DEF GoodGraph, ScopeCovers, KeepsRows
      <3>2. CASE ConfirmPlans
        BY <2>1, <3>2 DEF ConfirmPlans, ScopeCovers, KeepsRows
      <3>3. CASE NextCycle
        BY <3>3, ScopeKeepsRows DEF ScopeCovers
      <3> QED  BY <1>2, <3>1, <3>2, <3>3
    <2> QED  BY <2>1, <2>2, <2>3, <2>4 DEF GoodGraph, KeepsRows
  <1> QED  BY <1>1, <1>2

\* What a commit leaves is good.
LEMMA CommitsAreGood ==
    ASSUME PlansInv, CommitApply
    PROVE  GoodGraph(graph, planCycle, reviewed)
  <1>1. /\ graph \in Graphs /\ saved \in Graphs /\ planCycle \in PlanCycles
        /\ plan \in Plans /\ todo = <<>> /\ planStep = "inserting"
        /\ GraphHolds(Key(plan.id))
    BY DEF PlansInv, PlansTypeOK, CallHasItsPlan, CommitApply
  <1>2. GoodGraph(saved, planCycle, reviewed)  BY <1>1 DEF PlansInv, GraphIsGood
  <1> DEFINE K == Key(plan.id)
  <1>3. K \in CyclePlans /\ K[2] = plan.id  BY <1>1, KeyIsKey, PlanParts
  <1>4. /\ \A k \in CyclePlans \ {K} :
               /\ graph.marker[k] = saved.marker[k]
               /\ \A kind \in LocalKinds : graph.text[<<kind, k>>] = saved.text[<<kind, k>>]
               /\ graph.relations[k] = saved.relations[k]
        /\ \A s \in Stems :
               /\ saved.definition[s] # Absent => graph.definition[s] # Absent
               /\ saved.qualification[s] # NoRow => graph.qualification[s] # NoRow
        /\ graph.marker[K] = plan
    BY <1>1 DEF PlansInv, InsertsOnly
  <1>5. graph.scope = "unconfirmed"
    <2>1. Len(todo) = 0  BY <1>1
    <2> QED  BY <1>1, <2>1 DEF PlansInv, InsertsOnly
  <1> HIDE DEF K
  <1>6. MarkersAreOwn(graph)
    BY <1>2, <1>3, <1>4 DEF GoodGraph, MarkersAreOwn
  <1>7. WholeIn(graph)
    <2> SUFFICES ASSUME NEW k \in CyclePlans
                 PROVE  LET m == graph.marker[k]
                        IN  IF m = NoPlan
                            THEN \A kind \in LocalKinds : graph.text[<<kind, k>>] \in {Absent, Other}
                            ELSE /\ \A kind \in RowsOf(m.risk) : graph.text[<<kind, k>>] # Absent
                                 /\ Relations(m.risk) \subseteq graph.relations[k]
                                 /\ graph.definition[Stem[k]] # Absent
                                 /\ graph.qualification[Stem[k]] # NoRow
      BY DEF WholeIn
    <2>1. Stem[k] \in Stems  BY StemOfKey
    <2>2. CASE k = K
      <3>1. plan # NoPlan  BY <1>1, PlanParts
      <3> QED  BY <1>1, <1>3, <1>4, <2>2, <3>1, HoldingIsWhole DEF K
    <2>3. CASE k # K
      <3>1. \A kind \in RowsOf(graph.marker[k].risk) : kind \in LocalKinds
        BY DEF RowsOf, LocalKinds
      <3> QED  BY <1>2, <1>4, <2>1, <2>3, <3>1 DEF GoodGraph, WholeIn
    <2> QED  BY <2>2, <2>3
  <1> QED  BY <1>5, <1>6, <1>7 DEF GoodGraph, ScopeCovers

Answers == {"none", "forecast", "changed", "unchanged", "conflict", "refused",
            "failed", "verified"}

\* The database is empty, and no call has begun.
LEMMA PlansInitially == PlansInit => PlansInv
  <1> SUFFICES ASSUME PlansInit PROVE PlansInv
    OBVIOUS
  <1>1. EmptyGraph \in Graphs
    <2>1. NoRow \in [cycle : 0 .. LastCycle, plan : PlanIds \cup {Absent},
                     revision : Nat, definition : Digests \cup {Absent, Other}]
      BY LastCycleAssumption DEF NoRow
    <2> QED  BY <2>1 DEF EmptyGraph, Graphs
  <1>2. PlansTypeOK
    <2>1. TodoIsSuffix(todo)  BY EmptyTodo DEF PlansInit
    <2>2. 1 \in PlanCycles  BY LastCycleAssumption DEF PlanCycles
    <2>3. execution.candidate \in Sources  BY DEF PlansInit, NoExecution, Sources
    <2>4. forecast.plan \in Plans \cup {NoPlan}  BY DEF PlansInit, NoForecast
    <2>5. 0 \in 0 .. MaxPlanCalls /\ 0 \in 0 .. MaxPlanActs /\ 0 \in Sources
      BY PlanBoundsAssumption DEF Sources
    <2> QED
      BY <1>1, <2>1, <2>2, <2>3, <2>4, <2>5, Zenon DEF PlansInit, PlansTypeOK, TodoIsSuffix
  <1>3. GoodGraph(graph, planCycle, reviewed)
    <2>1. graph = EmptyGraph  BY DEF PlansInit
    <2>2. /\ \A k \in CyclePlans : EmptyGraph.marker[k] = NoPlan
          /\ \A k \in CyclePlans, kind \in LocalKinds : EmptyGraph.text[<<kind, k>>] = Absent
          /\ EmptyGraph.scope = "unconfirmed"
      BY DEF EmptyGraph
    <2> QED  BY <2>1, <2>2 DEF GoodGraph, WholeIn, ScopeCovers, MarkersAreOwn
  <1> QED
    BY <1>2, <1>3
    DEF PlansInit, PlansInv, CallHasItsPlan, GraphIsGood, InsertsOnly, PatchHasItsGraph,
        ForecastIsGood, AnswersAreTrue, UnchangedMeansCurrent, ReportIsCurrent,
        DryRunForetells, Answered, Patching

\* Every step keeps the types.
LEMMA PlansTypeKept == PlansTypeOK /\ CallHasItsPlan /\ [PlansNext]_planVars => PlansTypeOK'
  <1> SUFFICES ASSUME PlansTypeOK, CallHasItsPlan, [PlansNext]_planVars PROVE PlansTypeOK'
    OBVIOUS
  <1>0. PlansTypeOK <=>
            /\ graph \in Graphs
            /\ saved \in Graphs
            /\ planCycle \in PlanCycles
            /\ cycleOpen \in BOOLEAN
            /\ source \in Sources
            /\ planStep \in {"idle", "inserting", "resolved", "sampled", "recorded"}
            /\ plan \in Plans \cup {NoPlan}
            /\ TodoIsSuffix(todo)
            /\ execution.candidate \in Sources
            /\ answer \in Answers
            /\ forecast.plan \in Plans \cup {NoPlan}
            /\ reviewed \subseteq CyclePlans
            /\ planCalls \in 0 .. MaxPlanCalls
            /\ planActs \in 0 .. MaxPlanActs
    BY Zenon DEF PlansTypeOK, TodoIsSuffix, Answers
  <1>1. PlansTypeOK' <=>
            /\ graph' \in Graphs
            /\ saved' \in Graphs
            /\ planCycle' \in PlanCycles
            /\ cycleOpen' \in BOOLEAN
            /\ source' \in Sources
            /\ planStep' \in {"idle", "inserting", "resolved", "sampled", "recorded"}
            /\ plan' \in Plans \cup {NoPlan}
            /\ TodoIsSuffix(todo')
            /\ execution'.candidate \in Sources
            /\ answer' \in Answers
            /\ forecast'.plan \in Plans \cup {NoPlan}
            /\ reviewed' \subseteq CyclePlans
            /\ planCalls' \in 0 .. MaxPlanCalls
            /\ planActs' \in 0 .. MaxPlanActs
    BY Zenon DEF PlansTypeOK, TodoIsSuffix, Answers
  <1>2. MaxPlanCalls \in Nat /\ MaxPlanActs \in Nat  BY PlanBoundsAssumption
  <1>3. ASSUME NEW a \in Answers, Answer(a)
        PROVE  planStep' = "idle" /\ answer' \in Answers /\ TodoIsSuffix(todo')
    BY <1>3, EmptyTodo DEF Answer
  <1>4. MayCall => planCalls' \in 0 .. MaxPlanCalls
    BY <1>0, <1>2 DEF MayCall
  <1>5. Act => planActs' \in 0 .. MaxPlanActs
    BY <1>0, <1>2 DEF Act
  <1>6. CASE DryRun
    BY <1>0, <1>1, <1>4, <1>6 DEF DryRun, MayCall, Answers
  <1>7. CASE BeginApply
    <2>1. PICK pl \in Plans :
              /\ plan' = pl
              /\ IF ~cycleOpen THEN Answer("refused")
                 ELSE IF Preflight(pl) # "changed" THEN Answer(Preflight(pl))
                 ELSE /\ planStep' = "inserting"
                      /\ todo' = InsertOrder(pl.risk)
                      /\ UNCHANGED answer
      BY <1>7 DEF BeginApply
    <2>2. /\ planStep' \in {"idle", "inserting"} /\ answer' \in Answers
          /\ TodoIsSuffix(todo')
      <3>1. CASE Answer("refused")  BY <1>3, <3>1 DEF Answers
      <3>2. CASE Answer(Preflight(pl))  BY <1>3, <3>2, PreflightAnswers DEF Answers
      <3>3. CASE /\ planStep' = "inserting"
                 /\ todo' = InsertOrder(pl.risk)
                 /\ UNCHANGED answer
        BY <1>0, <3>3, WholeTodo, PlanParts
      <3> QED  BY <2>1, <3>1, <3>2, <3>3
    <2>3. forecast'.plan \in Plans \cup {NoPlan}
      BY <1>0, <1>7 DEF BeginApply, NoForecast
    <2> QED  BY <1>0, <1>1, <1>4, <1>7, <2>1, <2>2, <2>3 DEF BeginApply
  <1>8. CASE InsertRow
    <2>1. graph' = Inserted(Head(todo)) /\ todo # <<>> /\ todo' = Tail(todo)
          /\ planStep = "inserting"
      BY <1>8 DEF InsertRow
    <2>2. Head(todo) \in PlanRows /\ TodoIsSuffix(todo')
      BY <1>0, <2>1, TodoEnds
    <2>3. Applying  BY <1>0, <2>1 DEF Applying, CallHasItsPlan
    <2>4. graph' \in Graphs  BY <2>1, <2>2, <2>3, InsertedAdds DEF AddsRows
    <2> QED  BY <1>0, <1>1, <1>8, <2>2, <2>4 DEF InsertRow
  <1>9. CASE FailApply
    BY <1>0, <1>1, <1>3, <1>9 DEF FailApply, Rollback, Answers
  <1>10. CASE CommitApply
    BY <1>0, <1>1, <1>3, <1>10 DEF CommitApply, Answers
  <1>11. CASE BeginPatch
    <2>1. /\ plan' \in Plans \cup {NoPlan}
          /\ planStep' \in {"idle", "resolved"} /\ answer' \in Answers
          /\ TodoIsSuffix(todo')
      <3>1. CASE plan' = NoPlan /\ Answer("refused")  BY <1>3, <3>1 DEF Answers
      <3>2. CASE \E p \in PlanIds : /\ plan' = graph.marker[Key(p)]
                                    /\ planStep' = "resolved"
                                    /\ UNCHANGED <<answer, todo>>
        <4>1. PICK p \in PlanIds : plan' = graph.marker[Key(p)]  BY <3>2
        <4>2. Key(p) \in CyclePlans  BY <1>0, KeyIsKey
        <4>3. plan' \in Plans \cup {NoPlan}  BY <1>0, <4>1, <4>2, GraphParts
        <4> QED  BY <1>0, <3>2, <4>3
      <3> QED  BY <1>11, <3>1, <3>2 DEF BeginPatch
    <2>2. forecast'.plan \in Plans \cup {NoPlan}  BY <1>11 DEF BeginPatch, NoForecast
    <2> QED  BY <1>0, <1>1, <1>4, <1>11, <2>1, <2>2 DEF BeginPatch
  <1>12. CASE SamplePatch  BY <1>0, <1>1, <1>12 DEF SamplePatch
  <1>13. CASE RecordPatch
    BY <1>0, <1>1, <1>3, <1>13 DEF RecordPatch, Answers
  <1>14. CASE FinishPatch
    BY <1>0, <1>1, <1>3, <1>14 DEF FinishPatch, Answers
  <1>15. CASE RewriteRow \/ RedefineTarget \/ Requalify \/ ConfirmPlans \/ EndCycle \/ NextCycle
    <2>1. Act /\ NoForecast.plan = NoPlan
      BY <1>15
      DEF RewriteRow, RedefineTarget, Requalify, ConfirmPlans, EndCycle, NextCycle, NoForecast
    <2>2. graph' \in Graphs
      BY <1>0, <1>15, RewriteKeepsRows, RedefineKeepsRows, RequalifyKeepsRows, ScopeKeepsRows
      DEF KeepsRows, EndCycle
    <2>3. /\ planCycle' \in PlanCycles /\ cycleOpen' \in BOOLEAN
          /\ reviewed' \subseteq CyclePlans
      <3>1. CASE NextCycle
        BY <1>0, <3>1, LastCycleAssumption DEF NextCycle, PlanCycles
      <3>2. CASE ConfirmPlans
        BY <1>0, <3>2 DEF ConfirmPlans
      <3>3. CASE RewriteRow \/ RedefineTarget \/ Requalify \/ EndCycle
        BY <1>0, <3>3 DEF RewriteRow, RedefineTarget, Requalify, EndCycle
      <3> QED  BY <1>15, <3>1, <3>2, <3>3
    <2> QED  BY <1>0, <1>1, <1>5, <2>1, <2>2, <2>3 DEF Act, Answers
  <1>16. CASE ChangeSource
    BY <1>0, <1>1, <1>2, <1>16 DEF ChangeSource, Sources, Answers
  <1>17. CASE UNCHANGED planVars  BY <1>0, <1>1, <1>17 DEF planVars
  <1> QED
    BY <1>6, <1>7, <1>8, <1>9, <1>10, <1>11, <1>12, <1>13, <1>14, <1>15, <1>16, <1>17
    DEF PlansNext

\* A call works on one plan from its beginning to its end.
LEMMA CallHasItsPlanKept ==
    ASSUME PlansInv, [PlansNext]_planVars
    PROVE  CallHasItsPlan'
  <1>1. /\ planStep # "idle" => plan \in Plans
        /\ graph \in Graphs /\ planCycle \in PlanCycles
    BY DEF PlansInv, CallHasItsPlan, PlansTypeOK
  <1> SUFFICES ASSUME planStep' # "idle" PROVE plan' \in Plans
    BY DEF CallHasItsPlan
  <1>2. CASE BeginApply  BY <1>2 DEF BeginApply
  <1>3. CASE BeginPatch
    <2>1. PICK p \in PlanIds : plan' = graph.marker[Key(p)] /\ graph.marker[Key(p)] # NoPlan
      BY <1>3 DEF BeginPatch, Answer
    <2>2. Key(p) \in CyclePlans  BY <1>1, KeyIsKey
    <2> QED  BY <1>1, <2>1, <2>2, GraphParts
  <1>4. CASE DryRun  BY <1>4 DEF DryRun, MayCall
  <1>5. CASE InsertRow \/ SamplePatch \/ RecordPatch
    BY <1>1, <1>5 DEF InsertRow, SamplePatch, RecordPatch
  <1>6. CASE FailApply \/ CommitApply \/ FinishPatch
    BY <1>6 DEF FailApply, CommitApply, FinishPatch, Answer
  <1>7. CASE RewriteRow \/ RedefineTarget \/ Requalify \/ ConfirmPlans \/ EndCycle \/ NextCycle
    BY <1>7 DEF RewriteRow, RedefineTarget, Requalify, ConfirmPlans, EndCycle, NextCycle, Act
  <1>8. CASE ChangeSource  BY <1>1, <1>8 DEF ChangeSource
  <1>9. CASE UNCHANGED planVars  BY <1>1, <1>9 DEF planVars
  <1> QED
    BY <1>2, <1>3, <1>4, <1>5, <1>6, <1>7, <1>8, <1>9 DEF PlansNext

\* What is committed has only whole plans.
LEMMA GraphIsGoodKept ==
    ASSUME PlansInv, [PlansNext]_planVars
    PROVE  GraphIsGood'
  <1>1. /\ planStep # "inserting" => GoodGraph(graph, planCycle, reviewed)
        /\ planStep = "inserting" => GoodGraph(saved, planCycle, reviewed)
    BY DEF PlansInv, GraphIsGood
  <1>2. GraphIsGood' <=>
            /\ planStep' # "inserting" => GoodGraph(graph', planCycle', reviewed')
            /\ planStep' = "inserting" => GoodGraph(saved', planCycle', reviewed')
    BY Zenon DEF GraphIsGood, GoodGraph, WholeIn, ScopeCovers, MarkersAreOwn
  <1>3. CASE BeginApply
    BY <1>1, <1>2, <1>3 DEF BeginApply, MayCall
  <1>4. CASE InsertRow  BY <1>1, <1>2, <1>4 DEF InsertRow
  <1>5. CASE FailApply  BY <1>1, <1>2, <1>5 DEF FailApply, Rollback, Answer
  <1>6. CASE CommitApply
    BY <1>1, <1>2, <1>6, CommitsAreGood DEF CommitApply, Answer
  <1>7. CASE DryRun  BY <1>1, <1>2, <1>7 DEF DryRun, MayCall
  <1>8. CASE BeginPatch  BY <1>1, <1>2, <1>8 DEF BeginPatch, MayCall, Answer
  <1>9. CASE SamplePatch \/ RecordPatch \/ FinishPatch
    BY <1>1, <1>2, <1>9 DEF SamplePatch, RecordPatch, FinishPatch, Answer
  <1>10. CASE RewriteRow \/ RedefineTarget \/ Requalify \/ ConfirmPlans \/ EndCycle \/ NextCycle
    <2>1. planStep = "idle" /\ planStep' = "idle"
      BY <1>10
      DEF RewriteRow, RedefineTarget, Requalify, ConfirmPlans, EndCycle, NextCycle, Act
    <2> QED  BY <1>1, <1>2, <1>10, <2>1, OperatorsKeepGood DEF PlansInv
  <1>11. CASE ChangeSource  BY <1>1, <1>2, <1>11 DEF ChangeSource
  <1>12. CASE UNCHANGED planVars  BY <1>1, <1>2, <1>12 DEF planVars
  <1> QED
    BY <1>3, <1>4, <1>5, <1>6, <1>7, <1>8, <1>9, <1>10, <1>11, <1>12 DEF PlansNext

\* What is in the transaction is what was committed and the rows inserted so
\* far.
LEMMA InsertsOnlyKept ==
    ASSUME PlansInv, [PlansNext]_planVars
    PROVE  InsertsOnly'
  <1> USE DEF PlansInv
  <1>1. CASE BeginApply
    <2> SUFFICES ASSUME planStep' = "inserting" PROVE InsertsOnly'
      BY DEF InsertsOnly
    <2>1. PICK pl \in Plans : todo' = InsertOrder(pl.risk)
      BY <1>1 DEF BeginApply, Answer
    <2>2. Len(todo') \notin {0, 1} /\ todo' # <<>>
      BY <2>1, WholeTodo, PlanParts
    <2>3. graph' = graph /\ saved' = graph  BY <1>1 DEF BeginApply
    <2> QED  BY <2>2, <2>3 DEF InsertsOnly
  <1>2. CASE InsertRow
    <2>1. /\ planStep = "inserting" /\ todo # <<>> /\ todo' = Tail(todo)
          /\ graph' = Inserted(Head(todo)) /\ saved' = saved /\ planCycle' = planCycle
          /\ plan' = plan /\ TodoIsSuffix(todo)
      BY <1>2 DEF InsertRow, PlansTypeOK, TodoIsSuffix
    <2>2. Applying  BY <2>1 DEF Applying, PlansTypeOK, CallHasItsPlan
    <2>3. /\ Head(todo) \in PlanRows
          /\ Len(todo) = 1 => Head(todo) = "marker"
          /\ Len(todo) = 2 => Head(todo) = "project"
          /\ Len(todo) \in Nat \ {0}
          /\ Len(todo') = Len(todo) - 1
      BY <2>1, TodoEnds
    <2>4. AddsRows(graph')  BY <2>1, <2>2, <2>3, InsertedAdds
    <2>5. Key(plan.id)' = Key(plan.id)  BY <2>1 DEF Key
    <2>6. \A k \in CyclePlans \ {Key(plan.id)} :
               /\ graph'.marker[k] = saved.marker[k]
               /\ \A kind \in LocalKinds : graph'.text[<<kind, k>>] = saved.text[<<kind, k>>]
               /\ graph'.relations[k] = saved.relations[k]
      BY <2>1, <2>4 DEF InsertsOnly, AddsRows
    <2>7. \A s \in Stems :
               /\ saved.definition[s] # Absent => graph'.definition[s] # Absent
               /\ saved.qualification[s] # NoRow => graph'.qualification[s] # NoRow
      BY <2>1, <2>4 DEF InsertsOnly, AddsRows
    <2>8. ASSUME Len(todo') \in {0, 1} PROVE graph'.scope = "unconfirmed"
      <3>1. Len(todo) \in {1, 2}  BY <2>3, <2>8
      <3>2. CASE Len(todo) = 1
        <4>1. Head(todo) = "marker" /\ Head(todo) # "project" /\ graph.scope = "unconfirmed"
          BY <2>1, <2>3, <3>2 DEF InsertsOnly
        <4> QED  BY <2>1, <2>2, <2>3, <4>1, InsertedAdds
      <3>3. CASE Len(todo) = 2
        BY <2>1, <2>2, <2>3, <3>3, InsertedAdds
      <3> QED  BY <3>1, <3>2, <3>3
    <2>9. ASSUME todo' = <<>> PROVE graph'.marker[Key(plan.id)] = plan
      <3>1. Len(todo) = 1
        <4>1. Len(todo') = 0  BY <2>9
        <4> QED  BY <2>3, <4>1
      <3> QED  BY <2>1, <2>2, <2>3, <3>1, InsertedAdds
    <2> QED  BY <2>1, <2>5, <2>6, <2>7, <2>8, <2>9 DEF InsertsOnly
  <1>3. CASE ChangeSource
    BY <1>3 DEF ChangeSource, InsertsOnly, Key
  <1>4. CASE DryRun  BY <1>4 DEF DryRun, MayCall, InsertsOnly
  <1>5. CASE FailApply \/ CommitApply \/ BeginPatch \/ SamplePatch \/ RecordPatch \/ FinishPatch
    <2>1. planStep' # "inserting"
      BY <1>5
      DEF FailApply, CommitApply, BeginPatch, SamplePatch, RecordPatch, FinishPatch, Answer
    <2> QED  BY <2>1 DEF InsertsOnly
  <1>6. CASE RewriteRow \/ RedefineTarget \/ Requalify \/ ConfirmPlans \/ EndCycle \/ NextCycle
    <2>1. planStep' # "inserting"
      BY <1>6
      DEF RewriteRow, RedefineTarget, Requalify, ConfirmPlans, EndCycle, NextCycle, Act
    <2> QED  BY <2>1 DEF InsertsOnly
  <1>7. CASE UNCHANGED planVars  BY <1>7 DEF planVars, InsertsOnly, Key
  <1> QED  BY <1>1, <1>2, <1>3, <1>4, <1>5, <1>6, <1>7 DEF PlansNext

\* A rollback returns to what was saved.
LEMMA PatchHasItsGraphKept ==
    ASSUME PlansInv, [PlansNext]_planVars
    PROVE  PatchHasItsGraph'
  <1> USE DEF PlansInv, Patching
  <1>1. ASSUME graph' = graph, plan' = plan, planCycle' = planCycle,
               planStep \in Patching
        PROVE  PatchHasItsGraph'
    BY <1>1 DEF PatchHasItsGraph, GraphHolds, QualificationHolds, Key
  <1>2. ASSUME planStep' \notin Patching PROVE PatchHasItsGraph'
    BY <1>2 DEF PatchHasItsGraph
  <1>3. CASE BeginPatch
    <2>1. PICK p \in PlanIds :
              LET m == graph.marker[Key(p)]
              IN  IF cycleOpen /\ m # NoPlan /\ GraphHolds(Key(p))
                  THEN plan' = m
                  ELSE planStep' = "idle"
      BY <1>3 DEF BeginPatch, Answer
    <2>2. CASE planStep' = "idle"  BY <1>2, <2>2
    <2>3. CASE /\ graph.marker[Key(p)] # NoPlan
               /\ GraphHolds(Key(p))
               /\ plan' = graph.marker[Key(p)]
      <3>1. Key(p) \in CyclePlans /\ Key(p)[2] = p  BY KeyIsKey DEF PlansTypeOK
      <3>2. plan'.id = p
        BY <1>3, <2>3, <3>1 DEF BeginPatch, MayCall, GraphIsGood, GoodGraph, MarkersAreOwn
      <3>3. graph' = graph /\ planCycle' = planCycle  BY <1>3 DEF BeginPatch
      <3>4. Key(plan.id)' = Key(p)  BY <3>2, <3>3 DEF Key
      <3>5. GraphHolds(Key(plan.id))'
        BY <2>3, <3>3, <3>4 DEF GraphHolds, QualificationHolds
      <3> QED  BY <2>3, <3>3, <3>4, <3>5 DEF PatchHasItsGraph
    <2> QED  BY <2>1, <2>2, <2>3
  <1>4. CASE SamplePatch \/ RecordPatch
    BY <1>1, <1>4 DEF SamplePatch, RecordPatch
  <1>5. CASE ChangeSource  BY <1>1, <1>2, <1>5 DEF ChangeSource
  <1>6. CASE DryRun \/ BeginApply
    BY <1>2, <1>6 DEF DryRun, BeginApply, MayCall, Answer
  <1>7. CASE InsertRow \/ FailApply \/ CommitApply \/ FinishPatch
    BY <1>2, <1>7 DEF InsertRow, FailApply, CommitApply, FinishPatch, Answer
  <1>8. CASE RewriteRow \/ RedefineTarget \/ Requalify \/ ConfirmPlans \/ EndCycle \/ NextCycle
    BY <1>2, <1>8
    DEF RewriteRow, RedefineTarget, Requalify, ConfirmPlans, EndCycle, NextCycle, Act
  <1>9. CASE UNCHANGED planVars  BY <1>1, <1>2, <1>9 DEF planVars
  <1> QED  BY <1>3, <1>4, <1>5, <1>6, <1>7, <1>8, <1>9 DEF PlansNext

\* A forecast is that of the database it was made for.
LEMMA ForecastIsGoodKept ==
    ASSUME PlansInv, [PlansNext]_planVars
    PROVE  ForecastIsGood'
  <1> USE DEF PlansInv
  <1>1. ASSUME planStep' # "inserting", planStep' = "idle" => answer' # "forecast"
        PROVE  ForecastIsGood'
    BY <1>1 DEF ForecastIsGood
  <1>2. CASE DryRun
    <2>1. PICK pl \in Plans : forecast' = [plan |-> pl, answer |-> Foresees(pl)]
      BY <1>2 DEF DryRun
    <2>2. /\ planStep' = "idle" /\ graph' = graph /\ planCycle' = planCycle
          /\ forecast'.plan = pl /\ forecast'.answer = Preflight(pl)
      BY <1>2, <2>1 DEF DryRun, MayCall, Foresees
    <2>3. Preflight(forecast.plan)' = Preflight(pl)
      BY <2>2 DEF Preflight, Collides, GraphHolds, QualificationHolds, Key
    <2> QED  BY <2>2, <2>3 DEF ForecastIsGood
  <1>3. CASE BeginApply
    <2>1. PICK pl \in Plans :
              /\ plan' = pl
              /\ IF ~cycleOpen THEN Answer("refused")
                 ELSE IF Preflight(pl) # "changed" THEN Answer(Preflight(pl))
                 ELSE planStep' = "inserting"
      BY <1>3 DEF BeginApply
    <2>2. CASE Answer("refused") \/ Answer(Preflight(pl))
      BY <1>1, <2>2, PreflightAnswers DEF Answer
    <2>3. CASE planStep' = "inserting" /\ Preflight(pl) = "changed"
      <3>1. pl # NoPlan /\ NoForecast.plan = NoPlan  BY PlanParts DEF NoForecast
      <3> QED
        BY <1>3, <2>1, <2>3, <3>1 DEF BeginApply, MayCall, ForecastIsGood
    <2> QED  BY <2>1, <2>2, <2>3
  <1>4. CASE InsertRow  BY <1>4 DEF InsertRow, ForecastIsGood
  <1>5. CASE FailApply \/ CommitApply \/ SamplePatch \/ RecordPatch \/ FinishPatch
    BY <1>1, <1>5 DEF FailApply, CommitApply, SamplePatch, RecordPatch, FinishPatch, Answer
  <1>6. CASE BeginPatch
    BY <1>1, <1>6 DEF BeginPatch, Answer
  <1>7. CASE RewriteRow \/ RedefineTarget \/ Requalify \/ ConfirmPlans \/ EndCycle \/ NextCycle
    BY <1>1, <1>7
    DEF RewriteRow, RedefineTarget, Requalify, ConfirmPlans, EndCycle, NextCycle, Act
  <1>8. CASE ChangeSource  BY <1>1, <1>8 DEF ChangeSource, ForecastIsGood
  <1>9. CASE UNCHANGED planVars
    <2>1. Preflight(forecast.plan)' = Preflight(forecast.plan)
      BY <1>9 DEF planVars, Preflight, Collides, GraphHolds, QualificationHolds, Key
    <2> QED  BY <1>9, <2>1 DEF planVars, ForecastIsGood
  <1> QED  BY <1>2, <1>3, <1>4, <1>5, <1>6, <1>7, <1>8, <1>9 DEF PlansNext

\* The answer of a call is what it found or did.
LEMMA AnswersAreTrueKept ==
    ASSUME PlansInv, [PlansNext]_planVars
    PROVE  AnswersAreTrue'
  <1> USE DEF PlansInv
  <1>1. ASSUME planStep' = "idle" => answer' \notin {"changed", "unchanged", "conflict", "verified"}
        PROVE  AnswersAreTrue'
    BY <1>1
    DEF AnswersAreTrue, UnchangedMeansCurrent, ReportIsCurrent, DryRunForetells, Answered
  <1>2. ASSUME NEW pl, graph' = graph, plan' = pl, planCycle' = planCycle,
               Current(Key(pl.id), pl)
        PROVE  Current(Key(plan.id), plan)'
    BY <1>2 DEF Current, Key
  <1>3. CASE BeginApply
    <2>1. PICK pl \in Plans :
              /\ plan' = pl
              /\ IF ~cycleOpen THEN Answer("refused")
                 ELSE IF Preflight(pl) # "changed" THEN Answer(Preflight(pl))
                 ELSE planStep' = "inserting"
      BY <1>3 DEF BeginApply
    <2>2. CASE Answer("refused")  BY <1>1, <2>2 DEF Answer
    <2>3. CASE planStep' = "inserting"  BY <1>1, <2>3
    <2>4. CASE Answer(Preflight(pl))
      <3>1. answer' = Preflight(pl) /\ planStep' = "idle" /\ graph' = graph
            /\ planCycle' = planCycle /\ planStep = "idle"
        BY <1>3, <2>4 DEF Answer, BeginApply, MayCall
      <3>2. answer' # "verified"  BY <3>1, PreflightAnswers
      <3>3. ASSUME answer' = "unchanged" PROVE Current(Key(plan.id), plan)'
        <4> DEFINE K == Key(pl.id)
        <4>1. K \in CyclePlans /\ K[2] = pl.id
          BY KeyIsKey, PlanParts DEF PlansTypeOK
        <4>2. /\ graph.marker[K] # NoPlan /\ graph.marker[K].risk = pl.risk
              /\ graph.marker[K].digest = pl.digest /\ GraphHolds(K)
          BY <3>1, <3>3 DEF Preflight
        <4> HIDE DEF K
        <4>3. graph.marker[K].id = pl.id /\ graph.marker[K] \in Plans
          BY <3>1, <4>1, <4>2, PlanIsFound
          DEF GraphIsGood, GoodGraph, MarkersAreOwn, PlansTypeOK
        <4>4. graph.marker[K] = pl
          BY <4>2, <4>3 DEF Plans
        <4>5. Current(K, pl)
          BY <4>1, <4>2, <4>4, HoldingIsCurrent DEF PlansTypeOK
        <4> QED  BY <1>2, <2>1, <3>1, <4>5 DEF K
      <3>4. ASSUME forecast'.plan = plan' PROVE forecast'.answer = answer'
        <4>1. pl # NoPlan /\ NoForecast.plan = NoPlan  BY PlanParts DEF NoForecast
        <4>2. answer = "forecast" /\ forecast' = forecast /\ forecast.plan = pl
          BY <1>3, <2>1, <3>4, <4>1 DEF BeginApply
        <4> QED  BY <3>1, <4>2 DEF ForecastIsGood
      <3> QED
        BY <3>1, <3>2, <3>3, <3>4
        DEF AnswersAreTrue, UnchangedMeansCurrent, ReportIsCurrent, DryRunForetells, Answered
    <2> QED  BY <2>1, <2>2, <2>3, <2>4
  <1>4. CASE CommitApply
    <2>1. CASE Answer("failed")  BY <1>1, <2>1 DEF Answer
    <2>2. CASE Answer("changed")
      <3>1. /\ planStep = "inserting" /\ forecast' = forecast /\ plan' = plan
            /\ answer' = "changed"
        BY <1>4, <2>2 DEF CommitApply, Answer
      <3> QED
        BY <3>1
        DEF ForecastIsGood, AnswersAreTrue, UnchangedMeansCurrent, ReportIsCurrent,
            DryRunForetells, Answered
    <2> QED  BY <1>4, <2>1, <2>2 DEF CommitApply
  <1>5. CASE FinishPatch
    <2>1. CASE Answer("failed")  BY <1>1, <2>1 DEF Answer
    <2>2. CASE Answer("verified") /\ CandidateIsRecorded
               /\ execution.definition = graph.definition[Stem[Key(plan.id)]]
      <3> DEFINE K == Key(plan.id)
      <3>1. /\ planStep = "recorded" /\ graph' = graph /\ plan' = plan
            /\ planCycle' = planCycle /\ execution' = execution /\ source' = source
            /\ answer' = "verified"
        BY <1>5, <2>2 DEF FinishPatch, Answer
      <3>2. plan \in Plans /\ graph \in Graphs /\ planCycle \in PlanCycles
        BY <3>1 DEF CallHasItsPlan, PlansTypeOK
      <3>3. K \in CyclePlans  BY <3>2, KeyIsKey, PlanParts
      <3>4. graph.marker[K] = plan /\ GraphHolds(K)
        BY <3>1 DEF PatchHasItsGraph, Patching
      <3>5. Current(K, plan) /\ execution.definition = plan.digest
        <4>1. Current(K, plan)  BY <3>2, <3>3, <3>4, HoldingIsCurrent
        <4> QED  BY <2>2, <4>1 DEF Current
      <3>6. Current(Key(plan.id), plan)'  BY <1>2, <3>1, <3>5
      <3> QED
        BY <2>2, <3>1, <3>5, <3>6
        DEF CandidateIsRecorded, AnswersAreTrue, UnchangedMeansCurrent, ReportIsCurrent,
            DryRunForetells, Answered
    <2> QED  BY <1>5, <2>1, <2>2 DEF FinishPatch
  <1>6. CASE DryRun  BY <1>1, <1>6 DEF DryRun
  <1>7. CASE InsertRow \/ FailApply  BY <1>1, <1>7 DEF InsertRow, FailApply, Answer
  <1>8. CASE BeginPatch  BY <1>1, <1>8 DEF BeginPatch, Answer
  <1>9. CASE SamplePatch \/ RecordPatch
    BY <1>1, <1>9 DEF SamplePatch, RecordPatch, Answer
  <1>10. CASE RewriteRow \/ RedefineTarget \/ Requalify \/ ConfirmPlans \/ EndCycle \/ NextCycle
    BY <1>1, <1>10
    DEF RewriteRow, RedefineTarget, Requalify, ConfirmPlans, EndCycle, NextCycle, Act
  <1>11. CASE ChangeSource  BY <1>1, <1>11 DEF ChangeSource
  <1>12. CASE UNCHANGED planVars
    BY <1>12
    DEF planVars, AnswersAreTrue, UnchangedMeansCurrent, ReportIsCurrent, DryRunForetells,
        Answered, Current, Key
  <1> QED
    BY <1>3, <1>4, <1>5, <1>6, <1>7, <1>8, <1>9, <1>10, <1>11, <1>12 DEF PlansNext

\* Every step of a call, of operators and of crashes keeps the invariant.
LEMMA PlansInvKept == PlansInv /\ [PlansNext]_planVars => PlansInv'
  BY PlansTypeKept, CallHasItsPlanKept, GraphIsGoodKept, InsertsOnlyKept,
     PatchHasItsGraphKept, ForecastIsGoodKept, AnswersAreTrueKept
  DEF PlansInv

\* Between the calls every plan is whole, and in a call the transaction has
\* what was there and a beginning of the rows of its plan
\* (apply_delivery_plan).
THEOREM PlansInvariance == PlansSpec => []PlansInv
  BY PlansInitially, PlansInvKept, PTL DEF PlansSpec

\* A plan is there with all of its rows or not at all, for any plans, digests,
\* cycles and numbers of calls and crashes (apply_delivery_plan).
THEOREM PlansStayWhole == PlansSpec => []PlansAreWhole
  <1>1. PlansInv => PlansAreWhole
    <2> SUFFICES ASSUME PlansInv, planStep = "idle" PROVE PlanIsWhole /\ ConfirmedScopeCoversPlans
      BY DEF PlansAreWhole, PlanIsWhole, ConfirmedScopeCoversPlans
    <2>1. WholeIn(graph) /\ ScopeCovers(graph, planCycle, reviewed)
      BY DEF PlansInv, GraphIsGood, GoodGraph
    <2> QED
      BY <2>1, Zenon DEF PlanIsWhole, ConfirmedScopeCoversPlans, WholeIn, ScopeCovers
  <1> QED  BY <1>1, PlansInvariance, PTL

\* What a call answers is true, for any plans, digests, cycles and numbers of
\* calls and crashes: what it calls unchanged is there, what it reports is what
\* is stored, and a dry run foretells what applying does if nothing changes in
\* between (apply_delivery_plan, _delivery_plan_semantic_preflight).
THEOREM AnswersStayTrue == PlansSpec => []AnswersAreTrue
  <1>1. PlansInv => AnswersAreTrue  BY DEF PlansInv
  <1> QED  BY <1>1, PlansInvariance, PTL
=============================================================================
