----------------------------- MODULE TestReports -----------------------------
(***************************************************************************)
(* How the report of a test command is read (parse_structured_result in    *)
(* core/execution.py). Two formats are streams of events, read one by one; *)
(* the others are a document with totals and, possibly, the outcomes of    *)
(* the single tests. A report passes if something ran and nothing failed   *)
(* in the part of it that is read; one that contradicts itself there or    *)
(* breaks off must not pass. Two parts are not read: what a text says of   *)
(* failures, and the suites below a junit root that has a total.           *)
(*                                                                         *)
(* The reader stops at the first contradiction. The events and the         *)
(* document stay in the state, so that the verdict can be compared with    *)
(* what the report says as a whole.                                        *)
(***************************************************************************)
EXTENDS Naturals, Sequences, FiniteSets
LOCAL INSTANCE FiniteSetsExt

CONSTANTS
    Packages,       \* the packages a go report speaks of
    GoTests,        \* the names of tests in one of its packages
    Tests,          \* the names of tests in a nextest suite
    MaxEvents,      \* bound on the events of a stream
    MaxCount,       \* bound on every count in a document
    Missing         \* what is not in the report

ASSUME ReportBoundsAssumption == MaxEvents \in Nat /\ MaxCount \in Nat

VARIABLES
    format,         \* the format the target declares
    document,       \* the report, if it is a document
    events,         \* the events read so far, if it is a stream
    reader,         \* what the reader remembers of them
    verdict         \* "reading", "pass", "fail" or "malformed"

reportVars == <<format, document, events, reader, verdict>>

Streams == {"go-json", "cargo-nextest-json"}
Documents == {"regex", "junit", "pytest-json", "jest-json", "playwright-json"}

Given(count, default) == IF count = Missing THEN default ELSE count

-----------------------------------------------------------------------------
(* The verdict on counts. *)

\* Something ran, and nothing failed.
Passes(count, failures) == failures = 0 /\ count > 0

VerdictOn(count, failures) == IF Passes(count, failures) THEN "pass" ELSE "fail"

-----------------------------------------------------------------------------
(* go test -json. *)

GoEvents ==
    [package : Packages \cup {Missing}, test : GoTests,
     action : {"run", "pass", "fail", "skip", "output"}]
        \cup [package : Packages, test : {Missing}, action : {"pass", "fail", "skip"}]

NoGo == [active |-> {}, ran |-> {}, failedIn |-> {}, passed |-> 0, failed |-> 0,
         closed |-> [p \in Packages |-> "open"]]

EventKey(e) == <<e.package, e.test>>

\* Mutant of Closes: a package without test files is closed as well.
Closes_Skips(e) == e.test = Missing /\ e.action \in {"pass", "fail", "skip"}

\* The event ends its package.
Closes(e) == e.test = Missing /\ e.action \in {"pass", "fail"}

\* What the reader refuses in the middle of the stream.
GoRefuses(r, e) ==
    IF e.test # Missing
    THEN \/ e.package = Missing
         \/ r.closed[e.package] # "open"
         \/ e.action = "run" /\ EventKey(e) \in r.active
         \/ e.action \in {"pass", "fail", "skip"} /\ EventKey(e) \notin r.active
    ELSE /\ Closes(e)
         /\ \/ r.closed[e.package] # "open"
            \/ \E k \in r.active : k[1] = e.package

GoAfter(r, e) ==
    CASE e.test # Missing /\ e.action = "run" ->
            [r EXCEPT !.active = @ \cup {EventKey(e)}, !.ran = @ \cup {e.package}]
      [] e.test # Missing /\ e.action = "pass" ->
            [r EXCEPT !.active = @ \ {EventKey(e)}, !.passed = @ + 1]
      [] e.test # Missing /\ e.action = "fail" ->
            [r EXCEPT !.active = @ \ {EventKey(e)}, !.failed = @ + 1,
                      !.failedIn = @ \cup {e.package}]
      [] e.test # Missing /\ e.action = "skip" ->
            [r EXCEPT !.active = @ \ {EventKey(e)}]
      [] Closes(e) ->
            [r EXCEPT !.closed[e.package] = e.action]
      [] OTHER -> r

\* Mutant of GoBreaksOff: a package need not be closed.
GoBreaksOff_Open(r) ==
    \/ r.active # {}
    \/ r.passed + r.failed = 0
    \/ \E p \in r.failedIn : r.closed[p] = "pass"

\* What it refuses at the end.
GoBreaksOff(r) ==
    \/ r.active # {}
    \/ r.passed + r.failed = 0
    \/ \E p \in r.ran : r.closed[p] = "open"
    \/ \E p \in r.failedIn : r.closed[p] = "pass"

GoFailures(r) ==
    IF r.failed > 0 \/ \E p \in Packages : r.closed[p] = "fail" THEN 1 ELSE 0

-----------------------------------------------------------------------------
(* cargo nextest. The counts at the end of a suite either agree with the       *)
(* outcomes in it or are missing or wrong.                                     *)

NextestEvents ==
    [type : {"suite"}, event : {"started"}, count : 0 .. 2]
        \cup [type : {"suite"}, event : {"ok", "failed"}, agrees : BOOLEAN]
        \cup [type : {"test"}, event : {"started", "ok", "failed", "ignored", "timeout"},
              name : Tests \cup {Missing}]
        \cup [type : {"bench"}, event : {"measured"}, name : Tests]

NoSuite == [open |-> FALSE, count |-> 0, active |-> {}, measured |-> {},
            outcome |-> [t \in Tests |-> Missing]]
NoNextest == [suite |-> NoSuite, suites |-> 0, executed |-> 0, failed |-> 0]

WithOutcome(suite, o) == Cardinality({t \in Tests : suite.outcome[t] = o})

SuiteExecuted(suite) ==
    WithOutcome(suite, "ok") + WithOutcome(suite, "failed") + Cardinality(suite.measured)

SuiteTotal(suite) == SuiteExecuted(suite) + WithOutcome(suite, "ignored")

\* Mutant of SuiteEndRefused: tests that never ended are forgotten.
SuiteEndRefused_Forgets(suite, e) ==
    \/ ~suite.open
    \/ ~e.agrees
    \/ e.event # IF WithOutcome(suite, "failed") > 0 THEN "failed" ELSE "ok"

SuiteEndRefused(suite, e) ==
    \/ ~suite.open
    \/ suite.active # {}
    \/ ~e.agrees
    \/ suite.count # SuiteTotal(suite)
    \/ e.event # IF WithOutcome(suite, "failed") > 0 THEN "failed" ELSE "ok"

NextestRefuses(r, e) ==
    CASE e.type = "suite" /\ e.event = "started" -> r.suite.open
      [] e.type = "suite" /\ e.event # "started" -> SuiteEndRefused(r.suite, e)
      [] OTHER ->
            \/ ~r.suite.open
            \/ e.name = Missing
            \/ /\ e.type = "test" /\ e.event = "started"
               /\ \/ e.name \in r.suite.active \cup r.suite.measured
                  \/ r.suite.outcome[e.name] # Missing
            \/ /\ e.type = "bench" \/ e.event \in {"ok", "failed", "ignored"}
               /\ e.name \notin r.suite.active

NextestAfter(r, e) ==
    CASE e.type = "suite" /\ e.event = "started" ->
            [r EXCEPT !.suite = [NoSuite EXCEPT !.open = TRUE, !.count = e.count]]
      [] e.type = "suite" /\ e.event # "started" ->
            [suite |-> NoSuite, suites |-> r.suites + 1,
             executed |-> r.executed + SuiteExecuted(r.suite),
             failed |-> r.failed + WithOutcome(r.suite, "failed")]
      [] e.type = "test" /\ e.event = "started" ->
            [r EXCEPT !.suite.active = @ \cup {e.name}]
      [] e.type = "test" /\ e.event \in {"ok", "failed", "ignored"} ->
            [r EXCEPT !.suite.active = @ \ {e.name}, !.suite.outcome[e.name] = e.event]
      [] e.type = "bench" ->
            [r EXCEPT !.suite.active = @ \ {e.name}, !.suite.measured = @ \cup {e.name}]
      [] OTHER -> r

NextestBreaksOff(r) == r.suite.open \/ r.suites = 0

-----------------------------------------------------------------------------
(* Documents. A total that is missing takes the value the others imply; one    *)
(* that is there has to be that value. Outcomes of single tests, if there, have*)
(* to add up to the totals.                                                    *)

Counts == 0 .. MaxCount

\* "Ran n tests", with those that were skipped or failed as expected, or "n passed".
\* The text may say besides how many failed, which is not looked for.
RegexDocuments ==
    [ran : Counts \cup {Missing}, skipped : Counts, expected : Counts, passed : Counts,
     failed : Counts]

RegexCount(d) ==
    IF d.ran = Missing THEN d.passed
    ELSE IF d.ran > d.skipped + d.expected THEN d.ran - (d.skipped + d.expected)
    ELSE 0

RegexVerdict(d) == VerdictOn(RegexCount(d), 0)

\* Failures stand for those and errors, skipped for those and disabled.
JunitKeys == {"tests", "failures", "skipped"}
CaseOutcomes == {"passed", "failure", "skipped", "two-outcomes"}

Totals == [JunitKeys -> Counts \cup {Missing}]

\* What stands for what is missing is nothing that a report can say.
ASSUME MissingAssumption ==
    /\ Missing \notin Packages \cup GoTests \cup Tests
    /\ Missing \notin CaseOutcomes \cup {"ok", "failed", "ignored"}
    /\ Missing \notin Totals
    /\ Missing \notin BOOLEAN
ASSUME TestsAssumption == IsFiniteSet(Tests)

NoCases == [i \in 1 .. 2 |-> Missing]

\* A root and its suites, each with totals; the cases, if there are any, are in
\* the first suite, or one of them is outside of it.
JunitTotals ==
    [root : Totals, suites : [1 .. 2 -> Totals \cup {Missing}], cases : {NoCases},
     outside : {FALSE}]
JunitLists ==
    [root : Totals, suites : {<<t, Missing>> : t \in Totals},
     cases : [1 .. 2 -> CaseOutcomes \cup {Missing}] \ {NoCases}, outside : BOOLEAN]
JunitDocuments == JunitTotals \cup JunitLists

WithCases(d) == d.cases # NoCases

CasesWith(d, o) == Cardinality({i \in 1 .. 2 : d.cases[i] = o})

CaseCounts(d) ==
    [tests |-> 2 - CasesWith(d, Missing), failures |-> CasesWith(d, "failure"),
     skipped |-> CasesWith(d, "skipped")]

Suites(d) == {d.suites[1], d.suites[2]} \ {Missing}

\* Without cases, the root decides if it has a number of tests, whatever its
\* suites say; else the suites do, whatever else the root says.
Deciding(d) == IF d.root["tests"] # Missing THEN {d.root} ELSE Suites(d)

Told(t, k) == IF t = Missing THEN 0 ELSE Given(t[k], 0)

JunitCount(d, k) ==
    IF WithCases(d) THEN CaseCounts(d)[k]
    ELSE IF d.root["tests"] # Missing THEN Told(d.root, k)
    ELSE Told(d.suites[1], k) + Told(d.suites[2], k)

\* Mutant of CasesContradicted: totals are not compared with the cases.
CasesContradicted_Never(d) == \E i \in 1 .. 2 : d.cases[i] = "two-outcomes"

\* A case has two outcomes, or a total at any level disagrees with the cases.
CasesContradicted(d) ==
    \/ \E i \in 1 .. 2 : d.cases[i] = "two-outcomes"
    \/ \E t \in {d.root} \cup Suites(d), k \in JunitKeys :
          t[k] \notin {Missing, CaseCounts(d)[k]}

JunitRefuses(d) ==
    IF WithCases(d) THEN d.outside \/ CasesContradicted(d)
    ELSE \/ Deciding(d) = {}
         \/ \E t \in Deciding(d) : Told(t, "failures") + Told(t, "skipped") > Told(t, "tests")

JunitVerdict(d) ==
    IF JunitRefuses(d) THEN "malformed"
    ELSE VerdictOn(JunitCount(d, "tests") - JunitCount(d, "skipped"), JunitCount(d, "failures"))

\* The outcomes of single tests, by what they mean, if the report lists them.
Children ==
    [listed : {TRUE}, passed : Counts, failed : Counts, unexecuted : Counts]
        \cup [listed : {FALSE}, passed : {0}, failed : {0}, unexecuted : {0}]

PytestKeys == {"passed", "failed", "errors", "skipped", "xfailed", "xpassed"}
PytestDocuments ==
    [summary : [PytestKeys -> 0 .. 1], total : Counts \cup {Missing}, children : Children]

PytestTotal(d) == MapThenSumSet(LAMBDA k : d.summary[k], PytestKeys)

ChildrenAgree(children, passed, failed, unexecuted) ==
    ~children.listed
        \/ children = [listed |-> TRUE, passed |-> passed, failed |-> failed,
                       unexecuted |-> unexecuted]

PytestVerdict(d) ==
    LET s == d.summary
        failed == s["failed"] + s["errors"]
        passed == s["passed"] + s["xpassed"]
    IN  IF \/ d.total \notin {Missing, PytestTotal(d)}
           \/ ~ChildrenAgree(d.children, passed, failed, s["skipped"] + s["xfailed"])
        THEN "malformed"
        ELSE VerdictOn(passed + failed, failed)

\* Jest says besides whether the run and every suite were a success.
JestKeys == {"passed", "failed", "skipped", "todo"}
JestDocuments ==
    [summary : [JestKeys -> 0 .. 1], total : Counts \cup {Missing},
     success : BOOLEAN \cup {Missing}, suiteFailed : BOOLEAN, children : Children]

JestTotal(d) == MapThenSumSet(LAMBDA k : d.summary[k], JestKeys)

JestSuccess(d) == IF d.success = Missing THEN d.summary["failed"] = 0 ELSE d.success

JestVerdict(d) ==
    LET s == d.summary
    IN  IF \/ d.total \notin {Missing, JestTotal(d)}
           \/ ~ChildrenAgree(d.children, s["passed"], s["failed"], s["skipped"] + s["todo"])
           \/ d.children.listed /\ d.suiteFailed /\ JestSuccess(d)
        THEN "malformed"
        ELSE VerdictOn(s["passed"] + s["failed"],
                       IF JestSuccess(d) THEN s["failed"] ELSE 1)

\* Playwright lists the results of every attempt at a test, of which the last
\* executed one has to be as expected.
Attempts == {"passed", "failed", "skipped"}
TestStatuses == {"expected", "unexpected", "flaky", "skipped"}
PlaywrightTests ==
    [results : UNION {[1 .. n -> Attempts] : n \in 0 .. 2}, expects : Attempts,
     status : TestStatuses \cup {Missing}]
PlaywrightDocuments ==
    [stats : [TestStatuses -> 0 .. 1], status : {"passed", "failed", Missing},
     listed : {TRUE}, test : PlaywrightTests \cup {Missing}]
        \cup [stats : [TestStatuses -> 0 .. 1], status : {"passed", "failed", Missing},
              listed : {FALSE}, test : {Missing}]

\* The attempts that were not skipped, in the order they were made.
Executed(t) == {i \in DOMAIN t.results : t.results[i] # "skipped"}

EndsAsExpected(t) ==
    \E i \in Executed(t) : /\ \A j \in Executed(t) : j <= i
                          /\ t.results[i] = t.expects

\* Every attempt was executed, and some of them, or none, went another way.
Steady(t) ==
    Executed(t) = DOMAIN t.results /\ \A i \in DOMAIN t.results : t.results[i] = t.expects

DerivedStatus(t) ==
    CASE Executed(t) = {} -> "skipped"
      [] Executed(t) # {} /\ ~EndsAsExpected(t) -> "unexpected"
      [] EndsAsExpected(t) /\ \E i \in Executed(t) : t.results[i] # t.expects -> "flaky"
      [] OTHER -> "expected"

StatusOf(t) == IF t.status = Missing THEN DerivedStatus(t) ELSE t.status

\* Mutant of StatusFits: the status a test claims is believed.
StatusFits_Claims(t) == TRUE

StatusFits(t) ==
    CASE StatusOf(t) = "expected" ->
            Executed(t) # {} /\ t.expects # "skipped" /\ Steady(t)
      [] StatusOf(t) = "unexpected" -> Executed(t) # {} /\ ~EndsAsExpected(t)
      [] StatusOf(t) = "flaky" ->
            /\ Len(t.results) >= 2 /\ Executed(t) = DOMAIN t.results
            /\ EndsAsExpected(t) /\ ~Steady(t)
      [] StatusOf(t) = "skipped" -> Executed(t) = {}

PlaywrightRefuses(d) ==
    /\ d.listed
    /\ \/ d.test # Missing /\ ~StatusFits(d.test)
       \/ \E k \in TestStatuses :
              d.stats[k] # IF d.test # Missing /\ StatusOf(d.test) = k THEN 1 ELSE 0

PlaywrightVerdict(d) ==
    IF PlaywrightRefuses(d) THEN "malformed"
    ELSE VerdictOn(d.stats["expected"] + d.stats["flaky"],
                   IF d.status = "failed" THEN 1 ELSE d.stats["unexpected"])

-----------------------------------------------------------------------------
(* Reading. MaxEvents is a bound of the model.                                 *)

ReportsTypeOK ==
    /\ format \in Streams \cup Documents
    /\ events \in Seq(GoEvents) \cup Seq(NextestEvents)
    /\ Len(events) <= MaxEvents
    /\ format = "go-json" =>
          /\ reader.active \subseteq (Packages \X GoTests)
          /\ reader.closed \in [Packages -> {"open", "pass", "fail"}]
    /\ format = "cargo-nextest-json" =>
          /\ reader.suite.active \cup reader.suite.measured \subseteq Tests
          /\ reader.suites \in Nat
    /\ verdict \in {"reading", "pass", "fail", "malformed"}

ReportsInit ==
    /\ format \in Streams \cup Documents
    /\ document = Missing
    /\ events = <<>>
    /\ reader = CASE format = "go-json" -> NoGo
                  [] format = "cargo-nextest-json" -> NoNextest
                  [] OTHER -> Missing
    /\ verdict = "reading"

Judged(d, v) == document' = d /\ verdict' = v /\ UNCHANGED <<format, events, reader>>

ReadEvent(refuses, after, e) ==
    /\ verdict = "reading"
    /\ Len(events) < MaxEvents
    /\ events' = Append(events, e)
    /\ verdict' = IF refuses THEN "malformed" ELSE "reading"
    /\ reader' = IF refuses THEN reader ELSE after
    /\ UNCHANGED <<format, document>>

ReadGoEvent ==
    /\ format = "go-json"
    /\ \E e \in GoEvents : ReadEvent(GoRefuses(reader, e), GoAfter(reader, e), e)

ReadNextestEvent ==
    /\ format = "cargo-nextest-json"
    /\ \E e \in NextestEvents :
           ReadEvent(NextestRefuses(reader, e), NextestAfter(reader, e), e)

EndGo ==
    /\ format = "go-json" /\ verdict = "reading"
    /\ Judged(document, IF GoBreaksOff(reader) THEN "malformed"
                        ELSE VerdictOn(reader.passed + reader.failed, GoFailures(reader)))

EndNextest ==
    /\ format = "cargo-nextest-json" /\ verdict = "reading"
    /\ Judged(document, IF NextestBreaksOff(reader) THEN "malformed"
                        ELSE VerdictOn(reader.executed, reader.failed))

ReadDocument ==
    /\ verdict = "reading"
    /\ \/ format = "regex" /\ \E d \in RegexDocuments : Judged(d, RegexVerdict(d))
       \/ format = "junit" /\ \E d \in JunitDocuments : Judged(d, JunitVerdict(d))
       \/ format = "pytest-json" /\ \E d \in PytestDocuments : Judged(d, PytestVerdict(d))
       \/ format = "jest-json" /\ \E d \in JestDocuments : Judged(d, JestVerdict(d))
       \/ /\ format = "playwright-json"
          /\ \E d \in PlaywrightDocuments : Judged(d, PlaywrightVerdict(d))

ReportsNext ==
    \/ ReadGoEvent
    \/ EndGo
    \/ ReadNextestEvent
    \/ EndNextest
    \/ ReadDocument

ReportsSpec == ReportsInit /\ [][ReportsNext]_reportVars

-----------------------------------------------------------------------------
(* What a report says as a whole. *)

\* When something happened to one test.
History(p, t) ==
    {i \in DOMAIN events : /\ events[i].package = p /\ events[i].test = t
                           /\ events[i].action # "output"}

\* One after the other, with nothing of the same test between them.
Successive(p, t, i, j) == i < j /\ \A m \in History(p, t) : ~(i < m /\ m < j)

\* A test runs and ends well, any number of times.
RunsAndPasses(p, t) ==
    \A i \in History(p, t) :
        /\ events[i].action = "run" =>
              \E j \in History(p, t) :
                  Successive(p, t, i, j) /\ events[j].action \in {"pass", "skip"}
        /\ events[i].action # "run" =>
              /\ events[i].action \in {"pass", "skip"}
              /\ \E j \in History(p, t) : Successive(p, t, j, i) /\ events[j].action = "run"

\* The end of a package, as the last that is heard of it.
PackagePasses(p) ==
    \E i \in DOMAIN events :
        /\ events[i] = [package |-> p, test |-> Missing, action |-> "pass"]
        /\ \A j \in DOMAIN events \ {i} :
              events[j].package = p =>
                  \/ events[j].test = Missing /\ events[j].action = "skip"
                  \/ events[j].test # Missing /\ j < i

\* Every test that was started ended well, every package with tests passed after
\* them, nothing failed, and a test passed.
GoReportPasses ==
    /\ \A i \in DOMAIN events :
          /\ events[i].package # Missing
          /\ events[i].action # "fail"
          /\ events[i].action = "run" \/ (events[i].test = Missing /\ events[i].action = "pass")
                => PackagePasses(events[i].package)
    /\ \A p \in Packages, t \in GoTests : RunsAndPasses(p, t)
    /\ \E i \in DOMAIN events : events[i].test # Missing /\ events[i].action = "pass"

\* A stream of go events passes exactly if it says so as a whole.
GoPassIsWhole ==
    format = "go-json" /\ verdict # "reading" => (verdict = "pass" <=> GoReportPasses)

\* A nextest stream that passes has no failure in it, ends outside of a suite,
\* and every test it started was ended before its suite.
NextestPassIsWhole ==
    format = "cargo-nextest-json" /\ verdict = "pass" =>
        LET Suite(i) == events[i].type = "suite"
        IN  /\ \A i \in DOMAIN events : events[i].event # "failed"
            /\ \E i \in DOMAIN events :
                  (events[i].event = "ok" /\ ~Suite(i)) \/ events[i].event = "measured"
            /\ \A i \in DOMAIN events :
                  events[i].event = "started" /\ ~Suite(i) =>
                      \E j \in i + 1 .. Len(events) :
                          /\ ~Suite(j) /\ events[j].name = events[i].name
                          /\ events[j].event \in {"ok", "ignored", "measured"}
                          /\ \A m \in i .. j : ~Suite(m)

\* A text that passes says of a test that it ran or passed. It may say of others
\* that they failed.
RegexPassIsSaid(d) ==
    IF d.ran = Missing THEN d.passed > 0 ELSE d.ran > d.skipped + d.expected

\* A junit document with cases passes only if one of them passed, none failed and
\* no level counts a failure; one without, only if the level that decides counts
\* no failure and a test that was not skipped. The other levels may count failures.
JunitPassIsSaid(d) ==
    IF WithCases(d)
    THEN /\ ~d.outside
         /\ \E i \in 1 .. 2 : d.cases[i] = "passed"
         /\ \A i \in 1 .. 2 : d.cases[i] \notin {"failure", "two-outcomes"}
         /\ \A t \in {d.root} \cup Suites(d) : t["failures"] \in {0, Missing}
    ELSE /\ \A t \in Deciding(d) : t["failures"] \in {0, Missing}
         /\ \E t \in Deciding(d) :
               t["tests"] # Missing /\ t["tests"] > Given(t["skipped"], 0)

\* Neither the summary nor, where they are listed, the single tests name a failure,
\* and both name a test that passed.
PytestPassIsSaid(d) ==
    /\ d.summary["failed"] = 0 /\ d.summary["errors"] = 0
    /\ d.summary["passed"] > 0 \/ d.summary["xpassed"] > 0
    /\ d.children.listed => d.children.passed > 0 /\ d.children.failed = 0

\* Likewise; nor do the run or, with listed tests, a suite claim to have failed.
JestPassIsSaid(d) ==
    /\ d.summary["failed"] = 0 /\ d.summary["passed"] > 0 /\ d.success # FALSE
    /\ d.children.listed =>
          d.children.passed > 0 /\ d.children.failed = 0 /\ ~d.suiteFailed

\* Neither the run nor its numbers name a failure, and the last executed attempt at
\* a listed test went as expected.
PlaywrightPassIsSaid(d) ==
    /\ d.status # "failed" /\ d.stats["unexpected"] = 0
    /\ d.stats["expected"] > 0 \/ d.stats["flaky"] > 0
    /\ d.listed => d.test # Missing /\ EndsAsExpected(d.test)

DocumentPassIsSaid ==
    verdict = "pass" =>
        /\ format = "regex" => RegexPassIsSaid(document)
        /\ format = "junit" => JunitPassIsSaid(document)
        /\ format = "pytest-json" => PytestPassIsSaid(document)
        /\ format = "jest-json" => JestPassIsSaid(document)
        /\ format = "playwright-json" => PlaywrightPassIsSaid(document)

\* No stream passes that is cut off, contradicts itself or has a failure in it. A
\* document passes only if every part of it that is read names no failure and a test
\* that ran; two parts are not read, the failures in a text and the levels of a junit
\* document without cases that do not decide (parse_structured_result,
\* parse_executed_count, _junit_counts).
PassIsEarned == GoPassIsWhole /\ NextestPassIsWhole /\ DocumentPassIsSaid
=============================================================================
