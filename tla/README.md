# Verification of the Kafa project harness

This directory holds TLA+ models of the harness that `src/plugins/codex-project-harness`
installs in a project, the TLC runs that check them, and proofs for TLAPS.
The harness keeps the state of a software delivery (requirements, acceptance
criteria, tasks, test executions, quality gates, deliveries) in one SQLite
database, and its promise is about *evidence*: a delivery cycle is closed as
delivered only when independently reviewed, current test executions of the
delivered source show every criterion. Operations run as separate commands, in
several threads or processes, against a worktree that anybody may edit
meanwhile.

Abbreviations: `H` = `scripts/harness_db.py`, `S` = `core/store.py`,
`D` = `core/delivery.py`, `M` = `core/local_core_migration.py`,
`I` = `core/invariant_checker.py`, `C` = `core/cycle_ledger.py`,
`E` = `core/execution.py`, `F` = `core/project_fs.py`, `PJ` = `core/projections.py`, all under
`src/plugins/codex-project-harness/`; `K` = `src/kafa/cli.py`; `spec.md` =
`src/openspec/specs/local-delivery-kernel/spec.md`.

## 1. Inventory

| Component | State it keeps | Operations | What is hard | What makes it correct |
|---|---|---|---|---|
| Operation lock (`S:94-396`) | process-local re-entrant lock, OS file lock, migration sentinel, nesting depth | `project_db_operation`, `_acquire_os_lock` | threads and processes, timeouts, crashes, check before and after the lock | mutual exclusion; no writer behind a migration; locks come back |
| Schema migration (`M`) | sentinel, backup, manifests, staged database, projection backup | `_migrate_project_to_target`, `_restore_verified_backup`, `finalize_guard` | a crash between any two steps; failures of the rollback itself | facts survive; an unverified outcome is never usable |
| Evidence chain (`H:1584-4060`) | baselines, test targets, qualifications, executions, validations, gates, deliveries, invalidations | `freeze_baseline`, `confirm_baseline`, `add_test_target`, `qualify_test_target`, `verify_run`, `record_gate`, `enter_delivery_readiness`, `record_delivery` | versions that move between the links; the command of `verify_run` and the evaluations of `record_gate` and `record_delivery` run while the worktree changes | a delivered cycle has reviewed, fresh, complete evidence of the delivered source |
| Delivery evaluator (`D`) | none (reads all tables, git and artifacts) | `evaluate_delivery_report`, `evaluate_historical_cycle_report`, `evaluate_local_trust` | many joins; four modes | agrees with itself between readiness, record and audit |
| Cycle ledger (`C`, `H:1134-1324`) | `delivery_cycles`, `project.current_cycle_id`, `project.revision` | `cycle_start`, `cycle_close`, `cycle_audit` | facts of old cycles stay in the tables the new one uses | a closed cycle is frozen; old cycles neither block nor satisfy a new one |
| Task graph (`H:2264-2540`, `core/scheduler.py`) | tasks, dependencies | `_create_task_conn`, `start_task`, `submit_task`, `accept_task`, `block_task`, `cancel_task` | dependencies rewritten while tasks run; invalidation reopens work | a started task's dependencies are accepted; no cycles |
| Findings, failure modes, review context (`H:2029-2152`, `H:3466-3531`, `D:836-872`) | findings, failure modes, risk acceptances with an expiry | `record_finding`, `record_failure_mode` | expiry by the clock; findings of another revision | an open blocking finding blocks; a waiver does not outlive its expiry |
| Verification execution (`E`) | artifacts below `.ai-team/runtime` | `LocalExecutor.run`, `ContainerExecutor.run`, `validate_execution_result`, `parse_structured_result` | seven result formats, two of them streams; a result file left from an earlier run; tools, contexts and tags that move | an execution counts only if its own report says that a test ran and none failed; the record names what ran |
| Delivery plan (`core/delivery_plan.py`, `H:5624-6420`) | plan event, the rows it inserts | `apply_delivery_plan`, `verified_patch` | repeated or colliding application; the dry run is another path | applying a plan twice is applying it once; unchanged means unchanged |
| SQLite store and backup (`S:399-1349`) | database family (main file, log, rollback journal) | `SqliteStore.connection`, `transaction`, `backup_to` | SQLite makes and plays back files by itself; others replace them; teardown errors | a target is never half a database; a foreign journal is noticed |
| Project filesystem (`F`) | descriptors of the project root, snapshots of paths | `atomic_write`, `replace_file`, `create_exclusive`, `unlink_regular`, `remove_empty_directory` | renames between check and use; system calls that fail before or after their effect; two operating systems | destroys only what it was called for; one failure is undone |
| Projections (`PJ`) | thirteen rendered files below `.ai-team` | `render_all`, `render_affected`, `projection_content_issues` | rendered after the commit, and only those a command names | equal to the database once rendered |
| Event log (`core/event_bus.py`) | `events` | `emit_audit_event` | waterline after a migration | append-only and gap-free |
| Invariant checker (`I`) | none | `check_cycle_invariants`, `check_runtime_invariants` | global over all cycles | refuses only states no operation should reach |
| Plugin installation, doctor, launch (`K:890-1168`, `K:603-857`) | installed tree, marketplace file, codex's registration and cache | `install_plugin`, `uninstall_plugin`, `doctor_report`, `run_project_harness_capture` | no lock: trees are removed, copied and read file by file, by processes that may die | what runs was installed; what is healthy runs; an upgrade repairs |
| Outcome metrics, operator output, schema guard, hooks, the rest of `kafa/*`, evaluations | none or their own reports | | sequential | |

How they interact. Every mutation of `H` runs inside `_project_mutation`
(`H:238-255`), which takes the operation lock from the first read to the end of
the projections, and refuses a closed cycle. The facts are written in one
SQLite transaction with checks before the commit; projections and events
follow from them. The evaluator is called by readiness, by the delivery record
before and after its writes, and by the audit. A migration takes the same lock
and replaces the database file. Git, the worktree and the artifacts are outside
of every lock. Which harness runs is decided before all that: `kafa project` takes a private
copy of the installed plugin, which `kafa plugin` may be replacing.

## 2. Modules

### EvidenceChain

One cycle from its recorded graph to its delivery. The state is the database's
(`revision`, `phase`, `scope`, `cycle`, `graph`, `baseline`, `target`, `quals`,
`val`, `gate`, `stale`), the worktree's (`source`, `head`) and `op`, the
operation that holds the lock and has a command or an evaluation in flight. An
operation that reads and writes in one transaction is one action;
`verify_run` and `record_gate` are two, because the worktree
and the artifacts can change between what they read and what they check before
the commit. `record_delivery` is four: the evaluation (`DeliverStart`), the evaluation of the
written rows, in the body and again before the commit (`DeliverRecheck`), its last look at the
candidate (`DeliverConfirm`), and the commit, which checks nothing more
(`DeliverCommit`). No lock is held on the worktree and the artifacts, so they may change
between any two of these. `Abort` is the failure of a command, a refused check, a deadline or
a crash: the transaction is rolled back.

Abstractions. A source tree is its content identity, a target definition its
digest, a baseline's snapshot the revisions it was taken over (every rewrite of
a row increments its revision). Only the active execution-backed validation of
a pair is kept: the other rows never count. `seen`, in validations and gates,
is a history component that no guard reads: the graph at the moment of the
execution or review, for the properties to compare. So is `unseen`, in a delivery under
way: which of source, commit and artifacts changed since the last look at each. The last looks at
the commit and at the artifacts are in one step, since nothing of the code depends on
their order: a change of one between them is a change before or after the step. A verification
and a gate commit with their last look, because their rows name the candidate and claim nothing of
the worktree at the commit: a change in between moves no row and might as well come after it. The phases before
readiness are one, `working`; the tasks are accepted. The worktree does not
change between the first two reads of `record_gate` (dirty, then candidate);
a change there would be caught by the evaluation of the delivery.

Three small steps in the code carry the weight: the bump of `project.revision`
by every operation that confirms or freezes a baseline (without it a gate would
survive a change of scope), the comparison of the criterion's revision in
`_require_current_qualification`, and the second evaluation of
`record_delivery` before the commit. Each is a mutant of the module.

### DeliveryCycle

What a delivery cycle promises, without its rows: something is to be delivered
(`subject`) and changes while the cycle is open; reviews of candidates see it as it
is, and the last one of a candidate counts (`reviewed`); a candidate is delivered only
if that review passed it and saw what is delivered; a closed cycle stays what
it is. It says nothing of revisions, baselines and superseded rows, which are how
the code keeps the promise, since a gate stores no copy of what it
reviewed. Two modules implement it, each for what it has of a review:
`EvidenceChain` with `subject <- graph` (the requirement and the criteria), and every cycle
of `ReviewLedger` with `subject <- mode[c]` (its failure modes), where the tables are
shared with the other cycles. `Reviewed` reads the abstract reviews from the
active passing gates and their history component `seen`.

### OperationLock and ProjectDatabase

`OperationLock` models `project_db_operation` step by step: the look at the
sentinel, the process-local lock, the OS lock, the second look, the work,
the release in reverse order; nesting by the same thread; deadlines; crashes of
a process. A migration creates the sentinel first, then takes the same locks,
captures the backup, activates, verifies or rolls back, and removes the
sentinel only when the outcome is settled, still under the lock.
`ProjectDatabase` is the abstract promise: an atomic database that loses no
fact and commits none while a schema change may still be rolled back.
`OperationLock` implements it with `settled <- stage # "activated"`.

### TaskGraph

The tasks of all cycles of one database: creation with dependencies, start,
submission, acceptance, blocking, cancellation, the invalidation that reopens
work, the phases as far as they ask about tasks, and the start and end of
cycles. Task rows stay when their cycle closes, and the next cycle may use the
same ids; `born` is the number of a task's `task_created` event.

Abstractions. The graph of requirements is one fact, `scope`: not there,
recorded or confirmed; a criterion is covered by the tasks that name it. A transition
to the phase the project is in changes nothing and is a stutter. Evidence and
the gate are left to the other modules, so a delivery is allowed whenever the
tasks allow it: the code allows less.

### ReviewLedger

Findings, failure modes, the acceptances of both, the quality gates and the
delivery policy that joins them (`D:1021-1257`). `Policy` is one operator, used
by `record_delivery` with the revision and the time of now and by the audit of a
closed cycle with those of the delivery, as the code shares
`_evaluate_local_delivery_policy`; `AuditTime` is the difference. Gates are a
sequence that only grows, in the order of their sequence number, and
`superseded` holds the ones a later gate replaced. A finding is one row per
id for the whole database, which the code rewrites with the candidate of now.

Abstractions. One criterion on one target, whose active validation is
`evidence`; levels `high` and `critical` are one, as are the two ways to resolve
a finding and the two ways to accept a failure mode. The clock is read once per
operation. A delivery requires less than in the code (no execution, no
phase): what this module shows of deliveries therefore holds of the fewer
that the code allows. Two history components are in the state, and no guard
reads them: `seen` of a gate, the failure modes at the moment of the
review, and `gate` of a delivery, the gate it was decided on.

The carrying steps, each with a mutant: the revision bump of
`confirm_baseline`, which makes gates too old when acceptances are carried over;
the refusal of a finding id of another cycle; the expiry judged at the time of
the delivery in an audit; the latest gate taken among active ones of any
result.

### ProjectMigration

`_migrate_project_to_target` from the sentinel to its removal, alone: the lock and
its waiters are in `OperationLock`. The state is what is on disk (`sentinel`, the
active `db`, `staged`, the projections `proj`, the recovery `bundle`, the
`manifest`) and what the process holds (`pc`, the `guard`, the locals `run`). The
actions follow the function: before the first manifest (`Announce`, `Refuse`, `Accept`,
`BackUp`, `CaptureProjections`), the try block (`Stage`, `CompareSource`, `Arm`,
`Activate`, `Publish`, `Record`, `Confirm`), its handler (`Detect`, `Preserve`,
`Restore`, `VerifySource`, `RestoreProjections`, `Settle`), and the ways out
(`Report`, `Rearm`, `Close`, `VerifyClear`, `Unlink`, `VerifyCleared`).

Every step may fail *clean*, before its effect, or *half*, after it and before
its receipt was taken; `faults` remembers which. `Crash` ends the process at any
step, and `Interfere` lets a program that takes no lock change one file in a run.
A step that compares a snapshot or a digest goes on only if what it compares is what
the run left there. The three answers the code has to a file that is not: leave it
and stop (`Activate`, `Preserve`, `Restore` on a foreign database), write beside it
(the fallback manifest), or ask for recovery.

Abstractions. A database is `source`, `target`, `edited` in place or `replaced`;
the projections are whole, partial or foreign; the files of the bundle are one
value. Once there is a fallback manifest, `manifest` stands for it. How rows are
converted, SQLite sidecars and the dry run are left out. The sentinel itself is not
interfered with: `guard.lock` is only lost by a fault. At the `Accept` of a new run
whatever the project then holds counts as its source.

The code compares the content of the active database before it arms the sentinel and
only its identity when it replaces it. An edit in place between the two is lost;
`Activate` has that behaviour, and no property denies it.

### ProjectFiles, PosixFiles, WindowsFiles, FileSafety

One call of `F` on names that other programs use at the same time. `ProjectFiles`
has the state (what the three names of a call hold: `destination`, `source`, and
`aside`, the random name an entry is moved to before it is deleted), the first look,
and what others may do; `PosixFiles` and `WindowsFiles` the steps of the two
backends, one system call each, with everything the code does when one of them
fails: the exchange and its reversal, the quarantine and its restoration, the halfway
state of `ReplaceFileW`, the attributes lifted and put back. A system call works, fails
before it did anything, or fails after (`Fault`, bounded by `MaxFaults`), and the
process may end anywhere. `FileSafety` joins them and states what both promise.

Abstractions. An object is its identity, as in the code: contents are not compared
there either. Others act on the names they can know, never on the random ones. Two
looks with nothing between them are one step. On Windows the name of a source is taken
to be undisturbed once its handle is closed, and the directory of a call is not moved,
since the call holds every ancestor open.

### ProjectViews

The generated views and the commands that change what they show. A fact is a table, or
the part of one that some view reads; `stale` holds the views that read a fact that
changed after they were written. Every command of `H` that renders is a set of
`Writing(facts, views)` choices, taken from its code: the facts it commits and the
views it names. `BeginCommand`, `CommitFacts`, `CheckPaths`, `WriteView`,
`FinishViews` are the steps of one command; writes fail, the teardown of the store fails
after the commit, processes die, others edit the source, damage a view or put a link
in its place. The doctor samples the project, compares, and confirms its sample: first the artifacts
(`ConfirmArtifacts`), then the candidate (`ConfirmSample`), and others edit either between the two.

### DeliveryPlan

`apply_delivery_plan`, its dry run, and `verified_patch`. The database is a record of
what plans look at (`graph`); a transaction writes its rows one at a time
(`InsertRow`) and may fail after each (`FailApply`). Rows a plan makes have ids inside
the cycle, but targets and qualifications have a stem for the whole database (`Stem`),
which two plans of different cycles can share. Between calls operators rewrite rows,
redefine targets, qualify again, confirm the scope, and close and start cycles.

### TestReports

`parse_structured_result`: the two stream formats (`go-json`, `cargo-nextest-json`)
event by event, with what the reader remembers; the documents (`regex`, `junit`,
`pytest-json`, `jest-json`, `playwright-json`) with totals and tests that may
contradict each other. A text (`regex`) may state failures, which the reader does not look for. A junit
document has a root and two suites, each with totals or without, and cases or none: with cases they
are counted, and a total of any level that disagrees is a contradiction; without, the root alone decides if it has `tests`, and
otherwise its suites do (`Deciding`). The report stays in the state, so that the verdict is compared
with a reading of the whole. Counts that are no numbers and lines that are no
JSON, which are refused at once, are left out, as are the keys of a total that are only added to another
one (`errors` to `failures`, `disabled` to `skipped`).

### CommandRuns

Both executors from what they note (interpreter, daemon, image, report file) through the
run to the three comparisons before the record. Others write the report, alter the
captured output, replace the interpreter, switch the engine's context or move a tag.

### DatabaseBackup

The connections of `SqliteStore` and `backup_to` with the identities of the database
family noted and compared around every use, against programs that put, overwrite or
remove files under any of the names, and a process that ends at any step.

### PluginInstall

`kafa plugin` (`BeginInstall`, `RemoveFile`, `RemoveDirectory`, `MakeDirectory`, `CopyFile`,
`ReadMarket`, `Truncate`, `WriteMarket`, `BeginUninstall`), which may break off at any step; `kafa doctor`
(`LookAtSource`, `LookAtInstalled`, `LookAtRegistration`); and `kafa project` from the first digest of the
installed tree (`ListFiles`, `ReadFile`, `CheckIdentity`, `CheckInventory`) through the second one to the private
copy and its two verifications (`Capture`, `CaptureFile`, `VerifyCapture`, `RunCopy`). The developer switches the checkout,
others edit the marketplace, codex registers the plugin and caches it.

Abstractions. A tree is three pieces, each of one of two releases or absent: the manifests, the code, and one
file that only the older release has; an inventory fits when it has the pieces its manifest lists. The static
checks of what a file contains are left out, so a complete tree passes them. A digest is the content it
is taken over. The doctor's looks are a step each for the source, the installation and codex. `during` holds what a
property needs to know of the past: the whole trees a project command met, how often the plugin was
replaced under it, and whether anything changed since the doctor's verdict.

`MCCommands` composes these parts: a behaviour is the commands of one of them on an
otherwise idle project, with whatever other programs do to it. They share no
state but the project, whose operation lock lets one command run at a time.

## 3. Runs

| Run | Instance | Question |
|---|---|---|
| `EvidenceChain_Scope` | 1 acceptance, target, definition and source; the requirement and the criterion are rewritten once each; 3 project revisions, 2 qualifications | does the chain implement `DeliveryCycle` (is the delivered graph the one the last, passing gate saw?), and are executions newer than their criteria? |
| `EvidenceChain_Candidate` | 2 acceptances on one target, 2 sources, 2 definitions (one may not feed a gate) | does a delivery miss a change of source, commit or artifacts only after its last look at it, has each criterion its own evidence, and is a closed cycle frozen? |
| `EvidenceChain_Requalified` | 1 acceptance, 2 definitions | *violated*: a superseded qualification blocks the delivery for good |
| `EvidenceChain_Invalidated` | 1 acceptance, the requirement rewritten once | *violated*: nothing resolves the invalidations of a requirement |
| `OperationLock` | 2 threads of one process, 1 of another, 1 fact, nesting to 2 | mutual exclusion, a current backup, the refinement of `ProjectDatabase`; is every lock given back? |
| `TaskGraph` | 2 tasks, any dependencies between them, 2 cycles | do started, accepted and delivered tasks rest on accepted ones of their own cycle, without circles, and stand once closed? |
| `TaskGraph_Qa` | the same | *violated*: a task an archived cycle left unfinished keeps later cycles out of the qa phase |
| `ReviewLedger_History` | 1 finding, 2 sources, 2 cycles, 3 revisions, a clock that ticks once, 2 gates, medium risk | do answered findings, the records and the audit of a delivered cycle hold through the next cycle? |
| `ReviewLedger_Risks` | 1 failure mode rewritten once, 2 contexts, 3 revisions, 2 gates, high risk | does the last review decide, and did it see the risks as delivered? |
| `ReviewLedger_Links` | 1 finding, 2 sources, 2 gates, 1 cycle | *violated*: a finding recorded again after a fix stops agreeing with the gate that links it |
| `ProjectMigration` | any number of migrations, in each up to 3 failing steps, a crash and 1 interference | is a half-migrated project always marked, do manifest and missing sentinel tell the truth, are foreign databases kept, and is one failed step rolled back? |
| `commands` | 2 foreign objects, one unsafe, 2 moves and 2 faults; 2 commands on views, 1 edit, 1 upset; 2 plans of 2 contents in 2 cycles with a shared stem, 2 calls, 2 acts; 5 events, counts to 2; 2 endpoints, 1 trial, 2 changes; 2 store calls, 2 intrusions; 1 neighbour in the marketplace, 3 plugin commands or acts of others | what do the file operations, views, plans, reports, executors, backups and installations leave behind, record or report, whatever happens between their steps? |

What `commands` checks, by part. Types: `CommandsTypeOK`, the type invariant of the part
that moves. Files: `OnlyOwnDestroyed`; `PublicationIsAtomic` (readers always find a file, and the old one
lives until the new one is in place); `CallIsAllOrNothing` (success is a swap of what was
looked at, one failure is undone with the attributes, a raced name is kept). Views:
`SuccessLeavesViewsCurrent`; `RepairIsTrue` (a rebuild heals, and healthy means current but for what was edited after the
doctor's last look at it). Plans:
`PlansAreWhole` (all of a plan or nothing, and the scope confirmed after it); `AnswersAreTrue`
(unchanged, verified and the dry run are true when they are said). Reports: `PassIsEarned` (no stream passes that is cut
off, contradicts itself or has a failure in it; a document passes only if what is read of it names no failure and a test that
ran; section 6 says what is not read). Runs: `RecordIsTrue` (report of this run, image that ran, no drift that lasts to a comparison). Store:
`StoreIsSafe` (whole targets, true copies, foreign files kept, foreign journals noticed). Plugin:
`InstallationIsSound` (`WhatRunsWasInstalled`: what runs is what the directory held as a whole, if it was replaced
at most once meanwhile; `HealthyRuns`: project commands accept what the doctor called healthy; `InstallIsWhole`: a
success leaves plugin and entry, or neither, and the entries of others; `UpgradeRepairs`: an upgrade recovers from every
crash, a torn marketplace excepted). Each of
the composed properties is a conjunction of parts that are stated, and broken by a mutant, one by
one.

Bounds. All are constants named `Max...` used in guards. One rewrite of each
versioned row is enough to make every earlier reference to it stale, a second
baseline confirmation (`MaxRevision = 3`) to make a gate old, a second
qualification or gate to supersede the first, a second cycle to reuse ids,
one tick to expire an acceptance that was valid and leave one that still is. Three faults
(`MaxFaults`) are a step, its rollback and the report of that; faults and interference start
from zero with the next migration, so that what one attempt leaves meets all that can
go wrong in the next. Two
processes and two threads of one of them meet both locks. In `commands` two moves are a
race and its undoing (a file put under a name and taken away again, a tag moved and
moved back, which is what a record of the tag would miss); two faults are a step and its
reversal; two commands are one that leaves something and one that meets it; two plans in two cycles are
needed for a shared stem; five events are a package with a test, its end, and an event too
many. Three plugin acts are a
replacement, a project command, and one change by others. Other programs touch
one view (`Exposed`), since the views are written in the same way. What an instance
does not reach (more findings at once, an accepted failure mode whose expiry
passes, longer chains of dependencies) is covered by the proofs, which have no
bounds. Deadlock is checked for the lock only: in the others a closed cycle
in a quiet worktree, or a command that has ended, has nothing left to do.

Fairness. Only `OperationLock` assumes any: a thread goes on with what
`project_db_operation` does by itself (weak), a waiter gets the lock or reaches
its deadline (weak on the disjunction: `lock.acquire(timeout=...)` and the loop
of `_acquire_os_lock` are bounded), and the body of an operation ends however
often it nests (strong, because nesting disables the outermost exit in between;
commands and SQLite connections have deadlines of their own). Nothing is assumed of
crashes, of new operations or of migrations. With fairness, symmetry would not be sound,
and the run uses none.

## 4. Proofs

`EvidenceChain_proofs` proves, for all constants, type correctness
(`TypeCorrect`), the safety properties of the passing runs (`EvidenceFresh`,
`ClosedFrozen`, `LateChangesOnly`) and the refinement of `DeliveryCycle` (`Refinement`) from the inductive invariant
`IInv` (`Invariance`), one part of which, that the gate of a delivered cycle saw its graph and its
baseline, is a theorem of its own (`ScopeReviewed`). The argument: a baseline is never ahead of the graph; a gate
recorded at the current project revision saw a graph that is between the two, because everything
that replaces a baseline also bumps the revision; the evaluator requires the
ends to be equal, so the middle is equal too (`GraphLeqAntisymmetric`). In the
same way a qualification's revision, the revision an execution saw and the
criterion's revision are ordered, and the evaluator compares the first with the
last. The properties alone are not inductive: they say nothing before the cycle
is delivered. What the recheck of a delivery found in the database stays until the commit, since the
operation holds the lock (`RowsAreAsRechecked`); what it found outside does not, and `LateChangesOnly` rests on an invariant of its own:
each of source, commit and artifacts is as it was found or is noted as changed (`UnseenIsNoted`, `UnseenStaysNoted`). For the refinement, a gate takes the place of earlier ones of its candidate
(`GateReplaces`), and the delivery step, whose guard compares revisions and the baseline only, is a
delivery of what was reviewed by the invariant in its next state. The only assumptions are that gateable definitions are
definitions and that the candidate of an open cycle is no source.

`OperationLock_proofs` proves type correctness, `MutualExclusion`,
`BackupIsCurrent` and the refinement of `ProjectDatabase` for any number of
threads and processes. The invariant `LockInv` adds that whoever is past the OS
lock owns it, that an unsettled migration has its sentinel, and that no normal operation is in while the backup may be
restored.

`TaskGraph_proofs` proves type correctness and the four properties of the run
(`DependenciesFirst`, `Circleless`, `DeliveredComplete`, `AcceptedStands`), for any tasks,
criteria and number of cycles. Acyclicity needs no induction over paths: a
dependency was created before its dependent, so the order of creation ranks the
tasks, and a circle would have a first element. That accepted is final makes the other
facts stable: the code offers no way back from it, cancellation included.

`ReviewLedger_proofs` proves type correctness and all five properties of the two
passing runs. The invariant says that the facts a delivery was decided on still
stand (`DeliveredIsSettled`): at the delivery they do by its guard, and after it
because no operation reaches a closed cycle (`ClosedKept`), which for the tables
that all cycles share is not a matter of the guard alone, and because the policy
reads nothing but these facts (`PolicyKept`, `CoherentKept`). Two more parts feed
the delivery step: a gate of the current revision saw the failure
modes of a confirmed baseline as they are (`ModesAsReviewed`), and of several
gates of one subject only the last can be active (`NewerSupersedes`). From the same two, every cycle implements
`DeliveryCycle` (`Refinement`, for each `c \in Cycles`): a new gate supersedes exactly the active ones of its subject
(`ActiveIsLatest`, `GateReplaces`), a gate of another cycle reaches none of this one (`OtherReviewsKept`), and the
start of a cycle opens none that was closed (`CyclesInOrder`). The
assumptions: the three levels, a reviewer that is none is no context, at least
one cycle.

`ProjectMigration_proofs` proves type correctness and the five other
properties of the run, for any number of faults; `RecoveryIsMarked` is `HalfwayIsMarked` and
`UnverifiedIsMarked`, each a theorem of its own. `PhaseInv`: up to `Arm` the project is the
source; from `Activate` on the sentinel asks for recovery and the guard knows it, until both
halves were verified. `GuardInv`: an attempted run owes the guard its verdict. `TruthInv`:
what the manifest says, and what it is about to say in `reporting`, holds of the
project. `VerdictInv`: a verdict is only held on the way out. None of the properties is
inductive: they do not say which phases may change what.
`OneFaultIsRecovered` has an invariant of its own, `OneFaultInv`, which follows a run with at most one failed step of the try
block: until then the project is where the phase should have brought it (`ForwardInv`); from the fault on every
phase of the way back finds its bundle and leaves its part of the project restored (`BackwardInv`); and on the
way out the report and the sentinel agree with it (`EndInv`). It speaks of the past, which the state keeps: a fault
of a run is not forgotten before the next (`OneFaultBefore`), so a second one leaves the case
(`OnlyFault`). The only assumption is `MaxFaults \in Nat`.

`Files_proofs`, `Delivery_proofs` and `Commands_proofs` hold the proofs about the parts that
`MCCommands` composes, in sections.

*File operations* (`Files_proofs`): type correctness, `OnlyOwnDestroyed` and
`PublicationIsAtomic` (`ReadersFindAFile` and `OldOutlivesPublication`) for any foreign objects and any number of moves and
faults. `FilesInv`: a call is in an order (`CallInOrder`: which steps can follow from
which first look); what it deletes was looked at under a name that nobody else knows
(`DoomedIsSeen`), which is why the quarantine exists; undisturbed, a POSIX call meets
only its two objects, so an exchange never leaves the name empty (`OnlyOldAndNew`);
and the old object is displaced by the new one before it is deleted (`OldIsDisplaced`).
`CallIsAllOrNothing` (`CallAllOrNothing`) rests on a second invariant, `CallInv`. None of its parts says anything
before the call ends, so `InPlace` says for every step what the three names hold when at most one system
call failed: forth with no fault behind it, or on the way back with one, which is why no step of the way
back can fail too (`FaultsLeft`). One lemma (`Placed...`) for each action that moves an object follows it through
its outcomes. `AttributesKnown` does the same for the attributes a replacement on Windows
lifts; it needs `InPlace`, since the cleanup returns the new file's attribute only where it finds the file, and the
other way round, since the cleanup leaves a temporary file whose attribute is still lifted. `SwapIsExact` follows a name
that others changed through the exchange to the confirmation that finds it out, `RacedIsKnown` a file another program saved to the
random name and back.
The assumptions: unsafe objects are foreign, and foreign ones are not those of the call.

*Views* (`Files_proofs`): `SuccessLeavesViewsCurrent` (`ViewsAreCurrent`) and `RepairIsTrue`
(`RebuildsHeal`, `HealthyIsCurrent`) for any number of commands, edits and failures. The lemmas
`CommandsNameWhatTheyShow` and `CommandsWriteWhatTheyShow` go through all commands of `H` and show, from the tables
each one writes and the views it names, which views it may leave behind: the evidence views and `project-state`. The
invariant `ViewsInv` is about a command in the middle: what is stale is due (`StaleIsDue`), a link is
met before anything is written through it (`LinksAreNoticed`), a rebuild has everything due that is
stale or damaged (`RebuildIsThorough`), and what the doctor has compared so far is so (`DoctorIsRight`). The
properties speak of the end of a command and are not inductive. The assumption: `Exposed` are views.

*Copies of the database* (`Files_proofs`): type correctness and `StoreIsSafe` with its four parts for any number
of calls and intrusions. `StoreInv`: the copy is written under a hidden name and is
whole before it is published (`CopyIsNoted`); a journal that SQLite consumed was
there at the first look and is missed at the second, since identities are not used
twice while a call runs (`NewAreNew`, `MissingJournalShows`); from the copy to its digest nobody but
others changes it (`CopyIsFaithful`).

*Test commands* (`Delivery_proofs`): type correctness and `RecordIsTrue` with its three parts
for any set of daemons. The container properties rest on the digest: the command is
started by what was noted, on the daemon that was noted (`ImageIsNoted`), so what the
tag names later does not matter; the report on the file noted before the run
(`ResultIsFresh`).

*Reports* (`Delivery_proofs`): type correctness and `PassIsEarned` for any packages, any finite set of tests and streams of any
length. The reader keeps sets and counters, the property quantifies over the whole stream; `ReportsInv`
ties them together after every event. For go (`GoFollowed`): a test is active exactly if its last event is its start, every
event of it before that alternates (`GoTestsFollowed`), the counters are zero exactly if no such event was there
(`GoTallied`), and a closed package has one closing event and none of its tests after it (`GoClosed`). An event the
reader refuses contradicts the stream for good (`RefusedGoFails`): whatever follows, the whole does not pass. For nextest (`NextestFollowed`): a failure that was
read is not forgotten when its suite ends, what counts as executed was read, and what started ends or runs.
This is an invariant over the steps of the reader, so the induction is that of the temporal logic and needs none
over data. The documents are judged in one step; there the
proof goes through the sums and the children of each format, in documents of the two suites, two cases, and two attempts, that the
model has. The assumptions: `Tests` is finite, and the mark of a missing value is no value.

*Plans* (`Delivery_proofs`): `PlansAreWhole` and `AnswersAreTrue` with their parts, for any plans, digests, cycles, calls,
acts and crashes. `PlansInv`: between calls every plan with a marker has all its rows, and one without has none of
its own (`GoodGraph`); in a transaction nothing of another plan is lost and the rows inserted so far are a
beginning of the plan's list (`InsertsOnly`), to which a rollback is the way back (`PatchHasItsGraph`); a forecast is what the preflight would say now
(`ForecastIsGood`). `InsertedAdds` shows of each of the ten insertions that it takes nothing away. The assumptions: ids that differ in one cycle
have different stems (the ids are normalised and joined with the cycle), and a digest is not one of the marks of the model.

*Installation* (`Commands_proofs`): type correctness and `InstallationIsSound` with its four parts, for any neighbours and any number of plugin
commands and acts of others. `InstallSound` orders the steps of install, upgrade and uninstall; `WholeSoFar` says
what a plugin command that met nobody has done so far. The argument for `WhatRunsWasInstalled` follows one project command
through its two readings (`ReadingInv`): as long as the plugin is replaced at most once, a piece that was read is still there, or
gone, or what came after it is settled for the rest of the command (`FirstReading`); so when the names
of the manifests are accepted in between and the second reading agrees with the first, the
digest is one that the directory held as a whole (`SecondReading`, `DigestIsHeld`), and the private copy is
compared with that digest. `HealthInv` does the same for the doctor's three looks, while nothing
changes.

*Together* (`Commands_proofs`): `EveryPartIsItself`, that the composition implements the specification of each part; every
theorem of this list therefore holds of `MCCommands` as well, `CommandsTypeOK` with them (`CommandsStayTyped`).

Only model-checked: `LocksAreReleased` (liveness is out of the prover's reach). Only proved: the refinement of
`DeliveryCycle` by the cycles of `ReviewLedger`, a conjunction of specifications with a parameter, which TLC does not take as a
property; and `ScopeReviewed`, since what it says of the gate is in `ImplementsDeliveryCycle`.
No module declares a recursive operator.

## 5. Findings

1. `StaleQualificationDoesNotBlockDelivery` (run `EvidenceChain_Requalified`).
   `check_runtime_invariants` (`I:404-446`) holds a closed cycle to the rule
   that every qualification of it names the live digest of its target.
   Qualifications are immutable and superseded, not replaced; so after a target
   is redefined and the criterion requalified, readiness can be entered and the
   delivery can never be recorded.
2. `FreshEvidenceClearsInvalidations` (run `EvidenceChain_Invalidated`).
   Invalidations whose source is a requirement are filed by
   `invalidate_downstream` and resolved by nobody.
3. `OldTasksDoNotHoldBackQa` (run `TaskGraph_Qa`). The prerequisites of the qa
   phase count the planned, active and blocked tasks of every cycle (`H:1575`),
   the others those of the current one; the unfinished tasks of an archived
   cycle can no longer be changed, so no later cycle gets to qa. `spec.md:101-103`
   keeps old failures from blocking a new cycle.
4. `GateFindingsAgree` (run `ReviewLedger_Links`). `record_finding` gives a
   known finding the candidate of now (`H:3511`), also when a gate of an
   earlier candidate links it; `check_runtime_invariants` then reports
   `cross-cycle-gate-finding` and refuses the deliveries that follow.
   `spec.md:740` requires gate and finding to be of one candidate.

## 6. Behaviours without a property

The models have these behaviours of the code. No document of the repository denies them, so
no property does.

Evidence and tasks.
- A migration creates its sentinel before it waits for the lock; when the wait times out the
  sentinel stays and every operation fails until an operator removes it (`M:3184`).
- `confirm_scope` twice in a row makes the evaluator call the scope unconfirmed until the next
  baseline (`H:1597`).
- A failing judgment resolves the invalidations of its acceptance as a passing one does (`H:3381`).
- A blocked task has no way out, and strands its dependents; so does a cancelled dependency
  (`H:2471`).
- The producers a reviewer must differ from are those at the time of the gate (`H:3620`).
- An open finding counts for the candidate it was recorded for only (`D:1114`).
- A migration compares the content of the active database before it arms the sentinel, and only its
  identity when it replaces it (`M:4215`).

Deliveries. No lock is held on the worktree, the repository and the artifacts, and the transaction commits after its
last check (`S:1282-1284`). A source saved, a commit made or an artifact lost in that moment is not
noticed, and the delivery is recorded for a candidate that is no longer there; `DeliveryMissesOnlyLateChanges`
says that nothing earlier is missed. The commit and the artifacts are looked at before the candidate, so their window is
longer, and artifacts are looked at one after the other.

Reports. The text of a `regex` target is searched for a number of tests that ran or passed (`E:512-541`, `E:998-1000`);
the failures it states are not read, so "Ran 3 tests ... FAILED (failures=2)" and "1 failed, 3 passed" count three
tests and are a pass as far as the text goes. Only the exit code of the command stops them (`E:1595`, `E:1953`, `E:2229`),
and where structured evidence is required such a target does not count (`D:674`). A junit document
without cases is judged by its root if that has `tests`, and a failing suite below it is not read; without `tests`
its suites decide and its own failures are not read (`E:730-740`).

Files. A file that another program saves under the destination between its publication and
its verification ends under the hidden temporary name; an object of an unsafe kind that is raced
into a removal stays under the quarantine name.

Views. A command names the views it believes to be affected. Left behind are: `project-state` when
a cycle is closed (`H:1290` renders nothing; `spec.md:177` speaks of the projections affected by the
changed fact); `traceability` and `failure-modes` when a target is qualified again or defined anew, or
when the source is edited; `failure-modes` when a criterion is rewritten or a verification names
only a criterion; `deliveries` when the source is edited and the base is a commit. The doctor confirms its
sample of the artifacts before that of the source (`PJ:1237-1252`), and an artifact that changes between the two is not
noticed. The evidence views
are excluded from `SuccessLeavesViewsCurrent` for that reason; the doctor finds all of them, and a rebuild heals
them (`RebuildHeals`).

Plans. The ids of targets and qualifications carry no cycle for the first one, so plan `P-CYCLE2` of the
first cycle and plan `P` of cycle `CYCLE2` collide; the second is answered with a conflict.

Runs. A report written in place with the same bytes and times is refused as stale; a change of mode makes an
old report fresh; a report that another program writes during a local run counts (`E:1424-1443`).

Store. A rollback journal that is there at the first look is played back, and the command is then refused as
changed; one that is put between the last comparison and the first statement is not noticed; an edit in
place of the hidden copy before its digest is taken is not noticed. SQLite itself removes what has the
name of its log on closing, whoever made it.

Outside of every model: an edit of the source that is undone before a command ends (only the contents before
and after are compared, `H:3154`), and a wall clock that steps back and makes an older qualification the latest
one (`E:81`).

Plugin. Two replacements within one project command can show it the same mixture, or the same empty rest, at
both digests and at the copy; the issue it closes (`docs/audits`, 2026-07-22, LWL-P1-F2) is
one replacement after the validation, and that never runs. A checkout that is switched while it is
copied counts as another replacement: it leaves a mixed tree, which install reports as done and project commands accept if the names fit; only the doctor's digest
notices. A second registration of the plugin leaves the doctor healthy and stops project commands (`K:680`). An install that died is
refused without `--force`. `uninstall --remove-files` in the repository scope is refused after the entry is gone
(`K:921`); an upgrade of the user's plugin from its own directory removes its source first. The marketplace file is
truncated before it is written (`K:1037`): a crash there loses the entries of others and stops every later command, and
what others write between the read and the write is lost.

## 7. Plan

Done: every module of section 2, model-checked, and with its proofs.

Open, in this order:
1. That `ProjectMigration` refines the migration side of `OperationLock`. As they stand it does not:
   `Finalize` settles and removes the sentinel in one step, while the migration looks once more after
   the removal and may make the sentinel anew (`M:3129-3166`); `Finalize` has to be split first.
2. The conversion of the rows as operators.
3. The audit waterline of the event log.

Not modelled, and not planned: outcome metrics (ratios for display that no operation reads),
formatting, argument parsing, the static checks of a release's contents, schema
text and single-input validation, the hooks (a reminder), the release
tooling of `kafa/` and the evaluation drivers, which check files one after the other and
keep no state of their own between runs; reading, syncing, copying and the creation of
directories in `F`.
