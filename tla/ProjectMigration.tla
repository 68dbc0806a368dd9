-------------------------- MODULE ProjectMigration --------------------------
(***************************************************************************)
(* One migration of a project to the target schema, as                     *)
(* core/local_core_migration.py carries it out: the sentinel, the backup   *)
(* and its manifest, the staged database, the replacement of the active    *)
(* one, the publication of the projections, and the way back from a fault  *)
(* at any of these steps.                                                  *)
(*                                                                         *)
(* A step may fail before its effect ("clean") or after it ("half"), the   *)
(* process may be killed between two steps, and another program that       *)
(* ignores the operation lock may change one file in a run. The code       *)
(* compares identities (device, inode, kind, mode, links) where it says    *)
(* "snapshot" and contents where it says "digest" or "fingerprint": a      *)
(* database edited in place keeps its identity, a replaced one does not.   *)
(*                                                                         *)
(* Simplifications.                                                        *)
(*  - A database, the projections and the files of the recovery bundle are *)
(*    each one value that says which side of the migration they are on.    *)
(*  - Once a fallback manifest is published, manifest is that file.        *)
(*  - SQLite sidecars go with their database.                              *)
(*  - The lock and who waits for it are in OperationLock.                  *)
(***************************************************************************)
EXTENDS Naturals, FiniteSets

CONSTANT MaxFaults      \* bound on the steps of one run that fail

ASSUME MaxFaultsAssumption == MaxFaults \in Nat

VARIABLES
    pc,
    sentinel,   \* local-core-migration.lock: its status, or "none"
    db,         \* the active database
    staged,     \* whether the staging database is in its place
    proj,       \* the projections of the project
    bundle,     \* the recovery bundle: verified backup and projection copies
    manifest,   \* recovery manifest: its status, whether it is the one receipted
    guard,      \* _MigrationGuard; lock: its receipt of the sentinel is current
    run,        \* the locals of _migrate_project_to_target
    faults,     \* the steps of this run that failed, and how
    tampered    \* whether another program interfered with this run

vars == <<pc, sentinel, db, staged, proj, bundle, manifest, guard, run, faults, tampered>>
project == <<db, proj>>
recovery == <<bundle, manifest>>

Body == {"staging", "comparing", "arming", "activating", "publishing", "recording", "confirming"}
Rollback == {"detecting", "preserving", "restoring", "verifying", "rerendering", "settling"}
Ending == {"reporting", "rearming", "closing", "clearing", "unlinking", "rechecking"}
Phases == {"checking", "saving", "capturing"} \cup Body \cup Rollback \cup Ending
Recovering == {"recovery-required", "rollback-incomplete"}
Statuses == {"backup-created", "staged", "activated", "rolled-back", "failed-before-activation",
             "source-changed-before-activation", "rollback-incomplete"}

\* moved, kept: what became of the failed database; status: what the manifest
\* is to say; next: where write_failure_manifest returns to.
Runs == [attempted: BOOLEAN, activated: BOOLEAN, diverged: BOOLEAN, moved: BOOLEAN,
         kept: BOOLEAN, status: Statuses \cup {"none"},
         next: {"closing", "rearming", "settling"},
         verdict: {"none", "untouched", "success", "source", "killed"}]

TypeOK ==
    /\ pc \in {"idle"} \cup Phases
    /\ sentinel \in {"none", "announced", "migration-failed"} \cup Recovering
    /\ db \in {"source", "target", "edited", "replaced", "none"}
    /\ staged \in BOOLEAN
    /\ proj \in {"source", "partial", "target", "foreign"}
    /\ bundle \in {"none", "backup", "full", "tampered"}
    /\ manifest \in [status: Statuses \cup {"none"}, sound: BOOLEAN]
    /\ guard \in [recovery: BOOLEAN, lock: BOOLEAN]
    /\ run \in Runs
    /\ faults \subseteq (Phases \X {"clean", "half"})
    /\ tampered \in BOOLEAN

FreshRun == [attempted |-> FALSE, activated |-> FALSE, diverged |-> FALSE, moved |-> FALSE,
             kept |-> TRUE, status |-> "none", next |-> "closing", verdict |-> "none"]

Init ==
    /\ pc = "idle"
    /\ sentinel = "none"
    /\ db = "source"
    /\ staged = FALSE
    /\ proj = "source"
    /\ bundle = "none"
    /\ manifest = [status |-> "none", sound |-> TRUE]
    /\ guard = [recovery |-> FALSE, lock |-> TRUE]
    /\ run = FreshRun
    /\ faults = {}
    /\ tampered = FALSE

\* This step fails.
Fault(kind) ==
    /\ faults' = faults \cup {<<pc, kind>>}
    /\ Cardinality(faults') <= MaxFaults

\* This step fails, or finds something that is not as it left it.
FaultUnless(found) ==
    \/ Fault("clean")
    \/ ~found /\ UNCHANGED faults

Goto(p) == pc' = p /\ UNCHANGED faults

-----------------------------------------------------------------------------
(* Before anything can change. *)

\* _project_migration_lock creates the sentinel before it waits for the lock.
Announce ==
    /\ pc = "idle"
    /\ sentinel = "none"
    /\ sentinel' = "announced"
    /\ guard' = [recovery |-> FALSE, lock |-> TRUE]
    /\ run' = FreshRun
    /\ faults' = {}
    /\ tampered' = FALSE
    /\ pc' = "checking"
    /\ UNCHANGED <<project, staged, recovery>>

\* The lock is not free, or a step before the first manifest raises: the
\* guard knows of no manifest and leaves the sentinel as it is.
EarlyFault ==
    /\ pc \in {"checking", "saving"}
    /\ Fault("clean")
    /\ pc' = "idle"
    /\ UNCHANGED <<sentinel, project, staged, recovery, guard, run, tampered>>

\* A project of the target schema, or one the preflight refuses, is left alone.
Refuse ==
    /\ pc = "checking"
    /\ run' = [run EXCEPT !.verdict = "untouched"]
    /\ Goto("clearing")
    /\ UNCHANGED <<sentinel, project, staged, recovery, guard, tampered>>

\* What the project is now is the source of this run.
Accept ==
    /\ pc = "checking"
    /\ db # "target"
    /\ db' = "source"
    /\ proj' = "source"
    /\ Goto("saving")
    /\ UNCHANGED <<sentinel, staged, recovery, guard, run, tampered>>

\* backup_sqlite_database and the first manifest, in a new directory. If the
\* receipt of the manifest fails, the guard has its path already.
BackUp ==
    /\ pc = "saving"
    /\ bundle' = "backup"
    /\ manifest' = [status |-> "backup-created", sound |-> TRUE]
    /\ staged' = FALSE
    /\ \/ Goto("capturing")
       \/ Fault("half") /\ pc' = "closing"
    /\ UNCHANGED <<sentinel, project, guard, run, tampered>>

\* Leave for write_failure_manifest with a status, and where to go from there.
Reporting(status, next) ==
    /\ pc' = "reporting"
    /\ run' = [run EXCEPT !.status = status, !.next = next]

\* _create_projection_backup, the receipts of the bundle and the manifest.
CaptureProjections ==
    /\ pc = "capturing"
    /\ \/ /\ bundle = "backup" /\ manifest.sound
          /\ bundle' = "full"
          /\ proj' = "source"
          /\ Goto("staging")
          /\ UNCHANGED <<manifest, run>>
       \/ /\ Fault("clean")
          /\ Reporting("failed-before-activation", "closing")
          /\ UNCHANGED <<proj, recovery>>
       \/ /\ FaultUnless(bundle = "backup" /\ manifest.sound)
          /\ Reporting("rollback-incomplete", "rearming")
          /\ UNCHANGED <<proj, recovery>>
       \/ /\ Fault("half")
          /\ Reporting("rollback-incomplete", "rearming")
          /\ manifest' = [manifest EXCEPT !.sound = FALSE]
          /\ UNCHANGED <<proj, bundle>>
    /\ UNCHANGED <<sentinel, db, staged, guard, tampered>>

-----------------------------------------------------------------------------
(* The try block: a step that raises goes to "detecting". *)

\* stage_function and the manifest; the staged database is validated.
Stage ==
    /\ pc = "staging"
    /\ \/ /\ manifest.sound
          /\ staged' = TRUE
          /\ manifest' = [status |-> "staged", sound |-> TRUE]
          /\ Goto("comparing")
       \/ /\ FaultUnless(manifest.sound)
          /\ staged' \in BOOLEAN
          /\ pc' = "detecting"
          /\ UNCHANGED manifest
       \/ /\ manifest.sound
          /\ Fault("half")
          /\ staged' = TRUE
          /\ manifest' = [status |-> "staged", sound |-> FALSE]
          /\ pc' = "detecting"
    /\ UNCHANGED <<sentinel, project, bundle, guard, run, tampered>>

\* The active database still is, and still says, what was staged.
CompareSource ==
    /\ pc = "comparing"
    /\ \/ db = "source" /\ Goto("arming")
       \/ FaultUnless(db = "source") /\ pc' = "detecting"
    /\ UNCHANGED <<sentinel, project, staged, recovery, guard, run, tampered>>

\* require_recovery: what is on disk after it, and the guard.
Armed(receipted) ==
    /\ sentinel' = "recovery-required"
    /\ guard' = [recovery |-> TRUE, lock |-> receipted]

NotArmed ==
    /\ guard' = [guard EXCEPT !.recovery = TRUE]
    /\ UNCHANGED sentinel

\* Mutant of Arm: the announced sentinel is taken to be enough.
Arm_Announced ==
    /\ pc = "arming"
    /\ guard' = [guard EXCEPT !.recovery = TRUE]
    /\ Goto("activating")
    /\ UNCHANGED <<sentinel, project, staged, recovery, run, tampered>>

\* The last step before the database is replaced.
Arm ==
    /\ pc = "arming"
    /\ \/ manifest.sound /\ guard.lock /\ Armed(TRUE) /\ Goto("activating")
       \/ FaultUnless(manifest.sound /\ guard.lock) /\ NotArmed /\ pc' = "detecting"
       \/ /\ manifest.sound /\ guard.lock
          /\ Fault("half")
          /\ \E receipted \in BOOLEAN : Armed(receipted)
          /\ pc' = "detecting"
    /\ UNCHANGED <<project, staged, recovery, run, tampered>>

\* _activate_staging_database: refused if the active file was replaced.
Activate ==
    /\ pc = "activating"
    /\ \/ /\ db # "replaced"
          /\ db' = "target"
          /\ staged' = FALSE
          /\ \/ Goto("publishing") /\ run' = [run EXCEPT !.attempted = TRUE, !.activated = TRUE]
             \/ Fault("half") /\ pc' = "detecting" /\ run' = [run EXCEPT !.attempted = TRUE]
       \/ /\ FaultUnless(db # "replaced")
          /\ run' = [run EXCEPT !.attempted = TRUE]
          /\ pc' = "detecting"
          /\ UNCHANGED <<db, staged>>
    /\ UNCHANGED <<sentinel, proj, recovery, guard, tampered>>

\* Doctor, the callback that renders the projections, and the checks of both.
Publish ==
    /\ pc = "publishing"
    /\ \/ /\ db = "target" /\ bundle = "full"
          /\ proj' = "target"
          /\ Goto("recording")
       \/ /\ FaultUnless(db = "target" /\ bundle = "full")
          /\ proj' \in {proj, "partial", "target"}
          /\ pc' = "detecting"
    /\ UNCHANGED <<sentinel, db, staged, recovery, guard, run, tampered>>

\* The manifest of a success, before the last look at everything it names.
Record ==
    /\ pc = "recording"
    /\ \/ /\ manifest.sound
          /\ manifest' = [status |-> "activated", sound |-> TRUE]
          /\ Goto("confirming")
       \/ /\ FaultUnless(manifest.sound)
          /\ pc' = "detecting"
          /\ UNCHANGED manifest
       \/ /\ manifest.sound
          /\ Fault("half")
          /\ manifest' = [status |-> "activated", sound |-> FALSE]
          /\ pc' = "detecting"
    /\ UNCHANGED <<sentinel, project, staged, bundle, guard, run, tampered>>

Migrated == db = "target" /\ proj = "target" /\ bundle = "full" /\ manifest.sound
Restored == db = "source" /\ proj = "source" /\ bundle = "full" /\ manifest.sound

Confirm ==
    /\ pc = "confirming"
    /\ \/ /\ Migrated
          /\ run' = [run EXCEPT !.verdict = "success"]
          /\ Goto("clearing")
       \/ /\ FaultUnless(Migrated)
          /\ pc' = "detecting"
          /\ UNCHANGED run
    /\ UNCHANGED <<sentinel, project, staged, recovery, guard, tampered>>

-----------------------------------------------------------------------------
(* The way back. *)

\* The active file has the identity of the staged one.
Ours == ~staged /\ db \in {"target", "edited"}

\* Mutant of Detect: what _activate_staging_database returned decides.
Detect_Returned ==
    /\ pc = "detecting"
    /\ Goto(IF run.activated THEN "preserving" ELSE "verifying")
    /\ UNCHANGED <<sentinel, project, staged, recovery, guard, run, tampered>>

\* Did a replacement that raised take place? If that cannot be told, it did.
Detect ==
    /\ pc = "detecting"
    /\ \/ /\ run.activated \/ ~run.attempted
          /\ Goto(IF run.activated THEN "preserving" ELSE "verifying")
          /\ UNCHANGED run
       \/ /\ run.attempted /\ ~run.activated
          /\ run' = [run EXCEPT !.activated = ~staged,
                                !.diverged = staged /\ db = "replaced"]
          /\ Goto(IF ~staged THEN "preserving" ELSE "verifying")
       \/ /\ run.attempted /\ ~run.activated
          /\ Fault("clean")
          /\ run' = [run EXCEPT !.activated = TRUE]
          /\ pc' = "preserving"
    /\ UNCHANGED <<sentinel, project, staged, recovery, guard, tampered>>

\* _preserve_failed_schema30 moves the failed database away, or copies it, or
\* gives up; only an interrupt, which is no Exception, stops the way back.
Preserve ==
    /\ pc = "preserving"
    /\ \/ /\ Ours
          /\ db' = "none"
          /\ run' = [run EXCEPT !.moved = TRUE]
          /\ Goto("restoring")
       \/ /\ Ours
          /\ Fault("half")
          /\ db' = "none"
          /\ \E receipted \in BOOLEAN : run' = [run EXCEPT !.moved = receipted, !.kept = FALSE]
          /\ pc' = "restoring"
       \/ /\ FaultUnless(Ours)
          /\ \/ run' = [run EXCEPT !.kept = FALSE]
             \/ Ours /\ UNCHANGED run
          /\ pc' = "restoring"
          /\ UNCHANGED db
       \/ /\ Fault("clean")
          /\ db' \in {db} \cup (IF Ours THEN {"none"} ELSE {})
          /\ pc' = "closing"
          /\ UNCHANGED run
    /\ UNCHANGED <<sentinel, staged, proj, recovery, guard, tampered>>

\* The file the backup is to replace, or the absence of one, is as expected.
Expected == IF run.moved THEN db = "none" ELSE Ours

\* Mutant of Restore: the backup replaces whatever is there.
Restore_Anything ==
    /\ pc = "restoring"
    /\ db' = "source"
    /\ Goto("rerendering")
    /\ UNCHANGED <<sentinel, staged, proj, recovery, guard, run, tampered>>

\* _restore_verified_backup. A bundle another program touched may have lost
\* the backup, or something else.
Restore ==
    /\ pc = "restoring"
    /\ \/ /\ Expected
          /\ db' = "source"
          /\ Goto("rerendering")
          /\ UNCHANGED run
       \/ /\ FaultUnless(Expected /\ bundle = "full")
          /\ Reporting("rollback-incomplete", "closing")
          /\ UNCHANGED db
       \/ /\ Expected
          /\ Fault("half")
          /\ db' = "source"
          /\ Reporting("rollback-incomplete", "closing")
    /\ UNCHANGED <<sentinel, staged, proj, recovery, guard, tampered>>

\* No replacement took place: the staged database is moved away, whatever
\* comes of it, and the source must be what it was. It is never restored.
VerifySource ==
    /\ pc = "verifying"
    /\ staged' \in {staged, FALSE}
    /\ \/ db = "source" /\ Goto("rerendering") /\ UNCHANGED run
       \/ /\ FaultUnless(db = "source")
          /\ IF run.diverged
             THEN Reporting("rollback-incomplete", "rearming")
             ELSE Reporting("source-changed-before-activation", "closing")
       \/ Fault("half") /\ pc' = "closing" /\ UNCHANGED run
    /\ UNCHANGED <<sentinel, project, recovery, guard, tampered>>

\* Mutant of RestoreProjections: a failure is logged, and the way back goes on.
RestoreProjections_Shrug ==
    /\ pc = "rerendering"
    /\ \/ proj' = "source" /\ UNCHANGED faults
       \/ proj' = proj /\ FaultUnless(bundle = "full")
    /\ Reporting(IF run.activated THEN "rolled-back" ELSE "failed-before-activation", "settling")
    /\ UNCHANGED <<sentinel, db, staged, recovery, guard, tampered>>

\* _restore_projection_backup, file by file, and what the manifest will say.
RestoreProjections ==
    /\ pc = "rerendering"
    /\ \/ /\ proj' = "source"
          /\ UNCHANGED faults
          /\ IF run.activated /\ ~run.kept
             THEN Reporting("rollback-incomplete", "closing")
             ELSE Reporting(IF run.activated THEN "rolled-back" ELSE "failed-before-activation",
                            "settling")
       \/ /\ FaultUnless(bundle = "full")
          /\ proj' \in {proj} \cup (IF proj = "target" THEN {"partial"} ELSE {})
          /\ Reporting("rollback-incomplete", IF run.activated THEN "closing" ELSE "rearming")
    /\ UNCHANGED <<sentinel, db, staged, recovery, guard, tampered>>

\* Everything the manifest claims is compared once more before it counts.
Settle ==
    /\ pc = "settling"
    /\ \/ /\ Restored
          /\ guard' = [guard EXCEPT !.recovery = FALSE]
          /\ run' = [run EXCEPT !.verdict = "source"]
          /\ Goto("clearing")
       \/ /\ FaultUnless(Restored)
          /\ Reporting("rollback-incomplete", "rearming")
          /\ UNCHANGED guard
    /\ UNCHANGED <<sentinel, project, staged, recovery, tampered>>

-----------------------------------------------------------------------------
(* The end of a run: the manifest, the guard, the sentinel. *)

\* write_failure_manifest: over the receipted manifest, else beside it and
\* with the sentinel armed, else not at all.
Report ==
    /\ pc = "reporting"
    /\ \/ /\ manifest.sound
          /\ manifest' = [status |-> run.status, sound |-> TRUE]
          /\ Goto(run.next)
          /\ UNCHANGED <<sentinel, guard, run>>
       \/ /\ FaultUnless(manifest.sound)
          /\ manifest' = [status |-> "rollback-incomplete", sound |-> TRUE]
          /\ run' = [run EXCEPT !.status = "rollback-incomplete"]
          /\ IF guard.lock
             THEN Armed(TRUE) /\ pc' = IF run.next = "settling" THEN "closing" ELSE run.next
             ELSE NotArmed /\ pc' = "closing"
       \/ /\ Fault("half")
          /\ run' = [run EXCEPT !.status = "rollback-incomplete"]
          /\ pc' = "closing"
          /\ UNCHANGED <<sentinel, manifest, guard>>
    /\ UNCHANGED <<project, staged, bundle, tampered>>

\* require_recovery on the way out.
Rearm ==
    /\ pc = "rearming"
    /\ \/ manifest.sound /\ guard.lock /\ Armed(TRUE) /\ UNCHANGED faults
       \/ FaultUnless(manifest.sound /\ guard.lock) /\ NotArmed
       \/ /\ manifest.sound /\ guard.lock
          /\ Fault("half")
          /\ \E receipted \in BOOLEAN : Armed(receipted)
    /\ pc' = "closing"
    /\ UNCHANGED <<project, staged, recovery, run, tampered>>

\* Mutant of Close: the sentinel is given the status of the manifest.
Close_Status ==
    /\ pc = "closing"
    /\ guard.lock \/ sentinel = "none"
    /\ sentinel' = IF guard.recovery THEN "rollback-incomplete" ELSE run.status
    /\ Goto("idle")
    /\ UNCHANGED <<project, staged, recovery, guard, run, tampered>>

\* finalize_guard after a failure. A sentinel that is not the receipted one,
\* or cannot be written, stays; one that is gone is made anew.
Close ==
    /\ pc = "closing"
    /\ \/ /\ guard.lock \/ sentinel = "none"
          /\ sentinel' = IF guard.recovery THEN "rollback-incomplete" ELSE "migration-failed"
          /\ UNCHANGED faults
       \/ /\ FaultUnless(guard.lock \/ sentinel = "none")
          /\ UNCHANGED sentinel
    /\ pc' = "idle"
    /\ UNCHANGED <<project, staged, recovery, guard, run, tampered>>

\* What the verdict of the run rests on.
Authorities ==
    \/ run.verdict = "untouched"
    \/ run.verdict = "success" /\ Migrated
    \/ run.verdict = "source" /\ Restored

\* Mutant of ClearFails: the guard does not come to require recovery again.
ClearFails_Safe ==
    /\ run' = [run EXCEPT !.verdict = "none"]
    /\ pc' = "closing"
    /\ UNCHANGED guard

\* The verdict does not stand: publish_terminal_authority_failure, unless
\* there is nothing to publish, and the sentinel once more.
ClearFails ==
    /\ guard' = [guard EXCEPT !.recovery = TRUE]
    /\ IF run.verdict = "untouched"
       THEN run' = [run EXCEPT !.verdict = "none"] /\ pc' = "closing"
       ELSE /\ run' = [run EXCEPT !.verdict = "none", !.status = "rollback-incomplete",
                                  !.next = "rearming"]
            /\ pc' = "reporting"

VerifyClear ==
    /\ pc = "clearing"
    /\ \/ Authorities /\ Goto("unlinking") /\ UNCHANGED <<guard, run>>
       \/ FaultUnless(Authorities) /\ ClearFails
    /\ UNCHANGED <<sentinel, project, staged, recovery, tampered>>

Unlink ==
    /\ pc = "unlinking"
    /\ \/ guard.lock /\ sentinel' = "none" /\ Goto("rechecking") /\ UNCHANGED <<guard, run>>
       \/ FaultUnless(guard.lock) /\ ClearFails /\ UNCHANGED sentinel
    /\ UNCHANGED <<project, staged, recovery, tampered>>

\* The sentinel was removed, and its receipt was not taken.
UnlinkUnnoticed ==
    /\ pc = "unlinking"
    /\ guard.lock
    /\ Fault("half")
    /\ sentinel' = "none"
    /\ run' = [run EXCEPT !.verdict = "none", !.status = "rollback-incomplete",
                          !.next = "rearming"]
    /\ pc' = IF run.verdict = "untouched" THEN "closing" ELSE "reporting"
    /\ guard' = [recovery |-> TRUE, lock |-> FALSE]
    /\ UNCHANGED <<project, staged, recovery, tampered>>

\* Mutant of VerifyCleared: what was verified before the sentinel went stands.
VerifyCleared_Never ==
    /\ pc = "rechecking"
    /\ Goto("idle")
    /\ UNCHANGED <<sentinel, project, staged, recovery, guard, run, tampered>>

\* Still under the operation lock.
VerifyCleared ==
    /\ pc = "rechecking"
    /\ \/ Authorities /\ Goto("idle") /\ UNCHANGED <<guard, run>>
       \/ FaultUnless(Authorities) /\ ClearFails
    /\ UNCHANGED <<sentinel, project, staged, recovery, tampered>>

-----------------------------------------------------------------------------
(* What is not the program. *)

\* The process is killed; the operating system releases the lock.
Crash ==
    /\ pc # "idle"
    /\ pc' = "idle"
    /\ run' = [run EXCEPT !.verdict = "killed"]
    /\ UNCHANGED <<sentinel, project, staged, recovery, guard, faults, tampered>>

\* A program that does not take the lock changes a file, once in a run.
Interfere ==
    /\ pc # "idle"
    /\ ~tampered
    /\ tampered' = TRUE
    /\ \/ db' \in {"replaced"} \cup (IF db = "none" THEN {} ELSE {"edited"})
          /\ UNCHANGED <<proj, recovery>>
       \/ proj' = "foreign" /\ UNCHANGED <<db, recovery>>
       \/ bundle # "none" /\ bundle' = "tampered" /\ UNCHANGED <<project, manifest>>
       \/ manifest' = [manifest EXCEPT !.sound = FALSE] /\ UNCHANGED <<project, bundle>>
    /\ UNCHANGED <<pc, sentinel, staged, guard, run, faults>>

Run ==
    \/ Refuse \/ Accept \/ BackUp \/ CaptureProjections
    \/ Stage \/ CompareSource \/ Arm \/ Activate \/ Publish \/ Record \/ Confirm
    \/ Detect \/ Preserve \/ Restore \/ VerifySource \/ RestoreProjections \/ Settle
    \/ Report \/ Rearm \/ Close
    \/ VerifyClear \/ Unlink \/ UnlinkUnnoticed \/ VerifyCleared

Next == Announce \/ EarlyFault \/ Run \/ Crash \/ Interfere

Spec == Init /\ [][Next]_vars

-----------------------------------------------------------------------------
(* Properties. *)

\* Database and projections are on one side; what another program wrote is on
\* either.
Source == db \in {"source", "edited", "replaced"} /\ proj \in {"source", "foreign"}
Target == db \in {"target", "edited", "replaced"} /\ proj \in {"target", "foreign"}

\* At no moment, a crash included, is a project between two schemas, without
\* a database or with some of its projections rewritten, unless the sentinel
\* says that it must be recovered.
HalfwayIsMarked == Source \/ Target \/ sentinel \in Recovering

\* A run that tried to replace the database and ends with neither outcome
\* verified leaves a sentinel that asks for recovery. Only when it was removed
\* already may it be missing: the process was killed, or it was not written.
UnverifiedIsMarked ==
    pc = "idle" /\ run.attempted /\ run.verdict \in {"none", "killed"} =>
        \/ sentinel \in Recovering
        \/ sentinel = "none" /\ (run.verdict = "killed" \/ <<"closing", "clean">> \in faults)

\* Whatever needs recovery is marked, while a run is at work and after it.
RecoveryIsMarked == HalfwayIsMarked /\ UnverifiedIsMarked

\* A manifest that says the project was brought back, or was never changed,
\* is right even if the run gets no further; and a project that nothing marks
\* is where its manifest says it was brought.
ManifestIsTrue ==
    /\ manifest.status \in {"rolled-back", "failed-before-activation"} => Source
    /\ manifest.status = "activated" /\ sentinel = "none" => Target

\* A run that ends without a word of failure, or as a failure that left the
\* project as it was, removed the sentinel over files nobody else touched since
\* it wrote them, and it keeps a bundle to go back with.
ClearedWasVerified ==
    pc = "idle" =>
        /\ run.verdict = "success" => sentinel = "none" /\ Migrated /\ manifest.status = "activated"
        /\ run.verdict = "source" =>
               /\ sentinel = "none" /\ Restored
               /\ manifest.status \in {"rolled-back", "failed-before-activation"}

\* No step replaces a database file another program put in place of the one
\* the run knows: neither the activation nor a restored backup.
ForeignDatabaseKept == [][Run /\ pc # "checking" /\ db = "replaced" => db' = "replaced"]_vars

\* One step of the try block that fails, and nothing else, ends with the
\* source project, no sentinel and a project that can be migrated again. Not
\* so if the manifest or the sentinel was written and its receipt was not.
OneFaultIsRecovered ==
    (/\ pc = "idle" /\ run.verdict # "killed"
     /\ ~tampered
     /\ \E step \in Body : faults = {<<step, "clean">>} \/ faults = {<<"activating", "half">>})
        => sentinel = "none" /\ Restored
=============================================================================
