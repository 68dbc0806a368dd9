--------------------------- MODULE OperationLock ---------------------------
(***************************************************************************)
(* The project operation lock of core/store.py and the migration sentinel  *)
(* of core/local_core_migration.py: who may open the active database, when.*)
(*                                                                         *)
(* A normal operation looks for the sentinel, takes the process-local      *)
(* re-entrant lock, takes the OS file lock, looks for the sentinel again,  *)
(* and works. A migration creates the sentinel first, takes the same two   *)
(* locks, captures a backup, activates the migrated database and removes   *)
(* the sentinel, if the outcome is verified, before it releases anything.  *)
(*                                                                         *)
(* Simplifications.                                                        *)
(*  - The database is the number of committed fact transactions and the    *)
(*    schema generation; one transaction per step of an operation's body.  *)
(*  - A waiter may time out at any moment: the deadline is not measured.   *)
(*  - The lock file and the directory that carries the exclusion           *)
(*    descriptor stay what they are (the identity checks of ProjectFS).    *)
(*  - Staging, manifests and projections of a migration are not here.      *)
(***************************************************************************)
EXTENDS Naturals

CONSTANTS
    Threads,
    Processes,
    ProcessOf,      \* the process each thread belongs to
    Nobody,         \* the owner of a free lock
    MaxFacts,       \* bound on committed facts
    MaxDepth        \* bound on nested operations of one thread

ASSUME ProcessOfAssumption == ProcessOf \in [Threads -> Processes]
ASSUME NobodyAssumption == Nobody \notin Threads
ASSUME BoundsAssumption == MaxFacts \in Nat /\ MaxDepth \in Nat

VARIABLES
    pc,         \* where every thread is inside project_db_operation
    purpose,    \* "normal" or "migration"
    depth,      \* nesting of the operation a thread holds
    local,      \* owner of every process-local lock
    os,         \* owner of the OS lock
    sentinel,   \* whether local-core-migration.lock exists
    stage,      \* how far the announced migration got
    captured,   \* facts in the backup the announced migration took
    facts, schema

vars == <<pc, purpose, depth, local, os, sentinel, stage, captured, facts, schema>>
locks == <<local, os>>
migration == <<sentinel, stage, captured>>
database == <<facts, schema>>

LockTypeOK ==
    /\ pc \in [Threads -> {"idle", "local", "os", "check", "in", "release"}]
    /\ purpose \in [Threads -> {"normal", "migration"}]
    /\ depth \in [Threads -> Nat]
    /\ local \in [Processes -> Threads \cup {Nobody}]
    /\ os \in Threads \cup {Nobody}
    /\ sentinel \in BOOLEAN
    /\ stage \in {"announced", "captured", "activated", "settled"}
    /\ captured \in Nat
    /\ facts \in Nat
    /\ schema \in {"source", "target"}

Init ==
    /\ pc = [t \in Threads |-> "idle"]
    /\ purpose = [t \in Threads |-> "normal"]
    /\ depth = [t \in Threads |-> 0]
    /\ local = [p \in Processes |-> Nobody]
    /\ os = Nobody
    /\ sentinel = FALSE
    /\ stage = "settled"
    /\ captured = 0
    /\ facts = 0
    /\ schema = "source"

-----------------------------------------------------------------------------
(* Entering. *)

\* The first look at the sentinel, before any lock.
Begin(t) ==
    /\ pc[t] = "idle"
    /\ ~sentinel
    /\ pc' = [pc EXCEPT ![t] = "local"]
    /\ purpose' = [purpose EXCEPT ![t] = "normal"]
    /\ UNCHANGED <<depth, locks, migration, database>>

\* _project_migration_lock: the sentinel is created exclusively.
Announce(t) ==
    /\ pc[t] = "idle"
    /\ ~sentinel
    /\ sentinel' = TRUE
    /\ stage' = "announced"
    /\ pc' = [pc EXCEPT ![t] = "local"]
    /\ purpose' = [purpose EXCEPT ![t] = "migration"]
    /\ UNCHANGED <<depth, locks, captured, database>>

AcquireLocal(t) ==
    /\ pc[t] = "local"
    /\ local[ProcessOf[t]] = Nobody
    /\ local' = [local EXCEPT ![ProcessOf[t]] = t]
    /\ pc' = [pc EXCEPT ![t] = "os"]
    /\ UNCHANGED <<purpose, depth, os, migration, database>>

\* Mutant of AcquireOs: the descriptor is not exclusive.
AcquireOs_Shared(t) ==
    /\ pc[t] = "os"
    /\ os' = t
    /\ pc' = [pc EXCEPT ![t] = "check"]
    /\ UNCHANGED <<purpose, depth, local, migration, database>>

AcquireOs(t) ==
    /\ pc[t] = "os"
    /\ os = Nobody
    /\ os' = t
    /\ pc' = [pc EXCEPT ![t] = "check"]
    /\ UNCHANGED <<purpose, depth, local, migration, database>>

\* The deadline passes before the process-local lock is free. A migration
\* leaves the sentinel it created where it is.
TimeoutLocal(t) ==
    /\ pc[t] = "local"
    /\ local[ProcessOf[t]] # Nobody
    /\ pc' = [pc EXCEPT ![t] = "idle"]
    /\ UNCHANGED <<purpose, depth, locks, migration, database>>

\* Mutant of TimeoutOs: the error path forgets the process-local lock.
TimeoutOs_KeepsLocal(t) ==
    /\ pc[t] = "os"
    /\ os # Nobody
    /\ pc' = [pc EXCEPT ![t] = "idle"]
    /\ UNCHANGED <<purpose, depth, locks, migration, database>>

\* The deadline passes while another descriptor holds the OS lock.
TimeoutOs(t) ==
    /\ pc[t] = "os"
    /\ os # Nobody
    /\ local' = [local EXCEPT ![ProcessOf[t]] = Nobody]
    /\ pc' = [pc EXCEPT ![t] = "idle"]
    /\ UNCHANGED <<purpose, depth, os, migration, database>>

\* Mutant of Check: the sentinel is not looked at again under the lock.
Check_Once(t) ==
    /\ pc[t] = "check"
    /\ pc' = [pc EXCEPT ![t] = "in"]
    /\ depth' = [depth EXCEPT ![t] = 1]
    /\ UNCHANGED <<purpose, locks, migration, database>>

\* The second look at the sentinel, under the lock.
Check(t) ==
    /\ pc[t] = "check"
    /\ IF purpose[t] = "normal" /\ sentinel
       THEN /\ pc' = [pc EXCEPT ![t] = "release"]
            /\ UNCHANGED depth
       ELSE /\ pc' = [pc EXCEPT ![t] = "in"]
            /\ depth' = [depth EXCEPT ![t] = 1]
    /\ UNCHANGED <<purpose, locks, migration, database>>

\* The thread that holds the operation enters it again; a normal operation
\* may run inside a migration, never the other way round.
Nest(t) ==
    /\ pc[t] = "in"
    /\ depth[t] < MaxDepth
    /\ depth' = [depth EXCEPT ![t] = @ + 1]
    /\ UNCHANGED <<pc, purpose, locks, migration, database>>

\* Mutant of Unnest: the outermost exit counts the depth down, too.
Unnest_Outermost(t) ==
    /\ pc[t] = "in"
    /\ depth' = [depth EXCEPT ![t] = @ - 1]
    /\ UNCHANGED <<pc, purpose, locks, migration, database>>

Unnest(t) ==
    /\ pc[t] = "in"
    /\ depth[t] > 1
    /\ depth' = [depth EXCEPT ![t] = @ - 1]
    /\ UNCHANGED <<pc, purpose, locks, migration, database>>

-----------------------------------------------------------------------------
(* The body. *)

\* A fact transaction of a normal operation commits.
CommitFact(t) ==
    /\ pc[t] = "in"
    /\ purpose[t] = "normal"
    /\ facts < MaxFacts
    /\ facts' = facts + 1
    /\ UNCHANGED <<pc, purpose, depth, locks, migration, schema>>

\* Mutant of Capture: the backup is taken before the locks are held.
Capture_Unlocked(t) ==
    /\ pc[t] # "idle"
    /\ purpose[t] = "migration"
    /\ stage = "announced"
    /\ schema = "source"
    /\ stage' = "captured"
    /\ captured' = facts
    /\ UNCHANGED <<pc, purpose, depth, locks, sentinel, database>>

\* The migration backs a supported source up and records the manifest.
Capture(t) ==
    /\ pc[t] = "in"
    /\ purpose[t] = "migration"
    /\ stage = "announced"
    /\ schema = "source"
    /\ stage' = "captured"
    /\ captured' = facts
    /\ UNCHANGED <<pc, purpose, depth, locks, sentinel, database>>

\* The staged database, built from the capture, replaces the active one.
Activate(t) ==
    /\ pc[t] = "in"
    /\ purpose[t] = "migration"
    /\ stage = "captured"
    /\ stage' = "activated"
    /\ facts' = captured
    /\ schema' = "target"
    /\ UNCHANGED <<pc, purpose, depth, locks, sentinel, captured>>

\* Verified: nothing was activated and the source is unchanged, or the
\* activated database and its projections passed every validator.
Verify(t) ==
    /\ pc[t] = "in"
    /\ purpose[t] = "migration"
    /\ stage # "settled"
    /\ stage' = "settled"
    /\ UNCHANGED <<pc, purpose, depth, locks, sentinel, captured, database>>

\* A failure after activation: the backup replaces the database and the
\* complete rollback is verified.
RollBack(t) ==
    /\ pc[t] = "in"
    /\ purpose[t] = "migration"
    /\ stage = "activated"
    /\ stage' = "settled"
    /\ facts' = captured
    /\ schema' = "source"
    /\ UNCHANGED <<pc, purpose, depth, locks, sentinel, captured>>

-----------------------------------------------------------------------------
(* Leaving. *)

\* A normal operation returns or raises.
Finish(t) ==
    /\ pc[t] = "in"
    /\ purpose[t] = "normal"
    /\ depth[t] = 1
    /\ pc' = [pc EXCEPT ![t] = "release"]
    /\ depth' = [depth EXCEPT ![t] = 0]
    /\ UNCHANGED <<purpose, locks, migration, database>>

\* Mutant of Finalize: the sentinel goes away with every migration.
Finalize_AlwaysClears(t) ==
    /\ pc[t] = "in"
    /\ purpose[t] = "migration"
    /\ depth[t] = 1
    /\ sentinel' = FALSE
    /\ pc' = [pc EXCEPT ![t] = "release"]
    /\ depth' = [depth EXCEPT ![t] = 0]
    /\ UNCHANGED <<purpose, locks, stage, captured, database>>

\* finalize_guard, still under the lock: the sentinel is removed only if the
\* outcome was verified; otherwise it stays, and names the recovery manifest.
Finalize(t) ==
    /\ pc[t] = "in"
    /\ purpose[t] = "migration"
    /\ depth[t] = 1
    /\ sentinel' = (stage # "settled")
    /\ pc' = [pc EXCEPT ![t] = "release"]
    /\ depth' = [depth EXCEPT ![t] = 0]
    /\ UNCHANGED <<purpose, locks, stage, captured, database>>

ReleaseOs(t) ==
    /\ pc[t] = "release"
    /\ os = t
    /\ os' = Nobody
    /\ UNCHANGED <<pc, purpose, depth, local, migration, database>>

ReleaseLocal(t) ==
    /\ pc[t] = "release"
    /\ os # t
    /\ local' = [local EXCEPT ![ProcessOf[t]] = Nobody]
    /\ pc' = [pc EXCEPT ![t] = "idle"]
    /\ UNCHANGED <<purpose, depth, os, migration, database>>

\* A process dies: the kernel closes its descriptors and its locks are gone;
\* the sentinel is a file and stays.
Crash(p) ==
    /\ \E t \in Threads : ProcessOf[t] = p /\ pc[t] # "idle"
    /\ pc' = [t \in Threads |-> IF ProcessOf[t] = p THEN "idle" ELSE pc[t]]
    /\ depth' = [t \in Threads |-> IF ProcessOf[t] = p THEN 0 ELSE depth[t]]
    /\ local' = [local EXCEPT ![p] = Nobody]
    /\ os' = IF os # Nobody /\ ProcessOf[os] = p THEN Nobody ELSE os
    /\ UNCHANGED <<purpose, migration, database>>

\* The operator, with no migration running, verifies both authorities against
\* the manifest and removes the sentinel.
Recover ==
    /\ sentinel
    /\ \A t \in Threads : pc[t] = "idle"
    /\ sentinel' = FALSE
    /\ stage' = "settled"
    /\ UNCHANGED <<pc, purpose, depth, locks, captured, database>>

-----------------------------------------------------------------------------
Step(t) ==
    \/ AcquireLocal(t) \/ AcquireOs(t) \/ TimeoutLocal(t) \/ TimeoutOs(t)
    \/ Check(t) \/ Unnest(t) \/ Finish(t) \/ Finalize(t)
    \/ ReleaseOs(t) \/ ReleaseLocal(t)

Body(t) ==
    \/ Begin(t) \/ Announce(t) \/ Nest(t) \/ CommitFact(t)
    \/ Capture(t) \/ Activate(t) \/ Verify(t) \/ RollBack(t)

Next ==
    \/ \E t \in Threads : Step(t) \/ Body(t)
    \/ \E p \in Processes : Crash(p)
    \/ Recover

Spec == Init /\ [][Next]_vars

\* A thread goes on with what project_db_operation does by itself, a waiter
\* gets the lock or reaches its deadline, and the body of every operation ends,
\* whatever it nests on the way (commands and connections have deadlines).
Fairness ==
    \A t \in Threads :
        /\ WF_vars(AcquireLocal(t) \/ TimeoutLocal(t))
        /\ WF_vars(AcquireOs(t) \/ TimeoutOs(t))
        /\ WF_vars(Check(t))
        /\ WF_vars(ReleaseOs(t) \/ ReleaseLocal(t))
        /\ SF_vars(Finish(t) \/ Finalize(t))
        /\ WF_vars(Unnest(t))

FairSpec == Spec /\ Fairness

-----------------------------------------------------------------------------
(* Properties. *)

Inside(t) == pc[t] \in {"check", "in"}

\* Two operations, of one process or of two, are never past the OS lock at
\* the same time, however waiting, timeouts and crashes interleave
\* (project_db_operation).
MutualExclusion ==
    \A t, u \in Threads : Inside(t) /\ Inside(u) => t = u

\* From its capture until its outcome is verified, or an operator recovered
\* the project, the backup of a migration holds every committed fact: a writer
\* that passed the first sentinel check before the announcement commits before
\* the capture or not at all, and none gets in behind a migration that died
\* (project_db_operation, finalize_guard; "a new read or write fails with
\* migration-in-progress", spec.md:235).
BackupIsCurrent ==
    stage \in {"captured", "activated"} => facts = captured

\* The operations and migrations of all processes implement an atomic
\* database that loses no fact (ProjectDatabase).
Database == INSTANCE ProjectDatabase WITH
    settled <- stage # "activated"
ImplementsDatabase == Database!DbSpec

\* Whoever holds the OS lock gives it back, and so does whoever waits for it
\* the process-local lock: no error path keeps a lock.
LocksAreReleased ==
    /\ \A t \in Threads : (os = t) ~> (os # t)
    /\ \A t \in Threads : (local[ProcessOf[t]] = t) ~> (local[ProcessOf[t]] # t)
=============================================================================
