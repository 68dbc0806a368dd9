------------------------ MODULE OperationLock_proofs ------------------------
(***************************************************************************)
(* Proofs about OperationLock, for every set of threads and processes.     *)
(*                                                                         *)
(* Mutual exclusion needs only that whoever is past the OS lock owns it.   *)
(* That no fact is lost needs the sentinel: it is there from the           *)
(* announcement of a migration until the outcome is settled, and while a   *)
(* backup is all that a rollback would restore, no normal operation is in. *)
(***************************************************************************)
EXTENDS OperationLock, TLAPS

\* Whoever is past the OS lock owns it.
InsideOwnsLock == \A t \in Threads : Inside(t) => os = t

\* An unsettled migration has its sentinel.
UnsettledIsAnnounced == stage # "settled" => sentinel

\* While the backup may still be restored, it is current and no normal
\* operation is in.
BackupGuarded ==
    stage \in {"captured", "activated"} =>
        /\ facts = captured
        /\ \A t \in Threads : pc[t] = "in" => purpose[t] = "migration"

\* The inductive invariant.
LockInv ==
    /\ LockTypeOK
    /\ InsideOwnsLock
    /\ UnsettledIsAnnounced
    /\ BackupGuarded

-----------------------------------------------------------------------------
\* Every step keeps the types.
LEMMA Typing == LockTypeOK /\ [Next]_vars => LockTypeOK'
<1> SUFFICES ASSUME LockTypeOK, [Next]_vars PROVE LockTypeOK'
  OBVIOUS
<1> USE ProcessOfAssumption, NobodyAssumption
    DEF LockTypeOK, locks, migration, database
<1>1. ASSUME NEW t \in Threads, Step(t) PROVE LockTypeOK'
  <2>1. CASE AcquireLocal(t)
    BY <2>1 DEF AcquireLocal
  <2>2. CASE AcquireOs(t)
    BY <2>2 DEF AcquireOs
  <2>3. CASE TimeoutLocal(t)
    BY <2>3 DEF TimeoutLocal
  <2>4. CASE TimeoutOs(t)
    BY <2>4 DEF TimeoutOs
  <2>5. CASE Check(t)
    BY <2>5 DEF Check
  <2>6. CASE Unnest(t)
    BY <2>6 DEF Unnest
  <2>7. CASE Finish(t)
    BY <2>7 DEF Finish
  <2>8. CASE Finalize(t)
    BY <2>8 DEF Finalize
  <2>9. CASE ReleaseOs(t)
    BY <2>9 DEF ReleaseOs
  <2>10. CASE ReleaseLocal(t)
    BY <2>10 DEF ReleaseLocal
  <2> QED
    BY <1>1, <2>1, <2>2, <2>3, <2>4, <2>5, <2>6, <2>7, <2>8, <2>9, <2>10 DEF Step
<1>2. ASSUME NEW t \in Threads, Body(t) PROVE LockTypeOK'
  <2>1. CASE Begin(t)
    BY <2>1 DEF Begin
  <2>2. CASE Announce(t)
    BY <2>2 DEF Announce
  <2>3. CASE Nest(t)
    BY <2>3 DEF Nest
  <2>4. CASE CommitFact(t)
    BY <2>4 DEF CommitFact
  <2>5. CASE Capture(t)
    BY <2>5 DEF Capture
  <2>6. CASE Activate(t)
    BY <2>6 DEF Activate
  <2>7. CASE Verify(t)
    BY <2>7 DEF Verify
  <2>8. CASE RollBack(t)
    BY <2>8 DEF RollBack
  <2> QED
    BY <1>2, <2>1, <2>2, <2>3, <2>4, <2>5, <2>6, <2>7, <2>8 DEF Body
<1>3. ASSUME NEW p \in Processes, Crash(p) PROVE LockTypeOK'
  BY <1>3 DEF Crash
<1>4. CASE Recover
  BY <1>4 DEF Recover
<1>5. CASE UNCHANGED vars
  BY <1>5 DEF vars
<1> QED
  BY <1>1, <1>2, <1>3, <1>4, <1>5 DEF Next

\* The initial state is of the types.
LEMMA TypeInit == Init => LockTypeOK
<1> SUFFICES ASSUME Init PROVE LockTypeOK
  OBVIOUS
<1>1. /\ pc \in [Threads -> {"idle", "local", "os", "check", "in", "release"}]
      /\ purpose \in [Threads -> {"normal", "migration"}]
      /\ depth \in [Threads -> Nat]
      /\ local \in [Processes -> Threads \cup {Nobody}]
  BY DEF Init
<1>2. /\ sentinel \in BOOLEAN
      /\ stage \in {"announced", "captured", "activated", "settled"}
      /\ schema \in {"source", "target"}
      /\ os \in Threads \cup {Nobody}
      /\ captured \in Nat /\ facts \in Nat
  BY DEF Init
<1> QED
  BY <1>1, <1>2 DEF LockTypeOK

\* The types hold in every reachable state (project_db_operation).
THEOREM TypeCorrect == Spec => []LockTypeOK
BY TypeInit, Typing, PTL DEF Spec

\* Every step keeps the inductive invariant.
LEMMA Induction == LockInv /\ [Next]_vars => LockInv'
<1> SUFFICES ASSUME LockInv, [Next]_vars PROVE LockInv'
  OBVIOUS
<1> USE ProcessOfAssumption, NobodyAssumption DEF LockInv
<1>0. LockTypeOK'
  BY Typing
<1> USE <1>0
<1>1. ASSUME NEW t \in Threads, Step(t) PROVE LockInv'
  <2> USE DEF LockTypeOK, InsideOwnsLock, UnsettledIsAnnounced, BackupGuarded, Inside,
              locks, migration, database
  <2>1. CASE AcquireLocal(t)
    BY <2>1 DEF AcquireLocal
  <2>2. CASE AcquireOs(t)
    BY <2>2 DEF AcquireOs
  <2>3. CASE TimeoutLocal(t)
    BY <2>3 DEF TimeoutLocal
  <2>4. CASE TimeoutOs(t)
    BY <2>4 DEF TimeoutOs
  <2>5. CASE Check(t)
    BY <2>5 DEF Check
  <2>6. CASE Unnest(t)
    BY <2>6 DEF Unnest
  <2>7. CASE Finish(t)
    BY <2>7 DEF Finish
  <2>8. CASE Finalize(t)
    BY <2>8 DEF Finalize
  <2>9. CASE ReleaseOs(t)
    BY <2>9 DEF ReleaseOs
  <2>10. CASE ReleaseLocal(t)
    BY <2>10 DEF ReleaseLocal
  <2> QED
    BY <1>1, <2>1, <2>2, <2>3, <2>4, <2>5, <2>6, <2>7, <2>8, <2>9, <2>10 DEF Step
<1>2. ASSUME NEW t \in Threads, Body(t) PROVE LockInv'
  <2> USE DEF LockTypeOK, InsideOwnsLock, UnsettledIsAnnounced, BackupGuarded, Inside,
              locks, migration, database
  <2>1. CASE Begin(t)
    BY <2>1 DEF Begin
  <2>2. CASE Announce(t)
    BY <2>2 DEF Announce
  <2>3. CASE Nest(t)
    BY <2>3 DEF Nest
  <2>4. CASE CommitFact(t)
    BY <2>4 DEF CommitFact
  <2>5. CASE Capture(t)
    BY <2>5 DEF Capture
  <2>6. CASE Activate(t)
    BY <2>6 DEF Activate
  <2>7. CASE Verify(t)
    BY <2>7 DEF Verify
  <2>8. CASE RollBack(t)
    BY <2>8 DEF RollBack
  <2> QED
    BY <1>2, <2>1, <2>2, <2>3, <2>4, <2>5, <2>6, <2>7, <2>8 DEF Body
<1>3. ASSUME NEW p \in Processes, Crash(p) PROVE LockInv'
  <2> USE DEF LockTypeOK, InsideOwnsLock, UnsettledIsAnnounced, BackupGuarded, Inside
  <2>1. \A t \in Threads : pc'[t] # "idle" => ProcessOf[t] # p /\ pc'[t] = pc[t]
    BY <1>3 DEF Crash
  <2>2. \A t \in Threads : os = t /\ ProcessOf[t] # p => os' = t
    BY <1>3 DEF Crash
  <2>3. UNCHANGED <<purpose, sentinel, stage, captured, facts, schema>>
    BY <1>3 DEF Crash, migration, database
  <2> QED
    BY <2>1, <2>2, <2>3
<1>4. CASE Recover
  BY <1>4 DEF Recover, locks, database, InsideOwnsLock, UnsettledIsAnnounced,
              BackupGuarded, Inside
<1>5. CASE UNCHANGED vars
  BY <1>5 DEF vars, InsideOwnsLock, UnsettledIsAnnounced, BackupGuarded, Inside
<1> QED
  BY <1>1, <1>2, <1>3, <1>4, <1>5 DEF Next

\* The inductive invariant holds in every reachable state.
THEOREM Invariance == Spec => []LockInv
<1>1. Init => LockInv
  BY TypeInit DEF Init, LockInv, InsideOwnsLock, UnsettledIsAnnounced,
                  BackupGuarded, Inside
<1> QED
  BY <1>1, Induction, PTL DEF Spec

-----------------------------------------------------------------------------
\* No two operations are past the OS lock at once (project_db_operation).
THEOREM Exclusion == Spec => []MutualExclusion
<1>1. LockInv => MutualExclusion
  BY DEF LockInv, InsideOwnsLock, MutualExclusion
<1> QED
  BY <1>1, Invariance, PTL

\* The backup a rollback would restore is current (finalize_guard).
THEOREM BackupStaysCurrent == Spec => []BackupIsCurrent
<1>1. LockInv => BackupIsCurrent
  BY DEF LockInv, BackupGuarded, BackupIsCurrent
<1> QED
  BY <1>1, Invariance, PTL

-----------------------------------------------------------------------------
(* Refinement. *)

\* Every step is a step of the database or a stutter.
LEMMA StepSimulation == LockInv /\ [Next]_vars => [Database!DbNext]_(Database!dbVars)
<1> SUFFICES ASSUME LockInv, [Next]_vars PROVE [Database!DbNext]_(Database!dbVars)
  OBVIOUS
<1> USE DEF Database!DbNext, Database!dbVars
<1>1. CASE UNCHANGED <<facts, schema, stage>>
  BY <1>1
<1>2. ASSUME NEW t \in Threads, CommitFact(t) PROVE Database!Commit
  <2>1. stage # "activated"
    BY <1>2 DEF CommitFact, LockInv, BackupGuarded
  <2> QED
    BY <1>2, <2>1 DEF CommitFact, Database!Commit, migration
<1>3. ASSUME NEW t \in Threads, Activate(t) PROVE Database!Change
  <2>1. facts = captured
    BY <1>3 DEF Activate, LockInv, BackupGuarded
  <2> QED
    BY <1>3, <2>1 DEF Activate, Database!Change
<1>4. ASSUME NEW t \in Threads, RollBack(t) PROVE Database!RollBack
  <2>1. facts = captured
    BY <1>4 DEF RollBack, LockInv, BackupGuarded
  <2> QED
    BY <1>4, <2>1 DEF RollBack, Database!RollBack
<1>5. ASSUME NEW t \in Threads, Verify(t)
      PROVE  Database!Settle \/ UNCHANGED Database!dbVars
  BY <1>5 DEF Verify, database, Database!Settle
<1>6. ASSUME Recover PROVE Database!Settle \/ UNCHANGED Database!dbVars
  BY <1>6 DEF Recover, database, Database!Settle
<1>7. ASSUME NEW t \in Threads, Announce(t) PROVE UNCHANGED Database!dbVars
  BY <1>7 DEF Announce, database, LockInv, UnsettledIsAnnounced
<1>8. ASSUME NEW t \in Threads, Capture(t) PROVE UNCHANGED Database!dbVars
  BY <1>8 DEF Capture, database
<1>9. ASSUME NEW t \in Threads, Step(t) PROVE UNCHANGED <<facts, schema, stage>>
  BY <1>9 DEF Step, AcquireLocal, AcquireOs, TimeoutLocal, TimeoutOs, Check, Unnest,
      Finish, Finalize, ReleaseOs, ReleaseLocal, migration, database
<1>10. ASSUME NEW t \in Threads, Begin(t) \/ Nest(t) PROVE UNCHANGED <<facts, schema, stage>>
  BY <1>10 DEF Begin, Nest, migration, database
<1>11. ASSUME NEW p \in Processes, Crash(p) PROVE UNCHANGED <<facts, schema, stage>>
  BY <1>11 DEF Crash, migration, database
<1>12. CASE UNCHANGED vars
  BY <1>1, <1>12 DEF vars
<1> QED
  BY <1>1, <1>2, <1>3, <1>4, <1>5, <1>6, <1>7, <1>8, <1>9, <1>10, <1>11, <1>12
  DEF Next, Body

\* Operations and migrations implement the database that loses no fact
\* (project_db_operation, _project_migration_lock, _migrate_project_to_target).
THEOREM Refinement == Spec => ImplementsDatabase
<1>1. Init => Database!DbInit
  BY DEF Init, Database!DbInit
<1> QED
  BY <1>1, StepSimulation, Invariance, PTL
  DEF Spec, ImplementsDatabase, Database!DbSpec
=============================================================================
