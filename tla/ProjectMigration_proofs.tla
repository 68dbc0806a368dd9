---------------------- MODULE ProjectMigration_proofs -----------------------
(***************************************************************************)
(* Proofs about ProjectMigration, for any number of faults in a run.       *)
(*                                                                         *)
(* Up to the replacement of the database nothing of the project changes;   *)
(* from there on the sentinel asks for recovery and the guard knows it,    *)
(* until both halves were verified to be on one side again.  That a single *)
(* failed step is wholly undone needs more: what each phase leaves of the  *)
(* project when nothing else went wrong (OneFaultInv).                     *)
(***************************************************************************)
EXTENDS ProjectMigration, TLAPS

Marked == sentinel \in Recovering /\ guard.recovery
Back == {"rolled-back", "failed-before-activation"}
Leaving == {"clearing", "unlinking", "rechecking"}

\* Where the run is, and what that says of the project.
PhaseInv ==
    /\ pc \in {"saving", "capturing", "staging", "comparing", "arming"} => Source
    /\ pc \in {"activating", "publishing", "recording", "confirming", "preserving", "restoring"}
        => Marked
    /\ pc \in {"detecting", "verifying", "rerendering"} => Marked \/ Source
    /\ pc = "detecting" /\ (run.attempted \/ run.activated) => Marked
    /\ pc \in {"settling", "reporting", "rearming", "closing"} => Marked \/ Source \/ Target
    /\ pc \in {"checking", "saving", "capturing", "staging", "comparing", "arming"}
        => ~run.attempted /\ ~run.activated
    /\ pc \in {"checking", "unlinking", "rechecking"} => Source \/ Target
    /\ pc = "clearing" /\ run.verdict = "untouched" => Source \/ Target
    /\ HalfwayIsMarked

\* What an attempted run still owes the guard.
GuardInv ==
    /\ sentinel = "none" => pc \in {"idle", "rechecking", "reporting", "rearming", "closing"}
    /\ pc # "idle" /\ run.attempted => sentinel \in Recovering \cup {"none"}
    /\ run.attempted => pc \in {"idle"} \cup Leaving \/ guard.recovery
    /\ sentinel = "none" /\ pc = "reporting" => run.next = "rearming"
    /\ pc # "idle" => run.verdict # "killed"
    /\ UnverifiedIsMarked

\* What the manifest says, or is about to say.
TruthInv ==
    /\ pc \in {"capturing", "detecting", "preserving", "restoring", "verifying", "rerendering"}
            \cup Body
        => manifest.status \notin Back
    /\ pc \in {"saving", "rerendering"} => db \in {"source", "edited", "replaced"}
    /\ run.status # "activated"
    /\ pc = "reporting" /\ run.status \in Back => Source
    /\ pc = "reporting" /\ run.next = "settling" => run.status \in Back
    /\ pc = "settling" => manifest.status \in Back
    /\ pc = "confirming" => manifest.status = "activated"
    /\ pc \in {"checking"} \cup Leaving /\ manifest.status = "activated" => Target
    /\ ManifestIsTrue

\* What a verdict rests on.
VerdictInv ==
    /\ run.verdict \in {"success", "source"} => pc \in {"idle"} \cup Leaving
    /\ pc \in Leaving => run.verdict \in {"untouched", "success", "source"}
    /\ pc \in Leaving /\ run.verdict = "success" => manifest.status = "activated"
    /\ pc \in Leaving /\ run.verdict = "source" => manifest.status \in Back
    /\ pc = "rechecking" => sentinel = "none"
    /\ ClearedWasVerified

\* The inductive invariant.
IInv == TypeOK /\ PhaseInv /\ GuardInv /\ TruthInv /\ VerdictInv

-----------------------------------------------------------------------------
(* A step preserves each part. *)

\* A step that fails is a step of the run, and fails in one of two ways.
LEMMA FaultsStep ==
    ASSUME TypeOK, [Next]_vars
    PROVE  faults' \subseteq (Phases \X {"clean", "half"})
<1> DEFINE Recorded ==
        \/ faults' \in {faults, {}}
        \/ pc # "idle" /\ \E k \in {"clean", "half"} : faults' = faults \cup {<<pc, k>>}
<1> USE DEF Goto, Fault, FaultUnless
<1>1. ASSUME Announce PROVE Recorded
  BY <1>1 DEF Announce
<1>2. ASSUME EarlyFault PROVE Recorded
  BY <1>2 DEF EarlyFault
<1>3. ASSUME Refuse PROVE Recorded
  BY <1>3 DEF Refuse
<1>4. ASSUME Accept PROVE Recorded
  BY <1>4 DEF Accept
<1>5. ASSUME BackUp PROVE Recorded
  BY <1>5 DEF BackUp
<1>6. ASSUME CaptureProjections PROVE Recorded
  BY <1>6 DEF CaptureProjections
<1>7. ASSUME Stage PROVE Recorded
  BY <1>7 DEF Stage
<1>8. ASSUME CompareSource PROVE Recorded
  BY <1>8 DEF CompareSource
<1>9. ASSUME Arm PROVE Recorded
  BY <1>9 DEF Arm
<1>10. ASSUME Activate PROVE Recorded
  BY <1>10 DEF Activate
<1>11. ASSUME Publish PROVE Recorded
  BY <1>11 DEF Publish
<1>12. ASSUME Record PROVE Recorded
  BY <1>12 DEF Record
<1>13. ASSUME Confirm PROVE Recorded
  BY <1>13 DEF Confirm
<1>14. ASSUME Detect PROVE Recorded
  BY <1>14 DEF Detect
<1>15. ASSUME Preserve PROVE Recorded
  BY <1>15 DEF Preserve
<1>16. ASSUME Restore PROVE Recorded
  BY <1>16 DEF Restore
<1>17. ASSUME VerifySource PROVE Recorded
  BY <1>17 DEF VerifySource
<1>18. ASSUME RestoreProjections PROVE Recorded
  BY <1>18 DEF RestoreProjections
<1>19. ASSUME Settle PROVE Recorded
  BY <1>19 DEF Settle
<1>20. ASSUME Report PROVE Recorded
  BY <1>20 DEF Report
<1>21. ASSUME Rearm PROVE Recorded
  BY <1>21 DEF Rearm
<1>22. ASSUME Close PROVE Recorded
  BY <1>22 DEF Close
<1>23. ASSUME VerifyClear PROVE Recorded
  BY <1>23 DEF VerifyClear
<1>24. ASSUME Unlink PROVE Recorded
  BY <1>24 DEF Unlink
<1>25. ASSUME UnlinkUnnoticed PROVE Recorded
  BY <1>25 DEF UnlinkUnnoticed
<1>26. ASSUME VerifyCleared PROVE Recorded
  BY <1>26 DEF VerifyCleared
<1>27. ASSUME Crash PROVE Recorded
  BY <1>27 DEF Crash
<1>28. ASSUME Interfere PROVE Recorded
  BY <1>28 DEF Interfere
<1>29. ASSUME UNCHANGED vars PROVE Recorded
  BY <1>29 DEF vars
<1>30. Recorded
  BY <1>1, <1>2, <1>3, <1>4, <1>5, <1>6, <1>7, <1>8, <1>9, <1>10, <1>11,
     <1>12, <1>13, <1>14, <1>15, <1>16, <1>17, <1>18, <1>19, <1>20, <1>21,
     <1>22, <1>23, <1>24, <1>25, <1>26, <1>27, <1>28, <1>29 DEF Next, Run
<1> QED
  BY <1>30 DEF TypeOK

\* A run goes on or ends.
LEMMA PhasesStep ==
    ASSUME TypeOK, [Next]_vars
    PROVE  pc' \in {"idle"} \cup Phases
<1>0. pc \in {"idle"} \cup Phases /\ run.next \in {"closing", "rearming", "settling"}
  BY DEF TypeOK, Runs
<1> USE DEF Goto, Reporting
<1>1. CASE Announce
  BY <1>0, <1>1 DEF Announce, Phases, Body, Rollback, Ending
<1>2. CASE EarlyFault
  BY <1>0, <1>2 DEF EarlyFault, Phases, Body, Rollback, Ending
<1>3. CASE Refuse
  BY <1>0, <1>3 DEF Refuse, Phases, Body, Rollback, Ending
<1>4. CASE Accept
  BY <1>0, <1>4 DEF Accept, Phases, Body, Rollback, Ending
<1>5. CASE BackUp
  BY <1>0, <1>5 DEF BackUp, Phases, Body, Rollback, Ending
<1>6. CASE CaptureProjections
  BY <1>0, <1>6 DEF CaptureProjections, Phases, Body, Rollback, Ending
<1>7. CASE Stage
  BY <1>0, <1>7 DEF Stage, Phases, Body, Rollback, Ending
<1>8. CASE CompareSource
  BY <1>0, <1>8 DEF CompareSource, Phases, Body, Rollback, Ending
<1>9. CASE Arm
  BY <1>0, <1>9 DEF Arm, Phases, Body, Rollback, Ending
<1>10. CASE Activate
  BY <1>0, <1>10 DEF Activate, Phases, Body, Rollback, Ending
<1>11. CASE Publish
  BY <1>0, <1>11 DEF Publish, Phases, Body, Rollback, Ending
<1>12. CASE Record
  BY <1>0, <1>12 DEF Record, Phases, Body, Rollback, Ending
<1>13. CASE Confirm
  BY <1>0, <1>13 DEF Confirm, Phases, Body, Rollback, Ending
<1>14. CASE Detect
  BY <1>0, <1>14 DEF Detect, Phases, Body, Rollback, Ending
<1>15. CASE Preserve
  BY <1>0, <1>15 DEF Preserve, Phases, Body, Rollback, Ending
<1>16. CASE Restore
  BY <1>0, <1>16 DEF Restore, Phases, Body, Rollback, Ending
<1>17. CASE VerifySource
  BY <1>0, <1>17 DEF VerifySource, Phases, Body, Rollback, Ending
<1>18. CASE RestoreProjections
  BY <1>0, <1>18 DEF RestoreProjections, Phases, Body, Rollback, Ending
<1>19. CASE Settle
  BY <1>0, <1>19 DEF Settle, Phases, Body, Rollback, Ending
<1>20. CASE Report
  BY <1>0, <1>20 DEF Report, Phases, Body, Rollback, Ending
<1>21. CASE Rearm
  BY <1>0, <1>21 DEF Rearm, Phases, Body, Rollback, Ending
<1>22. CASE Close
  BY <1>0, <1>22 DEF Close, Phases, Body, Rollback, Ending
<1>23. CASE VerifyClear
  BY <1>0, <1>23 DEF VerifyClear, ClearFails, Phases, Body, Rollback, Ending
<1>24. CASE Unlink
  BY <1>0, <1>24 DEF Unlink, ClearFails, Phases, Body, Rollback, Ending
<1>25. CASE UnlinkUnnoticed
  BY <1>0, <1>25 DEF UnlinkUnnoticed, Phases, Body, Rollback, Ending
<1>26. CASE VerifyCleared
  BY <1>0, <1>26 DEF VerifyCleared, ClearFails, Phases, Body, Rollback,
    Ending
<1>27. CASE Crash
  BY <1>0, <1>27 DEF Crash, Phases, Body, Rollback, Ending
<1>28. CASE Interfere
  BY <1>0, <1>28 DEF Interfere
<1>29. CASE UNCHANGED vars
  BY <1>0, <1>29 DEF vars
<1> QED
  BY <1>1, <1>2, <1>3, <1>4, <1>5, <1>6, <1>7, <1>8, <1>9, <1>10, <1>11,
     <1>12, <1>13, <1>14, <1>15, <1>16, <1>17, <1>18, <1>19, <1>20, <1>21,
     <1>22, <1>23, <1>24, <1>25, <1>26, <1>27, <1>28, <1>29 DEF Next, Run

\* The locals.
LEMMA RunStep ==
    ASSUME TypeOK, [Next]_vars
    PROVE  run' \in Runs
<1>0. run \in Runs /\ staged \in BOOLEAN
  BY DEF TypeOK
<1> USE DEF Goto, Reporting, Runs, Statuses
<1>1. CASE Announce
  BY <1>0, <1>1 DEF Announce, FreshRun
<1>2. CASE EarlyFault
  BY <1>0, <1>2 DEF EarlyFault
<1>3. CASE Refuse
  BY <1>0, <1>3 DEF Refuse
<1>4. CASE Accept
  BY <1>0, <1>4 DEF Accept
<1>5. CASE BackUp
  BY <1>0, <1>5 DEF BackUp
<1>6. CASE CaptureProjections
  BY <1>0, <1>6 DEF CaptureProjections
<1>7. CASE Stage
  BY <1>0, <1>7 DEF Stage
<1>8. CASE CompareSource
  BY <1>0, <1>8 DEF CompareSource
<1>9. CASE Arm
  BY <1>0, <1>9 DEF Arm
<1>10. CASE Activate
  BY <1>0, <1>10 DEF Activate
<1>11. CASE Publish
  BY <1>0, <1>11 DEF Publish
<1>12. CASE Record
  BY <1>0, <1>12 DEF Record
<1>13. CASE Confirm
  BY <1>0, <1>13 DEF Confirm
<1>14. CASE Detect
  BY <1>0, <1>14 DEF Detect
<1>15. CASE Preserve
  BY <1>0, <1>15 DEF Preserve
<1>16. CASE Restore
  BY <1>0, <1>16 DEF Restore
<1>17. CASE VerifySource
  BY <1>0, <1>17, ZenonT(60) DEF VerifySource
<1>18. CASE RestoreProjections
  BY <1>0, <1>18, ZenonT(60) DEF RestoreProjections
<1>19. CASE Settle
  BY <1>0, <1>19 DEF Settle
<1>20. CASE Report
  BY <1>0, <1>20 DEF Report
<1>21. CASE Rearm
  BY <1>0, <1>21 DEF Rearm
<1>22. CASE Close
  BY <1>0, <1>22 DEF Close
<1>23. CASE VerifyClear
  BY <1>0, <1>23, ZenonT(60) DEF VerifyClear, ClearFails
<1>24. CASE Unlink
  BY <1>0, <1>24, ZenonT(60) DEF Unlink, ClearFails
<1>25. CASE UnlinkUnnoticed
  BY <1>0, <1>25 DEF UnlinkUnnoticed
<1>26. CASE VerifyCleared
  BY <1>0, <1>26, ZenonT(60) DEF VerifyCleared, ClearFails
<1>27. CASE Crash
  BY <1>0, <1>27 DEF Crash
<1>28. CASE Interfere
  BY <1>0, <1>28 DEF Interfere
<1>29. CASE UNCHANGED vars
  BY <1>0, <1>29 DEF vars
<1> QED
  BY <1>1, <1>2, <1>3, <1>4, <1>5, <1>6, <1>7, <1>8, <1>9, <1>10, <1>11,
     <1>12, <1>13, <1>14, <1>15, <1>16, <1>17, <1>18, <1>19, <1>20, <1>21,
     <1>22, <1>23, <1>24, <1>25, <1>26, <1>27, <1>28, <1>29 DEF Next, Run

\* The files.
LEMMA FilesStep ==
    ASSUME TypeOK, [Next]_vars
    PROVE  /\ sentinel' \in {"none", "announced", "migration-failed"} \cup Recovering
           /\ db' \in {"source", "target", "edited", "replaced", "none"}
           /\ proj' \in {"source", "partial", "target", "foreign"}
           /\ bundle' \in {"none", "backup", "full", "tampered"}
           /\ staged' \in BOOLEAN /\ tampered' \in BOOLEAN
<1>0. /\ sentinel \in {"none", "announced", "migration-failed"} \cup Recovering
      /\ db \in {"source", "target", "edited", "replaced", "none"}
      /\ proj \in {"source", "partial", "target", "foreign"}
      /\ bundle \in {"none", "backup", "full", "tampered"}
      /\ staged \in BOOLEAN /\ tampered \in BOOLEAN
  BY DEF TypeOK
<1> USE DEF project, recovery, Recovering
<1>1. CASE Announce
  BY <1>0, <1>1 DEF Announce
<1>2. CASE EarlyFault
  BY <1>0, <1>2 DEF EarlyFault
<1>3. CASE Refuse
  BY <1>0, <1>3 DEF Refuse
<1>4. CASE Accept
  BY <1>0, <1>4 DEF Accept
<1>5. CASE BackUp
  BY <1>0, <1>5 DEF BackUp
<1>6. CASE CaptureProjections
  BY <1>0, <1>6 DEF CaptureProjections
<1>7. CASE Stage
  BY <1>0, <1>7 DEF Stage
<1>8. CASE CompareSource
  BY <1>0, <1>8 DEF CompareSource
<1>9. CASE Arm
  BY <1>0, <1>9 DEF Arm, Armed, NotArmed
<1>10. CASE Activate
  BY <1>0, <1>10 DEF Activate
<1>11. CASE Publish
  BY <1>0, <1>11 DEF Publish
<1>12. CASE Record
  BY <1>0, <1>12 DEF Record
<1>13. CASE Confirm
  BY <1>0, <1>13 DEF Confirm
<1>14. CASE Detect
  BY <1>0, <1>14 DEF Detect
<1>15. CASE Preserve
  BY <1>0, <1>15 DEF Preserve
<1>16. CASE Restore
  BY <1>0, <1>16 DEF Restore
<1>17. CASE VerifySource
  BY <1>0, <1>17 DEF VerifySource
<1>18. CASE RestoreProjections
  BY <1>0, <1>18 DEF RestoreProjections
<1>19. CASE Settle
  BY <1>0, <1>19 DEF Settle
<1>20. CASE Report
  BY <1>0, <1>20 DEF Report, Armed, NotArmed
<1>21. CASE Rearm
  BY <1>0, <1>21 DEF Rearm, Armed, NotArmed
<1>22. CASE Close
  BY <1>0, <1>22 DEF Close
<1>23. CASE VerifyClear
  BY <1>0, <1>23 DEF VerifyClear
<1>24. CASE Unlink
  BY <1>0, <1>24 DEF Unlink
<1>25. CASE UnlinkUnnoticed
  BY <1>0, <1>25 DEF UnlinkUnnoticed
<1>26. CASE VerifyCleared
  BY <1>0, <1>26 DEF VerifyCleared
<1>27. CASE Crash
  BY <1>0, <1>27 DEF Crash
<1>28. CASE Interfere
  BY <1>0, <1>28 DEF Interfere
<1>29. CASE UNCHANGED vars
  BY <1>0, <1>29 DEF vars
<1> QED
  BY <1>1, <1>2, <1>3, <1>4, <1>5, <1>6, <1>7, <1>8, <1>9, <1>10, <1>11,
     <1>12, <1>13, <1>14, <1>15, <1>16, <1>17, <1>18, <1>19, <1>20, <1>21,
     <1>22, <1>23, <1>24, <1>25, <1>26, <1>27, <1>28, <1>29 DEF Next, Run

\* The manifest.
LEMMA ManifestStep ==
    ASSUME TypeOK, [Next]_vars
    PROVE  manifest' \in [status: Statuses \cup {"none"}, sound: BOOLEAN]
<1>0. manifest \in [status: Statuses \cup {"none"}, sound: BOOLEAN] /\ run \in Runs
  BY DEF TypeOK
<1> USE DEF recovery, Runs, Statuses
<1>1. CASE Announce
  BY <1>0, <1>1 DEF Announce
<1>2. CASE EarlyFault
  BY <1>0, <1>2 DEF EarlyFault
<1>3. CASE Refuse
  BY <1>0, <1>3 DEF Refuse
<1>4. CASE Accept
  BY <1>0, <1>4 DEF Accept
<1>5. CASE BackUp
  BY <1>0, <1>5 DEF BackUp
<1>6. CASE CaptureProjections
  BY <1>0, <1>6 DEF CaptureProjections
<1>7. CASE Stage
  <2>1. \/ manifest' = manifest
        \/ manifest' = [status |-> "staged", sound |-> TRUE]
        \/ manifest' = [status |-> "staged", sound |-> FALSE]
    BY <1>7, Zenon DEF Stage
  <2>2. CASE manifest' = manifest
    BY <1>0, <2>2
  <2>3. CASE manifest' = [status |-> "staged", sound |-> TRUE]
    BY <1>0, <2>3
  <2>4. CASE manifest' = [status |-> "staged", sound |-> FALSE]
    BY <1>0, <2>4
  <2> QED
    BY <2>1, <2>2, <2>3, <2>4
<1>8. CASE CompareSource
  BY <1>0, <1>8 DEF CompareSource
<1>9. CASE Arm
  BY <1>0, <1>9 DEF Arm
<1>10. CASE Activate
  BY <1>0, <1>10 DEF Activate
<1>11. CASE Publish
  BY <1>0, <1>11 DEF Publish
<1>12. CASE Record
  <2>1. \/ manifest' = manifest
        \/ manifest' = [status |-> "activated", sound |-> TRUE]
        \/ manifest' = [status |-> "activated", sound |-> FALSE]
    BY <1>12, Zenon DEF Record
  <2>2. CASE manifest' = manifest
    BY <1>0, <2>2
  <2>3. CASE manifest' = [status |-> "activated", sound |-> TRUE]
    BY <1>0, <2>3
  <2>4. CASE manifest' = [status |-> "activated", sound |-> FALSE]
    BY <1>0, <2>4
  <2> QED
    BY <2>1, <2>2, <2>3, <2>4
<1>13. CASE Confirm
  BY <1>0, <1>13 DEF Confirm
<1>14. CASE Detect
  BY <1>0, <1>14 DEF Detect
<1>15. CASE Preserve
  BY <1>0, <1>15 DEF Preserve
<1>16. CASE Restore
  BY <1>0, <1>16 DEF Restore
<1>17. CASE VerifySource
  BY <1>0, <1>17 DEF VerifySource
<1>18. CASE RestoreProjections
  BY <1>0, <1>18 DEF RestoreProjections
<1>19. CASE Settle
  BY <1>0, <1>19 DEF Settle
<1>20. CASE Report
  <2>1. \/ manifest' = manifest
        \/ manifest' = [status |-> run.status, sound |-> TRUE]
        \/ manifest' = [status |-> "rollback-incomplete", sound |-> TRUE]
    BY <1>20, Zenon DEF Report
  <2>2. CASE manifest' = manifest
    BY <1>0, <2>2
  <2>3. CASE manifest' = [status |-> run.status, sound |-> TRUE]
    BY <1>0, <2>3
  <2>4. CASE manifest' = [status |-> "rollback-incomplete", sound |-> TRUE]
    BY <1>0, <2>4
  <2> QED
    BY <2>1, <2>2, <2>3, <2>4
<1>21. CASE Rearm
  BY <1>0, <1>21 DEF Rearm
<1>22. CASE Close
  BY <1>0, <1>22 DEF Close
<1>23. CASE VerifyClear
  BY <1>0, <1>23 DEF VerifyClear
<1>24. CASE Unlink
  BY <1>0, <1>24 DEF Unlink
<1>25. CASE UnlinkUnnoticed
  BY <1>0, <1>25 DEF UnlinkUnnoticed
<1>26. CASE VerifyCleared
  BY <1>0, <1>26 DEF VerifyCleared
<1>27. CASE Crash
  BY <1>0, <1>27 DEF Crash
<1>28. CASE Interfere
  BY <1>0, <1>28 DEF Interfere
<1>29. CASE UNCHANGED vars
  BY <1>0, <1>29 DEF vars
<1> QED
  BY <1>1, <1>2, <1>3, <1>4, <1>5, <1>6, <1>7, <1>8, <1>9, <1>10, <1>11,
     <1>12, <1>13, <1>14, <1>15, <1>16, <1>17, <1>18, <1>19, <1>20, <1>21,
     <1>22, <1>23, <1>24, <1>25, <1>26, <1>27, <1>28, <1>29 DEF Next, Run

\* The guard.
LEMMA GuardTypeStep ==
    ASSUME TypeOK, [Next]_vars
    PROVE  guard' \in [recovery: BOOLEAN, lock: BOOLEAN]
<1>0. guard \in [recovery: BOOLEAN, lock: BOOLEAN]
  BY DEF TypeOK
<1> USE DEF Armed, NotArmed, ClearFails
<1>1. CASE Announce
  BY <1>0, <1>1 DEF Announce
<1>2. CASE EarlyFault
  BY <1>0, <1>2 DEF EarlyFault
<1>3. CASE Refuse
  BY <1>0, <1>3 DEF Refuse
<1>4. CASE Accept
  BY <1>0, <1>4 DEF Accept
<1>5. CASE BackUp
  BY <1>0, <1>5 DEF BackUp
<1>6. CASE CaptureProjections
  BY <1>0, <1>6 DEF CaptureProjections
<1>7. CASE Stage
  BY <1>0, <1>7 DEF Stage
<1>8. CASE CompareSource
  BY <1>0, <1>8 DEF CompareSource
<1>9. CASE Arm
  <2>1. \/ guard' = [guard EXCEPT !.recovery = TRUE]
        \/ \E b \in BOOLEAN : guard' = [recovery |-> TRUE, lock |-> b]
    BY <1>9, Zenon DEF Arm
  <2>2. CASE guard' = [guard EXCEPT !.recovery = TRUE]
    BY <1>0, <2>2
  <2>3. ASSUME NEW b \in BOOLEAN, guard' = [recovery |-> TRUE, lock |-> b]
        PROVE  guard' \in [recovery: BOOLEAN, lock: BOOLEAN]
    BY <1>0, <2>3
  <2> QED
    BY <2>1, <2>2, <2>3
<1>10. CASE Activate
  BY <1>0, <1>10 DEF Activate
<1>11. CASE Publish
  BY <1>0, <1>11 DEF Publish
<1>12. CASE Record
  BY <1>0, <1>12 DEF Record
<1>13. CASE Confirm
  BY <1>0, <1>13 DEF Confirm
<1>14. CASE Detect
  BY <1>0, <1>14 DEF Detect
<1>15. CASE Preserve
  BY <1>0, <1>15 DEF Preserve
<1>16. CASE Restore
  BY <1>0, <1>16 DEF Restore
<1>17. CASE VerifySource
  BY <1>0, <1>17 DEF VerifySource
<1>18. CASE RestoreProjections
  BY <1>0, <1>18 DEF RestoreProjections
<1>19. CASE Settle
  BY <1>0, <1>19 DEF Settle
<1>20. CASE Report
  <2>1. \/ guard' = guard
        \/ guard' = [guard EXCEPT !.recovery = TRUE]
        \/ \E b \in BOOLEAN : guard' = [recovery |-> TRUE, lock |-> b]
    BY <1>20, Zenon DEF Report
  <2>2. CASE guard' = guard
    BY <1>0, <2>2
  <2>3. CASE guard' = [guard EXCEPT !.recovery = TRUE]
    BY <1>0, <2>3
  <2>4. ASSUME NEW b \in BOOLEAN, guard' = [recovery |-> TRUE, lock |-> b]
        PROVE  guard' \in [recovery: BOOLEAN, lock: BOOLEAN]
    BY <1>0, <2>4
  <2> QED
    BY <2>1, <2>2, <2>3, <2>4
<1>21. CASE Rearm
  <2>1. \/ guard' = [guard EXCEPT !.recovery = TRUE]
        \/ \E b \in BOOLEAN : guard' = [recovery |-> TRUE, lock |-> b]
    BY <1>21, Zenon DEF Rearm
  <2>2. CASE guard' = [guard EXCEPT !.recovery = TRUE]
    BY <1>0, <2>2
  <2>3. ASSUME NEW b \in BOOLEAN, guard' = [recovery |-> TRUE, lock |-> b]
        PROVE  guard' \in [recovery: BOOLEAN, lock: BOOLEAN]
    BY <1>0, <2>3
  <2> QED
    BY <2>1, <2>2, <2>3
<1>22. CASE Close
  BY <1>0, <1>22 DEF Close
<1>23. CASE VerifyClear
  BY <1>0, <1>23 DEF VerifyClear
<1>24. CASE Unlink
  BY <1>0, <1>24 DEF Unlink
<1>25. CASE UnlinkUnnoticed
  BY <1>0, <1>25 DEF UnlinkUnnoticed
<1>26. CASE VerifyCleared
  BY <1>0, <1>26 DEF VerifyCleared
<1>27. CASE Crash
  BY <1>0, <1>27 DEF Crash
<1>28. CASE Interfere
  BY <1>0, <1>28 DEF Interfere
<1>29. CASE UNCHANGED vars
  BY <1>0, <1>29 DEF vars
<1> QED
  BY <1>1, <1>2, <1>3, <1>4, <1>5, <1>6, <1>7, <1>8, <1>9, <1>10, <1>11,
     <1>12, <1>13, <1>14, <1>15, <1>16, <1>17, <1>18, <1>19, <1>20, <1>21,
     <1>22, <1>23, <1>24, <1>25, <1>26, <1>27, <1>28, <1>29 DEF Next, Run

\* All of them.
LEMMA TypeStep == IInv /\ [Next]_vars => TypeOK'
  BY FaultsStep, PhasesStep, RunStep, FilesStep, ManifestStep,
     GuardTypeStep DEF IInv, TypeOK

\* Where the run is.
LEMMA PhaseStep == IInv /\ [Next]_vars => PhaseInv'
<1> SUFFICES ASSUME IInv, [Next]_vars PROVE PhaseInv'
  OBVIOUS
<1> USE DEF IInv, project, recovery
<1>1. CASE Announce
  BY <1>1 DEF Announce, FreshRun, TypeOK, Runs, PhaseInv, Marked, Source,
    Target, HalfwayIsMarked, Recovering
<1>2. CASE EarlyFault
  BY <1>2 DEF EarlyFault, Fault, TypeOK, Runs, PhaseInv, Marked, Source,
    Target, HalfwayIsMarked, Recovering
<1>3. CASE Refuse
  BY <1>3 DEF Refuse, Goto, TypeOK, Runs, PhaseInv, Marked, Source, Target,
    HalfwayIsMarked, Recovering
<1>4. CASE Accept
  BY <1>4 DEF Accept, Goto, TypeOK, Runs, PhaseInv, Marked, Source, Target,
    HalfwayIsMarked, Recovering
<1>5. CASE BackUp
  BY <1>5 DEF BackUp, Goto, Fault, TypeOK, Runs, PhaseInv, Marked, Source,
    Target, HalfwayIsMarked, Recovering
<1>6. CASE CaptureProjections
  BY <1>6 DEF CaptureProjections, Goto, Fault, FaultUnless, Reporting,
    TypeOK, Runs, PhaseInv, Marked, Source, Target, HalfwayIsMarked,
    Recovering
<1>7. CASE Stage
  BY <1>7 DEF Stage, Goto, Fault, FaultUnless, TypeOK, Runs, PhaseInv,
    Marked, Source, Target, HalfwayIsMarked, Recovering
<1>8. CASE CompareSource
  BY <1>8 DEF CompareSource, Goto, Fault, FaultUnless, TypeOK, Runs,
    PhaseInv, Marked, Source, Target, HalfwayIsMarked, Recovering
<1>9. CASE Arm
  BY <1>9 DEF Arm, Goto, Fault, FaultUnless, Armed, NotArmed, TypeOK, Runs,
    PhaseInv, Marked, Source, Target, HalfwayIsMarked, Recovering
<1>10. CASE Activate
  BY <1>10 DEF Activate, Goto, Fault, FaultUnless, TypeOK, Runs, PhaseInv,
    Marked, Source, Target, HalfwayIsMarked, Recovering
<1>11. CASE Publish
  BY <1>11 DEF Publish, Goto, Fault, FaultUnless, TypeOK, Runs, PhaseInv,
    Marked, Source, Target, HalfwayIsMarked, Recovering
<1>12. CASE Record
  BY <1>12 DEF Record, Goto, Fault, FaultUnless, TypeOK, Runs, PhaseInv,
    Marked, Source, Target, HalfwayIsMarked, Recovering
<1>13. CASE Confirm
  BY <1>13 DEF Confirm, Goto, Fault, FaultUnless, TypeOK, Runs, PhaseInv,
    Marked, Source, Target, HalfwayIsMarked, Recovering
<1>14. CASE Detect
  BY <1>14 DEF Detect, Goto, Fault, TypeOK, Runs, PhaseInv, Marked, Source,
    Target, HalfwayIsMarked, Recovering
<1>15. CASE Preserve
  BY <1>15 DEF Preserve, Goto, Fault, FaultUnless, Ours, TypeOK, Runs,
    PhaseInv, Marked, Source, Target, HalfwayIsMarked, Recovering
<1>16. CASE Restore
  BY <1>16 DEF Restore, Goto, Fault, FaultUnless, Reporting, TypeOK, Runs,
    PhaseInv, Marked, Source, Target, HalfwayIsMarked, Recovering
<1>17. CASE VerifySource
  BY <1>17 DEF VerifySource, Goto, Fault, FaultUnless, Reporting, TypeOK,
    Runs, PhaseInv, Marked, Source, Target, HalfwayIsMarked, Recovering
<1>18. CASE RestoreProjections
  BY <1>18 DEF RestoreProjections, Fault, FaultUnless, Reporting, TypeOK,
    Runs, PhaseInv, Marked, Source, Target, HalfwayIsMarked, Recovering
<1>19. CASE Settle
  BY <1>19 DEF Settle, Goto, Fault, FaultUnless, Reporting, TypeOK, Runs,
    PhaseInv, Marked, Source, Target, HalfwayIsMarked, Recovering
<1>20. CASE Report
  BY <1>20 DEF Report, Goto, Fault, FaultUnless, Armed, NotArmed, TypeOK,
    Runs, PhaseInv, Marked, Source, Target, HalfwayIsMarked, Recovering
<1>21. CASE Rearm
  BY <1>21 DEF Rearm, Fault, FaultUnless, Armed, NotArmed, TypeOK, Runs,
    PhaseInv, Marked, Source, Target, HalfwayIsMarked, Recovering
<1>22. CASE Close
  BY <1>22 DEF Close, Fault, FaultUnless, TypeOK, Runs, PhaseInv, Marked,
    Source, Target, HalfwayIsMarked, Recovering
<1>23. CASE VerifyClear
  BY <1>23 DEF VerifyClear, Goto, Fault, FaultUnless, ClearFails,
    Authorities, Migrated, Restored, TypeOK, Runs, PhaseInv, Marked, Source,
    Target, HalfwayIsMarked, Recovering
<1>24. CASE Unlink
  BY <1>24 DEF Unlink, Goto, Fault, FaultUnless, ClearFails, TypeOK, Runs,
    PhaseInv, Marked, Source, Target, HalfwayIsMarked, Recovering
<1>25. CASE UnlinkUnnoticed
  BY <1>25 DEF UnlinkUnnoticed, Fault, TypeOK, Runs, PhaseInv, Marked,
    Source, Target, HalfwayIsMarked, Recovering
<1>26. CASE VerifyCleared
  BY <1>26 DEF VerifyCleared, Goto, Fault, FaultUnless, ClearFails,
    Authorities, Migrated, Restored, TypeOK, Runs, PhaseInv, Marked, Source,
    Target, HalfwayIsMarked, Recovering
<1>27. CASE Crash
  BY <1>27 DEF Crash, TypeOK, Runs, PhaseInv, Marked, Source, Target,
    HalfwayIsMarked, Recovering
<1>28. CASE Interfere
  BY <1>28 DEF Interfere, TypeOK, Runs, PhaseInv, Marked, Source, Target,
    HalfwayIsMarked, Recovering
<1>29. CASE UNCHANGED vars
  BY <1>29 DEF vars, TypeOK, Runs, PhaseInv, Marked, Source, Target,
    HalfwayIsMarked, Recovering
<1> QED
  BY <1>1, <1>2, <1>3, <1>4, <1>5, <1>6, <1>7, <1>8, <1>9, <1>10, <1>11,
     <1>12, <1>13, <1>14, <1>15, <1>16, <1>17, <1>18, <1>19, <1>20, <1>21,
     <1>22, <1>23, <1>24, <1>25, <1>26, <1>27, <1>28, <1>29 DEF Next, Run

\* What the guard knows.
LEMMA GuardStep == IInv /\ [Next]_vars => GuardInv'
<1> SUFFICES ASSUME IInv, [Next]_vars PROVE GuardInv'
  OBVIOUS
<1> USE DEF IInv, project, recovery
<1>1. CASE Announce
  BY <1>1 DEF Announce, FreshRun, TypeOK, Runs, PhaseInv, Marked, GuardInv,
    UnverifiedIsMarked, Recovering, Leaving
<1>2. CASE EarlyFault
  BY <1>2 DEF EarlyFault, Fault, TypeOK, Runs, PhaseInv, Marked, GuardInv,
    UnverifiedIsMarked, Recovering, Leaving
<1>3. CASE Refuse
  BY <1>3 DEF Refuse, Goto, TypeOK, Runs, PhaseInv, Marked, GuardInv,
    UnverifiedIsMarked, Recovering, Leaving
<1>4. CASE Accept
  BY <1>4 DEF Accept, Goto, TypeOK, Runs, PhaseInv, Marked, GuardInv,
    UnverifiedIsMarked, Recovering, Leaving
<1>5. CASE BackUp
  BY <1>5 DEF BackUp, Goto, Fault, TypeOK, Runs, PhaseInv, Marked, GuardInv,
    UnverifiedIsMarked, Recovering, Leaving
<1>6. CASE CaptureProjections
  BY <1>6 DEF CaptureProjections, Goto, Fault, FaultUnless, Reporting,
    TypeOK, Runs, PhaseInv, Marked, GuardInv, UnverifiedIsMarked, Recovering,
    Leaving
<1>7. CASE Stage
  BY <1>7 DEF Stage, Goto, Fault, FaultUnless, TypeOK, Runs, PhaseInv,
    Marked, GuardInv, UnverifiedIsMarked, Recovering, Leaving
<1>8. CASE CompareSource
  BY <1>8 DEF CompareSource, Goto, Fault, FaultUnless, TypeOK, Runs,
    PhaseInv, Marked, GuardInv, UnverifiedIsMarked, Recovering, Leaving
<1>9. CASE Arm
  BY <1>9 DEF Arm, Goto, Fault, FaultUnless, Armed, NotArmed, TypeOK, Runs,
    PhaseInv, Marked, GuardInv, UnverifiedIsMarked, Recovering, Leaving
<1>10. CASE Activate
  BY <1>10 DEF Activate, Goto, Fault, FaultUnless, TypeOK, Runs, PhaseInv,
    Marked, GuardInv, UnverifiedIsMarked, Recovering, Leaving
<1>11. CASE Publish
  BY <1>11 DEF Publish, Goto, Fault, FaultUnless, TypeOK, Runs, PhaseInv,
    Marked, GuardInv, UnverifiedIsMarked, Recovering, Leaving
<1>12. CASE Record
  BY <1>12 DEF Record, Goto, Fault, FaultUnless, TypeOK, Runs, PhaseInv,
    Marked, GuardInv, UnverifiedIsMarked, Recovering, Leaving
<1>13. CASE Confirm
  BY <1>13 DEF Confirm, Goto, Fault, FaultUnless, TypeOK, Runs, PhaseInv,
    Marked, GuardInv, UnverifiedIsMarked, Recovering, Leaving
<1>14. CASE Detect
  BY <1>14 DEF Detect, Goto, Fault, TypeOK, Runs, PhaseInv, Marked, GuardInv,
    UnverifiedIsMarked, Recovering, Leaving
<1>15. CASE Preserve
  BY <1>15 DEF Preserve, Goto, Fault, FaultUnless, TypeOK, Runs, PhaseInv,
    Marked, GuardInv, UnverifiedIsMarked, Recovering, Leaving
<1>16. CASE Restore
  BY <1>16 DEF Restore, Goto, Fault, FaultUnless, Reporting, TypeOK, Runs,
    PhaseInv, Marked, GuardInv, UnverifiedIsMarked, Recovering, Leaving
<1>17. CASE VerifySource
  BY <1>17, ZenonT(60) DEF VerifySource, Goto, Fault, FaultUnless, Reporting, TypeOK,
    Runs, PhaseInv, Marked, GuardInv, UnverifiedIsMarked, Recovering, Leaving
<1>18. CASE RestoreProjections
  BY <1>18, ZenonT(60) DEF RestoreProjections, Fault, FaultUnless, Reporting, TypeOK,
    Runs, PhaseInv, Marked, GuardInv, UnverifiedIsMarked, Recovering, Leaving
<1>19. CASE Settle
  BY <1>19 DEF Settle, Goto, Fault, FaultUnless, Reporting, TypeOK, Runs,
    PhaseInv, Marked, GuardInv, UnverifiedIsMarked, Recovering, Leaving
<1>20. CASE Report
  BY <1>20 DEF Report, Goto, Fault, FaultUnless, Armed, NotArmed, TypeOK,
    Runs, PhaseInv, Marked, GuardInv, UnverifiedIsMarked, Recovering, Leaving
<1>21. CASE Rearm
  BY <1>21 DEF Rearm, Fault, FaultUnless, Armed, NotArmed, TypeOK, Runs,
    PhaseInv, Marked, GuardInv, UnverifiedIsMarked, Recovering, Leaving
<1>22. CASE Close
  BY <1>22 DEF Close, Fault, FaultUnless, TypeOK, Runs, PhaseInv, Marked,
    GuardInv, UnverifiedIsMarked, Recovering, Leaving
<1>23. CASE VerifyClear
  BY <1>23, ZenonT(60) DEF VerifyClear, Goto, Fault, FaultUnless, ClearFails,
    Authorities, Migrated, Restored, TypeOK, Runs, PhaseInv, Marked,
    GuardInv, UnverifiedIsMarked, Recovering, Leaving
<1>24. CASE Unlink
  BY <1>24, ZenonT(60) DEF Unlink, Goto, Fault, FaultUnless, ClearFails, TypeOK, Runs,
    PhaseInv, Marked, GuardInv, UnverifiedIsMarked, Recovering, Leaving
<1>25. CASE UnlinkUnnoticed
  BY <1>25 DEF UnlinkUnnoticed, Fault, TypeOK, Runs, PhaseInv, Marked,
    GuardInv, UnverifiedIsMarked, Recovering, Leaving
<1>26. CASE VerifyCleared
  BY <1>26, ZenonT(60) DEF VerifyCleared, Goto, Fault, FaultUnless, ClearFails,
    Authorities, Migrated, Restored, TypeOK, Runs, PhaseInv, Marked,
    GuardInv, UnverifiedIsMarked, Recovering, Leaving
<1>27. CASE Crash
  BY <1>27 DEF Crash, TypeOK, Runs, PhaseInv, Marked, GuardInv,
    UnverifiedIsMarked, Recovering, Leaving
<1>28. CASE Interfere
  BY <1>28 DEF Interfere, TypeOK, Runs, PhaseInv, Marked, GuardInv,
    UnverifiedIsMarked, Recovering, Leaving
<1>29. CASE UNCHANGED vars
  BY <1>29 DEF vars, TypeOK, Runs, PhaseInv, Marked, GuardInv,
    UnverifiedIsMarked, Recovering, Leaving
<1> QED
  BY <1>1, <1>2, <1>3, <1>4, <1>5, <1>6, <1>7, <1>8, <1>9, <1>10, <1>11,
     <1>12, <1>13, <1>14, <1>15, <1>16, <1>17, <1>18, <1>19, <1>20, <1>21,
     <1>22, <1>23, <1>24, <1>25, <1>26, <1>27, <1>28, <1>29 DEF Next, Run

\* What the manifest says.
LEMMA TruthStep == IInv /\ [Next]_vars => TruthInv'
<1> SUFFICES ASSUME IInv, [Next]_vars PROVE TruthInv'
  OBVIOUS
<1> USE DEF IInv, project, recovery
<1>1. CASE Announce
  BY <1>1 DEF Announce, FreshRun, TypeOK, Runs, PhaseInv, Marked, GuardInv,
    VerdictInv, TruthInv, ManifestIsTrue, Source, Target, Recovering, Body,
    Back, Leaving
<1>2. CASE EarlyFault
  BY <1>2 DEF EarlyFault, Fault, TypeOK, Runs, PhaseInv, Marked, GuardInv,
    VerdictInv, TruthInv, ManifestIsTrue, Source, Target, Recovering, Body,
    Back, Leaving
<1>3. CASE Refuse
  BY <1>3 DEF Refuse, Goto, TypeOK, Runs, PhaseInv, Marked, GuardInv,
    VerdictInv, TruthInv, ManifestIsTrue, Source, Target, Recovering, Body,
    Back, Leaving
<1>4. CASE Accept
  BY <1>4 DEF Accept, Goto, TypeOK, Runs, PhaseInv, Marked, GuardInv,
    VerdictInv, TruthInv, ManifestIsTrue, Source, Target, Recovering, Body,
    Back, Leaving
<1>5. CASE BackUp
  BY <1>5 DEF BackUp, Goto, Fault, TypeOK, Runs, PhaseInv, Marked, GuardInv,
    VerdictInv, TruthInv, ManifestIsTrue, Source, Target, Recovering, Body,
    Back, Leaving
<1>6. CASE CaptureProjections
  BY <1>6 DEF CaptureProjections, Goto, Fault, FaultUnless, Reporting,
    TypeOK, Runs, PhaseInv, Marked, GuardInv, VerdictInv, TruthInv,
    ManifestIsTrue, Source, Target, Recovering, Body, Back, Leaving
<1>7. CASE Stage
  BY <1>7 DEF Stage, Goto, Fault, FaultUnless, TypeOK, Runs, PhaseInv,
    Marked, GuardInv, VerdictInv, TruthInv, ManifestIsTrue, Source, Target,
    Recovering, Body, Back, Leaving
<1>8. CASE CompareSource
  BY <1>8 DEF CompareSource, Goto, Fault, FaultUnless, TypeOK, Runs,
    PhaseInv, Marked, GuardInv, VerdictInv, TruthInv, ManifestIsTrue, Source,
    Target, Recovering, Body, Back, Leaving
<1>9. CASE Arm
  BY <1>9 DEF Arm, Goto, Fault, FaultUnless, Armed, NotArmed, TypeOK, Runs,
    PhaseInv, Marked, GuardInv, VerdictInv, TruthInv, ManifestIsTrue, Source,
    Target, Recovering, Body, Back, Leaving
<1>10. CASE Activate
  BY <1>10 DEF Activate, Goto, Fault, FaultUnless, TypeOK, Runs, PhaseInv,
    Marked, GuardInv, VerdictInv, TruthInv, ManifestIsTrue, Source, Target,
    Recovering, Body, Back, Leaving
<1>11. CASE Publish
  BY <1>11 DEF Publish, Goto, Fault, FaultUnless, TypeOK, Runs, PhaseInv,
    Marked, GuardInv, VerdictInv, TruthInv, ManifestIsTrue, Source, Target,
    Recovering, Body, Back, Leaving
<1>12. CASE Record
  BY <1>12 DEF Record, Goto, Fault, FaultUnless, TypeOK, Runs, PhaseInv,
    Marked, GuardInv, VerdictInv, TruthInv, ManifestIsTrue, Source, Target,
    Recovering, Body, Back, Leaving
<1>13. CASE Confirm
  BY <1>13 DEF Confirm, Goto, Fault, FaultUnless, Migrated, TypeOK, Runs,
    PhaseInv, Marked, GuardInv, VerdictInv, TruthInv, ManifestIsTrue, Source,
    Target, Recovering, Body, Back, Leaving
<1>14. CASE Detect
  BY <1>14 DEF Detect, Goto, Fault, TypeOK, Runs, PhaseInv, Marked, GuardInv,
    VerdictInv, TruthInv, ManifestIsTrue, Source, Target, Recovering, Body,
    Back, Leaving
<1>15. CASE Preserve
  BY <1>15 DEF Preserve, Goto, Fault, FaultUnless, Ours, TypeOK, Runs,
    PhaseInv, Marked, GuardInv, VerdictInv, TruthInv, ManifestIsTrue, Source,
    Target, Recovering, Body, Back, Leaving
<1>16. CASE Restore
  BY <1>16 DEF Restore, Goto, Fault, FaultUnless, Reporting, TypeOK, Runs,
    PhaseInv, Marked, GuardInv, VerdictInv, TruthInv, ManifestIsTrue, Source,
    Target, Recovering, Body, Back, Leaving
<1>17. CASE VerifySource
  BY <1>17, ZenonT(60) DEF VerifySource, Goto, Fault, FaultUnless, Reporting, TypeOK,
    Runs, PhaseInv, Marked, GuardInv, VerdictInv, TruthInv, ManifestIsTrue,
    Source, Target, Recovering, Body, Back, Leaving
<1>18. CASE RestoreProjections
  BY <1>18, ZenonT(60) DEF RestoreProjections, Fault, FaultUnless, Reporting, TypeOK,
    Runs, PhaseInv, Marked, GuardInv, VerdictInv, TruthInv, ManifestIsTrue,
    Source, Target, Recovering, Body, Back, Leaving
<1>19. CASE Settle
  BY <1>19 DEF Settle, Goto, Fault, FaultUnless, Reporting, Restored, TypeOK,
    Runs, PhaseInv, Marked, GuardInv, VerdictInv, TruthInv, ManifestIsTrue,
    Source, Target, Recovering, Body, Back, Leaving
<1>20. CASE Report
  BY <1>20 DEF Report, Goto, Fault, FaultUnless, Armed, NotArmed, TypeOK,
    Runs, PhaseInv, Marked, GuardInv, VerdictInv, TruthInv, ManifestIsTrue,
    Source, Target, Recovering, Body, Back, Leaving
<1>21. CASE Rearm
  BY <1>21 DEF Rearm, Fault, FaultUnless, Armed, NotArmed, TypeOK, Runs,
    PhaseInv, Marked, GuardInv, VerdictInv, TruthInv, ManifestIsTrue, Source,
    Target, Recovering, Body, Back, Leaving
<1>22. CASE Close
  BY <1>22 DEF Close, Fault, FaultUnless, TypeOK, Runs, PhaseInv, Marked,
    GuardInv, VerdictInv, TruthInv, ManifestIsTrue, Source, Target,
    Recovering, Body, Back, Leaving
<1>23. CASE VerifyClear
  BY <1>23, ZenonT(60) DEF VerifyClear, Goto, Fault, FaultUnless, ClearFails,
    Authorities, Migrated, Restored, TypeOK, Runs, PhaseInv, Marked,
    GuardInv, VerdictInv, TruthInv, ManifestIsTrue, Source, Target,
    Recovering, Body, Back, Leaving
<1>24. CASE Unlink
  BY <1>24, ZenonT(60) DEF Unlink, Goto, Fault, FaultUnless, ClearFails, TypeOK, Runs,
    PhaseInv, Marked, GuardInv, VerdictInv, TruthInv, ManifestIsTrue, Source,
    Target, Recovering, Body, Back, Leaving
<1>25. CASE UnlinkUnnoticed
  BY <1>25 DEF UnlinkUnnoticed, Fault, TypeOK, Runs, PhaseInv, Marked,
    GuardInv, VerdictInv, TruthInv, ManifestIsTrue, Source, Target,
    Recovering, Body, Back, Leaving
<1>26. CASE VerifyCleared
  BY <1>26, ZenonT(60) DEF VerifyCleared, Goto, Fault, FaultUnless, ClearFails,
    Authorities, Migrated, Restored, TypeOK, Runs, PhaseInv, Marked,
    GuardInv, VerdictInv, TruthInv, ManifestIsTrue, Source, Target,
    Recovering, Body, Back, Leaving
<1>27. CASE Crash
  BY <1>27 DEF Crash, TypeOK, Runs, PhaseInv, Marked, GuardInv, VerdictInv,
    TruthInv, ManifestIsTrue, Source, Target, Recovering, Body, Back, Leaving
<1>28. CASE Interfere
  BY <1>28 DEF Interfere, TypeOK, Runs, PhaseInv, Marked, GuardInv,
    VerdictInv, TruthInv, ManifestIsTrue, Source, Target, Recovering, Body,
    Back, Leaving
<1>29. CASE UNCHANGED vars
  BY <1>29 DEF vars, TypeOK, Runs, PhaseInv, Marked, GuardInv, VerdictInv,
    TruthInv, ManifestIsTrue, Source, Target, Recovering, Body, Back, Leaving
<1> QED
  BY <1>1, <1>2, <1>3, <1>4, <1>5, <1>6, <1>7, <1>8, <1>9, <1>10, <1>11,
     <1>12, <1>13, <1>14, <1>15, <1>16, <1>17, <1>18, <1>19, <1>20, <1>21,
     <1>22, <1>23, <1>24, <1>25, <1>26, <1>27, <1>28, <1>29 DEF Next, Run

\* What a verdict rests on.
LEMMA VerdictStep == IInv /\ [Next]_vars => VerdictInv'
<1> SUFFICES ASSUME IInv, [Next]_vars PROVE VerdictInv'
  OBVIOUS
<1> USE DEF IInv, project, recovery
<1>1. CASE Announce
  BY <1>1 DEF Announce, FreshRun, TypeOK, Runs, GuardInv, TruthInv,
    VerdictInv, ClearedWasVerified, Migrated, Restored, Recovering, Body,
    Back, Leaving
<1>2. CASE EarlyFault
  BY <1>2 DEF EarlyFault, Fault, TypeOK, Runs, GuardInv, TruthInv,
    VerdictInv, ClearedWasVerified, Migrated, Restored, Recovering, Body,
    Back, Leaving
<1>3. CASE Refuse
  BY <1>3 DEF Refuse, Goto, TypeOK, Runs, GuardInv, TruthInv, VerdictInv,
    ClearedWasVerified, Migrated, Restored, Recovering, Body, Back, Leaving
<1>4. CASE Accept
  BY <1>4 DEF Accept, Goto, TypeOK, Runs, GuardInv, TruthInv, VerdictInv,
    ClearedWasVerified, Migrated, Restored, Recovering, Body, Back, Leaving
<1>5. CASE BackUp
  BY <1>5 DEF BackUp, Goto, Fault, TypeOK, Runs, GuardInv, TruthInv,
    VerdictInv, ClearedWasVerified, Migrated, Restored, Recovering, Body,
    Back, Leaving
<1>6. CASE CaptureProjections
  BY <1>6 DEF CaptureProjections, Goto, Fault, FaultUnless, Reporting,
    TypeOK, Runs, GuardInv, TruthInv, VerdictInv, ClearedWasVerified,
    Migrated, Restored, Recovering, Body, Back, Leaving
<1>7. CASE Stage
  BY <1>7 DEF Stage, Goto, Fault, FaultUnless, TypeOK, Runs, GuardInv,
    TruthInv, VerdictInv, ClearedWasVerified, Migrated, Restored, Recovering,
    Body, Back, Leaving
<1>8. CASE CompareSource
  BY <1>8 DEF CompareSource, Goto, Fault, FaultUnless, TypeOK, Runs,
    GuardInv, TruthInv, VerdictInv, ClearedWasVerified, Migrated, Restored,
    Recovering, Body, Back, Leaving
<1>9. CASE Arm
  BY <1>9 DEF Arm, Goto, Fault, FaultUnless, Armed, NotArmed, TypeOK, Runs,
    GuardInv, TruthInv, VerdictInv, ClearedWasVerified, Migrated, Restored,
    Recovering, Body, Back, Leaving
<1>10. CASE Activate
  BY <1>10 DEF Activate, Goto, Fault, FaultUnless, TypeOK, Runs, GuardInv,
    TruthInv, VerdictInv, ClearedWasVerified, Migrated, Restored, Recovering,
    Body, Back, Leaving
<1>11. CASE Publish
  BY <1>11 DEF Publish, Goto, Fault, FaultUnless, TypeOK, Runs, GuardInv,
    TruthInv, VerdictInv, ClearedWasVerified, Migrated, Restored, Recovering,
    Body, Back, Leaving
<1>12. CASE Record
  BY <1>12 DEF Record, Goto, Fault, FaultUnless, TypeOK, Runs, GuardInv,
    TruthInv, VerdictInv, ClearedWasVerified, Migrated, Restored, Recovering,
    Body, Back, Leaving
<1>13. CASE Confirm
  BY <1>13 DEF Confirm, Goto, Fault, FaultUnless, TypeOK, Runs, GuardInv,
    TruthInv, VerdictInv, ClearedWasVerified, Migrated, Restored, Recovering,
    Body, Back, Leaving
<1>14. CASE Detect
  BY <1>14 DEF Detect, Goto, Fault, TypeOK, Runs, GuardInv, TruthInv,
    VerdictInv, ClearedWasVerified, Migrated, Restored, Recovering, Body,
    Back, Leaving
<1>15. CASE Preserve
  BY <1>15 DEF Preserve, Goto, Fault, FaultUnless, TypeOK, Runs, GuardInv,
    TruthInv, VerdictInv, ClearedWasVerified, Migrated, Restored, Recovering,
    Body, Back, Leaving
<1>16. CASE Restore
  BY <1>16 DEF Restore, Goto, Fault, FaultUnless, Reporting, TypeOK, Runs,
    GuardInv, TruthInv, VerdictInv, ClearedWasVerified, Migrated, Restored,
    Recovering, Body, Back, Leaving
<1>17. CASE VerifySource
  BY <1>17, ZenonT(60) DEF VerifySource, Goto, Fault, FaultUnless, Reporting, TypeOK,
    Runs, GuardInv, TruthInv, VerdictInv, ClearedWasVerified, Migrated,
    Restored, Recovering, Body, Back, Leaving
<1>18. CASE RestoreProjections
  BY <1>18, ZenonT(60) DEF RestoreProjections, Fault, FaultUnless, Reporting, TypeOK,
    Runs, GuardInv, TruthInv, VerdictInv, ClearedWasVerified, Migrated,
    Restored, Recovering, Body, Back, Leaving
<1>19. CASE Settle
  BY <1>19 DEF Settle, Goto, Fault, FaultUnless, Reporting, TypeOK, Runs,
    GuardInv, TruthInv, VerdictInv, ClearedWasVerified, Migrated, Restored,
    Recovering, Body, Back, Leaving
<1>20. CASE Report
  BY <1>20 DEF Report, Goto, Fault, FaultUnless, Armed, NotArmed, TypeOK,
    Runs, GuardInv, TruthInv, VerdictInv, ClearedWasVerified, Migrated,
    Restored, Recovering, Body, Back, Leaving
<1>21. CASE Rearm
  BY <1>21 DEF Rearm, Fault, FaultUnless, Armed, NotArmed, TypeOK, Runs,
    GuardInv, TruthInv, VerdictInv, ClearedWasVerified, Migrated, Restored,
    Recovering, Body, Back, Leaving
<1>22. CASE Close
  BY <1>22 DEF Close, Fault, FaultUnless, TypeOK, Runs, GuardInv, TruthInv,
    VerdictInv, ClearedWasVerified, Migrated, Restored, Recovering, Body,
    Back, Leaving
<1>23. CASE VerifyClear
  BY <1>23, ZenonT(60) DEF VerifyClear, Goto, Fault, FaultUnless, ClearFails,
    Authorities, TypeOK, Runs, GuardInv, TruthInv, VerdictInv,
    ClearedWasVerified, Migrated, Restored, Recovering, Body, Back, Leaving
<1>24. CASE Unlink
  BY <1>24, ZenonT(60) DEF Unlink, Goto, Fault, FaultUnless, ClearFails, TypeOK, Runs,
    GuardInv, TruthInv, VerdictInv, ClearedWasVerified, Migrated, Restored,
    Recovering, Body, Back, Leaving
<1>25. CASE UnlinkUnnoticed
  BY <1>25 DEF UnlinkUnnoticed, Fault, TypeOK, Runs, GuardInv, TruthInv,
    VerdictInv, ClearedWasVerified, Migrated, Restored, Recovering, Body,
    Back, Leaving
<1>26. CASE VerifyCleared
  BY <1>26, ZenonT(60) DEF VerifyCleared, Goto, Fault, FaultUnless, ClearFails,
    Authorities, TypeOK, Runs, GuardInv, TruthInv, VerdictInv,
    ClearedWasVerified, Migrated, Restored, Recovering, Body, Back, Leaving
<1>27. CASE Crash
  BY <1>27 DEF Crash, TypeOK, Runs, GuardInv, TruthInv, VerdictInv,
    ClearedWasVerified, Migrated, Restored, Recovering, Body, Back, Leaving
<1>28. CASE Interfere
  BY <1>28 DEF Interfere, TypeOK, Runs, GuardInv, TruthInv, VerdictInv,
    ClearedWasVerified, Migrated, Restored, Recovering, Body, Back, Leaving
<1>29. CASE UNCHANGED vars
  BY <1>29 DEF vars, TypeOK, Runs, GuardInv, TruthInv, VerdictInv,
    ClearedWasVerified, Migrated, Restored, Recovering, Body, Back, Leaving
<1> QED
  BY <1>1, <1>2, <1>3, <1>4, <1>5, <1>6, <1>7, <1>8, <1>9, <1>10, <1>11,
     <1>12, <1>13, <1>14, <1>15, <1>16, <1>17, <1>18, <1>19, <1>20, <1>21,
     <1>22, <1>23, <1>24, <1>25, <1>26, <1>27, <1>28, <1>29 DEF Next, Run

-----------------------------------------------------------------------------
\* Before the first run.
LEMMA InitIInv == Init => IInv
<1> SUFFICES ASSUME Init PROVE IInv
  OBVIOUS
<1> USE DEF Init, FreshRun
<1>1. TypeOK
  <2>1. run \in Runs
    BY DEF Runs, Statuses
  <2>2. manifest \in [status: Statuses \cup {"none"}, sound: BOOLEAN]
    OBVIOUS
  <2> QED
    BY <2>1, <2>2 DEF TypeOK
<1>2. PhaseInv
  BY DEF PhaseInv, HalfwayIsMarked, Source
<1>3. GuardInv
  BY DEF GuardInv, UnverifiedIsMarked
<1>4. TruthInv
  BY DEF TruthInv, ManifestIsTrue, Body, Back, Leaving
<1>5. VerdictInv
  BY DEF VerdictInv, ClearedWasVerified, Leaving
<1> QED
  BY <1>1, <1>2, <1>3, <1>4, <1>5 DEF IInv

\* The inductive invariant holds (_migrate_project_to_target, finalize_guard).
THEOREM Invariance == Spec => []IInv
<1>1. IInv /\ [Next]_vars => IInv'
  BY TypeStep, PhaseStep, GuardStep, TruthStep, VerdictStep DEF IInv
<1> QED
  BY InitIInv, <1>1, PTL DEF Spec

\* Every variable keeps its type (the values the code stores in them).
THEOREM TypeCorrect == Spec => []TypeOK
<1>1. IInv => TypeOK
  BY DEF IInv
<1> QED
  BY <1>1, Invariance, PTL

\* A project that is between two schemas has a sentinel that asks for
\* recovery, also if the process is killed (require_recovery before
\* _activate_staging_database, finalize_guard).
THEOREM HalfwayMarked == Spec => []HalfwayIsMarked
<1>1. IInv => HalfwayIsMarked
  BY DEF IInv, PhaseInv
<1> QED
  BY <1>1, Invariance, PTL

\* A run that attempted the replacement and verified neither outcome leaves
\* such a sentinel too (finalize_guard, publish_failure_sentinel).
THEOREM UnverifiedMarked == Spec => []UnverifiedIsMarked
<1>1. IInv => UnverifiedIsMarked
  BY DEF IInv, GuardInv
<1> QED
  BY <1>1, Invariance, PTL

\* Both: nothing that needs recovery is unmarked (the sentinel that
\* require_recovery and finalize_guard write).
THEOREM RecoveryMarked == Spec => []RecoveryIsMarked
<1>1. HalfwayIsMarked /\ UnverifiedIsMarked => RecoveryIsMarked
  BY DEF RecoveryIsMarked
<1> QED
  BY <1>1, HalfwayMarked, UnverifiedMarked, PTL

\* What the manifest says of the project is so (write_failure_manifest after
\* _restore_projection_backup, write_canonical_manifest).
THEOREM ManifestTrue == Spec => []ManifestIsTrue
<1>1. IInv => ManifestIsTrue
  BY DEF IInv, TruthInv
<1> QED
  BY <1>1, Invariance, PTL

\* A sentinel is only gone for good over files that were verified after it
\* was removed (verify_clear_authorities).
THEOREM ClearedVerified == Spec => []ClearedWasVerified
<1>1. IInv => ClearedWasVerified
  BY DEF IInv, VerdictInv
<1> QED
  BY <1>1, Invariance, PTL

\* No step of a run writes over a database file that is not its own
\* (replace_file with the expected destination, _preserve_failed_schema30,
\* _restore_verified_backup).
THEOREM ForeignKept == Spec => ForeignDatabaseKept
<1>1. ASSUME Run, pc # "checking", db = "replaced"
      PROVE  db' = "replaced"
  <2> USE <1>1 DEF project
  <2>1. CASE Refuse
    BY <2>1 DEF Refuse
  <2>2. CASE Accept
    BY <2>2 DEF Accept
  <2>3. CASE BackUp
    BY <2>3 DEF BackUp
  <2>4. CASE CaptureProjections
    BY <2>4 DEF CaptureProjections
  <2>5. CASE Stage
    BY <2>5 DEF Stage
  <2>6. CASE CompareSource
    BY <2>6 DEF CompareSource
  <2>7. CASE Arm
    BY <2>7 DEF Arm
  <2>8. CASE Activate
    BY <2>8 DEF Activate
  <2>9. CASE Publish
    BY <2>9 DEF Publish
  <2>10. CASE Record
    BY <2>10 DEF Record
  <2>11. CASE Confirm
    BY <2>11 DEF Confirm
  <2>12. CASE Detect
    BY <2>12 DEF Detect
  <2>13. CASE Preserve
    BY <2>13 DEF Preserve, Ours
  <2>14. CASE Restore
    BY <2>14 DEF Restore, Expected, Ours
  <2>15. CASE VerifySource
    BY <2>15 DEF VerifySource
  <2>16. CASE RestoreProjections
    BY <2>16 DEF RestoreProjections
  <2>17. CASE Settle
    BY <2>17 DEF Settle
  <2>18. CASE Report
    BY <2>18 DEF Report
  <2>19. CASE Rearm
    BY <2>19 DEF Rearm
  <2>20. CASE Close
    BY <2>20 DEF Close
  <2>21. CASE VerifyClear
    BY <2>21 DEF VerifyClear
  <2>22. CASE Unlink
    BY <2>22 DEF Unlink
  <2>23. CASE UnlinkUnnoticed
    BY <2>23 DEF UnlinkUnnoticed
  <2>24. CASE VerifyCleared
    BY <2>24 DEF VerifyCleared
  <2> QED
    BY <2>1, <2>2, <2>3, <2>4, <2>5, <2>6, <2>7, <2>8, <2>9, <2>10, <2>11,
       <2>12, <2>13, <2>14, <2>15, <2>16, <2>17, <2>18, <2>19, <2>20, <2>21,
       <2>22, <2>23, <2>24 DEF Run
<1>2. [Next]_vars => [Run /\ pc # "checking" /\ db = "replaced" => db' = "replaced"]_vars
  BY <1>1
<1> QED
  BY <1>2, PTL DEF Spec, ForeignDatabaseKept

-----------------------------------------------------------------------------
(* A run in which one step of the try block fails, and nothing else.       *)

\* Nothing went wrong in this run but at most one step of the try block.
OneFault ==
    /\ ~tampered
    /\ \/ faults = {}
       \/ \E step \in Body : faults = {<<step, "clean">>} \/ faults = {<<"activating", "half">>}

\* The bundle to go back with is complete, and the manifest is the receipted one.
Bundled == bundle = "full" /\ manifest.sound

\* Up to the fault.
ForwardInv ==
    /\ pc \in {"checking", "saving", "capturing"} \cup Body => faults = {} /\ run.kept
    /\ pc = "capturing" => bundle = "backup" /\ manifest.sound
    /\ pc \in {"saving", "capturing", "staging", "comparing", "arming", "activating"}
        => db = "source" /\ proj = "source"
    /\ pc \in {"checking", "saving", "capturing", "staging", "comparing", "arming"}
        => ~run.attempted
    /\ pc \in {"checking", "saving", "capturing", "staging", "comparing", "arming", "activating"}
        => ~run.activated
    /\ pc \in {"comparing", "arming", "activating"} => staged
    /\ pc \in {"publishing", "recording", "confirming"} => db = "target" /\ ~staged /\ run.activated
    /\ pc \in {"recording", "confirming"} => proj = "target"

\* The way back from it.
BackwardInv ==
    /\ pc \in Rollback \cup {"reporting"} => faults # {} /\ run.kept
    /\ pc \in Body \cup Rollback \cup {"reporting"} => Bundled
    /\ pc = "detecting" =>
           IF run.activated \/ (run.attempted /\ ~staged) THEN db = "target" /\ ~staged
           ELSE db = "source"
    /\ pc = "preserving" => db = "target" /\ ~staged
    /\ pc = "restoring" => db = "none" /\ run.moved
    /\ pc \in {"rerendering", "reporting", "settling", "verifying"} => db = "source"
    /\ pc \in {"reporting", "settling"} => proj = "source"
    /\ pc = "reporting" => run.next = "settling"

\* The end of a run that needed none of it, or went all the way back.
EndInv ==
    /\ pc \notin {"rearming", "closing"}
    /\ pc # "idle" => guard.lock
    /\ pc \in Leaving => Authorities
    /\ pc = "rechecking" => sentinel = "none"
    /\ pc \in Leaving /\ faults # {} => run.verdict = "source"
    /\ pc = "idle" /\ faults # {} /\ run.verdict # "killed" => sentinel = "none" /\ Restored

OneFaultInv == OneFault => ForwardInv /\ BackwardInv /\ EndInv

\* What may fail in such a run is a step of the try block, and only once.
LEMMA OnlyFault ==
    ASSUME OneFault'
    PROVE  /\ Fault("clean") => pc \in Body /\ faults' # {}
           /\ Fault("half") => pc = "activating" /\ faults' # {}
<1>1. ASSUME NEW kind \in {"clean", "half"}, Fault(kind)
      PROVE  /\ faults' # {} /\ <<pc, kind>> \in faults'
             /\ \E step \in Body :
                    faults' = {<<step, "clean">>} \/ faults' = {<<"activating", "half">>}
  BY <1>1 DEF Fault, OneFault
<1>2. ASSUME NEW kind \in {"clean", "half"}, Fault(kind)
      PROVE  \/ <<pc, kind>> = <<"activating", "half">>
             \/ \E step \in Body : <<pc, kind>> = <<step, "clean">>
  BY <1>1, <1>2
<1>3. ASSUME Fault("clean") PROVE pc \in Body
  BY <1>2, <1>3
<1>4. ASSUME Fault("half") PROVE pc = "activating"
  BY <1>2, <1>4
<1> QED
  BY <1>1, <1>3, <1>4

\* Within a run no failure is forgotten, so such a run was one all along.
LEMMA OneFaultBefore ==
    ASSUME [Next]_vars, ~Announce, OneFault'
    PROVE  OneFault
<1> DEFINE Grows == faults \subseteq faults' /\ (tampered => tampered')
<1> USE DEF Goto, Fault, FaultUnless
<1>1. ASSUME EarlyFault PROVE Grows
  BY <1>1 DEF EarlyFault
<1>2. ASSUME Refuse PROVE Grows
  BY <1>2 DEF Refuse
<1>3. ASSUME Accept PROVE Grows
  BY <1>3 DEF Accept
<1>4. ASSUME BackUp PROVE Grows
  BY <1>4 DEF BackUp
<1>5. ASSUME CaptureProjections PROVE Grows
  BY <1>5 DEF CaptureProjections
<1>6. ASSUME Stage PROVE Grows
  BY <1>6 DEF Stage
<1>7. ASSUME CompareSource PROVE Grows
  BY <1>7 DEF CompareSource
<1>8. ASSUME Arm PROVE Grows
  BY <1>8 DEF Arm
<1>9. ASSUME Activate PROVE Grows
  BY <1>9 DEF Activate
<1>10. ASSUME Publish PROVE Grows
  BY <1>10 DEF Publish
<1>11. ASSUME Record PROVE Grows
  BY <1>11 DEF Record
<1>12. ASSUME Confirm PROVE Grows
  BY <1>12 DEF Confirm
<1>13. ASSUME Detect PROVE Grows
  BY <1>13 DEF Detect
<1>14. ASSUME Preserve PROVE Grows
  BY <1>14 DEF Preserve
<1>15. ASSUME Restore PROVE Grows
  BY <1>15 DEF Restore
<1>16. ASSUME VerifySource PROVE Grows
  BY <1>16 DEF VerifySource
<1>17. ASSUME RestoreProjections PROVE Grows
  BY <1>17 DEF RestoreProjections
<1>18. ASSUME Settle PROVE Grows
  BY <1>18 DEF Settle
<1>19. ASSUME Report PROVE Grows
  BY <1>19 DEF Report
<1>20. ASSUME Rearm PROVE Grows
  BY <1>20 DEF Rearm
<1>21. ASSUME Close PROVE Grows
  BY <1>21 DEF Close
<1>22. ASSUME VerifyClear PROVE Grows
  BY <1>22 DEF VerifyClear
<1>23. ASSUME Unlink PROVE Grows
  BY <1>23 DEF Unlink
<1>24. ASSUME UnlinkUnnoticed PROVE Grows
  BY <1>24 DEF UnlinkUnnoticed
<1>25. ASSUME VerifyCleared PROVE Grows
  BY <1>25 DEF VerifyCleared
<1>26. ASSUME Crash PROVE Grows
  BY <1>26 DEF Crash
<1>27. ASSUME Interfere PROVE Grows
  BY <1>27 DEF Interfere
<1>28. ASSUME UNCHANGED vars PROVE Grows
  BY <1>28 DEF vars
<1>29. Grows
  BY <1>1, <1>2, <1>3, <1>4, <1>5, <1>6, <1>7, <1>8, <1>9, <1>10, <1>11, <1>12, <1>13,
     <1>14, <1>15, <1>16, <1>17, <1>18, <1>19, <1>20, <1>21, <1>22, <1>23, <1>24,
     <1>25, <1>26, <1>27, <1>28 DEF Next, Run
<1> QED
  BY <1>29 DEF OneFault

\* Whatever the run does next.
LEMMA OneFaultStep ==
    ASSUME TypeOK, OneFaultInv, [Next]_vars
    PROVE  OneFaultInv'
<1> SUFFICES ASSUME OneFault' PROVE (ForwardInv /\ BackwardInv /\ EndInv)'
  BY DEF OneFaultInv
<1>0. /\ pc \in {"idle"} \cup Phases /\ run \in Runs
      /\ manifest \in [status: Statuses \cup {"none"}, sound: BOOLEAN]
      /\ guard \in [recovery: BOOLEAN, lock: BOOLEAN] /\ staged \in BOOLEAN
  BY DEF TypeOK
<1>a. /\ Fault("clean") => pc \in Body /\ faults' # {}
      /\ Fault("half") => pc = "activating" /\ faults' # {}
  BY OnlyFault
<1>1. CASE Announce
  BY <1>1 DEF Announce, FreshRun, ForwardInv, BackwardInv, EndInv, Body, Rollback,
     Leaving
<1>2. ASSUME ~Announce PROVE (ForwardInv /\ BackwardInv /\ EndInv)'
  <2>0. ForwardInv /\ BackwardInv /\ EndInv
    BY <1>2, OneFaultBefore DEF OneFaultInv
  <2>1. CASE Activate
    <3>1. /\ pc = "activating" /\ faults = {} /\ run.kept /\ guard.lock /\ Bundled
          /\ db = "source" /\ proj = "source" /\ ~run.activated /\ staged
      BY <2>1, <2>0 DEF Activate, ForwardInv, BackwardInv, EndInv, Body
    <3>2. /\ UNCHANGED <<proj, bundle, manifest, guard, tampered>>
          /\ \/ /\ pc' = "publishing" /\ faults' = {} /\ db' = "target" /\ ~staged'
                /\ run' = [run EXCEPT !.attempted = TRUE, !.activated = TRUE]
             \/ /\ pc' = "detecting" /\ faults' # {}
                /\ run' = [run EXCEPT !.attempted = TRUE]
                /\ \/ db' = "target" /\ ~staged'
                   \/ db' = "source" /\ staged'
      BY <2>1, <3>1, <1>a DEF Activate, FaultUnless, Goto, recovery
    <3>3. /\ run'.kept /\ run'.attempted
          /\ run'.activated <=> pc' = "publishing"
      BY <3>1, <3>2, <1>0 DEF Runs
    <3> QED
      BY <3>1, <3>2, <3>3 DEF ForwardInv, BackwardInv, EndInv, Body, Rollback, Leaving,
         Bundled
  <2>2. CASE Confirm
    <3>1. /\ pc = "confirming" /\ faults = {} /\ run.kept /\ guard.lock /\ Bundled
          /\ db = "target" /\ ~staged /\ run.activated /\ Migrated
      BY <2>2, <2>0 DEF Confirm, ForwardInv, BackwardInv, EndInv, Body, Bundled,
         Migrated
    <3>2. /\ UNCHANGED <<db, proj, staged, bundle, manifest, guard, tampered>>
          /\ \/ /\ pc' = "clearing" /\ faults' = {}
                /\ run' = [run EXCEPT !.verdict = "success"]
             \/ pc' = "detecting" /\ faults' # {} /\ run' = run
      BY <2>2, <3>1, <1>a DEF Confirm, FaultUnless, Goto, recovery, project
    <3>3. pc' = "clearing" => run'.verdict = "success"
      BY <3>2, <1>0 DEF Runs
    <3> QED
      BY <3>1, <3>2, <3>3 DEF ForwardInv, BackwardInv, EndInv, Body, Rollback, Leaving,
         Bundled, Authorities, Migrated
  <2>3. CASE Detect
    <3>1. /\ pc = "detecting" /\ faults # {} /\ run.kept /\ guard.lock /\ Bundled
          /\ run.activated => db = "target" /\ ~staged
          /\ run.attempted /\ ~staged => db = "target"
          /\ ~run.activated /\ (staged \/ ~run.attempted) => db = "source"
      BY <2>3, <2>0 DEF Detect, ForwardInv, BackwardInv, EndInv, Body, Rollback
    <3>2. ~Fault("clean")
      BY <3>1, <1>a DEF Body
    <3>3. /\ UNCHANGED <<db, proj, staged, bundle, manifest, guard, faults, tampered>>
          /\ \/ pc' = "preserving" /\ db = "target" /\ ~staged
             \/ pc' = "verifying" /\ db = "source"
      BY <2>3, <3>1, <3>2 DEF Detect, Goto, recovery, project
    <3>4. run'.kept
      BY <2>3, <3>1, <3>2, <1>0 DEF Detect, Runs
    <3> QED
      BY <3>1, <3>3, <3>4 DEF ForwardInv, BackwardInv, EndInv, Body, Rollback, Leaving,
         Bundled
  <2>4. CASE Preserve
    <3>1. /\ pc = "preserving" /\ faults # {} /\ run.kept /\ guard.lock /\ Bundled
          /\ Ours
      BY <2>4, <2>0 DEF Preserve, ForwardInv, BackwardInv, EndInv, Rollback, Ours
    <3>2. ~Fault("clean") /\ ~Fault("half")
      BY <3>1, <1>a DEF Body
    <3>3. /\ UNCHANGED <<proj, bundle, manifest, guard, faults, tampered>>
          /\ pc' = "restoring" /\ db' = "none"
          /\ run' = [run EXCEPT !.moved = TRUE]
      BY <2>4, <3>1, <3>2 DEF Preserve, FaultUnless, Goto, recovery
    <3>4. run'.kept /\ run'.moved
      BY <3>1, <3>3, <1>0 DEF Runs
    <3> QED
      BY <3>1, <3>3, <3>4 DEF ForwardInv, BackwardInv, EndInv, Body, Rollback, Leaving,
         Bundled
  <2>5. CASE RestoreProjections
    <3>1. /\ pc = "rerendering" /\ faults # {} /\ run.kept /\ guard.lock /\ Bundled
          /\ db = "source" /\ bundle = "full"
      BY <2>5, <2>0 DEF RestoreProjections, ForwardInv, BackwardInv, EndInv, Rollback,
         Bundled
    <3>2. ~Fault("clean") /\ ~FaultUnless(bundle = "full")
      BY <3>1, <1>a DEF Body, FaultUnless
    <3>3. /\ UNCHANGED <<db, bundle, manifest, guard, faults, tampered>>
          /\ pc' = "reporting" /\ proj' = "source"
          /\ \E status : run' = [run EXCEPT !.status = status, !.next = "settling"]
      BY <2>5, <3>1, <3>2, Zenon DEF RestoreProjections, Reporting, recovery
    <3>4. run'.kept /\ run'.next = "settling"
      BY <3>1, <3>3, <1>0 DEF Runs
    <3> QED
      BY <3>1, <3>3, <3>4 DEF ForwardInv, BackwardInv, EndInv, Body, Rollback, Leaving,
         Bundled
  <2>6. CASE Settle
    <3>1. /\ pc = "settling" /\ faults # {} /\ guard.lock /\ Restored
      BY <2>6, <2>0 DEF Settle, ForwardInv, BackwardInv, EndInv, Rollback, Bundled,
         Restored
    <3>2. ~FaultUnless(Restored)
      BY <3>1, <1>a DEF Body, FaultUnless
    <3>3. /\ UNCHANGED <<db, proj, bundle, manifest, faults, tampered>>
          /\ pc' = "clearing"
          /\ guard' = [guard EXCEPT !.recovery = FALSE]
          /\ run' = [run EXCEPT !.verdict = "source"]
      BY <2>6, <3>2 DEF Settle, Goto, recovery, project
    <3>4. guard'.lock /\ run'.verdict = "source"
      BY <3>1, <3>3, <1>0 DEF Runs
    <3> QED
      BY <3>1, <3>3, <3>4 DEF ForwardInv, BackwardInv, EndInv, Body, Rollback, Leaving,
         Authorities, Restored
  <2>7. CASE VerifyCleared
    <3>1. /\ pc = "rechecking" /\ guard.lock /\ Authorities /\ sentinel = "none"
          /\ faults # {} => run.verdict = "source"
      BY <2>7, <2>0 DEF VerifyCleared, EndInv, Leaving
    <3>2. ~FaultUnless(Authorities)
      BY <3>1, <1>a DEF Body, FaultUnless
    <3>3. pc' = "idle" /\ UNCHANGED <<db, proj, sentinel, bundle, manifest, run, faults>>
      BY <2>7, <3>2 DEF VerifyCleared, Goto, recovery, project
    <3> QED
      BY <3>1, <3>3 DEF ForwardInv, BackwardInv, EndInv, Body, Rollback, Leaving,
         Authorities, Restored
  <2> USE DEF project, recovery, ForwardInv, BackwardInv, EndInv, Body, Rollback, Leaving, Bundled,
             Authorities, Migrated, Restored
  <2>8. CASE EarlyFault
    BY <1>0, <1>a, <2>0, <2>8 DEF EarlyFault
  <2>9. CASE Refuse
    BY <1>0, <1>a, <2>0, <2>9 DEF Refuse, Goto
  <2>10. CASE Accept
    BY <1>0, <1>a, <2>0, <2>10 DEF Accept, Goto
  <2>11. CASE BackUp
    BY <1>0, <1>a, <2>0, <2>11 DEF BackUp, Goto
  <2>12. CASE CaptureProjections
    BY <1>0, <1>a, <2>0, <2>12 DEF CaptureProjections, Goto, FaultUnless, Reporting
  <2>13. CASE Stage
    BY <1>0, <1>a, <2>0, <2>13 DEF Stage, Goto, FaultUnless
  <2>14. CASE CompareSource
    BY <1>0, <1>a, <2>0, <2>14 DEF CompareSource, Goto, FaultUnless
  <2>15. CASE Arm
    BY <1>0, <1>a, <2>0, <2>15 DEF Arm, Goto, FaultUnless, Armed, NotArmed
  <2>16. CASE Publish
    BY <1>0, <1>a, <2>0, <2>16 DEF Publish, Goto, FaultUnless
  <2>17. CASE Record
    BY <1>0, <1>a, <2>0, <2>17 DEF Record, Goto, FaultUnless
  <2>18. CASE Restore
    BY <1>0, <1>a, <2>0, <2>18 DEF Restore, Goto, FaultUnless, Expected, Ours, Reporting
  <2>19. CASE VerifySource
    BY <1>0, <1>a, <2>0, <2>19 DEF VerifySource, Goto, FaultUnless, Reporting
  <2>20. CASE Report
    BY <1>0, <1>a, <2>0, <2>20 DEF Report, Goto, FaultUnless, Armed, NotArmed
  <2>21. CASE Rearm
    BY <1>0, <1>a, <2>0, <2>21 DEF Rearm, Goto, FaultUnless, Armed, NotArmed
  <2>22. CASE Close
    BY <1>0, <1>a, <2>0, <2>22 DEF Close, Goto, FaultUnless
  <2>23. CASE VerifyClear
    BY <1>0, <1>a, <2>0, <2>23 DEF VerifyClear, Goto, FaultUnless, ClearFails
  <2>24. CASE Unlink
    BY <1>0, <1>a, <2>0, <2>24 DEF Unlink, Goto, FaultUnless, ClearFails
  <2>25. CASE UnlinkUnnoticed
    BY <1>0, <1>a, <2>0, <2>25 DEF UnlinkUnnoticed
  <2>26. CASE Crash
    BY <1>0, <1>a, <2>0, <2>26 DEF Crash
  <2>27. CASE Interfere
    BY <1>0, <1>a, <2>0, <2>27 DEF Interfere, OneFault
  <2>28. CASE UNCHANGED vars
    BY <1>0, <1>a, <2>0, <2>28 DEF vars
  <2> QED
    BY <1>2, <2>1, <2>2, <2>3, <2>4, <2>5, <2>6, <2>7, <2>8, <2>9, <2>10, <2>11, <2>12,
       <2>13, <2>14, <2>15, <2>16, <2>17, <2>18, <2>19, <2>20, <2>21, <2>22, <2>23,
       <2>24, <2>25, <2>26, <2>27, <2>28 DEF Next, Run
<1> QED
  BY <1>1, <1>2

\* One step of the try block that fails, in a run in which nothing else goes
\* wrong, ends with the source project and no sentinel, however many steps may
\* fail in the model (the except branch of _migrate_project_to_target, and
\* _MigrationGuard.clear_sentinel).
THEOREM OneFaultRecovered == Spec => []OneFaultIsRecovered
<1>1. Init => OneFaultInv
  BY DEF Init, FreshRun, OneFaultInv, ForwardInv, BackwardInv, EndInv, Body, Rollback,
     Leaving
<1>2. TypeOK /\ OneFaultInv /\ [Next]_vars => OneFaultInv'
  BY OneFaultStep
<1>3. OneFaultInv => OneFaultIsRecovered
  <2>1. SUFFICES ASSUME OneFaultInv, pc = "idle", run.verdict # "killed", ~tampered,
                        \E step \in Body : \/ faults = {<<step, "clean">>}
                                           \/ faults = {<<"activating", "half">>}
                 PROVE  sentinel = "none" /\ Restored
    BY DEF OneFaultIsRecovered
  <2>2. OneFault /\ faults # {}
    BY <2>1 DEF OneFault
  <2> QED
    BY <2>1, <2>2 DEF OneFaultInv, EndInv
<1> QED
  BY <1>1, <1>2, <1>3, TypeCorrect, PTL DEF Spec
=============================================================================
