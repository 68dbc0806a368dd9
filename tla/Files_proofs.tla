---------------------------- MODULE Files_proofs ----------------------------
(***************************************************************************)
(* Proofs about the files of a project: the operations on them, for any    *)
(* objects of others and any number of their moves and of system calls that*)
(* fail, the views rendered into them, for any commands and any edits, and *)
(* the copies of the database, for any number of calls and intrusions.     *)
(***************************************************************************)
EXTENDS FileSafety, ProjectViews, DatabaseBackup, SequenceTheorems, TLAPS

Exchanging == {"check exchange", "exchange", "confirm exchange", "reconcile exchange",
               "exchange back", "undo"}
Moving == {"move", "confirm move", "reconcile move", "move back"}
Deleting == {"set aside", "inspect", "delete", "undelete", "restore"}
Replacing == {"replace", "look after", "complete", "finish", "reconcile", "replace back",
              "move backup", "put back attributes"}

\* The steps left to a call that deleted the old object.
Ending == {"final", "undelete", "restore", "undo", "sweep", "reconcile",
           "put back attributes", "sweep temporary", "over"}

\* The parts of the type invariant: where everything is, how often, what else.
PlacesTypeOK == at \in [Names -> Object \cup {Nothing}] /\ destroyed \subseteq Object
CountsTypeOK == moves \in 0 .. MaxMoves /\ faults \in 0 .. MaxFaults
KindsTypeOK ==
    /\ system \in {"posix", "windows"}
    /\ op \in {"write", "replace", "create", "remove"}
    /\ readonly \subseteq {Old, New}
    /\ inPlace \in BOOLEAN
    /\ task \in Tasks
    /\ wanted \in [source : Object \cup {Nothing}, destination : Object \cup {Nothing}]
    /\ before \in Object \cup {Nothing}
    /\ cleared \subseteq readonly
    /\ touched \subseteq Names
    /\ used \subseteq Foreign
    /\ result \in {"none", "ok", "failed"}

\* What a step says of the call and of what it found.
CallInOrder ==
    /\ step = "look" =>
           /\ at["destination"] \in {Old, Nothing} \cup Unsafe
           /\ at["source"] \in {New, Nothing}
           /\ at["aside"] = Nothing /\ before = Nothing /\ destroyed = {}
           /\ wanted.source = New
    /\ step \in {"look", "over"} \/ before \in {Old, Nothing}
    /\ op = "remove" => step \in {"look", "over"} \/ before = Old
    /\ step \in Exchanging => before = Old /\ op \in {"write", "replace"}
    /\ step \in Moving => before = Nothing /\ op \in {"write", "replace"}
    /\ step \in Replacing => before = Old
    /\ step = "move by handle" => before = Nothing
    /\ step = "uncreate" => op = "create"
    /\ step = "recheck" => op # "create"
    /\ task = "remove" => op = "remove"
    /\ task = "uncreate" => op = "create"
    /\ task = "discard" => before = Old /\ op \in {"write", "replace"}
    /\ step \in Deleting => task \in {"discard", "retry", "sweep", "remove", "uncreate"}

\* What is deleted was looked at under a name nobody else knows.
DoomedIsSeen ==
    /\ step = "delete" => at["aside"] = DoomedObject
    /\ step = "finish" => at["aside"] = before
    /\ OnlyOwnDestroyed

\* On POSIX, unless others interfere, only the two objects of the call are met.
OnlyOldAndNew ==
    system = "posix" /\ Publishes /\ before = Old /\ Undisturbed =>
        /\ at["source"] \in {Old, New, Nothing}
        /\ at["aside"] \in {Old, New, Nothing}
        /\ ReadersFindAFile

\* The old object is displaced by the new one before it is deleted.
OldIsDisplaced ==
    Publishes /\ before = Old /\ Undisturbed =>
        /\ \/ system = "windows" \/ task = "publish" \/ step \in {"prepare", "recheck"}
           => wanted.source = New
        /\ system = "posix" /\ step \in Deleting /\ task = "discard" => at["destination"] = New
        /\ system = "posix" /\ step = "delete" /\ task = "discard" => at["source"] = Nothing
        /\ step = "finish" => at["source"] = Nothing
        /\ Old \in destroyed =>
              /\ step \in Ending
              /\ at["destination"] = New
              /\ at["source"] = Nothing /\ at["aside"] = Nothing

\* The inductive invariant.
FilesInv == FilesTypeOK /\ CallInOrder /\ DoomedIsSeen /\ OnlyOldAndNew /\ OldIsDisplaced

-----------------------------------------------------------------------------
(* A step preserves each part. *)

\* Objects lie under names, or were destroyed; a step moves them or destroys
\* them.
LEMMA PlacesStep ==
    ASSUME PlacesTypeOK, KindsTypeOK, CallInOrder, DoomedIsSeen, [FilesNext]_filesVars
    PROVE  PlacesTypeOK'
<1> USE ForeignAssumption, UnsafeAssumption, BoundsAssumption
    DEF PlacesTypeOK, Goto, Return, Fault, NoFault, At, Names, Object, Nothing, Old, New,
        call, others
<1>1. ASSUME Look PROVE PlacesTypeOK'
  BY <1>1 DEF Look, Ordinary
<1>2. ASSUME Others(WPinned) PROVE PlacesTypeOK'
  <2>1. PICK n \in Names :
           at' = [at EXCEPT ![n] = Nothing] \/ \E f \in Foreign : at' = [at EXCEPT ![n] = f]
    BY <1>2 DEF Others
  <2>2. at \in [Names -> Object \cup {Nothing}] /\ destroyed \subseteq Object
    BY DEF PlacesTypeOK
  <2>3. destroyed' = destroyed
    BY <1>2 DEF Others
  <2>4. QED
    BY <2>1, <2>2, <2>3
<1>3. ASSUME OthersMoveDirectory PROVE PlacesTypeOK'
  BY <1>3 DEF OthersMoveDirectory, OthersMayAct
<1>4. ASSUME Die PROVE PlacesTypeOK'
  BY <1>4 DEF Die
<1>5. ASSUME system = "posix", PCreateTemporary PROVE PlacesTypeOK'
  BY <1>5 DEF PCreateTemporary
<1>6. ASSUME system = "posix", PCreateExclusive PROVE PlacesTypeOK'
  BY <1>6 DEF PCreateExclusive
<1>7. ASSUME system = "posix", PUncreate PROVE PlacesTypeOK'
  BY <1>7 DEF PUncreate
<1>8. ASSUME system = "posix", PRecheck PROVE PlacesTypeOK'
  BY <1>8 DEF PRecheck, Unwind
<1>9. ASSUME system = "posix", PCheckExchange PROVE PlacesTypeOK'
  BY <1>9 DEF PCheckExchange, Unwind
<1>10. ASSUME system = "posix", PExchange PROVE PlacesTypeOK'
  BY <1>10 DEF PExchange, Exchanged, BothExist
<1>11. ASSUME system = "posix", PConfirmExchange PROVE PlacesTypeOK'
  BY <1>11 DEF PConfirmExchange
<1>12. ASSUME system = "posix", PReconcileExchange PROVE PlacesTypeOK'
  BY <1>12 DEF PReconcileExchange, Unwind
<1>13. ASSUME system = "posix", PExchangeBack PROVE PlacesTypeOK'
  BY <1>13 DEF PExchangeBack, Unwind, Exchanged, BothExist
<1>14. ASSUME system = "posix", PMove PROVE PlacesTypeOK'
  BY <1>14 DEF PMove, Moved, CanMove
<1>15. ASSUME system = "posix", PConfirmMove PROVE PlacesTypeOK'
  BY <1>15 DEF PConfirmMove, Unwind
<1>16. ASSUME system = "posix", PReconcileMove PROVE PlacesTypeOK'
  BY <1>16 DEF PReconcileMove, Unwind
<1>17. ASSUME system = "posix", PMoveBack PROVE PlacesTypeOK'
  BY <1>17 DEF PMoveBack, Unwind, Moved
<1>18. ASSUME system = "posix", PSetAside PROVE PlacesTypeOK'
  BY <1>18 DEF PSetAside, Moved, Doomed
<1>19. ASSUME system = "posix", PInspect PROVE PlacesTypeOK'
  BY <1>19 DEF PInspect, Moved, Doomed, DoomedObject, DeleteFails
<1>20. ASSUME system = "posix", PDelete PROVE PlacesTypeOK'
  BY <1>20
     DEF PDelete, AfterDelete, Doomed, DoomedObject, KindsTypeOK, CallInOrder,
         DoomedIsSeen, Replacing, Deleting
<1>21. ASSUME system = "posix", PUndelete PROVE PlacesTypeOK'
  BY <1>21 DEF PUndelete, BackToItsName, Moved, Doomed
<1>22. ASSUME system = "posix", PRestore PROVE PlacesTypeOK'
  BY <1>22 DEF PRestore, BackToItsName, Moved, Doomed, DeleteFails
<1>23. ASSUME system = "posix", PUndo PROVE PlacesTypeOK'
  BY <1>23 DEF PUndo, Unwind
<1>24. ASSUME system = "posix", PSweep PROVE PlacesTypeOK'
  BY <1>24 DEF PSweep
<1>25. ASSUME system = "posix", PFinal PROVE PlacesTypeOK'
  BY <1>25 DEF PFinal
<1>26. ASSUME system = "windows", WCreateTemporary PROVE PlacesTypeOK'
  BY <1>26 DEF WCreateTemporary
<1>27. ASSUME system = "windows", WCreateExclusive PROVE PlacesTypeOK'
  BY <1>27 DEF WCreateExclusive
<1>28. ASSUME system = "windows", WRecheck PROVE PlacesTypeOK'
  BY <1>28 DEF WRecheck, WDropByHandle, Lifted
<1>29. ASSUME system = "windows", WReplace PROVE PlacesTypeOK'
  BY <1>29 DEF WReplace, Replaced, Moved, Lifted
<1>30. ASSUME system = "windows", WLookAfter PROVE PlacesTypeOK'
  BY <1>30 DEF WLookAfter, IsReplaced
<1>31. ASSUME system = "windows", WComplete PROVE PlacesTypeOK'
  BY <1>31 DEF WComplete, Moved
<1>32. ASSUME system = "windows", WFinish PROVE PlacesTypeOK'
  BY <1>32
     DEF WFinish, KindsTypeOK, CallInOrder, DoomedIsSeen, DoomedObject, Replacing, Deleting
<1>33. ASSUME system = "windows", WReconcile PROVE PlacesTypeOK'
  BY <1>33 DEF WReconcile
<1>34. ASSUME system = "windows", WReplaceBack PROVE PlacesTypeOK'
  BY <1>34 DEF WReplaceBack, Replaced, Moved
<1>35. ASSUME system = "windows", WMoveBackup PROVE PlacesTypeOK'
  BY <1>35 DEF WMoveBackup, Moved
<1>36. ASSUME system = "windows", WPutBackAttributes PROVE PlacesTypeOK'
  BY <1>36 DEF WPutBackAttributes, WFail
<1>37. ASSUME system = "windows", WSweepTemporary PROVE PlacesTypeOK'
  BY <1>37 DEF WSweepTemporary
<1>38. ASSUME system = "windows", WMoveByHandle PROVE PlacesTypeOK'
  BY <1>38 DEF WMoveByHandle, Moved, WDropByHandle
<1>39. ASSUME system = "windows", WRemove PROVE PlacesTypeOK'
  BY <1>39
     DEF WRemove, KindsTypeOK, CallInOrder, DoomedIsSeen, DoomedObject, Replacing, Deleting
<1>40. ASSUME system = "windows", WGone PROVE PlacesTypeOK'
  BY <1>40 DEF WGone
<1>41. ASSUME system = "windows", WFinal PROVE PlacesTypeOK'
  BY <1>41 DEF WFinal
<1>42. ASSUME UNCHANGED filesVars PROVE PlacesTypeOK'
  BY <1>42 DEF filesVars
<1>43. CASE PosixNext
  BY <1>43, <1>5, <1>6, <1>7, <1>8, <1>9, <1>10, <1>11, <1>12, <1>13, <1>14, <1>15, <1>16,
     <1>17, <1>18, <1>19, <1>20, <1>21, <1>22, <1>23, <1>24, <1>25
     DEF PosixNext
<1>44. CASE WindowsNext
  BY <1>44, <1>26, <1>27, <1>28, <1>29, <1>30, <1>31, <1>32, <1>33, <1>34, <1>35, <1>36,
     <1>37, <1>38, <1>39, <1>40, <1>41
     DEF WindowsNext
<1>45. QED
  BY <1>1, <1>2, <1>3, <1>4, <1>42, <1>43, <1>44 DEF FilesNext

\* The bounds on what others do and on what fails are kept.
LEMMA CountsStep ==
    ASSUME CountsTypeOK, [FilesNext]_filesVars
    PROVE  CountsTypeOK'
<1> USE BoundsAssumption
    DEF CountsTypeOK, Fault, NoFault, others, OthersMayAct
<1>1. ASSUME Look PROVE CountsTypeOK'
  BY <1>1 DEF Look
<1>2. ASSUME Others(WPinned) PROVE CountsTypeOK'
  BY <1>2 DEF Others, OthersMayAct
<1>3. ASSUME OthersMoveDirectory PROVE CountsTypeOK'
  BY <1>3 DEF OthersMoveDirectory, OthersMayAct
<1>4. ASSUME Die PROVE CountsTypeOK'
  BY <1>4 DEF Die
<1>5. ASSUME system = "posix", PCreateTemporary PROVE CountsTypeOK'
  BY <1>5 DEF PCreateTemporary
<1>6. ASSUME system = "posix", PCreateExclusive PROVE CountsTypeOK'
  BY <1>6 DEF PCreateExclusive
<1>7. ASSUME system = "posix", PUncreate PROVE CountsTypeOK'
  BY <1>7 DEF PUncreate
<1>8. ASSUME system = "posix", PRecheck PROVE CountsTypeOK'
  BY <1>8 DEF PRecheck
<1>9. ASSUME system = "posix", PCheckExchange PROVE CountsTypeOK'
  BY <1>9 DEF PCheckExchange
<1>10. ASSUME system = "posix", PExchange PROVE CountsTypeOK'
  <2>1. /\ moves' = moves
        /\ faults' = faults \/ (faults < MaxFaults /\ faults' = faults + 1)
    BY <1>10, ZenonT(30) DEF PExchange
  <2>2. QED
    BY <2>1
<1>11. ASSUME system = "posix", PConfirmExchange PROVE CountsTypeOK'
  BY <1>11 DEF PConfirmExchange
<1>12. ASSUME system = "posix", PReconcileExchange PROVE CountsTypeOK'
  BY <1>12 DEF PReconcileExchange
<1>13. ASSUME system = "posix", PExchangeBack PROVE CountsTypeOK'
  <2>1. /\ moves' = moves
        /\ faults' = faults \/ (faults < MaxFaults /\ faults' = faults + 1)
    BY <1>13, ZenonT(30) DEF PExchangeBack
  <2>2. QED
    BY <2>1
<1>14. ASSUME system = "posix", PMove PROVE CountsTypeOK'
  <2>1. /\ moves' = moves
        /\ faults' = faults \/ (faults < MaxFaults /\ faults' = faults + 1)
    BY <1>14, ZenonT(30) DEF PMove
  <2>2. QED
    BY <2>1
<1>15. ASSUME system = "posix", PConfirmMove PROVE CountsTypeOK'
  BY <1>15 DEF PConfirmMove
<1>16. ASSUME system = "posix", PReconcileMove PROVE CountsTypeOK'
  BY <1>16 DEF PReconcileMove
<1>17. ASSUME system = "posix", PMoveBack PROVE CountsTypeOK'
  <2>1. /\ moves' = moves
        /\ faults' = faults \/ (faults < MaxFaults /\ faults' = faults + 1)
    BY <1>17, ZenonT(30) DEF PMoveBack
  <2>2. QED
    BY <2>1
<1>18. ASSUME system = "posix", PSetAside PROVE CountsTypeOK'
  <2>1. /\ moves' = moves
        /\ faults' = faults \/ (faults < MaxFaults /\ faults' = faults + 1)
    BY <1>18, ZenonT(30) DEF PSetAside
  <2>2. QED
    BY <2>1
<1>19. ASSUME system = "posix", PInspect PROVE CountsTypeOK'
  BY <1>19 DEF PInspect
<1>20. ASSUME system = "posix", PDelete PROVE CountsTypeOK'
  BY <1>20 DEF PDelete
<1>21. ASSUME system = "posix", PUndelete PROVE CountsTypeOK'
  BY <1>21 DEF PUndelete
<1>22. ASSUME system = "posix", PRestore PROVE CountsTypeOK'
  BY <1>22 DEF PRestore
<1>23. ASSUME system = "posix", PUndo PROVE CountsTypeOK'
  BY <1>23 DEF PUndo
<1>24. ASSUME system = "posix", PSweep PROVE CountsTypeOK'
  BY <1>24 DEF PSweep
<1>25. ASSUME system = "posix", PFinal PROVE CountsTypeOK'
  BY <1>25 DEF PFinal
<1>26. ASSUME system = "windows", WCreateTemporary PROVE CountsTypeOK'
  BY <1>26 DEF WCreateTemporary
<1>27. ASSUME system = "windows", WCreateExclusive PROVE CountsTypeOK'
  BY <1>27 DEF WCreateExclusive
<1>28. ASSUME system = "windows", WRecheck PROVE CountsTypeOK'
  <2>1. /\ moves' = moves
        /\ faults' = faults \/ (faults < MaxFaults /\ faults' = faults + 1)
    BY <1>28, ZenonT(30) DEF WRecheck
  <2>2. QED
    BY <2>1
<1>29. ASSUME system = "windows", WReplace PROVE CountsTypeOK'
  <2>1. /\ moves' = moves
        /\ faults' = faults \/ (faults < MaxFaults /\ faults' = faults + 1)
    BY <1>29, ZenonT(30) DEF WReplace
  <2>2. QED
    BY <2>1
<1>30. ASSUME system = "windows", WLookAfter PROVE CountsTypeOK'
  BY <1>30 DEF WLookAfter
<1>31. ASSUME system = "windows", WComplete PROVE CountsTypeOK'
  <2>1. /\ moves' = moves
        /\ faults' = faults \/ (faults < MaxFaults /\ faults' = faults + 1)
    BY <1>31, ZenonT(30) DEF WComplete
  <2>2. QED
    BY <2>1
<1>32. ASSUME system = "windows", WFinish PROVE CountsTypeOK'
  BY <1>32 DEF WFinish
<1>33. ASSUME system = "windows", WReconcile PROVE CountsTypeOK'
  BY <1>33 DEF WReconcile
<1>34. ASSUME system = "windows", WReplaceBack PROVE CountsTypeOK'
  <2>1. /\ moves' = moves
        /\ faults' = faults \/ (faults < MaxFaults /\ faults' = faults + 1)
    BY <1>34, ZenonT(30) DEF WReplaceBack
  <2>2. QED
    BY <2>1
<1>35. ASSUME system = "windows", WMoveBackup PROVE CountsTypeOK'
  <2>1. /\ moves' = moves
        /\ faults' = faults \/ (faults < MaxFaults /\ faults' = faults + 1)
    BY <1>35, ZenonT(30) DEF WMoveBackup
  <2>2. QED
    BY <2>1
<1>36. ASSUME system = "windows", WPutBackAttributes PROVE CountsTypeOK'
  <2>1. /\ moves' = moves
        /\ faults' = faults \/ (faults < MaxFaults /\ faults' = faults + 1)
    BY <1>36, ZenonT(30) DEF WPutBackAttributes
  <2>2. QED
    BY <2>1
<1>37. ASSUME system = "windows", WSweepTemporary PROVE CountsTypeOK'
  <2>1. /\ moves' = moves
        /\ faults' = faults \/ (faults < MaxFaults /\ faults' = faults + 1)
    BY <1>37, ZenonT(30) DEF WSweepTemporary
  <2>2. QED
    BY <2>1
<1>38. ASSUME system = "windows", WMoveByHandle PROVE CountsTypeOK'
  <2>1. /\ moves' = moves
        /\ \/ faults' = faults
           \/ faults < MaxFaults /\ faults' = faults + 1
           \/ faults + 2 <= MaxFaults /\ faults' = faults + 2
    BY <1>38, ZenonT(30) DEF WMoveByHandle
  <2>2. QED
    BY <2>1
<1>39. ASSUME system = "windows", WRemove PROVE CountsTypeOK'
  BY <1>39 DEF WRemove
<1>40. ASSUME system = "windows", WGone PROVE CountsTypeOK'
  BY <1>40 DEF WGone
<1>41. ASSUME system = "windows", WFinal PROVE CountsTypeOK'
  BY <1>41 DEF WFinal
<1>42. ASSUME UNCHANGED filesVars PROVE CountsTypeOK'
  BY <1>42 DEF filesVars
<1>43. CASE PosixNext
  BY <1>43, <1>5, <1>6, <1>7, <1>8, <1>9, <1>10, <1>11, <1>12, <1>13, <1>14, <1>15, <1>16,
     <1>17, <1>18, <1>19, <1>20, <1>21, <1>22, <1>23, <1>24, <1>25
     DEF PosixNext
<1>44. CASE WindowsNext
  BY <1>44, <1>26, <1>27, <1>28, <1>29, <1>30, <1>31, <1>32, <1>33, <1>34, <1>35, <1>36,
     <1>37, <1>38, <1>39, <1>40, <1>41
     DEF WindowsNext
<1>45. QED
  BY <1>1, <1>2, <1>3, <1>4, <1>42, <1>43, <1>44 DEF FilesNext

\* What the caller fixed and what a call notes keep their types.
LEMMA KindsStep ==
    ASSUME PlacesTypeOK, KindsTypeOK, [FilesNext]_filesVars
    PROVE  KindsTypeOK'
<1> USE UnsafeAssumption
    DEF KindsTypeOK, Tasks, Goto, Return, call, others
<1>1. ASSUME Look PROVE KindsTypeOK'
  BY <1>1 DEF Look, Object, Names, Nothing, New, Old, PlacesTypeOK
<1>2. ASSUME Others(WPinned) PROVE KindsTypeOK'
  BY <1>2 DEF Others, Object, Names, Nothing, New, Old
<1>3. ASSUME OthersMoveDirectory PROVE KindsTypeOK'
  BY <1>3 DEF OthersMoveDirectory
<1>4. ASSUME Die PROVE KindsTypeOK'
  BY <1>4 DEF Die
<1>5. ASSUME system = "posix", PCreateTemporary PROVE KindsTypeOK'
  BY <1>5 DEF PCreateTemporary
<1>6. ASSUME system = "posix", PCreateExclusive PROVE KindsTypeOK'
  BY <1>6 DEF PCreateExclusive
<1>7. ASSUME system = "posix", PUncreate PROVE KindsTypeOK'
  BY <1>7 DEF PUncreate
<1>8. ASSUME system = "posix", PRecheck PROVE KindsTypeOK'
  BY <1>8 DEF PRecheck, Unwind
<1>9. ASSUME system = "posix", PCheckExchange PROVE KindsTypeOK'
  BY <1>9 DEF PCheckExchange, Unwind
<1>10. ASSUME system = "posix", PExchange PROVE KindsTypeOK'
  BY <1>10 DEF PExchange
<1>11. ASSUME system = "posix", PConfirmExchange PROVE KindsTypeOK'
  BY <1>11 DEF PConfirmExchange
<1>12. ASSUME system = "posix", PReconcileExchange PROVE KindsTypeOK'
  BY <1>12 DEF PReconcileExchange, Unwind
<1>13. ASSUME system = "posix", PExchangeBack PROVE KindsTypeOK'
  BY <1>13 DEF PExchangeBack, Unwind
<1>14. ASSUME system = "posix", PMove PROVE KindsTypeOK'
  BY <1>14 DEF PMove
<1>15. ASSUME system = "posix", PConfirmMove PROVE KindsTypeOK'
  BY <1>15 DEF PConfirmMove, Unwind
<1>16. ASSUME system = "posix", PReconcileMove PROVE KindsTypeOK'
  BY <1>16 DEF PReconcileMove, Unwind
<1>17. ASSUME system = "posix", PMoveBack PROVE KindsTypeOK'
  BY <1>17 DEF PMoveBack, Unwind
<1>18. ASSUME system = "posix", PSetAside PROVE KindsTypeOK'
  BY <1>18 DEF PSetAside
<1>19. ASSUME system = "posix", PInspect PROVE KindsTypeOK'
  BY <1>19 DEF PInspect, DeleteFails
<1>20. ASSUME system = "posix", PDelete PROVE KindsTypeOK'
  BY <1>20 DEF PDelete, AfterDelete
<1>21. ASSUME system = "posix", PUndelete PROVE KindsTypeOK'
  BY <1>21 DEF PUndelete
<1>22. ASSUME system = "posix", PRestore PROVE KindsTypeOK'
  BY <1>22 DEF PRestore, DeleteFails
<1>23. ASSUME system = "posix", PUndo PROVE KindsTypeOK'
  <2>1. wanted' \in [source : Object \cup {Nothing}, destination : Object \cup {Nothing}]
    <3>1. at["source"] \in Object \cup {Nothing} /\ New \in Object
      BY DEF PlacesTypeOK, Names, Object
    <3>2. wanted' = [source |-> at["source"], destination |-> New]
      BY <1>23 DEF PUndo
    <3>3. QED
      BY <3>1, <3>2
  <2>2. /\ task' = "undo"
        /\ result' \in {result, "failed"}
        /\ UNCHANGED <<system, op, readonly, inPlace, before, cleared, touched, used>>
    BY <1>23 DEF PUndo, Unwind
  <2>3. QED
    BY <2>1, <2>2
<1>24. ASSUME system = "posix", PSweep PROVE KindsTypeOK'
  BY <1>24 DEF PSweep
<1>25. ASSUME system = "posix", PFinal PROVE KindsTypeOK'
  BY <1>25 DEF PFinal
<1>26. ASSUME system = "windows", WCreateTemporary PROVE KindsTypeOK'
  BY <1>26 DEF WCreateTemporary
<1>27. ASSUME system = "windows", WCreateExclusive PROVE KindsTypeOK'
  BY <1>27 DEF WCreateExclusive
<1>28. ASSUME system = "windows", WRecheck PROVE KindsTypeOK'
  BY <1>28 DEF WRecheck, WDropByHandle, Lifted, New
<1>29. ASSUME system = "windows", WReplace PROVE KindsTypeOK'
  BY <1>29 DEF WReplace, Lifted, New
<1>30. ASSUME system = "windows", WLookAfter PROVE KindsTypeOK'
  BY <1>30 DEF WLookAfter
<1>31. ASSUME system = "windows", WComplete PROVE KindsTypeOK'
  BY <1>31 DEF WComplete
<1>32. ASSUME system = "windows", WFinish PROVE KindsTypeOK'
  BY <1>32 DEF WFinish
<1>33. ASSUME system = "windows", WReconcile PROVE KindsTypeOK'
  BY <1>33 DEF WReconcile
<1>34. ASSUME system = "windows", WReplaceBack PROVE KindsTypeOK'
  BY <1>34 DEF WReplaceBack
<1>35. ASSUME system = "windows", WMoveBackup PROVE KindsTypeOK'
  BY <1>35 DEF WMoveBackup
<1>36. ASSUME system = "windows", WPutBackAttributes PROVE KindsTypeOK'
  BY <1>36 DEF WPutBackAttributes, WFail
<1>37. ASSUME system = "windows", WSweepTemporary PROVE KindsTypeOK'
  BY <1>37 DEF WSweepTemporary
<1>38. ASSUME system = "windows", WMoveByHandle PROVE KindsTypeOK'
  BY <1>38 DEF WMoveByHandle, WDropByHandle
<1>39. ASSUME system = "windows", WRemove PROVE KindsTypeOK'
  BY <1>39 DEF WRemove
<1>40. ASSUME system = "windows", WGone PROVE KindsTypeOK'
  BY <1>40 DEF WGone
<1>41. ASSUME system = "windows", WFinal PROVE KindsTypeOK'
  BY <1>41 DEF WFinal
<1>42. ASSUME UNCHANGED filesVars PROVE KindsTypeOK'
  BY <1>42 DEF filesVars
<1>43. CASE PosixNext
  BY <1>43, <1>5, <1>6, <1>7, <1>8, <1>9, <1>10, <1>11, <1>12, <1>13, <1>14, <1>15, <1>16,
     <1>17, <1>18, <1>19, <1>20, <1>21, <1>22, <1>23, <1>24, <1>25
     DEF PosixNext
<1>44. CASE WindowsNext
  BY <1>44, <1>26, <1>27, <1>28, <1>29, <1>30, <1>31, <1>32, <1>33, <1>34, <1>35, <1>36,
     <1>37, <1>38, <1>39, <1>40, <1>41
     DEF WindowsNext
<1>45. QED
  BY <1>1, <1>2, <1>3, <1>4, <1>42, <1>43, <1>44 DEF FilesNext

\* A call takes its steps in the order of its operation.
LEMMA FilesOrderStep ==
    ASSUME FilesTypeOK, CallInOrder, [FilesNext]_filesVars
    PROVE  CallInOrder'
<1> USE ForeignAssumption, UnsafeAssumption, BoundsAssumption
    DEF CallInOrder, FilesTypeOK, Exchanging, Moving, Deleting, Replacing, Goto, Return,
        Fault, NoFault, At, Names, Object, Nothing, Old, New, call, others
<1>1. ASSUME Look PROVE CallInOrder'
  BY <1>1 DEF Look, Ordinary
<1>2. ASSUME Others(WPinned) PROVE CallInOrder'
  BY <1>2 DEF Others, OthersMayAct
<1>3. ASSUME OthersMoveDirectory PROVE CallInOrder'
  BY <1>3 DEF OthersMoveDirectory, OthersMayAct
<1>4. ASSUME Die PROVE CallInOrder'
  BY <1>4 DEF Die
<1>5. ASSUME system = "posix", PCreateTemporary PROVE CallInOrder'
  BY <1>5 DEF PCreateTemporary
<1>6. ASSUME system = "posix", PCreateExclusive PROVE CallInOrder'
  BY <1>6 DEF PCreateExclusive
<1>7. ASSUME system = "posix", PUncreate PROVE CallInOrder'
  BY <1>7 DEF PUncreate
<1>8. ASSUME system = "posix", PRecheck PROVE CallInOrder'
  BY <1>8 DEF PRecheck, Unwind
<1>9. ASSUME system = "posix", PCheckExchange PROVE CallInOrder'
  BY <1>9 DEF PCheckExchange, Unwind
<1>10. ASSUME system = "posix", PExchange PROVE CallInOrder'
  BY <1>10 DEF PExchange, Exchanged, BothExist
<1>11. ASSUME system = "posix", PConfirmExchange PROVE CallInOrder'
  BY <1>11 DEF PConfirmExchange
<1>12. ASSUME system = "posix", PReconcileExchange PROVE CallInOrder'
  BY <1>12 DEF PReconcileExchange, Unwind
<1>13. ASSUME system = "posix", PExchangeBack PROVE CallInOrder'
  BY <1>13 DEF PExchangeBack, Unwind, Exchanged, BothExist
<1>14. ASSUME system = "posix", PMove PROVE CallInOrder'
  BY <1>14 DEF PMove, Moved, CanMove
<1>15. ASSUME system = "posix", PConfirmMove PROVE CallInOrder'
  BY <1>15 DEF PConfirmMove, Unwind
<1>16. ASSUME system = "posix", PReconcileMove PROVE CallInOrder'
  BY <1>16 DEF PReconcileMove, Unwind
<1>17. ASSUME system = "posix", PMoveBack PROVE CallInOrder'
  BY <1>17 DEF PMoveBack, Unwind, Moved
<1>18. ASSUME system = "posix", PSetAside PROVE CallInOrder'
  BY <1>18 DEF PSetAside, Moved, Doomed
<1>19. ASSUME system = "posix", PInspect PROVE CallInOrder'
  BY <1>19 DEF PInspect, Moved, Doomed, DoomedObject, DeleteFails
<1>20. ASSUME system = "posix", PDelete PROVE CallInOrder'
  BY <1>20 DEF PDelete, AfterDelete, Doomed, DoomedObject
<1>21. ASSUME system = "posix", PUndelete PROVE CallInOrder'
  BY <1>21 DEF PUndelete, BackToItsName, Moved, Doomed
<1>22. ASSUME system = "posix", PRestore PROVE CallInOrder'
  BY <1>22 DEF PRestore, BackToItsName, Moved, Doomed, DeleteFails
<1>23. ASSUME system = "posix", PUndo PROVE CallInOrder'
  BY <1>23 DEF PUndo, Unwind
<1>24. ASSUME system = "posix", PSweep PROVE CallInOrder'
  BY <1>24 DEF PSweep
<1>25. ASSUME system = "posix", PFinal PROVE CallInOrder'
  BY <1>25 DEF PFinal
<1>26. ASSUME system = "windows", WCreateTemporary PROVE CallInOrder'
  BY <1>26 DEF WCreateTemporary
<1>27. ASSUME system = "windows", WCreateExclusive PROVE CallInOrder'
  BY <1>27 DEF WCreateExclusive
<1>28. ASSUME system = "windows", WRecheck PROVE CallInOrder'
  BY <1>28 DEF WRecheck, WDropByHandle, Lifted
<1>29. ASSUME system = "windows", WReplace PROVE CallInOrder'
  BY <1>29 DEF WReplace, Replaced, Moved, Lifted
<1>30. ASSUME system = "windows", WLookAfter PROVE CallInOrder'
  BY <1>30 DEF WLookAfter, IsReplaced
<1>31. ASSUME system = "windows", WComplete PROVE CallInOrder'
  BY <1>31 DEF WComplete, Moved
<1>32. ASSUME system = "windows", WFinish PROVE CallInOrder'
  BY <1>32 DEF WFinish
<1>33. ASSUME system = "windows", WReconcile PROVE CallInOrder'
  BY <1>33 DEF WReconcile
<1>34. ASSUME system = "windows", WReplaceBack PROVE CallInOrder'
  BY <1>34 DEF WReplaceBack, Replaced, Moved
<1>35. ASSUME system = "windows", WMoveBackup PROVE CallInOrder'
  BY <1>35 DEF WMoveBackup, Moved
<1>36. ASSUME system = "windows", WPutBackAttributes PROVE CallInOrder'
  BY <1>36 DEF WPutBackAttributes, WFail
<1>37. ASSUME system = "windows", WSweepTemporary PROVE CallInOrder'
  BY <1>37 DEF WSweepTemporary
<1>38. ASSUME system = "windows", WMoveByHandle PROVE CallInOrder'
  BY <1>38 DEF WMoveByHandle, Moved, WDropByHandle
<1>39. ASSUME system = "windows", WRemove PROVE CallInOrder'
  BY <1>39 DEF WRemove
<1>40. ASSUME system = "windows", WGone PROVE CallInOrder'
  BY <1>40 DEF WGone
<1>41. ASSUME system = "windows", WFinal PROVE CallInOrder'
  BY <1>41 DEF WFinal
<1>42. ASSUME UNCHANGED filesVars PROVE CallInOrder'
  BY <1>42 DEF filesVars
<1>43. CASE PosixNext
  BY <1>43, <1>5, <1>6, <1>7, <1>8, <1>9, <1>10, <1>11, <1>12, <1>13, <1>14, <1>15, <1>16,
     <1>17, <1>18, <1>19, <1>20, <1>21, <1>22, <1>23, <1>24, <1>25
     DEF PosixNext
<1>44. CASE WindowsNext
  BY <1>44, <1>26, <1>27, <1>28, <1>29, <1>30, <1>31, <1>32, <1>33, <1>34, <1>35, <1>36,
     <1>37, <1>38, <1>39, <1>40, <1>41
     DEF WindowsNext
<1>45. QED
  BY <1>1, <1>2, <1>3, <1>4, <1>42, <1>43, <1>44 DEF FilesNext

\* What a call is about to delete is what it looked at.
LEMMA SeenStep ==
    ASSUME FilesTypeOK, CallInOrder, DoomedIsSeen, [FilesNext]_filesVars
    PROVE  DoomedIsSeen'
<1> USE ForeignAssumption, UnsafeAssumption, BoundsAssumption
    DEF DoomedIsSeen, OnlyOwnDestroyed, FilesTypeOK, CallInOrder, DoomedObject, Deleting,
        Replacing, Goto, Return, Fault, NoFault, At, Names, Object, Nothing, Old, New,
        call, others
<1>1. ASSUME Look PROVE DoomedIsSeen'
  BY <1>1 DEF Look, Ordinary
<1>2. ASSUME Others(WPinned) PROVE DoomedIsSeen'
  <2>1. at'["aside"] = at["aside"]
    <3>1. PICK n \in {"destination", "source"} :
             at' = [at EXCEPT ![n] = Nothing] \/ \E f \in Foreign : at' = [at EXCEPT ![n] = f]
      BY <1>2 DEF Others
    <3>2. QED
      BY <3>1
  <2>2. UNCHANGED <<step, task, before, destroyed>>
    BY <1>2 DEF Others
  <2>3. QED
    BY <2>1, <2>2
<1>3. ASSUME OthersMoveDirectory PROVE DoomedIsSeen'
  BY <1>3 DEF OthersMoveDirectory, OthersMayAct
<1>4. ASSUME Die PROVE DoomedIsSeen'
  BY <1>4 DEF Die
<1>5. ASSUME system = "posix", PCreateTemporary PROVE DoomedIsSeen'
  BY <1>5 DEF PCreateTemporary
<1>6. ASSUME system = "posix", PCreateExclusive PROVE DoomedIsSeen'
  BY <1>6 DEF PCreateExclusive
<1>7. ASSUME system = "posix", PUncreate PROVE DoomedIsSeen'
  BY <1>7 DEF PUncreate
<1>8. ASSUME system = "posix", PRecheck PROVE DoomedIsSeen'
  BY <1>8 DEF PRecheck, Unwind
<1>9. ASSUME system = "posix", PCheckExchange PROVE DoomedIsSeen'
  BY <1>9 DEF PCheckExchange, Unwind
<1>10. ASSUME system = "posix", PExchange PROVE DoomedIsSeen'
  BY <1>10 DEF PExchange, Exchanged, BothExist
<1>11. ASSUME system = "posix", PConfirmExchange PROVE DoomedIsSeen'
  BY <1>11 DEF PConfirmExchange
<1>12. ASSUME system = "posix", PReconcileExchange PROVE DoomedIsSeen'
  BY <1>12 DEF PReconcileExchange, Unwind
<1>13. ASSUME system = "posix", PExchangeBack PROVE DoomedIsSeen'
  BY <1>13 DEF PExchangeBack, Unwind, Exchanged, BothExist
<1>14. ASSUME system = "posix", PMove PROVE DoomedIsSeen'
  BY <1>14 DEF PMove, Moved, CanMove
<1>15. ASSUME system = "posix", PConfirmMove PROVE DoomedIsSeen'
  BY <1>15 DEF PConfirmMove, Unwind
<1>16. ASSUME system = "posix", PReconcileMove PROVE DoomedIsSeen'
  BY <1>16 DEF PReconcileMove, Unwind
<1>17. ASSUME system = "posix", PMoveBack PROVE DoomedIsSeen'
  BY <1>17 DEF PMoveBack, Unwind, Moved
<1>18. ASSUME system = "posix", PSetAside PROVE DoomedIsSeen'
  BY <1>18 DEF PSetAside, Moved, Doomed
<1>19. ASSUME system = "posix", PInspect PROVE DoomedIsSeen'
  BY <1>19 DEF PInspect, Moved, Doomed, DeleteFails
<1>20. ASSUME system = "posix", PDelete PROVE DoomedIsSeen'
  BY <1>20 DEF PDelete, AfterDelete, Doomed
<1>21. ASSUME system = "posix", PUndelete PROVE DoomedIsSeen'
  BY <1>21 DEF PUndelete, BackToItsName, Moved, Doomed
<1>22. ASSUME system = "posix", PRestore PROVE DoomedIsSeen'
  BY <1>22 DEF PRestore, BackToItsName, Moved, Doomed, DeleteFails
<1>23. ASSUME system = "posix", PUndo PROVE DoomedIsSeen'
  BY <1>23 DEF PUndo, Unwind
<1>24. ASSUME system = "posix", PSweep PROVE DoomedIsSeen'
  BY <1>24 DEF PSweep
<1>25. ASSUME system = "posix", PFinal PROVE DoomedIsSeen'
  BY <1>25 DEF PFinal
<1>26. ASSUME system = "windows", WCreateTemporary PROVE DoomedIsSeen'
  BY <1>26 DEF WCreateTemporary
<1>27. ASSUME system = "windows", WCreateExclusive PROVE DoomedIsSeen'
  BY <1>27 DEF WCreateExclusive
<1>28. ASSUME system = "windows", WRecheck PROVE DoomedIsSeen'
  BY <1>28 DEF WRecheck, WDropByHandle, Lifted
<1>29. ASSUME system = "windows", WReplace PROVE DoomedIsSeen'
  BY <1>29 DEF WReplace, Replaced, Moved, Lifted
<1>30. ASSUME system = "windows", WLookAfter PROVE DoomedIsSeen'
  BY <1>30 DEF WLookAfter, IsReplaced
<1>31. ASSUME system = "windows", WComplete PROVE DoomedIsSeen'
  BY <1>31 DEF WComplete, Moved
<1>32. ASSUME system = "windows", WFinish PROVE DoomedIsSeen'
  BY <1>32 DEF WFinish
<1>33. ASSUME system = "windows", WReconcile PROVE DoomedIsSeen'
  BY <1>33 DEF WReconcile
<1>34. ASSUME system = "windows", WReplaceBack PROVE DoomedIsSeen'
  BY <1>34 DEF WReplaceBack, Replaced, Moved
<1>35. ASSUME system = "windows", WMoveBackup PROVE DoomedIsSeen'
  BY <1>35 DEF WMoveBackup, Moved
<1>36. ASSUME system = "windows", WPutBackAttributes PROVE DoomedIsSeen'
  BY <1>36 DEF WPutBackAttributes, WFail
<1>37. ASSUME system = "windows", WSweepTemporary PROVE DoomedIsSeen'
  BY <1>37 DEF WSweepTemporary
<1>38. ASSUME system = "windows", WMoveByHandle PROVE DoomedIsSeen'
  BY <1>38 DEF WMoveByHandle, Moved, WDropByHandle
<1>39. ASSUME system = "windows", WRemove PROVE DoomedIsSeen'
  BY <1>39 DEF WRemove
<1>40. ASSUME system = "windows", WGone PROVE DoomedIsSeen'
  BY <1>40 DEF WGone
<1>41. ASSUME system = "windows", WFinal PROVE DoomedIsSeen'
  BY <1>41 DEF WFinal
<1>42. ASSUME UNCHANGED filesVars PROVE DoomedIsSeen'
  BY <1>42 DEF filesVars
<1>43. CASE PosixNext
  BY <1>43, <1>5, <1>6, <1>7, <1>8, <1>9, <1>10, <1>11, <1>12, <1>13, <1>14, <1>15, <1>16,
     <1>17, <1>18, <1>19, <1>20, <1>21, <1>22, <1>23, <1>24, <1>25
     DEF PosixNext
<1>44. CASE WindowsNext
  BY <1>44, <1>26, <1>27, <1>28, <1>29, <1>30, <1>31, <1>32, <1>33, <1>34, <1>35, <1>36,
     <1>37, <1>38, <1>39, <1>40, <1>41
     DEF WindowsNext
<1>45. QED
  BY <1>1, <1>2, <1>3, <1>4, <1>42, <1>43, <1>44 DEF FilesNext

\* Without others, the destination holds the old or the new object.
LEMMA ReadersStep ==
    ASSUME FilesTypeOK, CallInOrder, OnlyOldAndNew, [FilesNext]_filesVars
    PROVE  OnlyOldAndNew'
<1> USE ForeignAssumption, UnsafeAssumption, BoundsAssumption
    DEF OnlyOldAndNew, ReadersFindAFile, Publishes, Undisturbed, FilesTypeOK, CallInOrder,
        Exchanging, Moving, Goto, Return, Fault, NoFault, At, Names, Object, Nothing, Old,
        New, call, others
<1>1. ASSUME Look PROVE OnlyOldAndNew'
  BY <1>1 DEF Look, Ordinary
<1>2. ASSUME Others(WPinned) PROVE OnlyOldAndNew'
  BY <1>2 DEF Others, OthersMayAct
<1>3. ASSUME OthersMoveDirectory PROVE OnlyOldAndNew'
  BY <1>3 DEF OthersMoveDirectory, OthersMayAct
<1>4. ASSUME Die PROVE OnlyOldAndNew'
  BY <1>4 DEF Die
<1>5. ASSUME system = "posix", PCreateTemporary PROVE OnlyOldAndNew'
  BY <1>5 DEF PCreateTemporary
<1>6. ASSUME system = "posix", PCreateExclusive PROVE OnlyOldAndNew'
  BY <1>6 DEF PCreateExclusive
<1>7. ASSUME system = "posix", PUncreate PROVE OnlyOldAndNew'
  BY <1>7 DEF PUncreate
<1>8. ASSUME system = "posix", PRecheck PROVE OnlyOldAndNew'
  BY <1>8 DEF PRecheck, Unwind
<1>9. ASSUME system = "posix", PCheckExchange PROVE OnlyOldAndNew'
  BY <1>9 DEF PCheckExchange, Unwind
<1>10. ASSUME system = "posix", PExchange PROVE OnlyOldAndNew'
  BY <1>10 DEF PExchange, Exchanged, BothExist
<1>11. ASSUME system = "posix", PConfirmExchange PROVE OnlyOldAndNew'
  BY <1>11 DEF PConfirmExchange
<1>12. ASSUME system = "posix", PReconcileExchange PROVE OnlyOldAndNew'
  BY <1>12 DEF PReconcileExchange, Unwind
<1>13. ASSUME system = "posix", PExchangeBack PROVE OnlyOldAndNew'
  BY <1>13 DEF PExchangeBack, Unwind, Exchanged, BothExist
<1>14. ASSUME system = "posix", PMove PROVE OnlyOldAndNew'
  BY <1>14 DEF PMove, Moved, CanMove
<1>15. ASSUME system = "posix", PConfirmMove PROVE OnlyOldAndNew'
  BY <1>15 DEF PConfirmMove, Unwind
<1>16. ASSUME system = "posix", PReconcileMove PROVE OnlyOldAndNew'
  BY <1>16 DEF PReconcileMove, Unwind
<1>17. ASSUME system = "posix", PMoveBack PROVE OnlyOldAndNew'
  BY <1>17 DEF PMoveBack, Unwind, Moved
<1>18. ASSUME system = "posix", PSetAside PROVE OnlyOldAndNew'
  BY <1>18 DEF PSetAside, Moved, Doomed
<1>19. ASSUME system = "posix", PInspect PROVE OnlyOldAndNew'
  BY <1>19 DEF PInspect, Moved, Doomed, DoomedObject, DeleteFails
<1>20. ASSUME system = "posix", PDelete PROVE OnlyOldAndNew'
  BY <1>20 DEF PDelete, AfterDelete, Doomed, DoomedObject
<1>21. ASSUME system = "posix", PUndelete PROVE OnlyOldAndNew'
  BY <1>21 DEF PUndelete, BackToItsName, Moved, Doomed
<1>22. ASSUME system = "posix", PRestore PROVE OnlyOldAndNew'
  BY <1>22 DEF PRestore, BackToItsName, Moved, Doomed, DeleteFails
<1>23. ASSUME system = "posix", PUndo PROVE OnlyOldAndNew'
  BY <1>23 DEF PUndo, Unwind
<1>24. ASSUME system = "posix", PSweep PROVE OnlyOldAndNew'
  BY <1>24 DEF PSweep
<1>25. ASSUME system = "posix", PFinal PROVE OnlyOldAndNew'
  BY <1>25 DEF PFinal
<1>26. ASSUME system = "windows", WCreateTemporary PROVE OnlyOldAndNew'
  BY <1>26 DEF WCreateTemporary
<1>27. ASSUME system = "windows", WCreateExclusive PROVE OnlyOldAndNew'
  BY <1>27 DEF WCreateExclusive
<1>28. ASSUME system = "windows", WRecheck PROVE OnlyOldAndNew'
  BY <1>28 DEF WRecheck, WDropByHandle, Lifted
<1>29. ASSUME system = "windows", WReplace PROVE OnlyOldAndNew'
  BY <1>29 DEF WReplace, Replaced, Moved, Lifted
<1>30. ASSUME system = "windows", WLookAfter PROVE OnlyOldAndNew'
  BY <1>30 DEF WLookAfter, IsReplaced
<1>31. ASSUME system = "windows", WComplete PROVE OnlyOldAndNew'
  BY <1>31 DEF WComplete, Moved
<1>32. ASSUME system = "windows", WFinish PROVE OnlyOldAndNew'
  BY <1>32 DEF WFinish
<1>33. ASSUME system = "windows", WReconcile PROVE OnlyOldAndNew'
  BY <1>33 DEF WReconcile
<1>34. ASSUME system = "windows", WReplaceBack PROVE OnlyOldAndNew'
  BY <1>34 DEF WReplaceBack, Replaced, Moved
<1>35. ASSUME system = "windows", WMoveBackup PROVE OnlyOldAndNew'
  BY <1>35 DEF WMoveBackup, Moved
<1>36. ASSUME system = "windows", WPutBackAttributes PROVE OnlyOldAndNew'
  BY <1>36 DEF WPutBackAttributes, WFail
<1>37. ASSUME system = "windows", WSweepTemporary PROVE OnlyOldAndNew'
  BY <1>37 DEF WSweepTemporary
<1>38. ASSUME system = "windows", WMoveByHandle PROVE OnlyOldAndNew'
  BY <1>38 DEF WMoveByHandle, Moved, WDropByHandle
<1>39. ASSUME system = "windows", WRemove PROVE OnlyOldAndNew'
  BY <1>39 DEF WRemove
<1>40. ASSUME system = "windows", WGone PROVE OnlyOldAndNew'
  BY <1>40 DEF WGone
<1>41. ASSUME system = "windows", WFinal PROVE OnlyOldAndNew'
  BY <1>41 DEF WFinal
<1>42. ASSUME UNCHANGED filesVars PROVE OnlyOldAndNew'
  BY <1>42 DEF filesVars
<1>43. CASE PosixNext
  BY <1>43, <1>5, <1>6, <1>7, <1>8, <1>9, <1>10, <1>11, <1>12, <1>13, <1>14, <1>15, <1>16,
     <1>17, <1>18, <1>19, <1>20, <1>21, <1>22, <1>23, <1>24, <1>25
     DEF PosixNext
<1>44. CASE WindowsNext
  BY <1>44, <1>26, <1>27, <1>28, <1>29, <1>30, <1>31, <1>32, <1>33, <1>34, <1>35, <1>36,
     <1>37, <1>38, <1>39, <1>40, <1>41
     DEF WindowsNext
<1>45. QED
  BY <1>1, <1>2, <1>3, <1>4, <1>42, <1>43, <1>44 DEF FilesNext

\* The old object is destroyed only after it has been displaced.
LEMMA DisplacedStep ==
    ASSUME FilesTypeOK, CallInOrder, DoomedIsSeen, OnlyOldAndNew, OldIsDisplaced, [FilesNext]_filesVars
    PROVE  OldIsDisplaced'
<1> USE ForeignAssumption, UnsafeAssumption, BoundsAssumption
    DEF OldIsDisplaced, OnlyOldAndNew, Publishes, Undisturbed, FilesTypeOK, CallInOrder,
        DoomedIsSeen, DoomedObject, Exchanging, Moving, Deleting, Replacing, Ending, Goto,
        Return, Fault, NoFault, At, Names, Object, Nothing, Old, New, call, others
<1>1. ASSUME Look PROVE OldIsDisplaced'
  BY <1>1 DEF Look, Ordinary
<1>2. ASSUME Others(WPinned) PROVE OldIsDisplaced'
  BY <1>2 DEF Others, OthersMayAct
<1>3. ASSUME OthersMoveDirectory PROVE OldIsDisplaced'
  BY <1>3 DEF OthersMoveDirectory, OthersMayAct
<1>4. ASSUME Die PROVE OldIsDisplaced'
  BY <1>4 DEF Die
<1>5. ASSUME system = "posix", PCreateTemporary PROVE OldIsDisplaced'
  BY <1>5 DEF PCreateTemporary
<1>6. ASSUME system = "posix", PCreateExclusive PROVE OldIsDisplaced'
  BY <1>6 DEF PCreateExclusive
<1>7. ASSUME system = "posix", PUncreate PROVE OldIsDisplaced'
  BY <1>7 DEF PUncreate
<1>8. ASSUME system = "posix", PRecheck PROVE OldIsDisplaced'
  BY <1>8 DEF PRecheck, Unwind
<1>9. ASSUME system = "posix", PCheckExchange PROVE OldIsDisplaced'
  BY <1>9 DEF PCheckExchange, Unwind
<1>10. ASSUME system = "posix", PExchange PROVE OldIsDisplaced'
  BY <1>10 DEF PExchange, Exchanged, BothExist
<1>11. ASSUME system = "posix", PConfirmExchange PROVE OldIsDisplaced'
  BY <1>11 DEF PConfirmExchange
<1>12. ASSUME system = "posix", PReconcileExchange PROVE OldIsDisplaced'
  BY <1>12 DEF PReconcileExchange, Unwind
<1>13. ASSUME system = "posix", PExchangeBack PROVE OldIsDisplaced'
  BY <1>13 DEF PExchangeBack, Unwind, Exchanged, BothExist
<1>14. ASSUME system = "posix", PMove PROVE OldIsDisplaced'
  BY <1>14 DEF PMove, Moved, CanMove
<1>15. ASSUME system = "posix", PConfirmMove PROVE OldIsDisplaced'
  BY <1>15 DEF PConfirmMove, Unwind
<1>16. ASSUME system = "posix", PReconcileMove PROVE OldIsDisplaced'
  BY <1>16 DEF PReconcileMove, Unwind
<1>17. ASSUME system = "posix", PMoveBack PROVE OldIsDisplaced'
  BY <1>17 DEF PMoveBack, Unwind, Moved
<1>18. ASSUME system = "posix", PSetAside PROVE OldIsDisplaced'
  BY <1>18 DEF PSetAside, Moved, Doomed
<1>19. ASSUME system = "posix", PInspect PROVE OldIsDisplaced'
  BY <1>19 DEF PInspect, Moved, Doomed, DeleteFails
<1>20. ASSUME system = "posix", PDelete PROVE OldIsDisplaced'
  BY <1>20 DEF PDelete, AfterDelete, Doomed
<1>21. ASSUME system = "posix", PUndelete PROVE OldIsDisplaced'
  BY <1>21 DEF PUndelete, BackToItsName, Moved, Doomed
<1>22. ASSUME system = "posix", PRestore PROVE OldIsDisplaced'
  <2>1. /\ step = "restore" /\ step' \in {"undo", "sweep", "over"}
        /\ UNCHANGED <<op, task, wanted, before, inPlace, touched, destroyed, system>>
    BY <1>22 DEF PRestore, DeleteFails
  <2>2. at' = at \/ (BackToItsName /\ at' = Moved("aside", Doomed))
    BY <1>22 DEF PRestore
  <2>3. ASSUME task = "discard"
        PROVE  at'["destination"] = at["destination"]
    <3>1. Doomed = "source"
      BY <2>3 DEF Doomed
    <3>2. QED
      BY <2>2, <3>1 DEF Moved
  <2>4. ASSUME Publishes, before = Old, Undisturbed, Old \in destroyed
        PROVE  at'["destination"] = New /\ at'["source"] = Nothing /\ at'["aside"] = Nothing
    <3>1. at["destination"] = New /\ at["source"] = Nothing /\ at["aside"] = Nothing
      BY <2>4
    <3>2. QED
      BY <2>2, <3>1 DEF BackToItsName
  <2>5. (Publishes /\ before = Old /\ Undisturbed)'
            <=> Publishes /\ before = Old /\ Undisturbed
    BY <2>1
  <2>6. QED
    BY <1>22, <2>1, <2>3, <2>4, <2>5
<1>23. ASSUME system = "posix", PUndo PROVE OldIsDisplaced'
  BY <1>23 DEF PUndo, Unwind
<1>24. ASSUME system = "posix", PSweep PROVE OldIsDisplaced'
  BY <1>24 DEF PSweep
<1>25. ASSUME system = "posix", PFinal PROVE OldIsDisplaced'
  BY <1>25 DEF PFinal
<1>26. ASSUME system = "windows", WCreateTemporary PROVE OldIsDisplaced'
  BY <1>26 DEF WCreateTemporary
<1>27. ASSUME system = "windows", WCreateExclusive PROVE OldIsDisplaced'
  BY <1>27 DEF WCreateExclusive
<1>28. ASSUME system = "windows", WRecheck PROVE OldIsDisplaced'
  BY <1>28 DEF WRecheck, WDropByHandle, Lifted
<1>29. ASSUME system = "windows", WReplace PROVE OldIsDisplaced'
  BY <1>29 DEF WReplace, Replaced, Moved, Lifted
<1>30. ASSUME system = "windows", WLookAfter PROVE OldIsDisplaced'
  BY <1>30 DEF WLookAfter, IsReplaced
<1>31. ASSUME system = "windows", WComplete PROVE OldIsDisplaced'
  BY <1>31 DEF WComplete, Moved
<1>32. ASSUME system = "windows", WFinish PROVE OldIsDisplaced'
  BY <1>32 DEF WFinish
<1>33. ASSUME system = "windows", WReconcile PROVE OldIsDisplaced'
  BY <1>33 DEF WReconcile
<1>34. ASSUME system = "windows", WReplaceBack PROVE OldIsDisplaced'
  BY <1>34 DEF WReplaceBack, Replaced, Moved
<1>35. ASSUME system = "windows", WMoveBackup PROVE OldIsDisplaced'
  BY <1>35 DEF WMoveBackup, Moved
<1>36. ASSUME system = "windows", WPutBackAttributes PROVE OldIsDisplaced'
  BY <1>36 DEF WPutBackAttributes, WFail
<1>37. ASSUME system = "windows", WSweepTemporary PROVE OldIsDisplaced'
  <2>1. /\ step = "sweep temporary" /\ step' = "over"
        /\ UNCHANGED <<op, task, wanted, before, inPlace, touched, destroyed, system>>
    BY <1>37 DEF WSweepTemporary
  <2>2. at' = at \/ (at["source"] = New /\ at' = [at EXCEPT !["source"] = Nothing])
    BY <1>37 DEF WSweepTemporary
  <2>3. ASSUME Publishes, before = Old, Undisturbed, Old \in destroyed
        PROVE  at'["destination"] = New /\ at'["source"] = Nothing /\ at'["aside"] = Nothing
    <3>1. at["destination"] = New /\ at["source"] = Nothing /\ at["aside"] = Nothing
      BY <2>3
    <3>2. QED
      BY <2>2, <3>1
  <2>4. (Publishes /\ before = Old /\ Undisturbed)'
            <=> Publishes /\ before = Old /\ Undisturbed
    BY <2>1
  <2>5. QED
    BY <1>37, <2>1, <2>3, <2>4
<1>38. ASSUME system = "windows", WMoveByHandle PROVE OldIsDisplaced'
  BY <1>38 DEF WMoveByHandle, Moved, WDropByHandle
<1>39. ASSUME system = "windows", WRemove PROVE OldIsDisplaced'
  BY <1>39 DEF WRemove
<1>40. ASSUME system = "windows", WGone PROVE OldIsDisplaced'
  BY <1>40 DEF WGone
<1>41. ASSUME system = "windows", WFinal PROVE OldIsDisplaced'
  BY <1>41 DEF WFinal
<1>42. ASSUME UNCHANGED filesVars PROVE OldIsDisplaced'
  BY <1>42 DEF filesVars
<1>43. CASE PosixNext
  BY <1>43, <1>5, <1>6, <1>7, <1>8, <1>9, <1>10, <1>11, <1>12, <1>13, <1>14, <1>15, <1>16,
     <1>17, <1>18, <1>19, <1>20, <1>21, <1>22, <1>23, <1>24, <1>25
     DEF PosixNext
<1>44. CASE WindowsNext
  BY <1>44, <1>26, <1>27, <1>28, <1>29, <1>30, <1>31, <1>32, <1>33, <1>34, <1>35, <1>36,
     <1>37, <1>38, <1>39, <1>40, <1>41
     DEF WindowsNext
<1>45. QED
  BY <1>1, <1>2, <1>3, <1>4, <1>42, <1>43, <1>44 DEF FilesNext

-----------------------------------------------------------------------------
\* Every call of project_fs.py begins in order.
LEMMA FilesInitInv == FilesInit => FilesInv
<1> SUFFICES ASSUME FilesInit PROVE FilesInv
  OBVIOUS
<1> USE DEF Names, Object, Nothing, Old, New
<1>1. PICK there \in {Old, Nothing} \cup Unsafe :
         /\ at = [n \in Names |-> IF n = "destination" THEN there
                                  ELSE IF n = "source" /\ op = "replace" THEN New
                                  ELSE Nothing]
         /\ used = Unsafe \cap {there}
  BY DEF FilesInit
<1>2. at \in [Names -> Object \cup {Nothing}] /\ used \subseteq Foreign
  BY <1>1, UnsafeAssumption
<1>3. /\ at["destination"] = there
      /\ at["source"] \in {New, Nothing}
      /\ at["aside"] = Nothing
  BY <1>1
<1>4. readonly \subseteq {Old, New}
  BY DEF FilesInit
<1>5. moves \in 0 .. MaxMoves /\ faults \in 0 .. MaxFaults
  BY BoundsAssumption DEF FilesInit
<1>6. FilesTypeOK
  BY <1>2, <1>4, <1>5 DEF FilesInit, FilesTypeOK, Tasks
<1>7. CallInOrder
  BY <1>3 DEF FilesInit, CallInOrder, Exchanging, Moving, Replacing, Deleting
<1>8. DoomedIsSeen /\ OnlyOldAndNew /\ OldIsDisplaced
  BY DEF FilesInit, DoomedIsSeen, OnlyOwnDestroyed, OnlyOldAndNew, OldIsDisplaced
<1>9. QED
  BY <1>6, <1>7, <1>8 DEF FilesInv

\* A step of the call, of others or of the system keeps the order.
LEMMA FilesStepInv == FilesInv /\ [FilesNext]_filesVars => FilesInv'
<1> SUFFICES ASSUME FilesInv, [FilesNext]_filesVars PROVE FilesInv'
  OBVIOUS
<1>1. PlacesTypeOK /\ CountsTypeOK /\ KindsTypeOK
  BY DEF FilesInv, FilesTypeOK, PlacesTypeOK, CountsTypeOK, KindsTypeOK
<1>2. PlacesTypeOK' /\ CountsTypeOK' /\ KindsTypeOK'
  BY <1>1, PlacesStep, CountsStep, KindsStep DEF FilesInv
<1>3. FilesTypeOK'
  BY <1>2 DEF FilesTypeOK, PlacesTypeOK, CountsTypeOK, KindsTypeOK
<1>4. QED
  BY <1>3, FilesOrderStep, SeenStep, ReadersStep, DisplacedStep DEF FilesInv

\* The inductive invariant holds in every reachable state (both backends of
\* core/project_fs.py).
THEOREM FilesInvariance == FilesSpec => []FilesInv
<1>1. FilesInit => FilesInv
  BY FilesInitInv
<1>2. FilesInv /\ [FilesNext]_filesVars => FilesInv'
  BY FilesStepInv
<1>3. QED
  BY <1>1, <1>2, PTL DEF FilesSpec

\* The variables of a call keep their types; only an attribute that was set is
\* ever lifted, so only that is put back.
THEOREM FilesTypeCorrect == FilesSpec => []FilesTypeOK
<1>1. FilesInv => FilesTypeOK
  BY DEF FilesInv
<1>2. QED
  BY <1>1, FilesInvariance, PTL

\* On both systems a call deletes only the object it was called for and its own
\* temporary file, whatever others put under the names and whatever fails
\* (_remove_pinned_entry, _windows_replace_identity).
THEOREM OnlyOwn == FilesSpec => []OnlyOwnDestroyed
<1>1. FilesInv => OnlyOwnDestroyed
  BY DEF FilesInv, DoomedIsSeen
<1>2. QED
  BY <1>1, FilesInvariance, PTL

\* On POSIX a reader finds the old or the new file at every moment of a
\* replacement, and after a crash in it (_posix_checked_exchange).
THEOREM ReadersFind == FilesSpec => []ReadersFindAFile
<1>1. FilesInv => ReadersFindAFile
  BY DEF FilesInv, OnlyOldAndNew, ReadersFindAFile
<1>2. QED
  BY <1>1, FilesInvariance, PTL

\* On both systems the old object is deleted only while the new one has its name,
\* however many system calls fail.
THEOREM OldOutlives == FilesSpec => []OldOutlivesPublication
<1>1. FilesInv => OldOutlivesPublication
  BY DEF FilesInv, OldIsDisplaced, OldOutlivesPublication
<1>2. QED
  BY <1>1, FilesInvariance, PTL

\* A publication is atomic (atomic_write, replace_file).
THEOREM PublicationAtomic == FilesSpec => []PublicationIsAtomic
BY ReadersFind, OldOutlives, PTL DEF PublicationIsAtomic

-----------------------------------------------------------------------------
(* What a call of project_fs.py does as a whole. *)

\* What a step says of the call, beside CallInOrder.
CallIsKnown ==
    /\ result # "none" => step = "over"
    /\ step = "look" => touched = {} /\ task = "publish"
    /\ step = "gone" => op = "remove"
    /\ step \in Exchanging \ {"undo"} => task # "discard"
    /\ step \in {"prepare", "recheck"} => wanted.source = New /\ wanted.destination = before

\* What the three names of a call hold.
Holding(d, s, a) == at["destination"] = d /\ at["source"] = s /\ at["aside"] = a

AsFound == Holding(before, IF op = "replace" THEN New ELSE Nothing, Nothing)
Prepared == Holding(before, New, Nothing)
Swapped == Holding(New, Old, Nothing)
OldAside == Holding(New, Nothing, Old)
NewAside == Holding(before, Nothing, New)
Published == Holding(New, Nothing, Nothing)
Halfway == Holding(Nothing, New, Old)

\* An undisturbed publication, with at most one fault.
OneFault == Publishes /\ faults <= 1 /\ Undisturbed /\ before \in {Old, Nothing}

Forth == task = "publish" /\ faults = 0 /\ wanted.source = New /\ wanted.destination = Old
Back == task = "undo" /\ faults = 1 /\ wanted.source = Old /\ wanted.destination = New

\* Where the three names are at every step of one.
PreparedInPlace ==
    /\ step = "look" =>
          faults = 0 /\ at["source"] = (IF op = "replace" THEN New ELSE Nothing)
    /\ step = "prepare" => faults = 0 /\ AsFound /\ op = "write"
    /\ step = "recheck" => faults = 0 /\ Prepared
    /\ step = "final" => Published
    /\ step = "over" /\ result = "failed" => AsFound \/ Published

\* The exchange of an existing file, forth and back.
ExchangeInPlace ==
    /\ step \in {"check exchange", "exchange"} => (Forth /\ Prepared) \/ (Back /\ Swapped)
    /\ step = "confirm exchange" => (Forth /\ Swapped) \/ (Back /\ Prepared)
    /\ step = "reconcile exchange" =>
          /\ faults = 1 /\ (Prepared \/ Swapped)
          /\ wanted.source = New /\ wanted.destination = Old
    /\ step = "exchange back" => faults = 1 /\ Swapped
    /\ step = "undo" => faults = 1 /\ (Published \/ Swapped)

\* The rename to a free name.
MoveInPlace ==
    /\ step = "move" => faults = 0 /\ Prepared
    /\ step = "confirm move" => faults = 0 /\ Published
    /\ step = "reconcile move" => faults = 1 /\ (Prepared \/ Published)
    /\ step = "move back" => faults = 1 /\ Published

\* The old object is discarded, or the new one after a fault.
Discarding == task = "discard" /\ faults = 0
Retracting == task \in {"retry", "sweep"} /\ faults = 1 /\ op = "write"

\* What is set aside to be deleted.
DeleteInPlace ==
    /\ step = "set aside" => (Discarding /\ Swapped) \/ (Retracting /\ Prepared)
    /\ step \in {"inspect", "delete"} =>
          (Discarding /\ OldAside) \/ (Retracting /\ NewAside)
    /\ step \in {"undelete", "restore"} => task = "discard" /\ faults = 1
    /\ step = "undelete" => OldAside \/ Published
    /\ step = "restore" => OldAside \/ Published \/ Swapped
    /\ step = "sweep" => op = "write" /\ faults = 1 /\ (Prepared \/ AsFound \/ Published)

\* The replacement with a backup, and the rename of an open source.
ReplaceInPlace ==
    /\ step = "replace" => faults = 0 /\ Prepared
    /\ step = "look after" =>
          OldAside \/ (task = "undo" /\ faults = 1 /\ (Prepared \/ Halfway))
    /\ step = "complete" => faults = 1 /\ Halfway
    /\ step = "finish" => OldAside
    /\ step = "reconcile" => faults = 1 /\ (Prepared \/ OldAside \/ Published)
    /\ step = "replace back" => faults = 1 /\ OldAside
    /\ step \in {"put back attributes", "sweep temporary"} =>
          faults = 1 /\ (Prepared \/ Published)
    /\ step = "sweep temporary" => op = "write"
    /\ step = "move by handle" => faults = 0 /\ Prepared
    /\ step \notin {"move backup", "gone", "uncreate"}

\* Every name holds what the step of the call says.
Placed ==
    /\ PreparedInPlace /\ ExchangeInPlace /\ MoveInPlace /\ DeleteInPlace
    /\ ReplaceInPlace

InPlace == OneFault => Placed

\* Only a replacement on Windows lifts attributes.
OnlyWindowsLifts ==
    /\ system = "posix" => cleared = {}
    /\ step \in Replacing \cup {"sweep temporary", "move by handle"} => Publishes

\* At most one system call failed, and nobody interfered.
AtMostOneFault == faults <= 1 /\ Undisturbed

\* Which attributes are lifted then.
LiftedNow ==
    /\ step \in {"reconcile", "put back attributes"} /\ Published => New \notin cleared
    /\ step \notin Replacing /\ (step = "over" => result # "none") => cleared = {}
    /\ step = "replace" => New \notin cleared

AttributesKnown == OnlyWindowsLifts /\ (AtMostOneFault => LiftedNow)

\* A publication over an old object: until it is displaced it is not where
\* others changed the name, and afterwards the new one is not.
SwapIsExact ==
    Publishes /\ before = Old =>
        /\ system = "posix" /\ "destination" \in touched =>
              /\ step \in {"prepare", "recheck"}
                 \/ (task = "publish" /\ step \in {"check exchange", "exchange"})
                     => at["destination"] # Old
              /\ step = "confirm exchange" /\ task = "publish" =>
                     at["source"] # Old \/ at["destination"] # New
              /\ task = "discard" => at["destination"] # New
        /\ system = "posix" =>
              /\ task = "publish"
                 \/ (task = "discard" /\ step \in {"set aside", "inspect", "delete"})
                     => destroyed = {}
              /\ step \in {"prepare", "recheck"} => task = "publish"
              /\ step = "final" =>
                     task = "discard" /\ destroyed = {Old} /\ at["aside"] = Nothing
              /\ task = "publish" /\ step \in Exchanging =>
                     wanted.source = New /\ wanted.destination = Old
        /\ system = "windows" =>
              /\ step \in {"prepare", "recheck", "replace", "look after", "complete",
                          "finish"} => destroyed = {}
              /\ step = "final" => destroyed = {Old} /\ at["aside"] = Nothing
        /\ SuccessIsASwap

\* What another program put under the name is there, or about to come back.
RacedIsKnown ==
    op \in {"remove", "create"} /\ faults = 0 /\ moves <= 1 =>
        /\ task \in {"publish", "remove"}
        /\ step \notin {"undelete", "uncreate", "sweep"}
        /\ moves = 0 => used \subseteq Unsafe
        /\ result # "none" \/ step # "over" =>
           \A f \in used \ Unsafe :
              \/ at["destination"] = f
              \/ step = "inspect" /\ at["aside"] = f /\ at["destination"] = Nothing /\ moves = 1

\* What a rename, an exchange or a replacement does to the three names.
Becomes(d, s, a) == at'["destination"] = d /\ at'["source"] = s /\ at'["aside"] = a

\* What the names hold after a rename, an exchange or a replacement.
LEMMA NamesMove ==
    ASSUME at \in [Names -> Object \cup {Nothing}]
    PROVE  LET d == at["destination"]  s == at["source"]  a == at["aside"] IN
           /\ at' = at => Becomes(d, s, a)
           /\ at' = Moved("source", "destination") => Becomes(s, Nothing, a)
           /\ at' = Moved("destination", "source") => Becomes(Nothing, d, a)
           /\ at' = Moved("source", "aside") => Becomes(d, Nothing, s)
           /\ at' = Moved("destination", "aside") => Becomes(Nothing, s, d)
           /\ at' = Moved("aside", "source") => Becomes(d, a, Nothing)
           /\ at' = Moved("aside", "destination") => Becomes(a, s, Nothing)
           /\ at' = Exchanged => Becomes(s, d, a)
           /\ at' = Replaced("destination", "source", "aside") => Becomes(s, Nothing, d)
           /\ at' = Replaced("destination", "aside", "source") => Becomes(a, d, Nothing)
           /\ at' = [at EXCEPT !["source"] = New] => Becomes(d, New, a)
           /\ at' = [at EXCEPT !["destination"] = New] => Becomes(New, s, a)
           /\ at' = [at EXCEPT !["source"] = Nothing] => Becomes(d, Nothing, a)
           /\ at' = [at EXCEPT !["aside"] = Nothing] => Becomes(d, s, Nothing)
           /\ at' = [at EXCEPT !["destination"] = Nothing] => Becomes(Nothing, s, a)
BY DEF Becomes, Moved, Exchanged, Replaced, Names, Nothing, New

\* A step follows from the steps before it.
LEMMA CallIsKnownStep ==
    ASSUME CallIsKnown, [FilesNext]_filesVars
    PROVE  CallIsKnown'
<1> USE ForeignAssumption, UnsafeAssumption, BoundsAssumption DEF CallIsKnown,
   Exchanging, Goto, Return, Fault, NoFault, At, Names, Object, Nothing, Old, New, call,
   others
<1>1. ASSUME Look PROVE CallIsKnown'
  BY <1>1 DEF Look, Ordinary
<1>2. ASSUME Others(WPinned) PROVE CallIsKnown'
  BY <1>2 DEF Others, OthersMayAct, WPinned
<1>3. ASSUME OthersMoveDirectory PROVE CallIsKnown'
  BY <1>3 DEF OthersMoveDirectory, OthersMayAct
<1>4. ASSUME Die PROVE CallIsKnown'
  BY <1>4 DEF Die
<1>5. ASSUME system = "posix", PCreateTemporary PROVE CallIsKnown'
  BY <1>5 DEF PCreateTemporary
<1>6. ASSUME system = "posix", PCreateExclusive PROVE CallIsKnown'
  BY <1>6 DEF PCreateExclusive
<1>7. ASSUME system = "posix", PUncreate PROVE CallIsKnown'
  BY <1>7 DEF PUncreate
<1>8. ASSUME system = "posix", PRecheck PROVE CallIsKnown'
  BY <1>8 DEF PRecheck, Unwind
<1>9. ASSUME system = "posix", PCheckExchange PROVE CallIsKnown'
  BY <1>9 DEF PCheckExchange, Unwind
<1>10. ASSUME system = "posix", PExchange PROVE CallIsKnown'
  BY <1>10 DEF PExchange, Exchanged, BothExist
<1>11. ASSUME system = "posix", PConfirmExchange PROVE CallIsKnown'
  BY <1>11 DEF PConfirmExchange
<1>12. ASSUME system = "posix", PReconcileExchange PROVE CallIsKnown'
  BY <1>12 DEF PReconcileExchange, Unwind, ExchangeIsReversible, BothExist
<1>13. ASSUME system = "posix", PExchangeBack PROVE CallIsKnown'
  BY <1>13 DEF PExchangeBack, Unwind, Exchanged, BothExist
<1>14. ASSUME system = "posix", PMove PROVE CallIsKnown'
  BY <1>14 DEF PMove, Moved, CanMove
<1>15. ASSUME system = "posix", PConfirmMove PROVE CallIsKnown'
  BY <1>15 DEF PConfirmMove, Unwind, MoveIsUnreadable, Ordinary
<1>16. ASSUME system = "posix", PReconcileMove PROVE CallIsKnown'
  BY <1>16 DEF PReconcileMove, Unwind, MoveIsUnreadable, Ordinary
<1>17. ASSUME system = "posix", PMoveBack PROVE CallIsKnown'
  BY <1>17 DEF PMoveBack, Unwind, Moved
<1>18. ASSUME system = "posix", PSetAside PROVE CallIsKnown'
  BY <1>18 DEF PSetAside, Moved, Doomed
<1>19. ASSUME system = "posix", PInspect PROVE CallIsKnown'
  BY <1>19 DEF PInspect, Moved, Doomed, DoomedObject, DeleteFails, Ordinary
<1>20. ASSUME system = "posix", PDelete PROVE CallIsKnown'
  BY <1>20 DEF PDelete, AfterDelete, Doomed, DoomedObject
<1>21. ASSUME system = "posix", PUndelete PROVE CallIsKnown'
  BY <1>21 DEF PUndelete, BackToItsName, Moved, Doomed, DoomedObject
<1>22. ASSUME system = "posix", PRestore PROVE CallIsKnown'
  BY <1>22 DEF PRestore, BackToItsName, Moved, Doomed, DoomedObject, DeleteFails
<1>23. ASSUME system = "posix", PUndo PROVE CallIsKnown'
  BY <1>23 DEF PUndo, Unwind
<1>24. ASSUME system = "posix", PSweep PROVE CallIsKnown'
  BY <1>24 DEF PSweep
<1>25. ASSUME system = "posix", PFinal PROVE CallIsKnown'
  BY <1>25 DEF PFinal
<1>26. ASSUME system = "windows", WCreateTemporary PROVE CallIsKnown'
  BY <1>26 DEF WCreateTemporary
<1>27. ASSUME system = "windows", WCreateExclusive PROVE CallIsKnown'
  BY <1>27 DEF WCreateExclusive
<1>28. ASSUME system = "windows", WRecheck PROVE CallIsKnown'
  BY <1>28 DEF WRecheck, WDropByHandle, Lifted
<1>29. ASSUME system = "windows", WReplace PROVE CallIsKnown'
  BY <1>29 DEF WReplace, Replaced, Moved, Lifted
<1>30. ASSUME system = "windows", WLookAfter PROVE CallIsKnown'
  BY <1>30 DEF WLookAfter, IsReplaced, IsHalfway, IsOriginal
<1>31. ASSUME system = "windows", WComplete PROVE CallIsKnown'
  BY <1>31 DEF WComplete, Moved
<1>32. ASSUME system = "windows", WFinish PROVE CallIsKnown'
  BY <1>32 DEF WFinish
<1>33. ASSUME system = "windows", WReconcile PROVE CallIsKnown'
  BY <1>33 DEF WReconcile, IsOriginal
<1>34. ASSUME system = "windows", WReplaceBack PROVE CallIsKnown'
  BY <1>34 DEF WReplaceBack, Replaced, Moved
<1>35. ASSUME system = "windows", WMoveBackup PROVE CallIsKnown'
  BY <1>35 DEF WMoveBackup, Moved
<1>36. ASSUME system = "windows", WPutBackAttributes PROVE CallIsKnown'
  BY <1>36 DEF WPutBackAttributes, WFail
<1>37. ASSUME system = "windows", WSweepTemporary PROVE CallIsKnown'
  BY <1>37 DEF WSweepTemporary
<1>38. ASSUME system = "windows", WMoveByHandle PROVE CallIsKnown'
  BY <1>38 DEF WMoveByHandle, Moved, WDropByHandle
<1>39. ASSUME system = "windows", WRemove PROVE CallIsKnown'
  BY <1>39 DEF WRemove
<1>40. ASSUME system = "windows", WGone PROVE CallIsKnown'
  BY <1>40 DEF WGone
<1>41. ASSUME system = "windows", WFinal PROVE CallIsKnown'
  BY <1>41 DEF WFinal
<1>42. ASSUME UNCHANGED filesVars PROVE CallIsKnown'
  BY <1>42 DEF filesVars
<1>43. CASE PosixNext
  BY <1>43, <1>5, <1>6, <1>7, <1>8, <1>9, <1>10, <1>11, <1>12, <1>13, <1>14, <1>15,
     <1>16, <1>17, <1>18, <1>19, <1>20, <1>21, <1>22, <1>23, <1>24, <1>25 DEF PosixNext
<1>44. CASE WindowsNext
  BY <1>44, <1>26, <1>27, <1>28, <1>29, <1>30, <1>31, <1>32, <1>33, <1>34, <1>35, <1>36,
     <1>37, <1>38, <1>39, <1>40, <1>41 DEF WindowsNext
<1> QED
  BY <1>1, <1>2, <1>3, <1>4, <1>42, <1>43, <1>44 DEF FilesNext

\* An action forgets no fault and nothing that others did.
FewFaultsKept ==
    /\ op' = op /\ (step # "look" => before' = before)
    /\ AtMostOneFault' => AtMostOneFault

\* What an action keeps of a call that others left alone.
LEMMA FewFaultsGoOn ==
    ASSUME CountsTypeOK, [FilesNext]_filesVars
    PROVE  FewFaultsKept
<1> USE BoundsAssumption DEF FewFaultsKept, AtMostOneFault, Undisturbed, CountsTypeOK, Goto,
   Return, Fault, NoFault, At, call, others
<1>1. ASSUME Look PROVE FewFaultsKept
  BY <1>1 DEF Look, Ordinary
<1>2. ASSUME Others(WPinned) PROVE FewFaultsKept
  BY <1>2 DEF Others, OthersMayAct, WPinned
<1>3. ASSUME OthersMoveDirectory PROVE FewFaultsKept
  BY <1>3 DEF OthersMoveDirectory, OthersMayAct
<1>4. ASSUME Die PROVE FewFaultsKept
  BY <1>4 DEF Die
<1>5. ASSUME system = "posix", PCreateTemporary PROVE FewFaultsKept
  BY <1>5 DEF PCreateTemporary
<1>6. ASSUME system = "posix", PCreateExclusive PROVE FewFaultsKept
  BY <1>6 DEF PCreateExclusive
<1>7. ASSUME system = "posix", PUncreate PROVE FewFaultsKept
  BY <1>7 DEF PUncreate
<1>8. ASSUME system = "posix", PRecheck PROVE FewFaultsKept
  BY <1>8 DEF PRecheck, Unwind
<1>9. ASSUME system = "posix", PCheckExchange PROVE FewFaultsKept
  BY <1>9 DEF PCheckExchange, Unwind
<1>10. ASSUME system = "posix", PExchange PROVE FewFaultsKept
  <2>1. /\ op' = op /\ before' = before /\ touched' = touched /\ inPlace' = inPlace
        /\ faults' = faults \/ faults' = faults + 1 \/ faults' = faults + 2
    BY <1>10, ZenonT(30) DEF PExchange
  <2> QED BY <2>1
<1>11. ASSUME system = "posix", PConfirmExchange PROVE FewFaultsKept
  BY <1>11 DEF PConfirmExchange
<1>12. ASSUME system = "posix", PReconcileExchange PROVE FewFaultsKept
  BY <1>12 DEF PReconcileExchange, Unwind
<1>13. ASSUME system = "posix", PExchangeBack PROVE FewFaultsKept
  <2>1. /\ op' = op /\ before' = before /\ touched' = touched /\ inPlace' = inPlace
        /\ faults' = faults \/ faults' = faults + 1 \/ faults' = faults + 2
    BY <1>13, ZenonT(30) DEF PExchangeBack, Unwind
  <2> QED BY <2>1
<1>14. ASSUME system = "posix", PMove PROVE FewFaultsKept
  <2>1. /\ op' = op /\ before' = before /\ touched' = touched /\ inPlace' = inPlace
        /\ faults' = faults \/ faults' = faults + 1 \/ faults' = faults + 2
    BY <1>14, ZenonT(30) DEF PMove
  <2> QED BY <2>1
<1>15. ASSUME system = "posix", PConfirmMove PROVE FewFaultsKept
  BY <1>15 DEF PConfirmMove, Unwind
<1>16. ASSUME system = "posix", PReconcileMove PROVE FewFaultsKept
  BY <1>16 DEF PReconcileMove, Unwind
<1>17. ASSUME system = "posix", PMoveBack PROVE FewFaultsKept
  <2>1. /\ op' = op /\ before' = before /\ touched' = touched /\ inPlace' = inPlace
        /\ faults' = faults \/ faults' = faults + 1 \/ faults' = faults + 2
    BY <1>17, ZenonT(30) DEF PMoveBack, Unwind
  <2> QED BY <2>1
<1>18. ASSUME system = "posix", PSetAside PROVE FewFaultsKept
  <2>1. /\ op' = op /\ before' = before /\ touched' = touched /\ inPlace' = inPlace
        /\ faults' = faults \/ faults' = faults + 1 \/ faults' = faults + 2
    BY <1>18, ZenonT(30) DEF PSetAside
  <2> QED BY <2>1
<1>19. ASSUME system = "posix", PInspect PROVE FewFaultsKept
  BY <1>19 DEF PInspect
<1>20. ASSUME system = "posix", PDelete PROVE FewFaultsKept
  BY <1>20 DEF PDelete
<1>21. ASSUME system = "posix", PUndelete PROVE FewFaultsKept
  BY <1>21 DEF PUndelete
<1>22. ASSUME system = "posix", PRestore PROVE FewFaultsKept
  BY <1>22 DEF PRestore
<1>23. ASSUME system = "posix", PUndo PROVE FewFaultsKept
  BY <1>23 DEF PUndo, Unwind
<1>24. ASSUME system = "posix", PSweep PROVE FewFaultsKept
  BY <1>24 DEF PSweep
<1>25. ASSUME system = "posix", PFinal PROVE FewFaultsKept
  BY <1>25 DEF PFinal
<1>26. ASSUME system = "windows", WCreateTemporary PROVE FewFaultsKept
  BY <1>26 DEF WCreateTemporary
<1>27. ASSUME system = "windows", WCreateExclusive PROVE FewFaultsKept
  BY <1>27 DEF WCreateExclusive
<1>28. ASSUME system = "windows", WRecheck PROVE FewFaultsKept
  <2>1. /\ op' = op /\ before' = before /\ touched' = touched /\ inPlace' = inPlace
        /\ faults' = faults \/ faults' = faults + 1 \/ faults' = faults + 2
    BY <1>28, ZenonT(30) DEF WRecheck, WDropByHandle
  <2> QED BY <2>1
<1>29. ASSUME system = "windows", WReplace PROVE FewFaultsKept
  <2>1. /\ op' = op /\ before' = before /\ touched' = touched /\ inPlace' = inPlace
        /\ faults' = faults \/ faults' = faults + 1 \/ faults' = faults + 2
    BY <1>29, ZenonT(30) DEF WReplace
  <2> QED BY <2>1
<1>30. ASSUME system = "windows", WLookAfter PROVE FewFaultsKept
  BY <1>30 DEF WLookAfter
<1>31. ASSUME system = "windows", WComplete PROVE FewFaultsKept
  <2>1. /\ op' = op /\ before' = before /\ touched' = touched /\ inPlace' = inPlace
        /\ faults' = faults \/ faults' = faults + 1 \/ faults' = faults + 2
    BY <1>31, ZenonT(30) DEF WComplete
  <2> QED BY <2>1
<1>32. ASSUME system = "windows", WFinish PROVE FewFaultsKept
  BY <1>32 DEF WFinish
<1>33. ASSUME system = "windows", WReconcile PROVE FewFaultsKept
  BY <1>33 DEF WReconcile
<1>34. ASSUME system = "windows", WReplaceBack PROVE FewFaultsKept
  <2>1. /\ op' = op /\ before' = before /\ touched' = touched /\ inPlace' = inPlace
        /\ faults' = faults \/ faults' = faults + 1 \/ faults' = faults + 2
    BY <1>34, ZenonT(30) DEF WReplaceBack
  <2> QED BY <2>1
<1>35. ASSUME system = "windows", WMoveBackup PROVE FewFaultsKept
  <2>1. /\ op' = op /\ before' = before /\ touched' = touched /\ inPlace' = inPlace
        /\ faults' = faults \/ faults' = faults + 1 \/ faults' = faults + 2
    BY <1>35, ZenonT(30) DEF WMoveBackup
  <2> QED BY <2>1
<1>36. ASSUME system = "windows", WPutBackAttributes PROVE FewFaultsKept
  <2>1. /\ op' = op /\ before' = before /\ touched' = touched /\ inPlace' = inPlace
        /\ faults' = faults \/ faults' = faults + 1 \/ faults' = faults + 2
    BY <1>36, ZenonT(30) DEF WPutBackAttributes, WFail
  <2> QED BY <2>1
<1>37. ASSUME system = "windows", WSweepTemporary PROVE FewFaultsKept
  <2>1. /\ op' = op /\ before' = before /\ touched' = touched /\ inPlace' = inPlace
        /\ faults' = faults \/ faults' = faults + 1 \/ faults' = faults + 2
    BY <1>37, ZenonT(30) DEF WSweepTemporary
  <2> QED BY <2>1
<1>38. ASSUME system = "windows", WMoveByHandle PROVE FewFaultsKept
  <2>1. /\ op' = op /\ before' = before /\ touched' = touched /\ inPlace' = inPlace
        /\ faults' = faults \/ faults' = faults + 1 \/ faults' = faults + 2
    BY <1>38, ZenonT(30) DEF WMoveByHandle, WDropByHandle
  <2> QED BY <2>1
<1>39. ASSUME system = "windows", WRemove PROVE FewFaultsKept
  BY <1>39 DEF WRemove
<1>40. ASSUME system = "windows", WGone PROVE FewFaultsKept
  BY <1>40 DEF WGone
<1>41. ASSUME system = "windows", WFinal PROVE FewFaultsKept
  BY <1>41 DEF WFinal
<1>42. ASSUME UNCHANGED filesVars PROVE FewFaultsKept
  BY <1>42 DEF filesVars
<1>43. CASE PosixNext
  BY <1>43, <1>5, <1>6, <1>7, <1>8, <1>9, <1>10, <1>11, <1>12, <1>13, <1>14, <1>15,
     <1>16, <1>17, <1>18, <1>19, <1>20, <1>21, <1>22, <1>23, <1>24, <1>25 DEF PosixNext
<1>44. CASE WindowsNext
  BY <1>44, <1>26, <1>27, <1>28, <1>29, <1>30, <1>31, <1>32, <1>33, <1>34, <1>35, <1>36,
     <1>37, <1>38, <1>39, <1>40, <1>41 DEF WindowsNext
<1> QED
  BY <1>1, <1>2, <1>3, <1>4, <1>42, <1>43, <1>44 DEF FilesNext

\* A publication with at most one fault had at most one before.
LEMMA OneFaultGoesOn ==
    ASSUME CountsTypeOK, CallInOrder, [FilesNext]_filesVars PROVE OneFault' => OneFault
<1>1. FewFaultsKept
  BY FewFaultsGoOn
<1>2. before = Nothing \/ before' = before
  BY <1>1 DEF FewFaultsKept, CallInOrder
<1> QED BY <1>1, <1>2 DEF FewFaultsKept, OneFault, AtMostOneFault, Publishes

\* What an action of an undisturbed publication starts from.
InPlaceFacts ==
    /\ at \in [Names -> Object \cup {Nothing}] /\ faults \in 0 .. MaxFaults
    /\ CallInOrder /\ CallIsKnown /\ OneFault /\ OneFault' /\ Placed

\* After one fault there is no other.
LEMMA FaultsLeft ==
    ASSUME InPlaceFacts
    PROVE  /\ faults \in {0, 1}
           /\ Fault => faults = 0 /\ faults' = 1
           /\ faults = 1 => ~Fault
<1>1. faults \in Nat /\ faults <= 1 /\ faults' <= 1
  BY BoundsAssumption DEF InPlaceFacts, OneFault
<1> QED BY <1>1 DEF Fault

\* The temporary file is created, or not.
LEMMA PlacedCreated ==
    ASSUME InPlaceFacts, PCreateTemporary PROVE Placed'
<1>1. /\ step = "prepare" /\ op = "write" /\ faults = 0 /\ AsFound
      /\ Fault => faults = 0 /\ faults' = 1
  BY FaultsLeft DEF PCreateTemporary, At, InPlaceFacts, Placed, PreparedInPlace
<1>2. op' = op /\ before' = before /\ wanted' = wanted
  BY DEF PCreateTemporary, call
<1>3. at \in [Names -> Object \cup {Nothing}]
  BY DEF InPlaceFacts
<1>4. \/ /\ at' = [at EXCEPT !["source"] = New]
         /\ (NoFault /\ step' = "recheck") \/ (Fault /\ step' = "sweep")
      \/ at' = at /\ step' = "over"
  BY Zenon DEF PCreateTemporary, Goto, Return
<1>5. \/ /\ Becomes(before, New, Nothing)
         /\ (step' = "recheck" /\ faults' = 0) \/ (step' = "sweep" /\ faults' = 1)
      \/ Becomes(before, Nothing, Nothing) /\ step' = "over"
  BY <1>1, <1>3, <1>4, NamesMove DEF AsFound, Holding, NoFault
<1> QED
  BY <1>1, <1>2, <1>5
    DEF Placed, PreparedInPlace, ExchangeInPlace, MoveInPlace, DeleteInPlace,
        ReplaceInPlace, Holding, Becomes, AsFound, Prepared

\* The destination is looked at once more.
LEMMA PlacedRechecked ==
    ASSUME InPlaceFacts, PRecheck PROVE Placed'
<1>1. /\ step = "recheck" /\ faults = 0 /\ Prepared /\ op \in {"write", "replace"}
      /\ wanted.source = New /\ wanted.destination = before /\ before \in {Old, Nothing}
  BY DEF PRecheck, At, InPlaceFacts, CallIsKnown, Placed, PreparedInPlace, OneFault, Publishes
<1>2. /\ op' = op /\ before' = before /\ wanted' = wanted /\ faults' = faults
      /\ at' = at /\ task' = "publish"
  BY <1>1 DEF PRecheck, call
<1>3. AncestryHolds /\ at["destination"] = before /\ at["source"] = New
  BY <1>1 DEF InPlaceFacts, OneFault, Undisturbed, AncestryHolds, Prepared, Holding
<1>4. step' = IF before = Nothing THEN "move" ELSE "check exchange"
  BY <1>1, <1>3 DEF PRecheck, Goto
<1>5. \/ step' = "move"
      \/ step' = "check exchange" /\ before = Old
  BY <1>1, <1>4
<1> QED
  BY <1>1, <1>2, <1>5
    DEF Placed, PreparedInPlace, ExchangeInPlace, MoveInPlace, DeleteInPlace,
        ReplaceInPlace, Holding, Becomes, Prepared, Forth

\* The exchange, forth or back.
LEMMA PlacedExchanged ==
    ASSUME InPlaceFacts, PExchange PROVE Placed'
<1>1. /\ step = "exchange" /\ ExchangeInPlace /\ faults \in {0, 1}
      /\ Fault => faults = 0 /\ faults' = 1
      /\ before = Old
  BY FaultsLeft DEF PExchange, At, InPlaceFacts, Placed, CallInOrder, Exchanging
<1>2. before' = before /\ task' = task /\ wanted' = wanted
  BY DEF PExchange, call
<1>3. at \in [Names -> Object \cup {Nothing}]
  BY DEF InPlaceFacts
<1>4. CASE Forth /\ Prepared
  <2>1. at["source"] = New /\ at["destination"] = Old /\ at["aside"] = Nothing /\ faults = 0
    BY <1>1, <1>4 DEF Prepared, Forth, Holding
  <2>2. BothExist
    BY <2>1 DEF BothExist, Old, New, Nothing
  <2>3. \/ at' = Exchanged /\ step' = "confirm exchange" /\ NoFault
        \/ (at' = Exchanged \/ at' = at) /\ step' = "reconcile exchange" /\ Fault
    BY <2>2, Zenon DEF PExchange, Goto
  <2>4. \/ Becomes(New, Old, Nothing) /\ step' = "confirm exchange" /\ faults' = 0
        \/ Becomes(New, Old, Nothing) /\ step' = "reconcile exchange" /\ faults' = 1
        \/ Becomes(Old, New, Nothing) /\ step' = "reconcile exchange" /\ faults' = 1
    BY <1>1, <1>3, <2>1, <2>3, NamesMove DEF NoFault
  <2> QED
    BY <1>1, <1>2, <1>4, <2>4
      DEF Placed, PreparedInPlace, ExchangeInPlace, MoveInPlace, DeleteInPlace,
          ReplaceInPlace, Forth, Prepared, Swapped, Holding, Becomes
<1>5. CASE Back /\ Swapped
  <2>1. at["source"] = Old /\ at["destination"] = New /\ at["aside"] = Nothing /\ faults = 1
    BY <1>1, <1>5 DEF Swapped, Back, Holding
  <2>2. BothExist
    BY <2>1 DEF BothExist, Old, New, Nothing
  <2>3. at' = Exchanged /\ step' = "confirm exchange" /\ faults' = faults
    <3>1. ~Fault
      BY <1>1, <2>1
    <3> QED BY <2>2, <3>1, Zenon DEF PExchange, Goto, NoFault
  <2>4. Becomes(Old, New, Nothing)
    BY <1>3, <2>1, <2>3, NamesMove
  <2> QED
    BY <1>1, <1>2, <1>5, <2>3, <2>4
      DEF Placed, PreparedInPlace, ExchangeInPlace, MoveInPlace, DeleteInPlace,
          ReplaceInPlace, Back, Prepared, Swapped, Holding, Becomes
<1> QED BY <1>1, <1>4, <1>5 DEF ExchangeInPlace
\* An exchange that was interrupted is taken back.
LEMMA PlacedExchangedBack ==
    ASSUME InPlaceFacts, PExchangeBack PROVE Placed'
<1>0. op \in {"write", "replace"}
  BY DEF InPlaceFacts, OneFault, Publishes
<1>1. /\ step = "exchange back" /\ before = Old /\ faults = 1 /\ Swapped
  BY DEF PExchangeBack, At, InPlaceFacts, CallInOrder, Exchanging, Placed, ExchangeInPlace
<1>9. ~Fault
  BY <1>1, FaultsLeft
<1>2. op' = op /\ before' = before
  BY DEF PExchangeBack, call
<1>3. at \in [Names -> Object \cup {Nothing}]
  BY DEF InPlaceFacts
<1>4. at["source"] = Old /\ at["destination"] = New /\ at["aside"] = Nothing
  BY <1>1 DEF Swapped, Holding
<1>5. BothExist
  BY <1>4 DEF BothExist, Old, New, Nothing
<1>6. at' = Exchanged /\ faults' = faults
  BY <1>5, <1>9, Zenon DEF PExchangeBack, NoFault
<1>7. Becomes(Old, New, Nothing)
  BY <1>3, <1>4, <1>6, NamesMove
<1>8. step' = IF op = "write" THEN "sweep" ELSE "over"
  BY DEF PExchangeBack, Unwind
<1> QED
  BY <1>0, <1>1, <1>2, <1>6, <1>7, <1>8
    DEF Placed, PreparedInPlace, ExchangeInPlace, MoveInPlace, DeleteInPlace,
        ReplaceInPlace, Holding, Becomes, Prepared, AsFound

\* The rename to a free name.
LEMMA PlacedMoved ==
    ASSUME InPlaceFacts, PMove PROVE Placed'
<1>1. /\ step = "move" /\ before = Nothing /\ faults = 0 /\ Prepared
      /\ Fault => faults = 0 /\ faults' = 1
  BY FaultsLeft DEF PMove, At, InPlaceFacts, CallInOrder, Moving, Placed, MoveInPlace
<1>2. op' = op /\ before' = before
  BY DEF PMove, call
<1>3. at \in [Names -> Object \cup {Nothing}]
  BY DEF InPlaceFacts
<1>4. at["source"] = New /\ at["destination"] = Nothing /\ at["aside"] = Nothing
  BY <1>1 DEF Prepared, Holding
<1>5. CanMove
  BY <1>4 DEF CanMove, New, Nothing
<1>6. \/ at' = Moved("source", "destination") /\ step' = "confirm move" /\ NoFault
      \/ /\ at' = Moved("source", "destination") \/ at' = at
         /\ step' = "reconcile move" /\ Fault
  BY <1>5, Zenon DEF PMove, Goto
<1>7. \/ Becomes(New, Nothing, Nothing) /\ step' = "confirm move" /\ faults' = 0
      \/ /\ Becomes(New, Nothing, Nothing) \/ Becomes(Nothing, New, Nothing)
         /\ step' = "reconcile move" /\ faults' = 1
  BY <1>1, <1>3, <1>4, <1>6, NamesMove DEF NoFault
<1> QED
  BY <1>1, <1>2, <1>7
    DEF Placed, PreparedInPlace, ExchangeInPlace, MoveInPlace, DeleteInPlace,
        ReplaceInPlace, Holding, Becomes, Prepared, Published

\* A rename that was interrupted is taken back.
LEMMA PlacedMovedBack ==
    ASSUME InPlaceFacts, PMoveBack PROVE Placed'
<1>0. op \in {"write", "replace"}
  BY DEF InPlaceFacts, OneFault, Publishes
<1>1. /\ step = "move back" /\ before = Nothing /\ faults = 1 /\ Published
  BY DEF PMoveBack, At, InPlaceFacts, CallInOrder, Moving, Placed, MoveInPlace
<1>9. ~Fault
  BY <1>1, FaultsLeft
<1>2. op' = op /\ before' = before
  BY DEF PMoveBack, call
<1>3. at \in [Names -> Object \cup {Nothing}]
  BY DEF InPlaceFacts
<1>4. at["source"] = Nothing /\ at["destination"] = New /\ at["aside"] = Nothing
  BY <1>1 DEF Published, Holding
<1>5. at["destination"] # Nothing
  BY <1>4 DEF New, Nothing
<1>6. at' = Moved("destination", "source") /\ faults' = faults
  BY <1>4, <1>5, <1>9, Zenon DEF PMoveBack, NoFault
<1>7. Becomes(Nothing, New, Nothing)
  BY <1>3, <1>4, <1>6, NamesMove
<1>8. step' = IF op = "write" THEN "sweep" ELSE "over"
  BY DEF PMoveBack, Unwind
<1> QED
  BY <1>0, <1>1, <1>2, <1>6, <1>7, <1>8
    DEF Placed, PreparedInPlace, ExchangeInPlace, MoveInPlace, DeleteInPlace,
        ReplaceInPlace, Holding, Becomes, Prepared, AsFound

\* The old object, or the new one of a write that failed, is set aside.
LEMMA PlacedSetAside ==
    ASSUME InPlaceFacts, PSetAside PROVE Placed'
<1>1. /\ step = "set aside"
      /\ (Discarding /\ Swapped /\ before = Old) \/ (Retracting /\ Prepared)
  BY DEF PSetAside, At, InPlaceFacts, CallInOrder, Placed, DeleteInPlace, Discarding
<1>2. op' = op /\ before' = before /\ task' = task
  BY DEF PSetAside, call
<1>3. at \in [Names -> Object \cup {Nothing}]
  BY DEF InPlaceFacts
<1>4. Doomed = "source"
  BY <1>1 DEF Doomed, Discarding, Retracting
<1>5. \/ at' = Moved("source", "aside") /\ step' = "inspect" /\ NoFault
      \/ /\ at' = Moved("source", "aside") \/ at' = at
         /\ step' = "restore" /\ Fault
      \/ at["source"] = Nothing
  BY <1>4, Zenon DEF PSetAside, Goto
<1>6. CASE Discarding /\ Swapped /\ before = Old
  <2>1. /\ at["source"] = Old /\ at["destination"] = New /\ at["aside"] = Nothing
        /\ faults = 0 /\ task = "discard" /\ at["source"] # Nothing
    BY <1>6 DEF Swapped, Holding, Discarding, Old, Nothing
  <2>2. \/ Becomes(New, Nothing, Old) /\ step' = "inspect" /\ faults' = 0
        \/ /\ Becomes(New, Nothing, Old) \/ Becomes(New, Old, Nothing)
           /\ step' = "restore" /\ faults' = 1
    BY <1>3, <1>5, <2>1, FaultsLeft, NamesMove DEF NoFault
  <2> QED
    BY <1>2, <2>1, <2>2
    DEF Placed, PreparedInPlace, ExchangeInPlace, MoveInPlace, DeleteInPlace,
        ReplaceInPlace, Holding, Becomes, Discarding, OldAside, Published, Swapped
<1>7. CASE Retracting /\ Prepared
  <2>1. /\ at["source"] = New /\ at["destination"] = before /\ at["aside"] = Nothing
        /\ faults = 1 /\ task \in {"retry", "sweep"} /\ op = "write" /\ at["source"] # Nothing
    BY <1>7 DEF Prepared, Holding, Retracting, New, Nothing
  <2>2. ~Fault
    BY <2>1, FaultsLeft
  <2>3. Becomes(before, Nothing, New) /\ step' = "inspect" /\ faults' = 1
    BY <1>3, <1>5, <2>1, <2>2, NamesMove DEF NoFault
  <2> QED
    BY <1>2, <2>1, <2>3
    DEF Placed, PreparedInPlace, ExchangeInPlace, MoveInPlace, DeleteInPlace,
        ReplaceInPlace, Holding, Becomes, Retracting, NewAside
<1> QED BY <1>1, <1>6, <1>7

\* What was set aside is deleted.
LEMMA PlacedDeleted ==
    ASSUME InPlaceFacts, PDelete PROVE Placed'
<1>1. /\ step = "delete"
      /\ (Discarding /\ OldAside) \/ (Retracting /\ NewAside)
  BY DEF PDelete, At, InPlaceFacts, Placed, DeleteInPlace
<1>2. op' = op /\ before' = before /\ task' = task
  BY DEF PDelete, call
<1>3. at \in [Names -> Object \cup {Nothing}]
  BY DEF InPlaceFacts
<1>4. \/ at' = [at EXCEPT !["aside"] = Nothing] /\ NoFault /\ AfterDelete
      \/ /\ at' = [at EXCEPT !["aside"] = Nothing] \/ at' = at
         /\ step' = "undelete" /\ Fault
  BY Zenon DEF PDelete, Goto
<1>6. CASE Discarding /\ OldAside
  <2>1. /\ at["source"] = Nothing /\ at["destination"] = New /\ at["aside"] = Old
        /\ faults = 0 /\ task = "discard"
    BY <1>6 DEF OldAside, Holding, Discarding
  <2>2. AfterDelete => step' = "final"
    BY <2>1 DEF AfterDelete, Goto
  <2>3. \/ Becomes(New, Nothing, Nothing) /\ step' = "final"
        \/ /\ Becomes(New, Nothing, Nothing) \/ Becomes(New, Nothing, Old)
           /\ step' = "undelete" /\ faults' = 1
    BY <1>3, <1>4, <2>1, <2>2, FaultsLeft, NamesMove
  <2> QED
    BY <1>2, <2>1, <2>3
    DEF Placed, PreparedInPlace, ExchangeInPlace, MoveInPlace, DeleteInPlace,
        ReplaceInPlace, Holding, Becomes, OldAside, Published
<1>7. CASE Retracting /\ NewAside
  <2>1. /\ at["source"] = Nothing /\ at["destination"] = before /\ at["aside"] = New
        /\ faults = 1 /\ task \in {"retry", "sweep"} /\ op = "write"
    BY <1>7 DEF NewAside, Holding, Retracting
  <2>2. ~Fault
    BY <2>1, FaultsLeft
  <2>3. AfterDelete => step' \in {"sweep", "over"}
    BY <2>1 DEF AfterDelete, Goto, Return
  <2>4. Becomes(before, Nothing, Nothing) /\ step' \in {"sweep", "over"} /\ faults' = 1
    BY <1>3, <1>4, <2>1, <2>2, <2>3, NamesMove DEF NoFault
  <2> QED
    BY <1>2, <2>1, <2>4
    DEF Placed, PreparedInPlace, ExchangeInPlace, MoveInPlace, DeleteInPlace,
        ReplaceInPlace, Holding, Becomes, AsFound
<1> QED BY <1>1, <1>6, <1>7

\* A replacement works, refuses, stops halfway or is interrupted.
LEMMA PlacedReplaced ==
    ASSUME InPlaceFacts, WReplace PROVE Placed'
<1>1. step = "replace" /\ before = Old /\ faults = 0 /\ Prepared
  BY DEF WReplace, At, InPlaceFacts, CallInOrder, Replacing, Placed, ReplaceInPlace
<1>2. op' = op /\ before' = before
  BY DEF WReplace, call
<1>3. at \in [Names -> Object \cup {Nothing}]
  BY DEF InPlaceFacts
<1>4. at["source"] = New /\ at["destination"] = Old /\ at["aside"] = Nothing
  BY <1>1 DEF Prepared, Holding
<1>5. at["destination"] # Nothing
  BY <1>4 DEF Old, Nothing
<1>6. \/ /\ at' = Replaced("destination", "source", "aside")
         /\ NoFault /\ step' = "look after"
      \/ /\ at' = Moved("destination", "aside") \/ at' = at
         /\ Fault /\ step' = "look after" /\ task' = "undo"
      \/ /\ at' = Replaced("destination", "source", "aside") \/ at' = at
         /\ Fault /\ step' = "reconcile"
  BY <1>5, Zenon DEF WReplace, Goto
<1>7. \/ Becomes(New, Nothing, Old) /\ step' = "look after"
      \/ /\ Becomes(Nothing, New, Old) \/ Becomes(Old, New, Nothing)
         /\ faults' = 1 /\ step' = "look after" /\ task' = "undo"
      \/ /\ Becomes(New, Nothing, Old) \/ Becomes(Old, New, Nothing)
         /\ faults' = 1 /\ step' = "reconcile"
  BY <1>3, <1>4, <1>6, FaultsLeft, NamesMove
<1> QED
  BY <1>1, <1>2, <1>7
    DEF Placed, PreparedInPlace, ExchangeInPlace, MoveInPlace, DeleteInPlace,
        ReplaceInPlace, Holding, Becomes, Prepared, OldAside, Halfway

\* A replacement that stopped halfway is completed.
LEMMA PlacedCompleted ==
    ASSUME InPlaceFacts, WComplete PROVE Placed'
<1>1. step = "complete" /\ faults = 1 /\ Halfway
  BY DEF WComplete, At, InPlaceFacts, Placed, ReplaceInPlace
<1>2. ~Fault
  BY <1>1, FaultsLeft
<1>3. at \in [Names -> Object \cup {Nothing}]
  BY DEF InPlaceFacts
<1>4. at["source"] = New /\ at["destination"] = Nothing /\ at["aside"] = Old
  BY <1>1 DEF Halfway, Holding
<1>5. at' = Moved("source", "destination") /\ step' = "look after"
  BY <1>2, <1>4, Zenon DEF WComplete, Goto
<1>6. Becomes(New, Nothing, Old)
  BY <1>3, <1>4, <1>5, NamesMove
<1> QED
  BY <1>5, <1>6
    DEF Placed, PreparedInPlace, ExchangeInPlace, MoveInPlace, DeleteInPlace,
        ReplaceInPlace, Holding, Becomes, OldAside

\* The backup is deleted.
LEMMA PlacedFinished ==
    ASSUME InPlaceFacts, WFinish PROVE Placed'
<1>1. step = "finish" /\ OldAside
  BY DEF WFinish, At, InPlaceFacts, Placed, ReplaceInPlace
<1>2. at["source"] = Nothing /\ at["destination"] = New /\ at["aside"] = Old
  BY <1>1 DEF OldAside, Holding
<1>3. at \in [Names -> Object \cup {Nothing}]
  BY DEF InPlaceFacts
<1>4. \/ at' = [at EXCEPT !["aside"] = Nothing] /\ step' = "final"
      \/ /\ at' = [at EXCEPT !["aside"] = Nothing] \/ at' = at
         /\ step' = "reconcile" /\ Fault
  BY <1>2, Zenon DEF WFinish, Goto
<1>5. \/ Becomes(New, Nothing, Nothing) /\ step' = "final"
      \/ /\ Becomes(New, Nothing, Nothing) \/ Becomes(New, Nothing, Old)
         /\ step' = "reconcile" /\ faults' = 1
  BY <1>2, <1>3, <1>4, FaultsLeft, NamesMove
<1> QED
  BY <1>5
    DEF Placed, PreparedInPlace, ExchangeInPlace, MoveInPlace, DeleteInPlace,
        ReplaceInPlace, Holding, Becomes, OldAside, Published

\* After a fault the replacement is done backwards, and this works.
LEMMA ReplacedBack ==
    ASSUME InPlaceFacts, WReplaceBack
    PROVE  /\ Becomes(Old, New, Nothing) /\ before' = Old /\ faults' = 1
           /\ step' = "put back attributes"
<1>1. step = "replace back" /\ faults = 1 /\ OldAside /\ before = Old
  BY DEF WReplaceBack, At, InPlaceFacts, Placed, ReplaceInPlace, CallInOrder, Replacing
<1>2. ~Fault
  BY <1>1, FaultsLeft
<1>3. at \in [Names -> Object \cup {Nothing}]
  BY DEF InPlaceFacts
<1>4. /\ at["source"] = Nothing /\ at["destination"] = New /\ at["aside"] = Old
      /\ at["destination"] # Nothing
  BY <1>1 DEF OldAside, Holding, New, Nothing
<1>5. /\ at' = Replaced("destination", "aside", "source") /\ step' = "put back attributes"
      /\ faults' = faults /\ before' = before
  BY <1>2, <1>4, Zenon DEF WReplaceBack, Goto, NoFault
<1>6. Becomes(Old, New, Nothing)
  BY <1>3, <1>4, <1>5, NamesMove
<1> QED BY <1>1, <1>5, <1>6

\* The old object has its name again.
LEMMA PlacedReplacedBack ==
    ASSUME InPlaceFacts, WReplaceBack PROVE Placed'
BY ReplacedBack
    DEF Placed, PreparedInPlace, ExchangeInPlace, MoveInPlace, DeleteInPlace,
        ReplaceInPlace, Holding, Becomes, Prepared

\* The attributes are put back, nothing moves.
LEMMA PlacedPutBack ==
    ASSUME InPlaceFacts, WPutBackAttributes PROVE Placed'
<1>1. step = "put back attributes" /\ faults = 1 /\ (Prepared \/ Published)
  BY DEF WPutBackAttributes, At, InPlaceFacts, Placed, ReplaceInPlace
<1>2. op \in {"write", "replace"}
  BY DEF InPlaceFacts, OneFault, Publishes
<1>3. ~Fault
  BY <1>1, FaultsLeft
<1>4. op' = op /\ before' = before /\ at' = at
  BY DEF WPutBackAttributes, call
<1>5. faults' = faults /\ step' = IF op = "write" THEN "sweep temporary" ELSE "over"
  BY <1>3, Zenon DEF WPutBackAttributes, NoFault, WFail
<1> QED
  BY <1>1, <1>2, <1>4, <1>5
    DEF Placed, PreparedInPlace, ExchangeInPlace, MoveInPlace, DeleteInPlace,
        ReplaceInPlace, Holding, Becomes, Prepared, Published, AsFound

\* The temporary file of a write that failed is deleted.
LEMMA PlacedSwept ==
    ASSUME InPlaceFacts, AttributesKnown, WSweepTemporary PROVE Placed'
<1>1. /\ step = "sweep temporary" /\ op = "write" /\ faults = 1 /\ (Prepared \/ Published)
  BY DEF WSweepTemporary, At, InPlaceFacts, Placed, ReplaceInPlace
<1>2. New \notin cleared
  BY <1>1 DEF AttributesKnown, AtMostOneFault, LiftedNow, Replacing, InPlaceFacts, OneFault
<1>3. at \in [Names -> Object \cup {Nothing}] /\ ~Fault
  BY <1>1, FaultsLeft DEF InPlaceFacts
<1>4. op' = op /\ before' = before /\ step' = "over"
  BY DEF WSweepTemporary, call, Return
<1>5. \/ at' = [at EXCEPT !["source"] = Nothing]
      \/ at["source"] # New /\ at' = at
  BY <1>2, <1>3, Zenon DEF WSweepTemporary
<1>6. CASE Prepared
  <2>1. Becomes(before, Nothing, Nothing)
    BY <1>3, <1>5, <1>6, NamesMove DEF Prepared, Holding
  <2> QED
    BY <1>1, <1>4, <2>1
    DEF Placed, PreparedInPlace, ExchangeInPlace, MoveInPlace, DeleteInPlace,
        ReplaceInPlace, Holding, Becomes, AsFound
<1>7. CASE Published
  <2>1. Becomes(New, Nothing, Nothing)
    BY <1>3, <1>5, <1>7, NamesMove DEF Published, Holding
  <2> QED
    BY <1>4, <2>1
    DEF Placed, PreparedInPlace, ExchangeInPlace, MoveInPlace, DeleteInPlace,
        ReplaceInPlace, Holding, Becomes, Published
<1> QED BY <1>1, <1>6, <1>7

\* The rename of the open source.
LEMMA PlacedMovedByHandle ==
    ASSUME InPlaceFacts, WMoveByHandle PROVE Placed'
<1>0. op \in {"write", "replace"}
  BY DEF InPlaceFacts, OneFault, Publishes
<1>1. step = "move by handle" /\ faults = 0 /\ Prepared /\ before = Nothing
  BY DEF WMoveByHandle, At, InPlaceFacts, Placed, ReplaceInPlace, CallInOrder
<1>2. at \in [Names -> Object \cup {Nothing}]
  BY DEF InPlaceFacts
<1>3. op' = op /\ before' = before
  BY DEF WMoveByHandle, call
<1>4. at["source"] = New /\ at["destination"] = Nothing /\ at["aside"] = Nothing
  BY <1>1 DEF Prepared, Holding
<1>9. faults' # faults + 2
  <2>1. faults' <= 1 /\ faults = 0
    BY <1>1 DEF InPlaceFacts, OneFault
  <2> QED BY <2>1
<1>5. \/ at' = Moved("source", "destination") /\ step' = "final"
      \/ step' = "over" /\ at' = IF op = "write" THEN [at EXCEPT !["source"] = Nothing] ELSE at
  BY <1>4, <1>9, Zenon DEF WMoveByHandle, WDropByHandle, Goto, Return
<1>6. \/ Becomes(New, Nothing, Nothing) /\ step' = "final"
      \/ step' = "over" /\ Becomes(Nothing, IF op = "write" THEN Nothing ELSE New, Nothing)
  BY <1>2, <1>4, <1>5, NamesMove
<1> QED
  BY <1>0, <1>1, <1>3, <1>6
    DEF Placed, PreparedInPlace, ExchangeInPlace, MoveInPlace, DeleteInPlace,
        ReplaceInPlace, Holding, Becomes, Published, AsFound

\* In a publication with at most one fault every name holds what its step says.
LEMMA PlacedStep ==
    ASSUME FilesTypeOK, CallInOrder, CallIsKnown, AttributesKnown, OneFault, OneFault',
       Placed, [FilesNext]_filesVars
    PROVE  Placed'
<1>0. InPlaceFacts
  BY DEF InPlaceFacts, FilesTypeOK
<1> USE ForeignAssumption, UnsafeAssumption, BoundsAssumption DEF Holding, AsFound,
   Prepared, Swapped, OldAside, NewAside, Published, Halfway, Forth, Back, Discarding,
   Retracting, OneFault, Publishes, Undisturbed, PreparedInPlace, ExchangeInPlace,
   MoveInPlace, DeleteInPlace, ReplaceInPlace, Placed, CallIsKnown, CallInOrder,
   Exchanging, Moving, Replacing, FilesTypeOK, Goto, Return, Fault, NoFault, At, Names,
   Object, Nothing, Old, New, call, others
<1>1. ASSUME Look PROVE Placed'
  BY <1>1 DEF Look, Ordinary
<1>2. ASSUME Others(WPinned) PROVE Placed'
  BY <1>2 DEF Others, OthersMayAct, WPinned
<1>3. ASSUME OthersMoveDirectory PROVE Placed'
  BY <1>3 DEF OthersMoveDirectory, OthersMayAct
<1>4. ASSUME Die PROVE Placed'
  BY <1>4 DEF Die
<1>5. ASSUME system = "posix", PCreateTemporary PROVE Placed'
  BY <1>5, <1>0, PlacedCreated
<1>6. ASSUME system = "posix", PCreateExclusive PROVE Placed'
  BY <1>6 DEF PCreateExclusive
<1>7. ASSUME system = "posix", PUncreate PROVE Placed'
  BY <1>7 DEF PUncreate
<1>8. ASSUME system = "posix", PRecheck PROVE Placed'
  BY <1>8, <1>0, PlacedRechecked
<1>9. ASSUME system = "posix", PCheckExchange PROVE Placed'
  BY <1>9 DEF PCheckExchange, Unwind
<1>10. ASSUME system = "posix", PExchange PROVE Placed'
  BY <1>10, <1>0, PlacedExchanged
<1>11. ASSUME system = "posix", PConfirmExchange PROVE Placed'
  BY <1>11 DEF PConfirmExchange
<1>12. ASSUME system = "posix", PReconcileExchange PROVE Placed'
  BY <1>12 DEF PReconcileExchange, Unwind, ExchangeIsReversible, BothExist
<1>13. ASSUME system = "posix", PExchangeBack PROVE Placed'
  BY <1>13, <1>0, PlacedExchangedBack
<1>14. ASSUME system = "posix", PMove PROVE Placed'
  BY <1>14, <1>0, PlacedMoved
<1>15. ASSUME system = "posix", PConfirmMove PROVE Placed'
  BY <1>15 DEF PConfirmMove, Unwind, MoveIsUnreadable, Ordinary
<1>16. ASSUME system = "posix", PReconcileMove PROVE Placed'
  BY <1>16 DEF PReconcileMove, Unwind, MoveIsUnreadable, Ordinary
<1>17. ASSUME system = "posix", PMoveBack PROVE Placed'
  BY <1>17, <1>0, PlacedMovedBack
<1>18. ASSUME system = "posix", PSetAside PROVE Placed'
  BY <1>18, <1>0, PlacedSetAside
<1>19. ASSUME system = "posix", PInspect PROVE Placed'
  BY <1>19 DEF PInspect, Moved, Doomed, DoomedObject, DeleteFails, Ordinary
<1>20. ASSUME system = "posix", PDelete PROVE Placed'
  BY <1>20, <1>0, PlacedDeleted
<1>21. ASSUME system = "posix", PUndelete PROVE Placed'
  BY <1>21 DEF PUndelete, BackToItsName, Moved, Doomed, DoomedObject
<1>22. ASSUME system = "posix", PRestore PROVE Placed'
  BY <1>22 DEF PRestore, BackToItsName, Moved, Doomed, DoomedObject, DeleteFails
<1>23. ASSUME system = "posix", PUndo PROVE Placed'
  BY <1>23 DEF PUndo, Unwind
<1>24. ASSUME system = "posix", PSweep PROVE Placed'
  BY <1>24 DEF PSweep
<1>25. ASSUME system = "posix", PFinal PROVE Placed'
  BY <1>25 DEF PFinal
<1>26. ASSUME system = "windows", WCreateTemporary PROVE Placed'
  BY <1>26 DEF WCreateTemporary
<1>27. ASSUME system = "windows", WCreateExclusive PROVE Placed'
  BY <1>27 DEF WCreateExclusive
<1>28. ASSUME system = "windows", WRecheck PROVE Placed'
  BY <1>28 DEF WRecheck, WDropByHandle, Lifted
<1>29. ASSUME system = "windows", WReplace PROVE Placed'
  BY <1>29, <1>0, PlacedReplaced
<1>30. ASSUME system = "windows", WLookAfter PROVE Placed'
  BY <1>30 DEF WLookAfter, IsReplaced, IsHalfway, IsOriginal
<1>31. ASSUME system = "windows", WComplete PROVE Placed'
  BY <1>31, <1>0, PlacedCompleted
<1>32. ASSUME system = "windows", WFinish PROVE Placed'
  BY <1>32, <1>0, PlacedFinished
<1>33. ASSUME system = "windows", WReconcile PROVE Placed'
  BY <1>33 DEF WReconcile, IsOriginal
<1>34. ASSUME system = "windows", WReplaceBack PROVE Placed'
  BY <1>34, <1>0, PlacedReplacedBack
<1>35. ASSUME system = "windows", WMoveBackup PROVE Placed'
  BY <1>35 DEF WMoveBackup, Moved
<1>36. ASSUME system = "windows", WPutBackAttributes PROVE Placed'
  BY <1>36, <1>0, PlacedPutBack
<1>37. ASSUME system = "windows", WSweepTemporary PROVE Placed'
  BY <1>37, <1>0, PlacedSwept
<1>38. ASSUME system = "windows", WMoveByHandle PROVE Placed'
  BY <1>38, <1>0, PlacedMovedByHandle
<1>39. ASSUME system = "windows", WRemove PROVE Placed'
  BY <1>39 DEF WRemove
<1>40. ASSUME system = "windows", WGone PROVE Placed'
  BY <1>40 DEF WGone
<1>41. ASSUME system = "windows", WFinal PROVE Placed'
  BY <1>41 DEF WFinal
<1>42. ASSUME UNCHANGED filesVars PROVE Placed'
  BY <1>42 DEF filesVars
<1>43. CASE PosixNext
  BY <1>43, <1>5, <1>6, <1>7, <1>8, <1>9, <1>10, <1>11, <1>12, <1>13, <1>14, <1>15,
     <1>16, <1>17, <1>18, <1>19, <1>20, <1>21, <1>22, <1>23, <1>24, <1>25 DEF PosixNext
<1>44. CASE WindowsNext
  BY <1>44, <1>26, <1>27, <1>28, <1>29, <1>30, <1>31, <1>32, <1>33, <1>34, <1>35, <1>36,
     <1>37, <1>38, <1>39, <1>40, <1>41 DEF WindowsNext
<1> QED
  BY <1>1, <1>2, <1>3, <1>4, <1>42, <1>43, <1>44 DEF FilesNext

\* Only a replacement on Windows lifts attributes.
LEMMA OnlyWindowsStep ==
    ASSUME FilesTypeOK, CallInOrder, OnlyWindowsLifts, [FilesNext]_filesVars
    PROVE  OnlyWindowsLifts'
<1> USE ForeignAssumption, UnsafeAssumption, BoundsAssumption DEF OnlyWindowsLifts,
   Publishes, FilesTypeOK, CallInOrder, Replacing, Goto, Return, Fault, NoFault, At,
   Names, Object, Nothing, Old, New, call, others
<1>1. ASSUME Look PROVE OnlyWindowsLifts'
  BY <1>1 DEF Look, Ordinary
<1>2. ASSUME Others(WPinned) PROVE OnlyWindowsLifts'
  BY <1>2 DEF Others, OthersMayAct, WPinned
<1>3. ASSUME OthersMoveDirectory PROVE OnlyWindowsLifts'
  BY <1>3 DEF OthersMoveDirectory, OthersMayAct
<1>4. ASSUME Die PROVE OnlyWindowsLifts'
  BY <1>4 DEF Die
<1>5. ASSUME system = "posix", PCreateTemporary PROVE OnlyWindowsLifts'
  BY <1>5 DEF PCreateTemporary
<1>6. ASSUME system = "posix", PCreateExclusive PROVE OnlyWindowsLifts'
  BY <1>6 DEF PCreateExclusive
<1>7. ASSUME system = "posix", PUncreate PROVE OnlyWindowsLifts'
  BY <1>7 DEF PUncreate
<1>8. ASSUME system = "posix", PRecheck PROVE OnlyWindowsLifts'
  BY <1>8 DEF PRecheck, Unwind
<1>9. ASSUME system = "posix", PCheckExchange PROVE OnlyWindowsLifts'
  BY <1>9 DEF PCheckExchange, Unwind
<1>10. ASSUME system = "posix", PExchange PROVE OnlyWindowsLifts'
  BY <1>10 DEF PExchange, Exchanged, BothExist
<1>11. ASSUME system = "posix", PConfirmExchange PROVE OnlyWindowsLifts'
  BY <1>11 DEF PConfirmExchange
<1>12. ASSUME system = "posix", PReconcileExchange PROVE OnlyWindowsLifts'
  BY <1>12 DEF PReconcileExchange, Unwind, ExchangeIsReversible, BothExist
<1>13. ASSUME system = "posix", PExchangeBack PROVE OnlyWindowsLifts'
  BY <1>13 DEF PExchangeBack, Unwind, Exchanged, BothExist
<1>14. ASSUME system = "posix", PMove PROVE OnlyWindowsLifts'
  BY <1>14 DEF PMove, Moved, CanMove
<1>15. ASSUME system = "posix", PConfirmMove PROVE OnlyWindowsLifts'
  BY <1>15 DEF PConfirmMove, Unwind, MoveIsUnreadable, Ordinary
<1>16. ASSUME system = "posix", PReconcileMove PROVE OnlyWindowsLifts'
  BY <1>16 DEF PReconcileMove, Unwind, MoveIsUnreadable, Ordinary
<1>17. ASSUME system = "posix", PMoveBack PROVE OnlyWindowsLifts'
  BY <1>17 DEF PMoveBack, Unwind, Moved
<1>18. ASSUME system = "posix", PSetAside PROVE OnlyWindowsLifts'
  BY <1>18 DEF PSetAside, Moved, Doomed
<1>19. ASSUME system = "posix", PInspect PROVE OnlyWindowsLifts'
  BY <1>19 DEF PInspect, Moved, Doomed, DoomedObject, DeleteFails, Ordinary
<1>20. ASSUME system = "posix", PDelete PROVE OnlyWindowsLifts'
  BY <1>20 DEF PDelete, AfterDelete, Doomed, DoomedObject
<1>21. ASSUME system = "posix", PUndelete PROVE OnlyWindowsLifts'
  BY <1>21 DEF PUndelete, BackToItsName, Moved, Doomed, DoomedObject
<1>22. ASSUME system = "posix", PRestore PROVE OnlyWindowsLifts'
  BY <1>22 DEF PRestore, BackToItsName, Moved, Doomed, DoomedObject, DeleteFails
<1>23. ASSUME system = "posix", PUndo PROVE OnlyWindowsLifts'
  BY <1>23 DEF PUndo, Unwind
<1>24. ASSUME system = "posix", PSweep PROVE OnlyWindowsLifts'
  BY <1>24 DEF PSweep
<1>25. ASSUME system = "posix", PFinal PROVE OnlyWindowsLifts'
  BY <1>25 DEF PFinal
<1>26. ASSUME system = "windows", WCreateTemporary PROVE OnlyWindowsLifts'
  BY <1>26 DEF WCreateTemporary
<1>27. ASSUME system = "windows", WCreateExclusive PROVE OnlyWindowsLifts'
  BY <1>27 DEF WCreateExclusive
<1>28. ASSUME system = "windows", WRecheck PROVE OnlyWindowsLifts'
  BY <1>28 DEF WRecheck, WDropByHandle, Lifted
<1>29. ASSUME system = "windows", WReplace PROVE OnlyWindowsLifts'
  BY <1>29 DEF WReplace, Replaced, Moved, Lifted
<1>30. ASSUME system = "windows", WLookAfter PROVE OnlyWindowsLifts'
  BY <1>30 DEF WLookAfter, IsReplaced, IsHalfway, IsOriginal
<1>31. ASSUME system = "windows", WComplete PROVE OnlyWindowsLifts'
  BY <1>31 DEF WComplete, Moved
<1>32. ASSUME system = "windows", WFinish PROVE OnlyWindowsLifts'
  BY <1>32 DEF WFinish
<1>33. ASSUME system = "windows", WReconcile PROVE OnlyWindowsLifts'
  BY <1>33 DEF WReconcile, IsOriginal
<1>34. ASSUME system = "windows", WReplaceBack PROVE OnlyWindowsLifts'
  BY <1>34 DEF WReplaceBack, Replaced, Moved
<1>35. ASSUME system = "windows", WMoveBackup PROVE OnlyWindowsLifts'
  BY <1>35 DEF WMoveBackup, Moved
<1>36. ASSUME system = "windows", WPutBackAttributes PROVE OnlyWindowsLifts'
  BY <1>36 DEF WPutBackAttributes, WFail
<1>37. ASSUME system = "windows", WSweepTemporary PROVE OnlyWindowsLifts'
  BY <1>37 DEF WSweepTemporary
<1>38. ASSUME system = "windows", WMoveByHandle PROVE OnlyWindowsLifts'
  BY <1>38 DEF WMoveByHandle, Moved, WDropByHandle
<1>39. ASSUME system = "windows", WRemove PROVE OnlyWindowsLifts'
  BY <1>39 DEF WRemove
<1>40. ASSUME system = "windows", WGone PROVE OnlyWindowsLifts'
  BY <1>40 DEF WGone
<1>41. ASSUME system = "windows", WFinal PROVE OnlyWindowsLifts'
  BY <1>41 DEF WFinal
<1>42. ASSUME UNCHANGED filesVars PROVE OnlyWindowsLifts'
  BY <1>42 DEF filesVars
<1>43. CASE PosixNext
  BY <1>43, <1>5, <1>6, <1>7, <1>8, <1>9, <1>10, <1>11, <1>12, <1>13, <1>14, <1>15,
     <1>16, <1>17, <1>18, <1>19, <1>20, <1>21, <1>22, <1>23, <1>24, <1>25 DEF PosixNext
<1>44. CASE WindowsNext
  BY <1>44, <1>26, <1>27, <1>28, <1>29, <1>30, <1>31, <1>32, <1>33, <1>34, <1>35, <1>36,
     <1>37, <1>38, <1>39, <1>40, <1>41 DEF WindowsNext
<1> QED
  BY <1>1, <1>2, <1>3, <1>4, <1>42, <1>43, <1>44 DEF FilesNext

\* What an action starts from that lifts an attribute or returns one.
LiftedFacts ==
    /\ FilesTypeOK /\ CallInOrder /\ CallIsKnown /\ OnlyWindowsLifts /\ LiftedNow
    /\ AtMostOneFault /\ AtMostOneFault' /\ (OneFault => Placed)

\* A replacement at work is a publication with at most one fault.
LEMMA ReplacingInPlace ==
    ASSUME LiftedFacts, step \in Replacing, op' = op, before' = before
    PROVE  InPlaceFacts /\ before = Old
<1>1. Publishes /\ before = Old
  BY DEF LiftedFacts, OnlyWindowsLifts, CallInOrder
<1>2. OneFault /\ OneFault'
  BY <1>1 DEF LiftedFacts, OneFault, AtMostOneFault, Publishes
<1> QED BY <1>1, <1>2 DEF LiftedFacts, InPlaceFacts, FilesTypeOK

\* The attribute of the old object is lifted.
LEMMA LiftedByRecheck ==
    ASSUME LiftedFacts, WRecheck PROVE LiftedNow'
<1>1. /\ step = "recheck" /\ cleared = {} /\ readonly \subseteq {Old, New}
      /\ before \in {Old, Nothing}
  BY DEF WRecheck, At, LiftedFacts, LiftedNow, Replacing, FilesTypeOK, CallInOrder
<1>2. Old # Nothing /\ New # Nothing /\ New # Old
  BY DEF Old, New, Nothing
<1>3. \/ step' = "move by handle" /\ before = Nothing /\ cleared' = Lifted(before)
      \/ step' = "replace" /\ before # Nothing /\ cleared' = Lifted(before)
      \/ step' = "over" /\ cleared' = cleared
  BY Zenon DEF WRecheck, WDropByHandle, Goto, Return
<1>4. \/ step' \in {"move by handle", "over"} /\ cleared' = {}
      \/ step' = "replace" /\ New \notin cleared'
  BY <1>1, <1>2, <1>3 DEF Lifted
<1> QED BY <1>4 DEF LiftedNow, Replacing

\* The attribute of the new object is lifted for the system call.
LEMMA LiftedByReplace ==
    ASSUME LiftedFacts, WReplace PROVE LiftedNow'
<1>1. step = "replace" /\ step' \in {"look after", "reconcile"} /\ op' = op /\ before' = before
  BY DEF WReplace, At, Goto, call
<1>2. InPlaceFacts /\ before = Old
  BY <1>1, ReplacingInPlace DEF Replacing
<1>3. Holding(Old, New, Nothing) /\ at \in [Names -> Object \cup {Nothing}]
  BY <1>1, <1>2 DEF InPlaceFacts, Placed, ReplaceInPlace, Prepared, FilesTypeOK
<1>4. \/ step' # "reconcile"
      \/ at' = at
      \/ at' = Replaced("destination", "source", "aside")
  BY Zenon DEF WReplace, Goto
<1>5. step' = "reconcile" => Becomes(Old, New, Nothing) \/ Becomes(New, Nothing, Old)
  BY <1>3, <1>4, NamesMove DEF Holding
<1>6. ~(step' = "reconcile" /\ Published')
  BY <1>5 DEF Becomes, Published, Holding, Old, New, Nothing
<1> QED BY <1>1, <1>6 DEF LiftedNow, Replacing

\* Where the objects are is looked at.
LEMMA LiftedByLookAfter ==
    ASSUME LiftedFacts, WLookAfter PROVE LiftedNow'
<1>1. /\ step = "look after" /\ op' = op /\ before' = before /\ at' = at /\ cleared' = cleared
      /\ step' \in {"finish", "complete", "put back attributes", "reconcile"}
  BY DEF WLookAfter, At, Goto, call
<1>2. InPlaceFacts /\ before = Old
  BY <1>1, ReplacingInPlace DEF Replacing
<1>3. OldAside \/ Prepared \/ Halfway
  BY <1>1, <1>2 DEF InPlaceFacts, Placed, ReplaceInPlace
<1>4. ~Published'
  BY <1>1, <1>2, <1>3 DEF Published, OldAside, Prepared, Halfway, Holding, Old, New, Nothing
<1> QED BY <1>1, <1>4 DEF LiftedNow, Replacing

\* The second half is a rename.
LEMMA LiftedByComplete ==
    ASSUME LiftedFacts, WComplete PROVE LiftedNow'
<1>1. /\ step = "complete" /\ op' = op /\ before' = before
      /\ step' \in {"look after", "reconcile"}
  BY DEF WComplete, At, Goto, call
<1>2. InPlaceFacts /\ faults = 1 /\ Halfway
  BY <1>1, ReplacingInPlace DEF Replacing, InPlaceFacts, Placed, ReplaceInPlace
<1>3. ~Fault /\ at["destination"] = Nothing
  BY <1>2, FaultsLeft DEF Halfway, Holding
<1>4. step' = "look after"
  BY <1>3, Zenon DEF WComplete, Goto
<1> QED BY <1>4 DEF LiftedNow, Replacing

\* The attributes of the new object are put back once it has its name.
LEMMA LiftedByFinish ==
    ASSUME LiftedFacts, WFinish PROVE LiftedNow'
<1>1. /\ step = "finish" /\ op' = op /\ before' = before
  BY DEF WFinish, At, call
<1>2. OldAside
  BY <1>1, ReplacingInPlace DEF Replacing, InPlaceFacts, Placed, ReplaceInPlace
<1>3. at["aside"] = Old /\ Old # Nothing
  BY <1>2 DEF OldAside, Holding, Old, Nothing
<1>4. \/ step' = "final" /\ cleared' = {}
      \/ step' = "reconcile" /\ (cleared' = cleared \ {New} \/ at' = at)
  BY Zenon DEF WFinish, Goto
<1>5. at' = at => ~Published'
  BY <1>3 DEF Published, Holding
<1> QED BY <1>4, <1>5 DEF LiftedNow, Replacing

\* The replacement is done backwards, the attributes stay lifted.
LEMMA LiftedByReplaceBack ==
    ASSUME LiftedFacts, WReplaceBack PROVE LiftedNow'
<1>1. /\ step = "replace back" /\ op' = op /\ before' = before
      /\ step' = "put back attributes"
  BY DEF WReplaceBack, At, call, Goto
<1>2. InPlaceFacts
  BY <1>1, ReplacingInPlace DEF Replacing
<1>3. Becomes(Old, New, Nothing)
  BY <1>2, ReplacedBack
<1>4. ~Published'
  BY <1>3 DEF Published, Becomes, Holding, New, Nothing
<1> QED BY <1>1, <1>4 DEF LiftedNow, Replacing

\* All that is still lifted is put back.
LEMMA LiftedByPutBackAttributes ==
    ASSUME LiftedFacts, WPutBackAttributes PROVE LiftedNow'
<1>1. /\ step = "put back attributes" /\ op' = op /\ before' = before
      /\ step' \in {"sweep temporary", "over"}
  BY DEF WPutBackAttributes, At, call, WFail
<1>2. InPlaceFacts /\ before = Old /\ faults = 1 /\ (Prepared \/ Published)
  BY <1>1, ReplacingInPlace DEF Replacing, InPlaceFacts, Placed, ReplaceInPlace
<1>3. ~Fault
  BY <1>2, FaultsLeft
<1>4. cleared' = cleared \ ({before} \cup (IF at["source"] = New THEN {New} ELSE {}))
  BY <1>3, Zenon DEF WPutBackAttributes
<1>5. cleared \subseteq {Old, New}
  BY DEF LiftedFacts, FilesTypeOK
<1>6. at["source"] = New \/ New \notin cleared
  BY <1>1, <1>2 DEF LiftedFacts, LiftedNow, Prepared, Holding
<1>7. cleared' = {}
  BY <1>2, <1>4, <1>5, <1>6
<1> QED BY <1>1, <1>7 DEF LiftedNow, Replacing

\* With at most one fault only a replacement at work has attributes lifted.
LEMMA LiftedStep ==
    ASSUME FilesTypeOK, CallInOrder, CallIsKnown, OneFault => Placed, OnlyWindowsLifts,
       AtMostOneFault, AtMostOneFault', LiftedNow, [FilesNext]_filesVars
    PROVE  LiftedNow'
<1>0. LiftedFacts
  BY DEF LiftedFacts
<1> USE DEF LiftedNow, CallIsKnown, OnlyWindowsLifts, Replacing, Goto, Return, At,
   Published, Holding
<1>1. ASSUME Look PROVE LiftedNow'
  BY <1>1 DEF Look, Ordinary
<1>2. ASSUME Others(WPinned) PROVE LiftedNow'
  <2>1. touched' # {}
    BY <1>2 DEF Others
  <2> QED BY <2>1 DEF AtMostOneFault, Undisturbed
<1>3. ASSUME OthersMoveDirectory PROVE LiftedNow'
  BY <1>3 DEF OthersMoveDirectory, OthersMayAct
<1>4. ASSUME Die PROVE LiftedNow'
  BY <1>4 DEF Die
<1>5. ASSUME system = "posix", PCreateTemporary PROVE LiftedNow'
  BY <1>5 DEF PCreateTemporary
<1>6. ASSUME system = "posix", PCreateExclusive PROVE LiftedNow'
  BY <1>6 DEF PCreateExclusive
<1>7. ASSUME system = "posix", PUncreate PROVE LiftedNow'
  BY <1>7 DEF PUncreate
<1>8. ASSUME system = "posix", PRecheck PROVE LiftedNow'
  BY <1>8 DEF PRecheck, Unwind
<1>9. ASSUME system = "posix", PCheckExchange PROVE LiftedNow'
  BY <1>9 DEF PCheckExchange, Unwind
<1>10. ASSUME system = "posix", PExchange PROVE LiftedNow'
  BY <1>10 DEF PExchange
<1>11. ASSUME system = "posix", PConfirmExchange PROVE LiftedNow'
  BY <1>11 DEF PConfirmExchange
<1>12. ASSUME system = "posix", PReconcileExchange PROVE LiftedNow'
  BY <1>12 DEF PReconcileExchange, Unwind
<1>13. ASSUME system = "posix", PExchangeBack PROVE LiftedNow'
  BY <1>13 DEF PExchangeBack, Unwind
<1>14. ASSUME system = "posix", PMove PROVE LiftedNow'
  BY <1>14 DEF PMove
<1>15. ASSUME system = "posix", PConfirmMove PROVE LiftedNow'
  BY <1>15 DEF PConfirmMove, Unwind
<1>16. ASSUME system = "posix", PReconcileMove PROVE LiftedNow'
  BY <1>16 DEF PReconcileMove, Unwind
<1>17. ASSUME system = "posix", PMoveBack PROVE LiftedNow'
  BY <1>17 DEF PMoveBack, Unwind
<1>18. ASSUME system = "posix", PSetAside PROVE LiftedNow'
  BY <1>18 DEF PSetAside
<1>19. ASSUME system = "posix", PInspect PROVE LiftedNow'
  BY <1>19 DEF PInspect, DeleteFails
<1>20. ASSUME system = "posix", PDelete PROVE LiftedNow'
  BY <1>20 DEF PDelete, AfterDelete
<1>21. ASSUME system = "posix", PUndelete PROVE LiftedNow'
  BY <1>21 DEF PUndelete
<1>22. ASSUME system = "posix", PRestore PROVE LiftedNow'
  BY <1>22 DEF PRestore, DeleteFails
<1>23. ASSUME system = "posix", PUndo PROVE LiftedNow'
  BY <1>23 DEF PUndo, Unwind
<1>24. ASSUME system = "posix", PSweep PROVE LiftedNow'
  BY <1>24 DEF PSweep
<1>25. ASSUME system = "posix", PFinal PROVE LiftedNow'
  BY <1>25 DEF PFinal
<1>26. ASSUME system = "windows", WCreateTemporary PROVE LiftedNow'
  BY <1>26 DEF WCreateTemporary
<1>27. ASSUME system = "windows", WCreateExclusive PROVE LiftedNow'
  BY <1>27 DEF WCreateExclusive
<1>28. ASSUME system = "windows", WRecheck PROVE LiftedNow'
  BY <1>28, <1>0, LiftedByRecheck
<1>29. ASSUME system = "windows", WReplace PROVE LiftedNow'
  BY <1>29, <1>0, LiftedByReplace
<1>30. ASSUME system = "windows", WLookAfter PROVE LiftedNow'
  BY <1>30, <1>0, LiftedByLookAfter
<1>31. ASSUME system = "windows", WComplete PROVE LiftedNow'
  BY <1>31, <1>0, LiftedByComplete
<1>32. ASSUME system = "windows", WFinish PROVE LiftedNow'
  BY <1>32, <1>0, LiftedByFinish
<1>33. ASSUME system = "windows", WReconcile PROVE LiftedNow'
  BY <1>33 DEF WReconcile
<1>34. ASSUME system = "windows", WReplaceBack PROVE LiftedNow'
  BY <1>34, <1>0, LiftedByReplaceBack
<1>35. ASSUME system = "windows", WMoveBackup PROVE LiftedNow'
  <2>1. step = "move backup" /\ op' = op /\ before' = before
    BY <1>35 DEF WMoveBackup, call
  <2>2. step # "move backup"
    BY <2>1, <1>0, ReplacingInPlace DEF InPlaceFacts, Placed, ReplaceInPlace
  <2> QED BY <2>1, <2>2
<1>36. ASSUME system = "windows", WPutBackAttributes PROVE LiftedNow'
  BY <1>36, <1>0, LiftedByPutBackAttributes
<1>37. ASSUME system = "windows", WSweepTemporary PROVE LiftedNow'
  BY <1>37 DEF WSweepTemporary
<1>38. ASSUME system = "windows", WMoveByHandle PROVE LiftedNow'
  BY <1>38 DEF WMoveByHandle, WDropByHandle
<1>39. ASSUME system = "windows", WRemove PROVE LiftedNow'
  BY <1>39 DEF WRemove
<1>40. ASSUME system = "windows", WGone PROVE LiftedNow'
  BY <1>40 DEF WGone
<1>41. ASSUME system = "windows", WFinal PROVE LiftedNow'
  BY <1>41 DEF WFinal
<1>42. ASSUME UNCHANGED filesVars PROVE LiftedNow'
  BY <1>42 DEF filesVars
<1>43. CASE PosixNext
  BY <1>43, <1>5, <1>6, <1>7, <1>8, <1>9, <1>10, <1>11, <1>12, <1>13, <1>14, <1>15,
     <1>16, <1>17, <1>18, <1>19, <1>20, <1>21, <1>22, <1>23, <1>24, <1>25 DEF PosixNext
<1>44. CASE WindowsNext
  BY <1>44, <1>26, <1>27, <1>28, <1>29, <1>30, <1>31, <1>32, <1>33, <1>34, <1>35, <1>36,
     <1>37, <1>38, <1>39, <1>40, <1>41 DEF WindowsNext
<1> QED
  BY <1>1, <1>2, <1>3, <1>4, <1>42, <1>43, <1>44 DEF FilesNext

\* What another program does to the names.
LEMMA OthersDo ==
    ASSUME FilesTypeOK, Others(WPinned)
    PROVE  \E n \in {"destination", "source"}, x \in Foreign \cup {Nothing} :
               /\ n = "source" => op = "replace"
               /\ touched' = touched \cup {n}
               /\ at'[n] = x /\ \A m \in Names \ {n} : at'[m] = at[m]
               /\ (x = Nothing /\ used' = used) \/ (x \notin used /\ used' = used \cup {x})
<1>1. PICK n \in {"destination", "source"} :
          /\ n = "source" => op = "replace"
          /\ touched' = touched \cup {n}
          /\ \/ \E f \in Foreign \ used : at' = [at EXCEPT ![n] = f] /\ used' = used \cup {f}
             \/ at' = [at EXCEPT ![n] = Nothing] /\ used' = used
  BY DEF Others
<1>2. PICK x \in Foreign \cup {Nothing} :
          /\ at' = [at EXCEPT ![n] = x]
          /\ (x = Nothing /\ used' = used) \/ (x \notin used /\ used' = used \cup {x})
  BY <1>1
<1>3. at'[n] = x /\ \A m \in Names \ {n} : at'[m] = at[m]
  BY <1>2 DEF FilesTypeOK, Names
<1> QED BY <1>1, <1>2, <1>3

\* What others put under a name is neither the old object nor the new one.
LEMMA SwapDisturbed ==
    ASSUME FilesTypeOK, CallIsKnown, SwapIsExact, Others(WPinned) PROVE SwapIsExact'
<1>1. PICK n \in {"destination", "source"}, x \in Foreign \cup {Nothing} :
          /\ touched' = touched \cup {n}
          /\ at'[n] = x /\ \A m \in Names \ {n} : at'[m] = at[m]
  BY OthersDo
<1>2. /\ system' = system /\ op' = op /\ before' = before /\ step' = step /\ task' = task
      /\ destroyed' = destroyed /\ wanted' = wanted /\ result' = result
      /\ result = "none"
  BY DEF Others, OthersMayAct, call, CallIsKnown, FilesTypeOK
<1>3. x # Old /\ x # New /\ {"destination", "source", "aside"} = Names
  BY ForeignAssumption DEF Old, New, Nothing, Names
<1>4. CASE n = "destination"
  <2>1. at'["destination"] = x /\ at'["source"] = at["source"] /\ at'["aside"] = at["aside"]
    BY <1>1, <1>3, <1>4
  <2> QED BY <1>2, <1>3, <2>1 DEF SwapIsExact, SuccessIsASwap, Publishes
<1>5. CASE n = "source"
  <2>1. /\ at'["source"] = x /\ at'["destination"] = at["destination"]
        /\ at'["aside"] = at["aside"]
        /\ "destination" \in touched' => "destination" \in touched
    BY <1>1, <1>3, <1>5
  <2> QED BY <1>2, <1>3, <2>1 DEF SwapIsExact, SuccessIsASwap, Publishes
<1> QED BY <1>4, <1>5

\* An exchange that moved something of others shows it afterwards.
LEMMA SwapExchanged ==
    ASSUME FilesTypeOK, CallIsKnown, SwapIsExact, system = "posix", PExchange PROVE SwapIsExact'
<1>1. /\ system' = system /\ op' = op /\ before' = before /\ task' = task
      /\ destroyed' = destroyed /\ wanted' = wanted /\ result' = result
      /\ touched' = touched /\ step = "exchange"
  BY DEF PExchange, call, others, At, Goto
<1>4. result = "none" /\ task # "discard"
  BY <1>1 DEF CallIsKnown, FilesTypeOK, Exchanging
<1>2. \/ at' = Exchanged /\ step' = "confirm exchange"
      \/ step' = "reconcile exchange"
  BY Zenon DEF PExchange, Goto
<1>3. \/ at'["source"] = at["destination"] /\ step' = "confirm exchange"
      \/ step' = "reconcile exchange"
  BY <1>2, NamesMove DEF FilesTypeOK, Becomes
<1> QED BY <1>1, <1>3, <1>4 DEF SwapIsExact, SuccessIsASwap, Publishes, Exchanging

\* Taking an exchange back ends in a failure.
LEMMA SwapExchangedBack ==
    ASSUME FilesTypeOK, CallIsKnown, SwapIsExact, system = "posix", PExchangeBack
    PROVE  SwapIsExact'
<1>1. /\ system' = system /\ op' = op /\ before' = before /\ task' = task
      /\ destroyed' = destroyed /\ wanted' = wanted
      /\ touched' = touched /\ step = "exchange back" /\ result = "none" /\ task # "discard"
  BY DEF PExchangeBack, call, others, At, CallIsKnown, FilesTypeOK, Exchanging
<1>2. (step' = "sweep" /\ result' = "none") \/ (step' = "over" /\ result' = "failed")
  BY <1>1 DEF PExchangeBack, Unwind
<1> QED BY <1>1, <1>2 DEF SwapIsExact, SuccessIsASwap, Publishes, Exchanging

\* While nobody acted, nothing of theirs was met.
RacedFacts == FilesTypeOK /\ CallInOrder /\ CallIsKnown /\ RacedIsKnown

\* Another program saves its file under the name.
LEMMA RacedDisturbed ==
    ASSUME RacedFacts, Others(WPinned) PROVE RacedIsKnown'
<1>1. PICK n \in {"destination", "source"}, x \in Foreign \cup {Nothing} :
          /\ n = "source" => op = "replace"
          /\ at'[n] = x
          /\ (x = Nothing /\ used' = used) \/ (x \notin used /\ used' = used \cup {x})
  BY OthersDo DEF RacedFacts
<1>2. /\ op' = op /\ step' = step /\ task' = task /\ result' = result /\ faults' = faults
      /\ result = "none" /\ moves' = moves + 1 /\ moves \in Nat
  BY BoundsAssumption DEF Others, OthersMayAct, call, CallIsKnown, FilesTypeOK, RacedFacts
<1>3. moves' <= 1 => moves = 0 /\ moves' # 0
  BY <1>2
<1> SUFFICES ASSUME op \in {"remove", "create"}, faults = 0, moves = 0, moves' # 0
             PROVE  RacedIsKnown'
  BY <1>2, <1>3 DEF RacedIsKnown
<1>4. n = "destination" /\ used \subseteq Unsafe
  BY <1>1 DEF RacedFacts, RacedIsKnown
<1>5. \A f \in used' \ Unsafe : at'["destination"] = f
  BY <1>1, <1>4
<1> QED BY <1>2, <1>5 DEF RacedFacts, RacedIsKnown

\* Another program moves the directory.
LEMMA RacedElsewhere ==
    ASSUME RacedFacts, OthersMoveDirectory PROVE RacedIsKnown'
<1>1. /\ op' = op /\ step' = step /\ task' = task /\ result' = result /\ faults' = faults
      /\ used' = used /\ at' = at /\ moves' = moves + 1 /\ moves \in Nat
  BY BoundsAssumption
     DEF OthersMoveDirectory, OthersMayAct, call, FilesTypeOK, RacedFacts
<1>2. moves' <= 1 => moves = 0 /\ moves' # 0
  BY <1>1
<1> QED BY <1>1, <1>2 DEF RacedFacts, RacedIsKnown

\* What it saved is set aside under a name nobody else knows.
LEMMA RacedSetAside ==
    ASSUME RacedFacts, PSetAside PROVE RacedIsKnown'
<1>1. /\ op' = op /\ task' = task /\ used' = used /\ moves' = moves /\ step = "set aside"
      /\ result' = result /\ task # "publish" /\ (faults' = faults \/ Fault)
  BY DEF PSetAside, call, others, At, RacedFacts, CallInOrder, Deleting, Goto, NoFault
<1>2. Fault => faults' # 0
  BY BoundsAssumption DEF Fault, RacedFacts, FilesTypeOK
<1> SUFFICES ASSUME op \in {"remove", "create"}, faults = 0, moves <= 1, ~Fault
             PROVE  RacedIsKnown'
  BY <1>1, <1>2 DEF RacedIsKnown
<1>3. task = "remove" /\ Doomed = "destination"
  BY <1>1 DEF RacedFacts, RacedIsKnown, Doomed
<1>7. moves = 0 \/ moves = 1
  BY BoundsAssumption DEF RacedFacts, FilesTypeOK
<1>4. \A f \in used \ Unsafe : at["destination"] = f /\ moves = 1
  BY <1>1, <1>7 DEF RacedFacts, RacedIsKnown
<1>5. \/ at' = Moved("destination", "aside") /\ step' = "inspect"
      \/ at["destination"] = Nothing /\ at' = at /\ step' = "restore"
  BY <1>3, Zenon DEF PSetAside, Goto
<1>6. (at'["destination"] = Nothing /\ at'["aside"] = at["destination"]) \/ at' = at
  BY <1>5, NamesMove DEF RacedFacts, FilesTypeOK, Becomes
<1> QED BY <1>1, <1>3, <1>4, <1>5, <1>6 DEF RacedFacts, RacedIsKnown

\* What was changed under the name is noticed before the old object is deleted.
LEMMA SwapStep ==
    ASSUME FilesTypeOK, CallInOrder, DoomedIsSeen, CallIsKnown, SwapIsExact,
       [FilesNext]_filesVars
    PROVE  SwapIsExact'
<1> USE ForeignAssumption, UnsafeAssumption, BoundsAssumption DEF SwapIsExact,
   SuccessIsASwap, Publishes, DoomedIsSeen, DoomedObject, CallIsKnown, FilesTypeOK,
   CallInOrder, Exchanging, Moving, Deleting, Replacing, Goto, Return, Fault, NoFault,
   At, Names, Object, Nothing, Old, New, call, others
<1>1. ASSUME Look PROVE SwapIsExact'
  BY <1>1 DEF Look, Ordinary
<1>2. ASSUME Others(WPinned) PROVE SwapIsExact'
  BY <1>2, SwapDisturbed
<1>3. ASSUME OthersMoveDirectory PROVE SwapIsExact'
  BY <1>3 DEF OthersMoveDirectory, OthersMayAct
<1>4. ASSUME Die PROVE SwapIsExact'
  BY <1>4 DEF Die
<1>5. ASSUME system = "posix", PCreateTemporary PROVE SwapIsExact'
  BY <1>5 DEF PCreateTemporary
<1>6. ASSUME system = "posix", PCreateExclusive PROVE SwapIsExact'
  BY <1>6 DEF PCreateExclusive
<1>7. ASSUME system = "posix", PUncreate PROVE SwapIsExact'
  BY <1>7 DEF PUncreate
<1>8. ASSUME system = "posix", PRecheck PROVE SwapIsExact'
  BY <1>8 DEF PRecheck, Unwind
<1>9. ASSUME system = "posix", PCheckExchange PROVE SwapIsExact'
  BY <1>9 DEF PCheckExchange, Unwind
<1>10. ASSUME system = "posix", PExchange PROVE SwapIsExact'
  BY <1>10, SwapExchanged
<1>11. ASSUME system = "posix", PConfirmExchange PROVE SwapIsExact'
  BY <1>11 DEF PConfirmExchange
<1>12. ASSUME system = "posix", PReconcileExchange PROVE SwapIsExact'
  BY <1>12 DEF PReconcileExchange, Unwind, ExchangeIsReversible, BothExist
<1>13. ASSUME system = "posix", PExchangeBack PROVE SwapIsExact'
  BY <1>13, SwapExchangedBack
<1>14. ASSUME system = "posix", PMove PROVE SwapIsExact'
  BY <1>14 DEF PMove, Moved, CanMove
<1>15. ASSUME system = "posix", PConfirmMove PROVE SwapIsExact'
  BY <1>15 DEF PConfirmMove, Unwind, MoveIsUnreadable, Ordinary
<1>16. ASSUME system = "posix", PReconcileMove PROVE SwapIsExact'
  BY <1>16 DEF PReconcileMove, Unwind, MoveIsUnreadable, Ordinary
<1>17. ASSUME system = "posix", PMoveBack PROVE SwapIsExact'
  BY <1>17 DEF PMoveBack, Unwind, Moved
<1>18. ASSUME system = "posix", PSetAside PROVE SwapIsExact'
  BY <1>18 DEF PSetAside, Moved, Doomed
<1>19. ASSUME system = "posix", PInspect PROVE SwapIsExact'
  BY <1>19 DEF PInspect, Moved, Doomed, DoomedObject, DeleteFails, Ordinary
<1>20. ASSUME system = "posix", PDelete PROVE SwapIsExact'
  BY <1>20 DEF PDelete, AfterDelete, Doomed, DoomedObject
<1>21. ASSUME system = "posix", PUndelete PROVE SwapIsExact'
  BY <1>21 DEF PUndelete, BackToItsName, Moved, Doomed, DoomedObject
<1>22. ASSUME system = "posix", PRestore PROVE SwapIsExact'
  BY <1>22 DEF PRestore, BackToItsName, Moved, Doomed, DoomedObject, DeleteFails
<1>23. ASSUME system = "posix", PUndo PROVE SwapIsExact'
  BY <1>23 DEF PUndo, Unwind
<1>24. ASSUME system = "posix", PSweep PROVE SwapIsExact'
  BY <1>24 DEF PSweep
<1>25. ASSUME system = "posix", PFinal PROVE SwapIsExact'
  BY <1>25 DEF PFinal
<1>26. ASSUME system = "windows", WCreateTemporary PROVE SwapIsExact'
  BY <1>26 DEF WCreateTemporary
<1>27. ASSUME system = "windows", WCreateExclusive PROVE SwapIsExact'
  BY <1>27 DEF WCreateExclusive
<1>28. ASSUME system = "windows", WRecheck PROVE SwapIsExact'
  BY <1>28 DEF WRecheck, WDropByHandle, Lifted
<1>29. ASSUME system = "windows", WReplace PROVE SwapIsExact'
  BY <1>29 DEF WReplace, Replaced, Moved, Lifted
<1>30. ASSUME system = "windows", WLookAfter PROVE SwapIsExact'
  BY <1>30 DEF WLookAfter, IsReplaced, IsHalfway, IsOriginal
<1>31. ASSUME system = "windows", WComplete PROVE SwapIsExact'
  BY <1>31 DEF WComplete, Moved
<1>32. ASSUME system = "windows", WFinish PROVE SwapIsExact'
  BY <1>32 DEF WFinish
<1>33. ASSUME system = "windows", WReconcile PROVE SwapIsExact'
  BY <1>33 DEF WReconcile, IsOriginal
<1>34. ASSUME system = "windows", WReplaceBack PROVE SwapIsExact'
  BY <1>34 DEF WReplaceBack, Replaced, Moved
<1>35. ASSUME system = "windows", WMoveBackup PROVE SwapIsExact'
  BY <1>35 DEF WMoveBackup, Moved
<1>36. ASSUME system = "windows", WPutBackAttributes PROVE SwapIsExact'
  BY <1>36 DEF WPutBackAttributes, WFail
<1>37. ASSUME system = "windows", WSweepTemporary PROVE SwapIsExact'
  BY <1>37 DEF WSweepTemporary
<1>38. ASSUME system = "windows", WMoveByHandle PROVE SwapIsExact'
  BY <1>38 DEF WMoveByHandle, Moved, WDropByHandle
<1>39. ASSUME system = "windows", WRemove PROVE SwapIsExact'
  BY <1>39 DEF WRemove
<1>40. ASSUME system = "windows", WGone PROVE SwapIsExact'
  BY <1>40 DEF WGone
<1>41. ASSUME system = "windows", WFinal PROVE SwapIsExact'
  BY <1>41 DEF WFinal
<1>42. ASSUME UNCHANGED filesVars PROVE SwapIsExact'
  BY <1>42 DEF filesVars
<1>43. CASE PosixNext
  BY <1>43, <1>5, <1>6, <1>7, <1>8, <1>9, <1>10, <1>11, <1>12, <1>13, <1>14, <1>15,
     <1>16, <1>17, <1>18, <1>19, <1>20, <1>21, <1>22, <1>23, <1>24, <1>25 DEF PosixNext
<1>44. CASE WindowsNext
  BY <1>44, <1>26, <1>27, <1>28, <1>29, <1>30, <1>31, <1>32, <1>33, <1>34, <1>35, <1>36,
     <1>37, <1>38, <1>39, <1>40, <1>41 DEF WindowsNext
<1> QED
  BY <1>1, <1>2, <1>3, <1>4, <1>42, <1>43, <1>44 DEF FilesNext

\* What another program saved is under its name, or on its way back.
LEMMA RacedStep ==
    ASSUME FilesTypeOK, CallInOrder, DoomedIsSeen, CallIsKnown, OnlyWindowsLifts,
       RacedIsKnown, [FilesNext]_filesVars
    PROVE  RacedIsKnown'
<1>0. RacedFacts
  BY DEF RacedFacts
<1> USE ForeignAssumption, UnsafeAssumption, BoundsAssumption DEF RacedIsKnown,
   Publishes, DoomedIsSeen, CallIsKnown, OnlyWindowsLifts, FilesTypeOK, CallInOrder,
   Exchanging, Moving, Deleting, Replacing, Goto, Return, Fault, NoFault, At, Names,
   Object, Nothing, Old, New, call, others
<1>1. ASSUME Look PROVE RacedIsKnown'
  BY <1>1 DEF Look, Ordinary
<1>2. ASSUME Others(WPinned) PROVE RacedIsKnown'
  BY <1>2, <1>0, RacedDisturbed
<1>3. ASSUME OthersMoveDirectory PROVE RacedIsKnown'
  BY <1>3, <1>0, RacedElsewhere
<1>4. ASSUME Die PROVE RacedIsKnown'
  BY <1>4 DEF Die
<1>5. ASSUME system = "posix", PCreateTemporary PROVE RacedIsKnown'
  BY <1>5 DEF PCreateTemporary
<1>6. ASSUME system = "posix", PCreateExclusive PROVE RacedIsKnown'
  BY <1>6 DEF PCreateExclusive
<1>7. ASSUME system = "posix", PUncreate PROVE RacedIsKnown'
  BY <1>7 DEF PUncreate
<1>8. ASSUME system = "posix", PRecheck PROVE RacedIsKnown'
  BY <1>8 DEF PRecheck, Unwind
<1>9. ASSUME system = "posix", PCheckExchange PROVE RacedIsKnown'
  BY <1>9 DEF PCheckExchange, Unwind
<1>10. ASSUME system = "posix", PExchange PROVE RacedIsKnown'
  BY <1>10 DEF PExchange, Exchanged, BothExist
<1>11. ASSUME system = "posix", PConfirmExchange PROVE RacedIsKnown'
  BY <1>11 DEF PConfirmExchange
<1>12. ASSUME system = "posix", PReconcileExchange PROVE RacedIsKnown'
  BY <1>12 DEF PReconcileExchange, Unwind, ExchangeIsReversible, BothExist
<1>13. ASSUME system = "posix", PExchangeBack PROVE RacedIsKnown'
  BY <1>13 DEF PExchangeBack, Unwind, Exchanged, BothExist
<1>14. ASSUME system = "posix", PMove PROVE RacedIsKnown'
  BY <1>14 DEF PMove, Moved, CanMove
<1>15. ASSUME system = "posix", PConfirmMove PROVE RacedIsKnown'
  BY <1>15 DEF PConfirmMove, Unwind, MoveIsUnreadable, Ordinary
<1>16. ASSUME system = "posix", PReconcileMove PROVE RacedIsKnown'
  BY <1>16 DEF PReconcileMove, Unwind, MoveIsUnreadable, Ordinary
<1>17. ASSUME system = "posix", PMoveBack PROVE RacedIsKnown'
  BY <1>17 DEF PMoveBack, Unwind, Moved
<1>18. ASSUME system = "posix", PSetAside PROVE RacedIsKnown'
  BY <1>18, <1>0, RacedSetAside
<1>19. ASSUME system = "posix", PInspect PROVE RacedIsKnown'
  BY <1>19 DEF PInspect, Moved, Doomed, DoomedObject, DeleteFails, Ordinary
<1>20. ASSUME system = "posix", PDelete PROVE RacedIsKnown'
  BY <1>20 DEF PDelete, AfterDelete, Doomed, DoomedObject
<1>21. ASSUME system = "posix", PUndelete PROVE RacedIsKnown'
  BY <1>21 DEF PUndelete, BackToItsName, Moved, Doomed, DoomedObject
<1>22. ASSUME system = "posix", PRestore PROVE RacedIsKnown'
  BY <1>22 DEF PRestore, BackToItsName, Moved, Doomed, DoomedObject, DeleteFails
<1>23. ASSUME system = "posix", PUndo PROVE RacedIsKnown'
  BY <1>23 DEF PUndo, Unwind
<1>24. ASSUME system = "posix", PSweep PROVE RacedIsKnown'
  BY <1>24 DEF PSweep
<1>25. ASSUME system = "posix", PFinal PROVE RacedIsKnown'
  BY <1>25 DEF PFinal
<1>26. ASSUME system = "windows", WCreateTemporary PROVE RacedIsKnown'
  BY <1>26 DEF WCreateTemporary
<1>27. ASSUME system = "windows", WCreateExclusive PROVE RacedIsKnown'
  BY <1>27 DEF WCreateExclusive
<1>28. ASSUME system = "windows", WRecheck PROVE RacedIsKnown'
  BY <1>28 DEF WRecheck, WDropByHandle, Lifted
<1>29. ASSUME system = "windows", WReplace PROVE RacedIsKnown'
  BY <1>29 DEF WReplace, Replaced, Moved, Lifted
<1>30. ASSUME system = "windows", WLookAfter PROVE RacedIsKnown'
  BY <1>30 DEF WLookAfter, IsReplaced, IsHalfway, IsOriginal
<1>31. ASSUME system = "windows", WComplete PROVE RacedIsKnown'
  BY <1>31 DEF WComplete, Moved
<1>32. ASSUME system = "windows", WFinish PROVE RacedIsKnown'
  BY <1>32 DEF WFinish
<1>33. ASSUME system = "windows", WReconcile PROVE RacedIsKnown'
  BY <1>33 DEF WReconcile, IsOriginal
<1>34. ASSUME system = "windows", WReplaceBack PROVE RacedIsKnown'
  BY <1>34 DEF WReplaceBack, Replaced, Moved
<1>35. ASSUME system = "windows", WMoveBackup PROVE RacedIsKnown'
  BY <1>35 DEF WMoveBackup, Moved
<1>36. ASSUME system = "windows", WPutBackAttributes PROVE RacedIsKnown'
  BY <1>36 DEF WPutBackAttributes, WFail
<1>37. ASSUME system = "windows", WSweepTemporary PROVE RacedIsKnown'
  BY <1>37 DEF WSweepTemporary
<1>38. ASSUME system = "windows", WMoveByHandle PROVE RacedIsKnown'
  BY <1>38 DEF WMoveByHandle, Moved, WDropByHandle
<1>39. ASSUME system = "windows", WRemove PROVE RacedIsKnown'
  BY <1>39 DEF WRemove
<1>40. ASSUME system = "windows", WGone PROVE RacedIsKnown'
  BY <1>40 DEF WGone
<1>41. ASSUME system = "windows", WFinal PROVE RacedIsKnown'
  BY <1>41 DEF WFinal
<1>42. ASSUME UNCHANGED filesVars PROVE RacedIsKnown'
  BY <1>42 DEF filesVars
<1>43. CASE PosixNext
  BY <1>43, <1>5, <1>6, <1>7, <1>8, <1>9, <1>10, <1>11, <1>12, <1>13, <1>14, <1>15,
     <1>16, <1>17, <1>18, <1>19, <1>20, <1>21, <1>22, <1>23, <1>24, <1>25 DEF PosixNext
<1>44. CASE WindowsNext
  BY <1>44, <1>26, <1>27, <1>28, <1>29, <1>30, <1>31, <1>32, <1>33, <1>34, <1>35, <1>36,
     <1>37, <1>38, <1>39, <1>40, <1>41 DEF WindowsNext
<1> QED
  BY <1>1, <1>2, <1>3, <1>4, <1>42, <1>43, <1>44 DEF FilesNext

\* What a call is all or nothing by.
CallInv == CallIsKnown /\ AttributesKnown /\ InPlace /\ SwapIsExact /\ RacedIsKnown

\* A call that begins has lifted nothing and met nobody.
LEMMA CallInitInv == FilesInit => CallInv
<1> SUFFICES ASSUME FilesInit PROVE CallInv
  OBVIOUS
<1>1. PICK there \in {Old, Nothing} \cup Unsafe :
         /\ at = [n \in Names |-> IF n = "destination" THEN there
                                  ELSE IF n = "source" /\ op = "replace" THEN New
                                  ELSE Nothing]
         /\ used = Unsafe \cap {there}
  BY DEF FilesInit
<1>2. at["source"] = IF op = "replace" THEN New ELSE Nothing
  BY <1>1 DEF Names
<1>3. /\ step = "look" /\ faults = 0 /\ cleared = {} /\ result = "none"
      /\ touched = {} /\ task = "publish"
  BY DEF FilesInit
<1>4. CallIsKnown /\ AttributesKnown
  BY <1>3 DEF CallIsKnown, AttributesKnown, OnlyWindowsLifts, LiftedNow, Replacing, Exchanging
<1>5. InPlace
  BY <1>2, <1>3 DEF InPlace, Placed, PreparedInPlace, ExchangeInPlace, MoveInPlace,
     DeleteInPlace, ReplaceInPlace
<1>6. SwapIsExact
  BY DEF FilesInit, SwapIsExact, SuccessIsASwap, Old, Nothing
<1>7. RacedIsKnown
  BY <1>1, <1>3 DEF RacedIsKnown
<1> QED BY <1>4, <1>5, <1>6, <1>7 DEF CallInv

\* A step keeps what is known of the call, and with at most one fault the
\* places of its objects and the attributes that are lifted.
LEMMA CallStepInv == FilesInv /\ CallInv /\ [FilesNext]_filesVars => CallInv'
<1> SUFFICES ASSUME FilesInv, CallInv, [FilesNext]_filesVars PROVE CallInv'
  OBVIOUS
<1>1. FilesTypeOK /\ CallInOrder /\ DoomedIsSeen /\ CountsTypeOK
  BY DEF FilesInv, FilesTypeOK, CountsTypeOK
<1>2. CallIsKnown /\ AttributesKnown /\ InPlace /\ SwapIsExact /\ RacedIsKnown
  BY DEF CallInv
<1>3. OnlyWindowsLifts /\ (AtMostOneFault => LiftedNow) /\ (OneFault => Placed)
  BY <1>2 DEF AttributesKnown, InPlace
<1>4. CallIsKnown'
  BY <1>2, CallIsKnownStep
<1>5. OnlyWindowsLifts'
  BY <1>1, <1>3, OnlyWindowsStep
<1>6. ASSUME AtMostOneFault' PROVE LiftedNow'
  BY <1>1, <1>2, <1>3, <1>6, LiftedStep, FewFaultsGoOn DEF FewFaultsKept
<1>7. ASSUME OneFault' PROVE Placed'
  BY <1>1, <1>2, <1>3, <1>7, PlacedStep, OneFaultGoesOn
<1>8. SwapIsExact' /\ RacedIsKnown'
  BY <1>1, <1>2, <1>3, SwapStep, RacedStep
<1> QED BY <1>4, <1>5, <1>6, <1>7, <1>8 DEF CallInv, AttributesKnown, InPlace

\* With at most one fault every name holds what the step of the call says, on
\* both systems and for any objects and moves of others (both backends of
\* core/project_fs.py).
THEOREM CallInvariance == FilesSpec => []CallInv
<1>1. FilesInit => CallInv
  BY CallInitInv
<1>2. FilesInv /\ CallInv /\ [FilesNext]_filesVars => CallInv'
  BY CallStepInv
<1> QED BY <1>1, <1>2, FilesInvariance, PTL DEF FilesSpec

\* A call is all or nothing: success is a swap of exactly what it looked at, one
\* failure is undone with its attributes, and a file saved under a name that is
\* being removed or created keeps it (atomic_write, replace_file,
\* create_exclusive, unlink).
THEOREM CallAllOrNothing == FilesSpec => []CallIsAllOrNothing
<1>1. CallInv => SuccessIsASwap
  <2> SUFFICES ASSUME CallInv PROVE SuccessIsASwap
    OBVIOUS
  <2> QED BY DEF CallInv, SwapIsExact, SuccessIsASwap
<1>2. CallInv => OneFaultIsUndone
  <2> SUFFICES ASSUME CallInv, OneFault, result = "failed" PROVE AsFound \/ Published
    BY DEF OneFaultIsUndone, OneFault, AsFound, Published, Holding
  <2> QED BY DEF CallInv, CallIsKnown, InPlace, Placed, PreparedInPlace
<1>3. CallInv => AttributesAreReturned
  <2> SUFFICES ASSUME CallInv, result # "none", AtMostOneFault PROVE cleared = {}
    BY DEF AttributesAreReturned, AtMostOneFault
  <2> QED BY DEF CallInv, CallIsKnown, AttributesKnown, LiftedNow, Replacing
<1>4. CallInv => RacedNameIsKept
  BY DEF CallInv, CallIsKnown, RacedIsKnown, RacedNameIsKept
<1> QED BY <1>1, <1>2, <1>3, <1>4, CallInvariance, PTL DEF CallIsAllOrNothing

-----------------------------------------------------------------------------
(* The views. *)

\* The steps at which a command has the lock and has not reported yet.
Working == {"checked", "committed", "writing"}
Rendering == {"committed", "writing"}

\* Only a command commits and writes, and it starts with the views it names.
CommandIsKnown ==
    /\ stage \in Working => running \in Commands
    /\ stage \notin Rendering => due = {}
    /\ stage = "committed" => due = running.views

\* What may stay behind, and only until its command has written it.
LateViews == EvidenceViews \cup {"project-state"}

StaleIsDue ==
    NoneGaveUp => /\ stale \subseteq LateViews \cup due
                  /\ active /\ "project-state" \in stale => "project-state" \in due

\* A link was there before the lock was taken, or was put there since.
LinksAreNoticed == stage \in Working /\ "views" \notin edited => linked = {}

\* A rebuild still has to write whatever does not show the facts.
RebuildIsThorough ==
    stage = "writing" /\ running \in RenderAll \cup Initialize =>
        /\ edited \subseteq {"views"} => stale \subseteq due
        /\ edited = {} => damaged \subseteq due

\* What doctor does not complain about is as it should be.
DoctorIsRight ==
    /\ stage \in {"sampled", "compared", "confirmed"} /\ edited \subseteq {"views", "late"}
          => stale \subseteq found \cup Unseen
    /\ stage \in {"compared", "confirmed"} /\ edited = {} => damaged \cup linked \subseteq found
    /\ stage = "confirmed" => "artifacts" \notin edited

\* The inductive invariant.
ViewsInv ==
    /\ ViewsTypeOK
    /\ CommandIsKnown
    /\ StaleIsDue
    /\ LinksAreNoticed
    /\ RebuildIsThorough
    /\ DoctorIsRight

-----------------------------------------------------------------------------
\* The views, one by one.
LEMMA ViewsListed ==
    Views = {"project-state", "requirements", "traceability", "acceptance", "failure-modes",
             "tasks", "test-targets", "validation", "executions", "findings", "gates",
             "deliveries", "decisions"}
  <1>1. DOMAIN RenderOrder = 1 .. 13  BY DEF RenderOrder
  <1>2. Views = {RenderOrder[i] : i \in 1 .. 13}  BY <1>1, Zenon DEF Views
  <1>3. \A i \in 1 .. 13 : i = 1 \/ i = 2 \/ i = 3 \/ i = 4 \/ i = 5 \/ i = 6 \/ i = 7
            \/ i = 8 \/ i = 9 \/ i = 10 \/ i = 11 \/ i = 12 \/ i = 13
        OBVIOUS
  <1> QED  BY <1>2, <1>3 DEF RenderOrder

\* What the views that may not stay behind read.
LEMMA PromptViewsRead ==
    /\ Reads["project-state"] = ProjectStateReads
    /\ Reads["requirements"] = RequirementsReads
    /\ Reads["acceptance"] = AcceptanceReads
    /\ Reads["tasks"] = TasksRead
    /\ Reads["test-targets"] = TargetsRead
    /\ Reads["validation"] = ValidationReads
    /\ Reads["executions"] = ExecutionsRead
    /\ Reads["findings"] = FindingsRead
    /\ Reads["gates"] = GatesRead
    /\ Reads["decisions"] = DecisionsRead
  BY ViewsListed DEF Reads

\* A command names the views whose facts it writes, outside the late ones, and
\* project-state unless it closes the cycle.
NamesWhatItShows(c) ==
    /\ "cycle" \in c.facts =>
           {"requirements", "acceptance", "tasks", "validation", "gates"} \subseteq c.views
    /\ "requirements" \in c.facts => "requirements" \in c.views
    /\ "acceptance" \in c.facts => "acceptance" \in c.views
    /\ "tasks" \in c.facts => "tasks" \in c.views
    /\ "accepted-tasks" \in c.facts => "tasks" \in c.views
    /\ "targets" \in c.facts => "test-targets" \in c.views
    /\ "qualifications" \in c.facts => "test-targets" \in c.views
    /\ "validations" \in c.facts => "validation" \in c.views
    /\ "coverage" \in c.facts => "validation" \in c.views
    /\ "executions" \in c.facts => {"executions", "validation"} \subseteq c.views
    /\ "findings" \in c.facts => "findings" \in c.views
    /\ "gates" \in c.facts => {"gates", "test-targets"} \subseteq c.views
    /\ "decisions" \in c.facts => "decisions" \in c.views
    /\ "project" \in c.facts => "project-state" \in c.views \/ c \in CloseCycle

\* Every command names the views that show the facts it changes, or leaves them
\* to those that are always rendered.
LEMMA CommandsNameWhatTheyShow ==
    ASSUME NEW c \in Commands
    PROVE  NamesWhatItShows(c)
  <1>1. CASE c \in StartCycle  BY <1>1 DEF NamesWhatItShows, StartCycle, Writing, CycleViews
  <1>2. CASE c \in CloseCycle  BY <1>2 DEF NamesWhatItShows, CloseCycle, Writing
  <1>3. CASE c \in RecordOutcome  BY <1>3 DEF NamesWhatItShows, RecordOutcome, Writing
  <1>4. CASE c \in TransitionPhase  BY <1>4 DEF NamesWhatItShows, TransitionPhase, Writing
  <1>5. CASE c \in EnterReadiness  BY <1>5 DEF NamesWhatItShows, EnterReadiness, Writing
  <1>6. CASE c \in ConfirmScope  BY <1>6 DEF NamesWhatItShows, ConfirmScope, Writing
  <1>7. CASE c \in FreezeBaseline  BY <1>7 DEF NamesWhatItShows, FreezeBaseline, Writing
  <1>8. CASE c \in ConfirmBaseline  BY <1>8 DEF NamesWhatItShows, ConfirmBaseline, Writing
  <1>9. CASE c \in AddRequirement  BY <1>9 DEF NamesWhatItShows, AddRequirement, Writing
  <1>10. CASE c \in AddAcceptance  BY <1>10 DEF NamesWhatItShows, AddAcceptance, Writing
  <1>11. CASE c \in AddFailureMode  BY <1>11 DEF NamesWhatItShows, AddFailureMode, Writing
  <1>12. CASE c \in LinkAcceptance  BY <1>12 DEF NamesWhatItShows, LinkAcceptance, Writing
  <1>13. CASE c \in AddTask  BY <1>13 DEF NamesWhatItShows, AddTask, Writing
  <1>14. CASE c \in MoveTask  BY <1>14 DEF NamesWhatItShows, MoveTask, Writing
  <1>15. CASE c \in AcceptTask  BY <1>15 DEF NamesWhatItShows, AcceptTask, Writing
  <1>16. CASE c \in CancelTask  BY <1>16 DEF NamesWhatItShows, CancelTask, Writing
  <1>17. CASE c \in RecordDecision  BY <1>17 DEF NamesWhatItShows, RecordDecision, Writing
  <1>18. CASE c \in AddTarget  BY <1>18 DEF NamesWhatItShows, AddTarget, Writing
  <1>19. CASE c \in LinkTaskTarget  BY <1>19 DEF NamesWhatItShows, LinkTaskTarget, Writing
  <1>20. CASE c \in QualifyTarget  BY <1>20 DEF NamesWhatItShows, QualifyTarget, Writing
  <1>21. CASE c \in VerifyRun  BY <1>21 DEF NamesWhatItShows, VerifyRun, Writing
  <1>22. CASE c \in RecordJudgment  BY <1>22 DEF NamesWhatItShows, RecordJudgment, Writing
  <1>23. CASE c \in RecordFinding  BY <1>23 DEF NamesWhatItShows, RecordFinding, Writing
  <1>24. CASE c \in RecordGate  BY <1>24 DEF NamesWhatItShows, RecordGate, Writing
  <1>25. CASE c \in RecordDelivery  BY <1>25 DEF NamesWhatItShows, RecordDelivery, Writing
  <1>26. CASE c \in ApplyPlan  BY <1>26 DEF NamesWhatItShows, ApplyPlan, Writing
  <1>27. CASE c \in RenderAll  BY <1>27, ViewsListed DEF NamesWhatItShows, RenderAll, Writing
  <1>28. CASE c \in Initialize  BY <1>28, ViewsListed DEF NamesWhatItShows, Initialize, Writing
  <1> QED
    BY <1>1, <1>2, <1>3, <1>4, <1>5, <1>6, <1>7, <1>8, <1>9, <1>10, <1>11, <1>12, <1>13, <1>14, <1>15, <1>16, <1>17, <1>18, <1>19, <1>20, <1>21, <1>22, <1>23, <1>24, <1>25, <1>26, <1>27, <1>28 DEF Commands

\* The names are names of views.
LEMMA CommandsNameViews ==
    ASSUME NEW c \in Commands
    PROVE  c.views \subseteq Views
  <1>1. CASE c \in StartCycle  BY <1>1, ViewsListed DEF StartCycle, Writing, CycleViews
  <1>2. CASE c \in CloseCycle  BY <1>2, ViewsListed DEF CloseCycle, Writing
  <1>3. CASE c \in RecordOutcome  BY <1>3, ViewsListed DEF RecordOutcome, Writing
  <1>4. CASE c \in TransitionPhase  BY <1>4, ViewsListed DEF TransitionPhase, Writing
  <1>5. CASE c \in EnterReadiness  BY <1>5, ViewsListed DEF EnterReadiness, Writing
  <1>6. CASE c \in ConfirmScope  BY <1>6, ViewsListed DEF ConfirmScope, Writing
  <1>7. CASE c \in FreezeBaseline  BY <1>7, ViewsListed DEF FreezeBaseline, Writing
  <1>8. CASE c \in ConfirmBaseline  BY <1>8, ViewsListed DEF ConfirmBaseline, Writing
  <1>9. CASE c \in AddRequirement  BY <1>9, ViewsListed DEF AddRequirement, Writing
  <1>10. CASE c \in AddAcceptance  BY <1>10, ViewsListed DEF AddAcceptance, Writing
  <1>11. CASE c \in AddFailureMode  BY <1>11, ViewsListed DEF AddFailureMode, Writing
  <1>12. CASE c \in LinkAcceptance  BY <1>12, ViewsListed DEF LinkAcceptance, Writing
  <1>13. CASE c \in AddTask  BY <1>13, ViewsListed DEF AddTask, Writing
  <1>14. CASE c \in MoveTask  BY <1>14, ViewsListed DEF MoveTask, Writing
  <1>15. CASE c \in AcceptTask  BY <1>15, ViewsListed DEF AcceptTask, Writing
  <1>16. CASE c \in CancelTask  BY <1>16, ViewsListed DEF CancelTask, Writing
  <1>17. CASE c \in RecordDecision  BY <1>17, ViewsListed DEF RecordDecision, Writing
  <1>18. CASE c \in AddTarget  BY <1>18, ViewsListed DEF AddTarget, Writing
  <1>19. CASE c \in LinkTaskTarget  BY <1>19, ViewsListed DEF LinkTaskTarget, Writing
  <1>20. CASE c \in QualifyTarget  BY <1>20, ViewsListed DEF QualifyTarget, Writing
  <1>21. CASE c \in VerifyRun  BY <1>21, ViewsListed DEF VerifyRun, Writing
  <1>22. CASE c \in RecordJudgment  BY <1>22, ViewsListed DEF RecordJudgment, Writing
  <1>23. CASE c \in RecordFinding  BY <1>23, ViewsListed DEF RecordFinding, Writing
  <1>24. CASE c \in RecordGate  BY <1>24, ViewsListed DEF RecordGate, Writing
  <1>25. CASE c \in RecordDelivery  BY <1>25, ViewsListed DEF RecordDelivery, Writing
  <1>26. CASE c \in ApplyPlan  BY <1>26, ViewsListed DEF ApplyPlan, Writing
  <1>27. CASE c \in RenderAll  BY <1>27, ViewsListed DEF RenderAll, Writing
  <1>28. CASE c \in Initialize  BY <1>28, ViewsListed DEF Initialize, Writing
  <1> QED
    BY <1>1, <1>2, <1>3, <1>4, <1>5, <1>6, <1>7, <1>8, <1>9, <1>10, <1>11, <1>12, <1>13, <1>14, <1>15, <1>16, <1>17, <1>18, <1>19, <1>20, <1>21, <1>22, <1>23, <1>24, <1>25, <1>26, <1>27, <1>28 DEF Commands

\* What shows the facts of a command is late or named.
LEMMA CommandsWriteWhatTheyShow ==
    ASSUME NEW c \in Commands
    PROVE  Showing(c.facts) \subseteq LateViews \cup c.views
  <1> SUFFICES ASSUME NEW v \in Views \ LateViews, NEW f \in c.facts, f \in Reads[v]
               PROVE  v \in c.views
    BY DEF Showing
  <1> NamesWhatItShows(c)  BY CommandsNameWhatTheyShow
  <1>1. v \in {"requirements", "acceptance", "tasks", "test-targets", "validation",
                "executions", "findings", "gates", "decisions"}
    BY ViewsListed DEF LateViews, EvidenceViews
  <1>2. CASE v = "requirements"
    BY <1>2, PromptViewsRead DEF RequirementsReads, NamesWhatItShows
  <1>3. CASE v = "acceptance"
    BY <1>3, PromptViewsRead DEF AcceptanceReads, NamesWhatItShows
  <1>4. CASE v = "tasks"
    BY <1>4, PromptViewsRead DEF TasksRead, NamesWhatItShows
  <1>5. CASE v = "test-targets"
    BY <1>5, PromptViewsRead DEF TargetsRead, NamesWhatItShows
  <1>6. CASE v = "validation"
    BY <1>6, PromptViewsRead DEF ValidationReads, NamesWhatItShows
  <1>7. CASE v = "executions"
    BY <1>7, PromptViewsRead DEF ExecutionsRead, NamesWhatItShows
  <1>8. CASE v = "findings"
    BY <1>8, PromptViewsRead DEF FindingsRead, NamesWhatItShows
  <1>9. CASE v = "gates"
    BY <1>9, PromptViewsRead DEF GatesRead, NamesWhatItShows
  <1>10. CASE v = "decisions"
    BY <1>10, PromptViewsRead DEF DecisionsRead, NamesWhatItShows
  <1> QED  BY <1>1, <1>2, <1>3, <1>4, <1>5, <1>6, <1>7, <1>8, <1>9, <1>10

\* A rebuild names every view.
LEMMA RebuildsNameAllViews ==
    ASSUME NEW c \in RenderAll \cup Initialize
    PROVE  c.views = Views /\ Views # {}
  BY ViewsListed DEF RenderAll, Initialize, Writing

\* Closing a cycle and opening one are different commands.
LEMMA OpeningNamesProjectState ==
    ASSUME NEW c \in Opening
    PROVE  "project-state" \in c.views
  BY DEF Opening, StartCycle, Writing, CycleViews

\* What depends on the source is shown in the evidence.
LEMMA SourceIsShownLate == Showing({"source"}) \subseteq EvidenceViews
  <1> SUFFICES ASSUME NEW v \in Views, "source" \in Reads[v]
               PROVE  v \in EvidenceViews
    BY DEF Showing
  <1>1. v \in EvidenceViews \/ v \in {"requirements", "acceptance", "tasks", "test-targets",
                "validation", "executions", "findings", "gates", "decisions", "project-state"}
    BY ViewsListed DEF EvidenceViews
  <1> QED
    BY <1>1, PromptViewsRead
    DEF ProjectStateReads, RequirementsReads, AcceptanceReads, TasksRead, TargetsRead,
        ValidationReads, ExecutionsRead, FindingsRead, GatesRead, DecisionsRead

\* project-state shows the project and nothing else.
LEMMA ProjectStateShown ==
    ASSUME NEW facts
    PROVE  "project-state" \in Showing(facts) <=> "project" \in facts
  <1>1. "project-state" \in Views  BY ViewsListed
  <1> QED  BY <1>1, PromptViewsRead DEF Showing, ProjectStateReads

Words == {"ok", "refused", "failed", "died", "healthy", "unhealthy"}

\* A report does not hide the ones before it.
LEMMA ReportsGrow ==
    ASSUME NEW s \in Seq(Words), NEW r \in Words
    PROVE  /\ Append(s, r) \in Seq(Words)
           /\ Append(s, r) # s
           /\ \A i \in DOMAIN s : i \in DOMAIN Append(s, r) /\ Append(s, r)[i] = s[i]
           /\ \E i \in DOMAIN Append(s, r) : Append(s, r)[i] = r
  OBVIOUS

\* A report is what was added last.
LEMMA SameReport ==
    ASSUME NEW s \in Seq(Words), NEW q \in Words, NEW r \in Words,
           Append(s, q) = Append(s, r)
    PROVE  q = r
  BY AppendInjective

\* At the start the views are those of the database.
LEMMA ViewsInitially == ViewsInit => ViewsInv
  <1> SUFFICES ASSUME ViewsInit PROVE ViewsInv
    OBVIOUS
  <1>1. ViewsTypeOK
    BY ViewsBoundsAssumption DEF ViewsInit, ViewsTypeOK
  <1> QED
    BY <1>1 DEF ViewsInit, ViewsInv, CommandIsKnown, StaleIsDue, LinksAreNoticed,
        RebuildIsThorough, DoctorIsRight, Working, Rendering

\* What a report does to the reports.
LEMMA ReportDoes ==
    ASSUME ViewsTypeOK, NEW r \in Words, Report(r)
    PROVE  /\ running' = Nobody
           /\ stage' = "idle"
           /\ due' = {}
           /\ reports' \in Seq(Words)
           /\ NoneGaveUp' => NoneGaveUp /\ r \notin {"failed", "died"}
  <1>1. reports \in Seq(Words)  BY DEF ViewsTypeOK, Words
  <1>2. reports' = Append(reports, r)  BY DEF Report
  <1> QED  BY <1>1, <1>2, ReportsGrow DEF Report, NoneGaveUp

\* Every step keeps the types.
LEMMA ViewsTypeKept == ViewsTypeOK /\ [ViewsNext]_viewsVars => ViewsTypeOK'
  <1> SUFFICES ASSUME ViewsTypeOK, [ViewsNext]_viewsVars PROVE ViewsTypeOK'
    OBVIOUS
  <1> USE DEF ViewsTypeOK
  <1>0. /\ MaxEdits \in Nat /\ MaxUpsets \in Nat
        /\ Nobody \in Commands \cup {Nobody, Doctor}
        /\ {"ok", "refused", "failed", "died", "healthy", "unhealthy"} = Words
        /\ reports \in Seq(Words)
    BY ViewsBoundsAssumption DEF Words
  <1>1. CASE BeginCommand  BY <1>1 DEF BeginCommand
  <1>2. CASE CommitFacts
    <2>1. /\ stale' \subseteq Views
          /\ upsets' \in 0 .. MaxUpsets
          /\ active' \in BOOLEAN
      <3>1. stale' \subseteq Views  BY <1>2 DEF CommitFacts, Showing
      <3>2. upsets' \in 0 .. MaxUpsets  BY <1>2, <1>0 DEF CommitFacts
      <3>3. active' \in BOOLEAN  BY <1>2, Zenon DEF CommitFacts
      <3> QED  BY <3>1, <3>2, <3>3
    <2>2. CASE Report("failed") \/ Report("refused")
      BY <1>0, <1>2, <2>1, <2>2, ReportDoes DEF CommitFacts, Words
    <2>3. CASE due' = running.views /\ stage' = "committed" /\ UNCHANGED <<running, reports>>
      <3>1. running \in Commands \/ running \in {Nobody, Doctor}  OBVIOUS
      <3>2. running.views \subseteq Views
        BY <3>1, CommandsNameViews DEF Nobody, Doctor, Writing
      <3> QED  BY <1>2, <2>1, <2>3, <3>2 DEF CommitFacts
    <2> QED  BY <1>2, <2>2, <2>3 DEF CommitFacts
  <1>3. CASE CheckPaths
    BY <1>3, <1>0, ReportDoes DEF CheckPaths, Words
  <1>4. CASE WriteView
    <2>1. stale' \subseteq Views /\ damaged' \subseteq Views /\ upsets' \in 0 .. MaxUpsets
      BY <1>4, <1>0 DEF WriteView
    <2>2. CASE Report("failed")  BY <1>0, <1>4, <2>1, <2>2, ReportDoes DEF WriteView, Words
    <2>3. CASE due' = due \ {NextDue} /\ UNCHANGED <<running, stage, reports>>
      BY <1>4, <2>1, <2>3 DEF WriteView
    <2> QED  BY <1>4, <2>2, <2>3 DEF WriteView
  <1>5. CASE FinishViews  BY <1>5, <1>0, ReportDoes DEF FinishViews, Words
  <1>6. CASE DieRendering  BY <1>6, <1>0, ReportDoes DEF DieRendering, Words
  <1>7. CASE SampleProject  BY <1>7 DEF SampleProject
  <1>8. CASE CompareViews  BY <1>8 DEF CompareViews
  <1>9. CASE ConfirmSample  BY <1>9, <1>0, ReportDoes DEF ConfirmSample, Words
  <1>9a. CASE ConfirmArtifacts  BY <1>9a, <1>0, ReportDoes DEF ConfirmArtifacts, Words
  <1>10. CASE EditSource  BY <1>10, <1>0 DEF EditSource, Showing
  <1>11. CASE DamageView
    <2>1. damaged' \subseteq Views /\ linked' \subseteq Views
      BY <1>11, ExposedAssumption DEF DamageView
    <2> QED  BY <1>11, <1>0, <2>1 DEF DamageView
  <1>12. CASE UnlinkView  BY <1>12 DEF UnlinkView
  <1>13. CASE UNCHANGED viewsVars  BY <1>13 DEF viewsVars
  <1> QED
    BY <1>1, <1>2, <1>3, <1>4, <1>5, <1>6, <1>7, <1>8, <1>9, <1>9a, <1>10, <1>11, <1>12,
       <1>13
    DEF ViewsNext

\* What a step may do to the reports.
LEMMA ViewsGiveUpForGood ==
    ASSUME ViewsTypeOK, [ViewsNext]_viewsVars, NoneGaveUp'
    PROVE  NoneGaveUp
  <1>1. ASSUME NEW r \in Words, Report(r) PROVE NoneGaveUp
    BY <1>1, ReportDoes
  <1>2. CASE UNCHANGED reports  BY <1>2 DEF NoneGaveUp
  <1> QED
    BY <1>1, <1>2
    DEF ViewsNext, viewsVars, BeginCommand, CommitFacts, CheckPaths, WriteView, FinishViews,
        DieRendering, SampleProject, CompareViews, ConfirmArtifacts, ConfirmSample, EditSource,
        DamageView, UnlinkView, Words

\* Only a command with the lock commits and writes.
LEMMA CommandIsKnownKept ==
    ASSUME ViewsInv, [ViewsNext]_viewsVars
    PROVE  CommandIsKnown'
  <1> USE DEF ViewsInv, CommandIsKnown, Working, Rendering
  <1>1. ASSUME NEW r, Report(r) PROVE CommandIsKnown'
    BY <1>1 DEF Report
  <1>2. CASE BeginCommand  BY <1>2 DEF BeginCommand
  <1>3. CASE CommitFacts  BY <1>1, <1>3 DEF CommitFacts
  <1>4. CASE CheckPaths  BY <1>1, <1>4 DEF CheckPaths
  <1>5. CASE WriteView  BY <1>1, <1>5 DEF WriteView
  <1>6. CASE FinishViews  BY <1>1, <1>6 DEF FinishViews
  <1>7. CASE DieRendering  BY <1>1, <1>7 DEF DieRendering
  <1>8. CASE SampleProject  BY <1>8 DEF SampleProject
  <1>9. CASE CompareViews  BY <1>9 DEF CompareViews
  <1>10. CASE ConfirmSample \/ ConfirmArtifacts
    BY <1>1, <1>10 DEF ConfirmSample, ConfirmArtifacts
  <1>11. CASE EditSource \/ DamageView \/ UnlinkView
    BY <1>11 DEF EditSource, DamageView, UnlinkView
  <1>12. CASE UNCHANGED viewsVars  BY <1>12 DEF viewsVars
  <1> QED
    BY <1>2, <1>3, <1>4, <1>5, <1>6, <1>7, <1>8, <1>9, <1>10, <1>11, <1>12 DEF ViewsNext

\* A view that is behind the database is due, or was reported.
LEMMA StaleIsDueKept ==
    ASSUME ViewsInv, [ViewsNext]_viewsVars
    PROVE  StaleIsDue'
  <1> SUFFICES ASSUME NoneGaveUp'
               PROVE  /\ stale' \subseteq LateViews \cup due'
                      /\ active' /\ "project-state" \in stale' => "project-state" \in due'
    BY DEF StaleIsDue
  <1>1. /\ ViewsTypeOK
        /\ stale \subseteq LateViews \cup due
        /\ active /\ "project-state" \in stale => "project-state" \in due
        /\ stage \notin Rendering => due = {}
    BY ViewsGiveUpForGood DEF ViewsInv, StaleIsDue, CommandIsKnown
  <1>2. CASE CommitFacts
    <2>1. running \in Commands /\ due = {}
      BY <1>1, <1>2 DEF CommitFacts, ViewsInv, CommandIsKnown, Working, Rendering
    <2>2. CASE Report("failed")  BY <1>1, <2>2, ReportDoes DEF Words
    <2>3. CASE Report("refused") /\ UNCHANGED <<stale, active>>
      BY <1>1, <2>1, <2>3 DEF Report
    <2>4. CASE /\ stale' = stale \cup Showing(running.facts)
               /\ due' = running.views
               /\ active' = (running \in Opening \/ (active /\ running \notin Closing))
      <3>1. stale' \subseteq LateViews \cup due'
        BY <1>1, <2>1, <2>4, CommandsWriteWhatTheyShow
      <3>2. ASSUME active', "project-state" \in stale' PROVE "project-state" \in due'
        <4>1. CASE running \in Opening  BY <4>1, <2>4, OpeningNamesProjectState
        <4>2. CASE active /\ running \notin Closing
          <5>1. "project" \in running.facts
            BY <1>1, <2>1, <2>4, <3>2, <4>2, ProjectStateShown
          <5> QED
            BY <5>1, <2>1, <2>4, <4>2, CommandsNameWhatTheyShow DEF NamesWhatItShows, Closing
        <4> QED  BY <2>4, <3>2, <4>1, <4>2
      <3> QED  BY <3>1, <3>2
    <2> QED  BY <1>2, <2>2, <2>3, <2>4 DEF CommitFacts
  <1>3. CASE CheckPaths
    <2>1. CASE due = {} /\ Report("ok") /\ UNCHANGED <<stale, active>>
      BY <1>1, <2>1 DEF Report
    <2>2. CASE Report("failed")  BY <1>1, <2>2, ReportDoes DEF Words
    <2> QED  BY <1>1, <1>3, <2>1, <2>2 DEF CheckPaths
  <1>4. CASE WriteView
    <2>1. CASE Report("failed")  BY <1>1, <2>1, ReportDoes DEF Words
    <2>2. CASE stale' = stale \ {NextDue} /\ due' = due \ {NextDue}
      BY <1>1, <1>4, <2>2 DEF WriteView
    <2> QED  BY <1>4, <2>1, <2>2 DEF WriteView
  <1>5. CASE FinishViews  BY <1>1, <1>5 DEF FinishViews, Report
  <1>6. CASE DieRendering  BY <1>1, <1>6, ReportDoes DEF DieRendering, Words
  <1>7. CASE ConfirmSample \/ ConfirmArtifacts
    BY <1>1, <1>7 DEF ConfirmSample, ConfirmArtifacts, Report, Rendering
  <1>8. CASE EditSource
    <2>1. "project-state" \notin EvidenceViews  BY DEF EvidenceViews
    <2> QED  BY <1>1, <1>8, <2>1, SourceIsShownLate DEF EditSource, LateViews
  <1>9. CASE \/ BeginCommand \/ SampleProject \/ CompareViews \/ DamageView
             \/ UnlinkView \/ UNCHANGED viewsVars
    BY <1>1, <1>9
    DEF BeginCommand, SampleProject, CompareViews, DamageView, UnlinkView, viewsVars
  <1> QED
    BY <1>2, <1>3, <1>4, <1>5, <1>6, <1>7, <1>8, <1>9 DEF ViewsNext

\* A view behind a link is noticed before it is written.
LEMMA LinksAreNoticedKept ==
    ASSUME ViewsInv, [ViewsNext]_viewsVars
    PROVE  LinksAreNoticed'
  <1> USE DEF ViewsInv, LinksAreNoticed, Working
  <1>1. ASSUME NEW r, Report(r) PROVE LinksAreNoticed'
    BY <1>1 DEF Report
  <1>2. CASE BeginCommand  BY <1>2 DEF BeginCommand, PathsAreSafe
  <1>3. CASE CommitFacts  BY <1>1, <1>3 DEF CommitFacts
  <1>4. CASE CheckPaths  BY <1>1, <1>4 DEF CheckPaths
  <1>5. CASE WriteView  BY <1>1, <1>5 DEF WriteView
  <1>6. CASE FinishViews \/ DieRendering \/ ConfirmArtifacts \/ ConfirmSample
    BY <1>1, <1>6 DEF FinishViews, DieRendering, ConfirmArtifacts, ConfirmSample
  <1>7. CASE SampleProject \/ CompareViews  BY <1>7 DEF SampleProject, CompareViews
  <1>8. CASE EditSource  BY <1>8 DEF EditSource
  <1>9. CASE DamageView  BY <1>9 DEF DamageView
  <1>10. CASE UnlinkView  BY <1>10 DEF UnlinkView
  <1>11. CASE UNCHANGED viewsVars  BY <1>11 DEF viewsVars
  <1> QED
    BY <1>2, <1>3, <1>4, <1>5, <1>6, <1>7, <1>8, <1>9, <1>10, <1>11 DEF ViewsNext

\* A rebuild renders what is due until nothing is.
LEMMA RebuildIsThoroughKept ==
    ASSUME ViewsInv, [ViewsNext]_viewsVars
    PROVE  RebuildIsThorough'
  <1> USE DEF ViewsInv, RebuildIsThorough
  <1>1. ASSUME NEW r, Report(r) PROVE RebuildIsThorough'
    BY <1>1 DEF Report
  <1>2. CASE BeginCommand  BY <1>2 DEF BeginCommand
  <1>3. CASE CommitFacts  BY <1>1, <1>3 DEF CommitFacts
  <1>4. CASE CheckPaths
    <2>1. CASE running \in RenderAll \cup Initialize /\ UNCHANGED <<running, due>>
      BY <1>4, <2>1, RebuildsNameAllViews
      DEF CheckPaths, CommandIsKnown, ViewsTypeOK
    <2> QED  BY <1>1, <1>4, <2>1 DEF CheckPaths
  <1>5. CASE WriteView  BY <1>1, <1>5 DEF WriteView
  <1>6. CASE FinishViews \/ DieRendering \/ ConfirmArtifacts \/ ConfirmSample
    BY <1>1, <1>6 DEF FinishViews, DieRendering, ConfirmArtifacts, ConfirmSample
  <1>7. CASE SampleProject \/ CompareViews  BY <1>7 DEF SampleProject, CompareViews
  <1>8. CASE EditSource  BY <1>8 DEF EditSource
  <1>9. CASE DamageView  BY <1>9 DEF DamageView
  <1>10. CASE UnlinkView
    BY <1>10 DEF UnlinkView, LinksAreNoticed, Working
  <1>11. CASE UNCHANGED viewsVars  BY <1>11 DEF viewsVars
  <1> QED
    BY <1>2, <1>3, <1>4, <1>5, <1>6, <1>7, <1>8, <1>9, <1>10, <1>11 DEF ViewsNext

\* What the doctor has compared is so.
LEMMA DoctorIsRightKept ==
    ASSUME ViewsInv, [ViewsNext]_viewsVars
    PROVE  DoctorIsRight'
  <1> USE DEF ViewsInv, DoctorIsRight, Unseen
  <1>1. ASSUME NEW r, Report(r) PROVE DoctorIsRight'
    BY <1>1 DEF Report
  <1>2. CASE BeginCommand  BY <1>2 DEF BeginCommand
  <1>3. CASE CommitFacts  BY <1>1, <1>3 DEF CommitFacts
  <1>4. CASE CheckPaths  BY <1>1, <1>4 DEF CheckPaths
  <1>5. CASE WriteView  BY <1>1, <1>5 DEF WriteView
  <1>6. CASE FinishViews \/ DieRendering \/ ConfirmSample
    BY <1>1, <1>6 DEF FinishViews, DieRendering, ConfirmSample
  <1>6a. CASE ConfirmArtifacts
    <2>1. CASE Report("unhealthy")  BY <1>1, <2>1
    <2>2. CASE ArtifactsAreAsSampled /\ stage' = "confirmed"
      BY <1>6a, <2>2 DEF ConfirmArtifacts, ArtifactsAreAsSampled
    <2> QED  BY <1>6a, <2>1, <2>2 DEF ConfirmArtifacts
  <1>7. CASE SampleProject  BY <1>7 DEF SampleProject
  <1>8. CASE CompareViews  BY <1>8 DEF CompareViews
  <1>9. CASE EditSource  BY <1>9 DEF EditSource
  <1>10. CASE DamageView  BY <1>10 DEF DamageView
  <1>11. CASE UnlinkView  BY <1>11 DEF UnlinkView
  <1>12. CASE UNCHANGED viewsVars  BY <1>12 DEF viewsVars
  <1> QED
    BY <1>2, <1>3, <1>4, <1>5, <1>6, <1>6a, <1>7, <1>8, <1>9, <1>10, <1>11, <1>12 DEF ViewsNext

\* Every step of a command, of the doctor and of others keeps the invariant.
LEMMA ViewsInvKept == ViewsInv /\ [ViewsNext]_viewsVars => ViewsInv'
  BY ViewsTypeKept, CommandIsKnownKept, StaleIsDueKept, LinksAreNoticedKept,
     RebuildIsThoroughKept, DoctorIsRightKept
  DEF ViewsInv

\* A view that is behind the database is due in the command at work, or a
\* failure was reported (render_all).
THEOREM ViewsInvariance == ViewsSpec => []ViewsInv
  <1> QED  BY ViewsInitially, ViewsInvKept, PTL DEF ViewsSpec

\* After a command that succeeded, and while nobody edits, the views show what
\* the database holds, whatever the commands, their order and their failures
\* (render_all).
THEOREM ViewsAreCurrent == ViewsSpec => []SuccessLeavesViewsCurrent
  <1>1. ViewsInv => SuccessLeavesViewsCurrent
    BY DEF ViewsInv, StaleIsDue, CommandIsKnown, Rendering, LateViews,
           SuccessLeavesViewsCurrent
  <1> QED  BY <1>1, ViewsInvariance, PTL

\* Which step reports success, and which a healthy project.
LEMMA ReportIsOfItsStep ==
    ASSUME ViewsTypeOK, [ViewsNext]_viewsVars, NEW r \in {"ok", "healthy"},
           reports' = Append(reports, r)
    PROVE  \/ r = "ok" /\ (FinishViews \/ (CheckPaths /\ due = {}))
           \/ r = "healthy" /\ ConfirmSample /\ found = {} /\ SourceIsAsSampled
  <1>1. reports \in Seq(Words) /\ r \in Words  BY DEF ViewsTypeOK, Words
  <1>2. reports' # reports  BY <1>1, ReportsGrow
  <1>3. ASSUME NEW q \in Words, Report(q) PROVE q = r
    BY <1>1, <1>3, SameReport DEF Report
  <1> QED
    BY <1>2, <1>3
    DEF ViewsNext, viewsVars, BeginCommand, CommitFacts, CheckPaths, WriteView, FinishViews,
        DieRendering, SampleProject, CompareViews, ConfirmArtifacts, ConfirmSample, EditSource,
        DamageView, UnlinkView, Words

\* A rebuild that succeeds leaves no stale view behind, whatever was edited
\* before (rebuild_views).
THEOREM RebuildsHeal == ViewsSpec => RebuildHeals
  <1>1. ASSUME ViewsInv, [ViewsNext]_viewsVars, RebuildSucceeds
        PROVE  /\ edited \subseteq {"views"} => stale' = {}
               /\ edited = {} => damaged' = {}
    <2>1. FinishViews \/ (CheckPaths /\ due = {})
      BY <1>1, ReportIsOfItsStep DEF ViewsInv, RebuildSucceeds
    <2>2. CASE FinishViews
      BY <1>1, <2>2 DEF FinishViews, RebuildSucceeds, ViewsInv, RebuildIsThorough
    <2>3. CASE CheckPaths /\ due = {}
      BY <1>1, <2>3, RebuildsNameAllViews
      DEF CheckPaths, RebuildSucceeds, ViewsInv, CommandIsKnown
    <2> QED  BY <2>1, <2>2, <2>3
  <1>2. ViewsInv /\ [ViewsNext]_viewsVars =>
            [RebuildSucceeds => /\ edited \subseteq {"views"} => stale' = {}
                                /\ edited = {} => damaged' = {}]_viewsVars
    BY <1>1
  <1> QED  BY <1>2, ViewsInvariance, PTL DEF ViewsSpec, RebuildHeals

\* The doctor says healthy only if no view is stale at that moment, unless an
\* artifact changed since its last look at it
\* (projection_content_issues).
THEOREM HealthyIsCurrent == ViewsSpec => HealthyMeansCurrent
  <1>1. ASSUME ViewsInv, [ViewsNext]_viewsVars, reports' = Append(reports, "healthy")
        PROVE  /\ stale \subseteq Unseen
               /\ edited = {} => damaged = {} /\ linked = {}
    <2>1. ConfirmSample /\ found = {} /\ SourceIsAsSampled
      BY <1>1, ReportIsOfItsStep DEF ViewsInv
    <2>2. stage = "confirmed" /\ "source" \notin edited /\ "artifacts" \notin edited
      BY <1>1, <2>1 DEF ConfirmSample, SourceIsAsSampled, ViewsInv, DoctorIsRight
    <2>3. edited \subseteq {"views", "late"}
      BY <1>1, <2>2 DEF ViewsInv, ViewsTypeOK
    <2> QED
      BY <1>1, <2>1, <2>2, <2>3 DEF ViewsInv, DoctorIsRight
  <1>2. ViewsInv /\ [ViewsNext]_viewsVars =>
            [reports' = Append(reports, "healthy")
               => /\ stale \subseteq Unseen
                  /\ edited = {} => damaged = {} /\ linked = {}]_viewsVars
    BY <1>1
  <1> QED  BY <1>2, ViewsInvariance, PTL DEF ViewsSpec, HealthyMeansCurrent

\* A rebuild heals whatever was edited, and the doctor is right about it but for
\* edits that come after its last look at what they change, for any commands and
\* any number of edits (rebuild_views,
\* projection_content_issues).
THEOREM RepairsAreTrue == ViewsSpec => RepairIsTrue
  BY RebuildsHeal, HealthyIsCurrent DEF RepairIsTrue

-----------------------------------------------------------------------------
(* The copies of the database. *)

\* The steps of a copy: from the creation of its file to its publication, from
\* the copy on, from its digest on, and after its publication.
Shown == {"published", "confirmed"}
Measured == {"digested", "compared"}
Written == {"copied", "checked", "closed"} \cup Measured
Hidden == {"reserved", "ready"} \cup Written

Incomplete == {"nothing", "part"}

\* Every name has a file or nothing, and the database is there, whole.
FilesAreFiles ==
    /\ \A n \in DiskNames : disk[n].id = NoFile => disk[n] = Absence
    /\ disk["db"].id # NoFile
    /\ disk["db"].content \notin Incomplete

\* The identities of other programs are not used twice.
NewAreNew ==
    \A n \in DiskNames : /\ disk[n].id <= Copy + intrusions
                         /\ sighted[n] <= Copy + intrusions

\* What the call knows of its copy.
CopyIsNoted ==
    /\ storeStep \in Hidden => sighted["temporary"] = Copy /\ ~published
    /\ published => storeStep \in Shown \cup StoreOver \cup {"failing"}
    /\ storeStep \in Written /\ disk["temporary"].id = Copy =>
           disk["temporary"].content \notin Incomplete

\* A journal that was played back was there when the names were compared, and is
\* missed when they are compared next.
MissingJournalShows ==
    /\ storeStep = "verified" /\ "journal" \notin altered => Unchanged("journal")
    /\ playedBack =>
          \/ storeStep \in {"failing", "failed", "crashed"}
          \/ /\ storeStep = "setup"
             /\ sighted["journal"] # NoFile
             /\ ~Unchanged("journal")

\* Until others touch it, the copy has what the database had, its digest is of
\* that, and a call of another kind does not come to the end of a backup.
CopyIsFaithful ==
    /\ storeStep \in Written /\ "temporary" \notin altered /\ disk["temporary"].id = Copy
           => disk["temporary"].content = copied
    /\ storeStep \in Measured \cup Shown /\ "temporary" \notin altered => digested = copied
    /\ storeStep \in {"looked"} \cup Hidden \cup Shown => sighted["targetWal"] = NoFile
    /\ storeStep = "closing" => storeCall \in {"use", "inspect"}
    /\ SuccessIsACopy

\* The inductive invariant.
StoreInv ==
    /\ StoreTypeOK
    /\ FilesAreFiles
    /\ NewAreNew
    /\ CopyIsNoted
    /\ TargetIsWhole
    /\ MissingJournalShows
    /\ CopyIsFaithful

-----------------------------------------------------------------------------
\* The store holds the database and nothing else, or the target besides.
LEMMA StoreInitInv == StoreInit => StoreInv
<1> SUFFICES ASSUME StoreInit PROVE StoreInv
  OBVIOUS
<1>1. PICK t \in {Absence, [id |-> Former, content |-> "other"]} :
         disk = [n \in DiskNames |->
                    CASE n = "db" -> [id |-> Ours, content |-> "v0"]
                      [] n = "target" -> t
                      [] OTHER -> Absence]
  BY DEF StoreInit
<1>2. /\ disk["db"] = [id |-> Ours, content |-> "v0"]
      /\ disk["target"] = t
      /\ \A n \in DiskNames \ {"db", "target"} : disk[n] = Absence
  BY <1>1 DEF DiskNames, Family, TargetFamily, TemporaryFamily
<1>3. \A n \in DiskNames : disk[n] \in [id : 0 .. 2, content : Stored]
  BY <1>2 DEF Absence, Former, Ours, NoFile, Stored, DiskNames
<1>4. 0 .. 2 \subseteq Identities
  BY StoreBoundsAssumption DEF Identities, Copy
<1>5. disk \in [DiskNames -> [id : Identities, content : Stored]]
  BY <1>1, <1>3, <1>4
<1>6. sighted \in [DiskNames -> Identities] /\ sighted["temporary"] = NoFile
  BY <1>4 DEF StoreInit, NoFile, DiskNames, TemporaryFamily
<1>7. storeCalls \in 0 .. MaxStoreCalls /\ intrusions \in 0 .. MaxIntrusions
  BY StoreBoundsAssumption DEF StoreInit
<1>8. StoreTypeOK
  BY <1>5, <1>6, <1>7 DEF StoreInit, StoreTypeOK, StoreSteps, StoreKinds, Stored
<1>9. FilesAreFiles
  BY <1>2 DEF FilesAreFiles, Absence, NoFile, Ours, Former, Incomplete
<1>10. NewAreNew
  <2>1. \A n \in DiskNames : disk[n].id \in 0 .. 2 /\ sighted[n] = 0
    BY <1>3 DEF StoreInit, NoFile
  <2>2. QED
    BY <2>1 DEF NewAreNew, StoreInit, Copy
<1>11. CopyIsNoted /\ MissingJournalShows /\ CopyIsFaithful
  BY DEF StoreInit, CopyIsNoted, MissingJournalShows, CopyIsFaithful, SuccessIsACopy,
         Hidden, Written, Measured, Shown
<1>12. TargetIsWhole
  BY <1>2 DEF TargetIsWhole, Present, Absence
<1>13. QED
  BY <1>8, <1>9, <1>10, <1>11, <1>12 DEF StoreInv

-----------------------------------------------------------------------------
(* A step preserves each part. *)

\* What another program does to one name.
LEMMA IntrudeEffect ==
    ASSUME StoreTypeOK, Intrude
    PROVE  \E n \in DiskNames :
              /\ \A m \in DiskNames \ {n} : disk'[m] = disk[m]
              /\ \/ disk'[n] = [id |-> Copy + intrusions', content |-> "other"]
                 \/ Present(n) /\ disk'[n] = [disk[n] EXCEPT !.content = "other"]
                 \/ n # "db" /\ disk'[n] = Absence
              /\ altered' = altered \cup {n}
<1>1. PICK n \in DiskNames :
         /\ disk' \in {[disk EXCEPT ![n] = [id |-> Copy + intrusions', content |-> "other"]]}
                      \cup (IF Present(n) THEN {[disk EXCEPT ![n].content = "other"]} ELSE {})
                      \cup (IF n # "db" THEN {[disk EXCEPT ![n] = Absence]} ELSE {})
         /\ altered' = altered \cup {n}
  BY DEF Intrude
<1>2. disk \in [DiskNames -> [id : Identities, content : Stored]]
  BY DEF StoreTypeOK
<1>3. \A m \in DiskNames \ {n} : disk'[m] = disk[m]
  BY <1>1, <1>2
<1>4. \/ disk'[n] = [id |-> Copy + intrusions', content |-> "other"]
      \/ Present(n) /\ disk'[n] = [disk[n] EXCEPT !.content = "other"]
      \/ n # "db" /\ disk'[n] = Absence
  BY <1>1, <1>2
<1>5. QED
  BY <1>1, <1>3, <1>4

\* Every step of a copy or a playback keeps the types.
LEMMA StoreTypeStep ==
    ASSUME StoreTypeOK, CopyIsNoted, [StoreNext]_storeVars
    PROVE  StoreTypeOK'
<1> USE StoreBoundsAssumption
   DEF StoreTypeOK, StoreSteps, StoreKinds, Stored, Absence, Identities, NoFile, Ours,
       Copy, DiskNames, Family, TargetFamily, TemporaryFamily, CallData, CopyData, Proceed,
       Compared, Sight
<1>1. ASSUME BeginStoreCall PROVE StoreTypeOK'
  <2>1. sighted' \in [DiskNames -> Identities] /\ sighted'["temporary"] = NoFile
    BY <1>1 DEF BeginStoreCall
  <2>2. storeCalls' \in 0 .. MaxStoreCalls
    BY <1>1 DEF BeginStoreCall
  <2>3. QED
    BY <1>1, <2>1, <2>2 DEF BeginStoreCall
<1>2. ASSUME NoteFamily PROVE StoreTypeOK'
  BY <1>2 DEF NoteFamily
<1>3. ASSUME VerifyConnection PROVE StoreTypeOK'
  BY <1>3 DEF VerifyConnection, Authority, Unchanged
<1>4. ASSUME FirstSql PROVE StoreTypeOK'
  BY <1>4 DEF FirstSql, Present
<1>5. ASSUME SqlIsLocked PROVE StoreTypeOK'
  BY <1>5 DEF SqlIsLocked
<1>6. ASSUME RefreshFamily PROVE StoreTypeOK'
  BY <1>6 DEF RefreshFamily, AsOpened, OnlyLogIsNew, Authority, Unchanged
<1>7. ASSUME VerifyOpen PROVE StoreTypeOK'
  BY <1>7 DEF VerifyOpen
<1>8. ASSUME Use PROVE StoreTypeOK'
  BY <1>8 DEF Use
<1>9. ASSUME CloseUsed PROVE StoreTypeOK'
  BY <1>9 DEF CloseUsed, AfterClose
<1>10. ASSUME LookAtTarget PROVE StoreTypeOK'
  <2>1. storeStep' \in StoreSteps
    BY <1>10 DEF LookAtTarget
  <2>2. sighted' \in [DiskNames -> Identities] /\ sighted'["temporary"] = sighted["temporary"]
    BY <1>10 DEF LookAtTarget
  <2>3. published => sighted'["target"] = Copy
    BY <1>10 DEF LookAtTarget, CopyIsNoted, StoreOver, Shown
  <2>4. QED
    BY <1>10, <2>1, <2>2, <2>3 DEF LookAtTarget
<1>11. ASSUME Reserve PROVE StoreTypeOK'
  BY <1>11 DEF Reserve
<1>12. ASSUME OpenTemporary PROVE StoreTypeOK'
  BY <1>12 DEF OpenTemporary
<1>13. ASSUME CopyPages PROVE StoreTypeOK'
  BY <1>13 DEF CopyPages, CopyTo
<1>14. ASSUME CheckCopy PROVE StoreTypeOK'
  BY <1>14 DEF CheckCopy
<1>15. ASSUME CloseSource PROVE StoreTypeOK'
  BY <1>15 DEF CloseSource, AfterClose
<1>16. ASSUME TakeDigest PROVE StoreTypeOK'
  BY <1>16 DEF TakeDigest, Unchanged
<1>17. ASSUME CompareBefore PROVE StoreTypeOK'
  BY <1>17 DEF CompareBefore, TargetAsSeen, Unchanged
<1>18. ASSUME PublishCopy PROVE StoreTypeOK'
  <2>1. CASE MayReplace
    <3>1. disk["temporary"].id = sighted["temporary"] /\ disk["target"].id = sighted["target"]
      BY <2>1 DEF MayReplace, Unchanged
    <3>2. sighted["temporary"] = Copy
      BY <1>18 DEF PublishCopy, CopyIsNoted, Hidden, Written, Measured
    <3>3. disk' \in [DiskNames -> [id : Identities, content : Stored]]
      BY <1>18, <2>1 DEF PublishCopy
    <3>4. /\ sighted' \in [DiskNames -> Identities]
          /\ sighted'["target"] = Copy
          /\ sighted'["temporary"] = Copy
      BY <1>18, <2>1, <3>1, <3>2 DEF PublishCopy
    <3>5. lost' = lost
      BY <1>18, <3>1 DEF PublishCopy
    <3>6. QED
      BY <1>18, <2>1, <3>3, <3>4, <3>5 DEF PublishCopy
  <2>2. CASE ~MayReplace
    <3>1. published' = FALSE
      BY <1>18, <2>2 DEF PublishCopy, MayReplace
    <3>2. QED
      BY <1>18, <2>2, <3>1 DEF PublishCopy
  <2>3. QED
    BY <2>1, <2>2
<1>19. ASSUME ConfirmCopy PROVE StoreTypeOK'
  BY <1>19 DEF ConfirmCopy
<1>20. ASSUME ConfirmAgain PROVE StoreTypeOK'
  BY <1>20 DEF ConfirmAgain, TargetIsTheCopy, Unchanged
<1>21. ASSUME CleanUp PROVE StoreTypeOK'
  <2>1. disk' \in [DiskNames -> [id : Identities, content : Stored]]
    BY <1>21 DEF CleanUp, AfterClose
  <2>2. lost' \subseteq Identities
    BY <1>21 DEF CleanUp
  <2>3. QED
    BY <1>21, <2>1, <2>2 DEF CleanUp
<1>22. ASSUME FailStoreCall PROVE StoreTypeOK'
  BY <1>22 DEF FailStoreCall
<1>23. ASSUME CrashStore PROVE StoreTypeOK'
  BY <1>23 DEF CrashStore
<1>24. ASSUME Intrude PROVE StoreTypeOK'
  BY <1>24 DEF Intrude, StoreOver, Present
<1>25. ASSUME UNCHANGED storeVars PROVE StoreTypeOK'
  BY <1>25 DEF storeVars, Unchanged, Present
<1>26. QED
  BY <1>1, <1>2, <1>3, <1>4, <1>5, <1>6, <1>7, <1>8, <1>9, <1>10, <1>11, <1>12, <1>13,
     <1>14, <1>15, <1>16, <1>17, <1>18, <1>19, <1>20, <1>21, <1>22, <1>23, <1>24, <1>25
     DEF StoreNext

\* A step leaves files or nothing under every name.
LEMMA FilesStep ==
    ASSUME StoreTypeOK, FilesAreFiles, [StoreNext]_storeVars
    PROVE  FilesAreFiles'
<1> USE StoreBoundsAssumption
   DEF FilesAreFiles, StoreTypeOK, Absence, NoFile, Ours, Copy, Incomplete, Present,
       DiskNames, Family, TargetFamily, TemporaryFamily, CallData, CopyData, Proceed,
       Compared, Sight
<1>1. ASSUME BeginStoreCall PROVE FilesAreFiles'
  BY <1>1 DEF BeginStoreCall, StoreOver
<1>2. ASSUME NoteFamily PROVE FilesAreFiles'
  BY <1>2 DEF NoteFamily
<1>3. ASSUME VerifyConnection PROVE FilesAreFiles'
  BY <1>3 DEF VerifyConnection, Authority, Unchanged
<1>4. ASSUME FirstSql PROVE FilesAreFiles'
  BY <1>4 DEF FirstSql
<1>5. ASSUME SqlIsLocked PROVE FilesAreFiles'
  BY <1>5 DEF SqlIsLocked
<1>6. ASSUME RefreshFamily PROVE FilesAreFiles'
  BY <1>6 DEF RefreshFamily, AsOpened, OnlyLogIsNew, Authority, Unchanged
<1>7. ASSUME VerifyOpen PROVE FilesAreFiles'
  BY <1>7 DEF VerifyOpen
<1>8. ASSUME Use PROVE FilesAreFiles'
  BY <1>8 DEF Use
<1>9. ASSUME CloseUsed PROVE FilesAreFiles'
  BY <1>9 DEF CloseUsed, AfterClose
<1>10. ASSUME LookAtTarget PROVE FilesAreFiles'
  BY <1>10 DEF LookAtTarget
<1>11. ASSUME Reserve PROVE FilesAreFiles'
  BY <1>11 DEF Reserve
<1>12. ASSUME OpenTemporary PROVE FilesAreFiles'
  BY <1>12 DEF OpenTemporary
<1>13. ASSUME CopyPages PROVE FilesAreFiles'
  BY <1>13 DEF CopyPages, CopyTo
<1>14. ASSUME CheckCopy PROVE FilesAreFiles'
  BY <1>14 DEF CheckCopy
<1>15. ASSUME CloseSource PROVE FilesAreFiles'
  BY <1>15 DEF CloseSource, AfterClose
<1>16. ASSUME TakeDigest PROVE FilesAreFiles'
  BY <1>16 DEF TakeDigest, Unchanged
<1>17. ASSUME CompareBefore PROVE FilesAreFiles'
  BY <1>17 DEF CompareBefore, TargetAsSeen, Unchanged
<1>18. ASSUME PublishCopy PROVE FilesAreFiles'
  BY <1>18 DEF PublishCopy, MayReplace, Unchanged
<1>19. ASSUME ConfirmCopy PROVE FilesAreFiles'
  BY <1>19 DEF ConfirmCopy
<1>20. ASSUME ConfirmAgain PROVE FilesAreFiles'
  BY <1>20 DEF ConfirmAgain, TargetIsTheCopy, Unchanged
<1>21. ASSUME CleanUp PROVE FilesAreFiles'
  BY <1>21 DEF CleanUp, AfterClose, MayRemove, Unchanged
<1>22. ASSUME FailStoreCall PROVE FilesAreFiles'
  BY <1>22 DEF FailStoreCall
<1>23. ASSUME CrashStore PROVE FilesAreFiles'
  BY <1>23 DEF CrashStore
<1>24. ASSUME Intrude PROVE FilesAreFiles'
  BY <1>24 DEF Intrude, StoreOver
<1>25. ASSUME UNCHANGED storeVars PROVE FilesAreFiles'
  BY <1>25 DEF storeVars, Unchanged, Present
<1>26. QED
  BY <1>1, <1>2, <1>3, <1>4, <1>5, <1>6, <1>7, <1>8, <1>9, <1>10, <1>11, <1>12, <1>13,
     <1>14, <1>15, <1>16, <1>17, <1>18, <1>19, <1>20, <1>21, <1>22, <1>23, <1>24, <1>25
     DEF StoreNext

\* What a copy creates is new.
LEMMA NewStep ==
    ASSUME StoreTypeOK, NewAreNew, [StoreNext]_storeVars
    PROVE  NewAreNew'
<1> USE StoreBoundsAssumption
   DEF NewAreNew, StoreTypeOK, Absence, NoFile, Ours, Copy, Present, DiskNames, Family,
       TargetFamily, TemporaryFamily, CallData, CopyData, Proceed, Compared, Sight
<1>1. ASSUME BeginStoreCall PROVE NewAreNew'
  BY <1>1 DEF BeginStoreCall, StoreOver
<1>2. ASSUME NoteFamily PROVE NewAreNew'
  BY <1>2 DEF NoteFamily
<1>3. ASSUME VerifyConnection PROVE NewAreNew'
  BY <1>3 DEF VerifyConnection, Authority, Unchanged
<1>4. ASSUME FirstSql PROVE NewAreNew'
  BY <1>4 DEF FirstSql
<1>5. ASSUME SqlIsLocked PROVE NewAreNew'
  BY <1>5 DEF SqlIsLocked
<1>6. ASSUME RefreshFamily PROVE NewAreNew'
  BY <1>6 DEF RefreshFamily, AsOpened, OnlyLogIsNew, Authority, Unchanged
<1>7. ASSUME VerifyOpen PROVE NewAreNew'
  BY <1>7 DEF VerifyOpen
<1>8. ASSUME Use PROVE NewAreNew'
  BY <1>8 DEF Use
<1>9. ASSUME CloseUsed PROVE NewAreNew'
  BY <1>9 DEF CloseUsed, AfterClose
<1>10. ASSUME LookAtTarget PROVE NewAreNew'
  BY <1>10 DEF LookAtTarget
<1>11. ASSUME Reserve PROVE NewAreNew'
  BY <1>11 DEF Reserve
<1>12. ASSUME OpenTemporary PROVE NewAreNew'
  BY <1>12 DEF OpenTemporary
<1>13. ASSUME CopyPages PROVE NewAreNew'
  BY <1>13 DEF CopyPages, CopyTo
<1>14. ASSUME CheckCopy PROVE NewAreNew'
  BY <1>14 DEF CheckCopy
<1>15. ASSUME CloseSource PROVE NewAreNew'
  BY <1>15 DEF CloseSource, AfterClose
<1>16. ASSUME TakeDigest PROVE NewAreNew'
  BY <1>16 DEF TakeDigest, Unchanged
<1>17. ASSUME CompareBefore PROVE NewAreNew'
  BY <1>17 DEF CompareBefore, TargetAsSeen, Unchanged
<1>18. ASSUME PublishCopy PROVE NewAreNew'
  BY <1>18 DEF PublishCopy, MayReplace, Unchanged
<1>19. ASSUME ConfirmCopy PROVE NewAreNew'
  BY <1>19 DEF ConfirmCopy
<1>20. ASSUME ConfirmAgain PROVE NewAreNew'
  BY <1>20 DEF ConfirmAgain, TargetIsTheCopy, Unchanged
<1>21. ASSUME CleanUp PROVE NewAreNew'
  BY <1>21 DEF CleanUp, AfterClose, MayRemove, Unchanged
<1>22. ASSUME FailStoreCall PROVE NewAreNew'
  BY <1>22 DEF FailStoreCall
<1>23. ASSUME CrashStore PROVE NewAreNew'
  BY <1>23 DEF CrashStore
<1>24. ASSUME Intrude PROVE NewAreNew'
  <2>1. PICK n \in DiskNames :
           /\ \A m \in DiskNames \ {n} : disk'[m] = disk[m]
           /\ \/ disk'[n] = [id |-> Copy + intrusions', content |-> "other"]
              \/ Present(n) /\ disk'[n] = [disk[n] EXCEPT !.content = "other"]
              \/ n # "db" /\ disk'[n] = Absence
    BY <1>24, IntrudeEffect
  <2>2. intrusions \in Nat /\ intrusions' = intrusions + 1 /\ sighted' = sighted
    BY <1>24 DEF Intrude
  <2>3. \A m \in DiskNames : disk[m].id \in Nat /\ sighted[m] \in Nat
    BY DEF Identities
  <2>4. \A m \in DiskNames : disk[m].id <= Copy + intrusions' /\ sighted[m] <= Copy + intrusions'
    BY <2>2, <2>3
  <2>5. disk'[n].id <= Copy + intrusions'
    <3>1. [disk[n] EXCEPT !.content = "other"].id = disk[n].id
      OBVIOUS
    <3>2. QED
      BY <2>1, <2>2, <2>4, <3>1
  <2>6. QED
    BY <2>1, <2>2, <2>4, <2>5
<1>25. ASSUME UNCHANGED storeVars PROVE NewAreNew'
  BY <1>25 DEF storeVars, Unchanged, Present
<1>26. QED
  BY <1>1, <1>2, <1>3, <1>4, <1>5, <1>6, <1>7, <1>8, <1>9, <1>10, <1>11, <1>12, <1>13,
     <1>14, <1>15, <1>16, <1>17, <1>18, <1>19, <1>20, <1>21, <1>22, <1>23, <1>24, <1>25
     DEF StoreNext

\* What a copy has noted of its file is so until it is shown.
LEMMA NotedStep ==
    ASSUME StoreTypeOK, FilesAreFiles, CopyIsNoted, [StoreNext]_storeVars
    PROVE  CopyIsNoted'
<1> USE StoreBoundsAssumption
   DEF CopyIsNoted, StoreTypeOK, StoreOver, Hidden, Written, Measured, Shown, Incomplete,
       Copy, NoFile, DiskNames, Family, TargetFamily, TemporaryFamily, CallData, CopyData,
       Proceed, Compared, Sight
<1>1. ASSUME BeginStoreCall PROVE CopyIsNoted'
  BY <1>1 DEF BeginStoreCall
<1>2. ASSUME NoteFamily PROVE CopyIsNoted'
  BY <1>2 DEF NoteFamily
<1>3. ASSUME VerifyConnection PROVE CopyIsNoted'
  BY <1>3 DEF VerifyConnection, Authority, Unchanged
<1>4. ASSUME FirstSql PROVE CopyIsNoted'
  BY <1>4 DEF FirstSql, Present
<1>5. ASSUME SqlIsLocked PROVE CopyIsNoted'
  BY <1>5 DEF SqlIsLocked
<1>6. ASSUME RefreshFamily PROVE CopyIsNoted'
  BY <1>6 DEF RefreshFamily, AsOpened, OnlyLogIsNew, Authority, Unchanged
<1>7. ASSUME VerifyOpen PROVE CopyIsNoted'
  BY <1>7 DEF VerifyOpen
<1>8. ASSUME Use PROVE CopyIsNoted'
  BY <1>8 DEF Use
<1>9. ASSUME CloseUsed PROVE CopyIsNoted'
  BY <1>9 DEF CloseUsed, AfterClose
<1>10. ASSUME LookAtTarget PROVE CopyIsNoted'
  BY <1>10 DEF LookAtTarget, Present
<1>11. ASSUME Reserve PROVE CopyIsNoted'
  BY <1>11 DEF Reserve
<1>12. ASSUME OpenTemporary PROVE CopyIsNoted'
  BY <1>12 DEF OpenTemporary
<1>13. ASSUME CopyPages PROVE CopyIsNoted'
  <2>1. storeStep = "ready" /\ storeStep' \in {"copied", "failing"}
    BY <1>13 DEF CopyPages
  <2>2. ~published /\ published' = published /\ sighted'["temporary"] = Copy
    BY <1>13, <2>1 DEF CopyPages
  <2>3. ASSUME storeStep' = "copied", disk'["temporary"].id = Copy
        PROVE  disk'["temporary"].content \notin Incomplete
    <3>1. disk' = IF disk["temporary"].id = Copy
                  THEN [disk EXCEPT !["temporary"] = [disk["temporary"] EXCEPT !.content = disk["db"].content]]
                  ELSE disk
      <4>1. PICK written \in {disk["db"].content, "part"} :
               /\ storeStep' = IF written = "part" THEN "failing" ELSE "copied"
               /\ disk' = IF disk["temporary"].id = Copy
                          THEN [disk EXCEPT !["temporary"] = [disk["temporary"] EXCEPT !.content = written]]
                          ELSE disk
        BY <1>13 DEF CopyPages, CopyTo
      <4>2. written = disk["db"].content
        BY <2>3, <4>1
      <4>3. QED
        BY <4>1, <4>2
    <3>2. disk["temporary"].id = Copy
      BY <2>3, <3>1
    <3>3. disk'["temporary"].content = disk["db"].content
      BY <3>1, <3>2
    <3>4. QED
      BY <3>3 DEF FilesAreFiles
  <2>4. QED
    BY <2>1, <2>2, <2>3
<1>14. ASSUME CheckCopy PROVE CopyIsNoted'
  BY <1>14 DEF CheckCopy
<1>15. ASSUME CloseSource PROVE CopyIsNoted'
  BY <1>15 DEF CloseSource, AfterClose
<1>16. ASSUME TakeDigest PROVE CopyIsNoted'
  BY <1>16 DEF TakeDigest, Unchanged
<1>17. ASSUME CompareBefore PROVE CopyIsNoted'
  BY <1>17 DEF CompareBefore, TargetAsSeen, Unchanged
<1>18. ASSUME PublishCopy PROVE CopyIsNoted'
  BY <1>18 DEF PublishCopy, MayReplace, Unchanged
<1>19. ASSUME ConfirmCopy PROVE CopyIsNoted'
  BY <1>19 DEF ConfirmCopy
<1>20. ASSUME ConfirmAgain PROVE CopyIsNoted'
  BY <1>20 DEF ConfirmAgain, TargetIsTheCopy, Unchanged
<1>21. ASSUME CleanUp PROVE CopyIsNoted'
  BY <1>21 DEF CleanUp, AfterClose, MayRemove, Unchanged
<1>22. ASSUME FailStoreCall PROVE CopyIsNoted'
  BY <1>22 DEF FailStoreCall
<1>23. ASSUME CrashStore PROVE CopyIsNoted'
  BY <1>23 DEF CrashStore
<1>24. ASSUME Intrude PROVE CopyIsNoted'
  <2>1. PICK n \in DiskNames :
           /\ \A m \in DiskNames \ {n} : disk'[m] = disk[m]
           /\ \/ disk'[n] = [id |-> Copy + intrusions', content |-> "other"]
              \/ Present(n) /\ disk'[n] = [disk[n] EXCEPT !.content = "other"]
              \/ n # "db" /\ disk'[n] = Absence
    BY <1>24, IntrudeEffect
  <2>2. /\ storeStep' = storeStep /\ published' = published /\ sighted' = sighted
    BY <1>24 DEF Intrude
  <2>3. ASSUME storeStep \in Written, disk'["temporary"].id = Copy
        PROVE  disk'["temporary"].content \notin Incomplete
    <3>1. CASE n = "temporary" /\ disk'[n] # Absence
      BY <2>1, <3>1
    <3>2. CASE n = "temporary" /\ disk'[n] = Absence
      BY <2>3, <3>2 DEF Absence
    <3>3. CASE n # "temporary"
      BY <2>1, <2>3, <3>3
    <3>4. QED
      BY <3>1, <3>2, <3>3
  <2>4. QED
    BY <2>2, <2>3
<1>25. ASSUME UNCHANGED storeVars PROVE CopyIsNoted'
  BY <1>25 DEF storeVars, Unchanged, Present
<1>26. QED
  BY <1>1, <1>2, <1>3, <1>4, <1>5, <1>6, <1>7, <1>8, <1>9, <1>10, <1>11, <1>12, <1>13,
     <1>14, <1>15, <1>16, <1>17, <1>18, <1>19, <1>20, <1>21, <1>22, <1>23, <1>24, <1>25
     DEF StoreNext

\* A step leaves the target whole, or puts a whole file there.
LEMMA StoreWholeStep ==
    ASSUME StoreTypeOK, FilesAreFiles, CopyIsNoted, TargetIsWhole, [StoreNext]_storeVars
    PROVE  TargetIsWhole'
<1> USE StoreBoundsAssumption
   DEF TargetIsWhole, StoreTypeOK, Present, DiskNames, Family, TargetFamily,
       TemporaryFamily, CallData, CopyData, Proceed, Compared, Sight
<1>1. ASSUME BeginStoreCall PROVE TargetIsWhole'
  BY <1>1 DEF BeginStoreCall, StoreOver
<1>2. ASSUME NoteFamily PROVE TargetIsWhole'
  BY <1>2 DEF NoteFamily
<1>3. ASSUME VerifyConnection PROVE TargetIsWhole'
  BY <1>3 DEF VerifyConnection, Authority, Unchanged
<1>4. ASSUME FirstSql PROVE TargetIsWhole'
  BY <1>4 DEF FirstSql
<1>5. ASSUME SqlIsLocked PROVE TargetIsWhole'
  BY <1>5 DEF SqlIsLocked
<1>6. ASSUME RefreshFamily PROVE TargetIsWhole'
  BY <1>6 DEF RefreshFamily, AsOpened, OnlyLogIsNew, Authority, Unchanged
<1>7. ASSUME VerifyOpen PROVE TargetIsWhole'
  BY <1>7 DEF VerifyOpen
<1>8. ASSUME Use PROVE TargetIsWhole'
  BY <1>8 DEF Use
<1>9. ASSUME CloseUsed PROVE TargetIsWhole'
  BY <1>9 DEF CloseUsed, AfterClose
<1>10. ASSUME LookAtTarget PROVE TargetIsWhole'
  BY <1>10 DEF LookAtTarget
<1>11. ASSUME Reserve PROVE TargetIsWhole'
  BY <1>11 DEF Reserve
<1>12. ASSUME OpenTemporary PROVE TargetIsWhole'
  BY <1>12 DEF OpenTemporary
<1>13. ASSUME CopyPages PROVE TargetIsWhole'
  BY <1>13 DEF CopyPages, CopyTo
<1>14. ASSUME CheckCopy PROVE TargetIsWhole'
  BY <1>14 DEF CheckCopy
<1>15. ASSUME CloseSource PROVE TargetIsWhole'
  BY <1>15 DEF CloseSource, AfterClose
<1>16. ASSUME TakeDigest PROVE TargetIsWhole'
  BY <1>16 DEF TakeDigest, Unchanged
<1>17. ASSUME CompareBefore PROVE TargetIsWhole'
  BY <1>17 DEF CompareBefore, TargetAsSeen, Unchanged
<1>18. ASSUME PublishCopy PROVE TargetIsWhole'
  <2>1. CASE MayReplace
    <3>1. disk["temporary"].content \notin {"nothing", "part"}
      BY <1>18, <2>1 DEF PublishCopy, MayReplace, Unchanged, CopyIsNoted, Hidden, Written,
                        Measured, Incomplete
    <3>2. disk'["target"] = disk["temporary"]
      BY <1>18, <2>1 DEF PublishCopy
    <3>3. QED
      BY <3>1, <3>2
  <2>2. CASE ~MayReplace
    BY <1>18, <2>2 DEF PublishCopy
  <2>3. QED
    BY <2>1, <2>2
<1>19. ASSUME ConfirmCopy PROVE TargetIsWhole'
  BY <1>19 DEF ConfirmCopy
<1>20. ASSUME ConfirmAgain PROVE TargetIsWhole'
  BY <1>20 DEF ConfirmAgain, TargetIsTheCopy, Unchanged
<1>21. ASSUME CleanUp PROVE TargetIsWhole'
  BY <1>21 DEF CleanUp, AfterClose, MayRemove, Unchanged
<1>22. ASSUME FailStoreCall PROVE TargetIsWhole'
  BY <1>22 DEF FailStoreCall
<1>23. ASSUME CrashStore PROVE TargetIsWhole'
  BY <1>23 DEF CrashStore
<1>24. ASSUME Intrude PROVE TargetIsWhole'
  BY <1>24 DEF Intrude, StoreOver
<1>25. ASSUME UNCHANGED storeVars PROVE TargetIsWhole'
  BY <1>25 DEF storeVars, Unchanged, Present
<1>26. QED
  BY <1>1, <1>2, <1>3, <1>4, <1>5, <1>6, <1>7, <1>8, <1>9, <1>10, <1>11, <1>12, <1>13,
     <1>14, <1>15, <1>16, <1>17, <1>18, <1>19, <1>20, <1>21, <1>22, <1>23, <1>24, <1>25
     DEF StoreNext

\* A journal that is gone shows.
LEMMA JournalStep ==
    ASSUME StoreTypeOK, FilesAreFiles, NewAreNew, MissingJournalShows, [StoreNext]_storeVars
    PROVE  MissingJournalShows'
<1> USE StoreBoundsAssumption
   DEF MissingJournalShows, StoreTypeOK, Unchanged, Present, Absence, NoFile, DiskNames,
       Family, TargetFamily, TemporaryFamily, CallData, CopyData, Proceed, Compared, Sight
<1>1. ASSUME BeginStoreCall PROVE MissingJournalShows'
  BY <1>1 DEF BeginStoreCall, StoreOver
<1>2. ASSUME NoteFamily PROVE MissingJournalShows'
  BY <1>2 DEF NoteFamily
<1>3. ASSUME VerifyConnection PROVE MissingJournalShows'
  BY <1>3 DEF VerifyConnection, Authority
<1>4. ASSUME FirstSql PROVE MissingJournalShows'
  <2>1. storeStep = "verified" /\ storeStep' = "setup" /\ ~playedBack
    BY <1>4 DEF FirstSql
  <2>2. sighted' = sighted /\ disk'["journal"] = Absence
    BY <1>4 DEF FirstSql
  <2>3. ASSUME playedBack'
        PROVE  sighted["journal"] # NoFile
    <3>1. disk["journal"] # Absence /\ "journal" \notin altered
      BY <1>4, <2>1, <2>3 DEF FirstSql
    <3>2. disk["journal"].id # NoFile
      BY <3>1 DEF FilesAreFiles
    <3>3. QED
      BY <2>1, <3>1, <3>2
  <2>4. disk'["journal"].id = NoFile
    BY <2>2
  <2>5. QED
    BY <2>1, <2>2, <2>3, <2>4
<1>5. ASSUME SqlIsLocked PROVE MissingJournalShows'
  BY <1>5 DEF SqlIsLocked
<1>6. ASSUME RefreshFamily PROVE MissingJournalShows'
  BY <1>6 DEF RefreshFamily, AsOpened, OnlyLogIsNew, Authority
<1>7. ASSUME VerifyOpen PROVE MissingJournalShows'
  BY <1>7 DEF VerifyOpen
<1>8. ASSUME Use PROVE MissingJournalShows'
  BY <1>8 DEF Use
<1>9. ASSUME CloseUsed PROVE MissingJournalShows'
  BY <1>9 DEF CloseUsed, AfterClose
<1>10. ASSUME LookAtTarget PROVE MissingJournalShows'
  BY <1>10 DEF LookAtTarget
<1>11. ASSUME Reserve PROVE MissingJournalShows'
  BY <1>11 DEF Reserve
<1>12. ASSUME OpenTemporary PROVE MissingJournalShows'
  BY <1>12 DEF OpenTemporary
<1>13. ASSUME CopyPages PROVE MissingJournalShows'
  BY <1>13 DEF CopyPages, CopyTo
<1>14. ASSUME CheckCopy PROVE MissingJournalShows'
  BY <1>14 DEF CheckCopy
<1>15. ASSUME CloseSource PROVE MissingJournalShows'
  BY <1>15 DEF CloseSource, AfterClose
<1>16. ASSUME TakeDigest PROVE MissingJournalShows'
  BY <1>16 DEF TakeDigest
<1>17. ASSUME CompareBefore PROVE MissingJournalShows'
  BY <1>17 DEF CompareBefore, TargetAsSeen
<1>18. ASSUME PublishCopy PROVE MissingJournalShows'
  BY <1>18 DEF PublishCopy, MayReplace
<1>19. ASSUME ConfirmCopy PROVE MissingJournalShows'
  BY <1>19 DEF ConfirmCopy
<1>20. ASSUME ConfirmAgain PROVE MissingJournalShows'
  BY <1>20 DEF ConfirmAgain, TargetIsTheCopy
<1>21. ASSUME CleanUp PROVE MissingJournalShows'
  BY <1>21 DEF CleanUp, AfterClose, MayRemove
<1>22. ASSUME FailStoreCall PROVE MissingJournalShows'
  BY <1>22 DEF FailStoreCall
<1>23. ASSUME CrashStore PROVE MissingJournalShows'
  BY <1>23 DEF CrashStore
<1>24. ASSUME Intrude PROVE MissingJournalShows'
  <2>1. PICK n \in DiskNames :
           /\ \A m \in DiskNames \ {n} : disk'[m] = disk[m]
           /\ \/ disk'[n] = [id |-> Copy + intrusions', content |-> "other"]
              \/ Present(n) /\ disk'[n] = [disk[n] EXCEPT !.content = "other"]
              \/ n # "db" /\ disk'[n] = Absence
           /\ altered' = altered \cup {n}
    BY <1>24, IntrudeEffect
  <2>2. /\ storeStep' = storeStep /\ playedBack' = playedBack /\ sighted' = sighted
        /\ intrusions \in Nat /\ intrusions' = intrusions + 1
    BY <1>24 DEF Intrude
  <2>3. CASE n # "journal"
    BY <2>1, <2>2, <2>3
  <2>4. CASE n = "journal"
    <3>1. disk'["journal"].id \in {Copy + intrusions', disk["journal"].id, NoFile}
      BY <2>1, <2>4
    <3>2. sighted["journal"] \in Nat /\ sighted["journal"] <= Copy + intrusions
      BY DEF NewAreNew, Identities
    <3>3. sighted["journal"] # Copy + intrusions'
      BY <2>2, <3>2 DEF Copy
    <3>4. "journal" \in altered'
      BY <2>1, <2>4
    <3>5. QED
      BY <2>2, <3>1, <3>3, <3>4
  <2>5. QED
    BY <2>3, <2>4
<1>25. ASSUME UNCHANGED storeVars PROVE MissingJournalShows'
  BY <1>25 DEF storeVars, Unchanged, Present
<1>26. QED
  BY <1>1, <1>2, <1>3, <1>4, <1>5, <1>6, <1>7, <1>8, <1>9, <1>10, <1>11, <1>12, <1>13,
     <1>14, <1>15, <1>16, <1>17, <1>18, <1>19, <1>20, <1>21, <1>22, <1>23, <1>24, <1>25
     DEF StoreNext

\* A copy that was compared has the content of its source.
LEMMA FaithfulStep ==
    ASSUME StoreTypeOK, FilesAreFiles, CopyIsNoted, CopyIsFaithful, [StoreNext]_storeVars
    PROVE  CopyIsFaithful'
<1> USE StoreBoundsAssumption
   DEF CopyIsFaithful, SuccessIsACopy, CopyIsNoted, StoreTypeOK, StoreOver, Hidden,
       Written, Measured, Shown, Incomplete, Copy, NoFile, DiskNames, Family, TargetFamily,
       TemporaryFamily, CallData, CopyData, Proceed, Compared, Sight
<1>1. ASSUME BeginStoreCall PROVE CopyIsFaithful'
  BY <1>1 DEF BeginStoreCall
<1>2. ASSUME NoteFamily PROVE CopyIsFaithful'
  BY <1>2 DEF NoteFamily
<1>3. ASSUME VerifyConnection PROVE CopyIsFaithful'
  BY <1>3 DEF VerifyConnection, Authority, Unchanged
<1>4. ASSUME FirstSql PROVE CopyIsFaithful'
  BY <1>4 DEF FirstSql, Present
<1>5. ASSUME SqlIsLocked PROVE CopyIsFaithful'
  BY <1>5 DEF SqlIsLocked
<1>6. ASSUME RefreshFamily PROVE CopyIsFaithful'
  BY <1>6 DEF RefreshFamily, AsOpened, OnlyLogIsNew, Authority, Unchanged
<1>7. ASSUME VerifyOpen PROVE CopyIsFaithful'
  BY <1>7 DEF VerifyOpen
<1>8. ASSUME Use PROVE CopyIsFaithful'
  BY <1>8 DEF Use
<1>9. ASSUME CloseUsed PROVE CopyIsFaithful'
  BY <1>9 DEF CloseUsed, AfterClose
<1>10. ASSUME LookAtTarget PROVE CopyIsFaithful'
  <2>1. storeStep' \in {"looked", "failing"}
    BY <1>10 DEF LookAtTarget
  <2>2. ASSUME storeStep' = "looked"
        PROVE  sighted'["targetWal"] = NoFile
    BY <1>10, <2>2 DEF LookAtTarget, Present, Absence
  <2>3. QED
    BY <2>1, <2>2
<1>11. ASSUME Reserve PROVE CopyIsFaithful'
  BY <1>11 DEF Reserve
<1>12. ASSUME OpenTemporary PROVE CopyIsFaithful'
  BY <1>12 DEF OpenTemporary
<1>13. ASSUME CopyPages PROVE CopyIsFaithful'
  BY <1>13 DEF CopyPages, CopyTo
<1>14. ASSUME CheckCopy PROVE CopyIsFaithful'
  BY <1>14 DEF CheckCopy
<1>15. ASSUME CloseSource PROVE CopyIsFaithful'
  BY <1>15 DEF CloseSource, AfterClose
<1>16. ASSUME TakeDigest PROVE CopyIsFaithful'
  BY <1>16 DEF TakeDigest, Unchanged
<1>17. ASSUME CompareBefore PROVE CopyIsFaithful'
  BY <1>17 DEF CompareBefore, TargetAsSeen, Unchanged
<1>18. ASSUME PublishCopy PROVE CopyIsFaithful'
  BY <1>18 DEF PublishCopy, MayReplace, Unchanged
<1>19. ASSUME ConfirmCopy PROVE CopyIsFaithful'
  BY <1>19 DEF ConfirmCopy
<1>20. ASSUME ConfirmAgain PROVE CopyIsFaithful'
  <2>1. storeStep = "confirmed" /\ storeStep' \in {"done", "failing"}
    BY <1>20 DEF ConfirmAgain
  <2>2. disk' = disk /\ copied' = copied /\ digested' = digested
    BY <1>20 DEF ConfirmAgain
  <2>3. "temporary" \in altered' <=> "temporary" \in altered
    BY <1>20 DEF ConfirmAgain
  <2>4. ASSUME storeStep' = "done"
        PROVE  disk["target"].content = digested /\ disk["targetWal"] = Absence
    <3>1. TargetIsTheCopy /\ Unchanged("targetWal")
      BY <1>20, <2>4 DEF ConfirmAgain
    <3>2. disk["targetWal"].id = NoFile
      BY <2>1, <3>1 DEF Unchanged
    <3>3. QED
      BY <3>1, <3>2 DEF TargetIsTheCopy, FilesAreFiles
  <2>5. digested = IF "temporary" \in altered THEN digested ELSE copied
    BY <2>1
  <2>6. QED
    BY <2>1, <2>2, <2>3, <2>4, <2>5 DEF Present
<1>21. ASSUME CleanUp PROVE CopyIsFaithful'
  BY <1>21 DEF CleanUp, AfterClose, MayRemove, Unchanged
<1>22. ASSUME FailStoreCall PROVE CopyIsFaithful'
  BY <1>22 DEF FailStoreCall
<1>23. ASSUME CrashStore PROVE CopyIsFaithful'
  BY <1>23 DEF CrashStore
<1>24. ASSUME Intrude PROVE CopyIsFaithful'
  BY <1>24 DEF Intrude, Present
<1>25. ASSUME UNCHANGED storeVars PROVE CopyIsFaithful'
  BY <1>25 DEF storeVars, Unchanged, Present
<1>26. QED
  BY <1>1, <1>2, <1>3, <1>4, <1>5, <1>6, <1>7, <1>8, <1>9, <1>10, <1>11, <1>12, <1>13,
     <1>14, <1>15, <1>16, <1>17, <1>18, <1>19, <1>20, <1>21, <1>22, <1>23, <1>24, <1>25
     DEF StoreNext

-----------------------------------------------------------------------------
\* Every step of the store and of intruders keeps the invariant.
LEMMA StoreStepInv == StoreInv /\ [StoreNext]_storeVars => StoreInv'
BY StoreTypeStep, FilesStep, NewStep, NotedStep, StoreWholeStep, JournalStep, FaithfulStep
   DEF StoreInv

\* The inductive invariant holds in every reachable state (SqliteStore in
\* core/store.py).
THEOREM StoreInvariance == StoreSpec => []StoreInv
<1>1. StoreInit => StoreInv
  BY StoreInitInv
<1>2. StoreInv /\ [StoreNext]_storeVars => StoreInv'
  BY StoreStepInv
<1>3. QED
  BY <1>1, <1>2, PTL DEF StoreSpec

\* The variables of a store's calls keep their types, a published copy is what the
\* call then expects under the name of the target, and the file it expects under
\* the hidden name is never another program's (create_private_sqlite_temporary).
THEOREM StoreTypeCorrect == StoreSpec => []StoreTypeOK
<1>1. StoreInv => StoreTypeOK
  BY DEF StoreInv
<1>2. QED
  BY <1>1, StoreInvariance, PTL

\* Whenever the process ends and whatever others do, the target of a backup is
\* what was there before or a whole copy, never a part of one
\* (SqliteStore.backup_to).
THEOREM TargetWhole == StoreSpec => []TargetIsWhole
<1>1. StoreInv => TargetIsWhole
  BY DEF StoreInv
<1>2. QED
  BY <1>1, StoreInvariance, PTL

\* A backup that answers success left what the database held under the name of
\* the target, and nothing beside it.
THEOREM SuccessCopies == StoreSpec => []SuccessIsACopy
<1>1. StoreInv => SuccessIsACopy
  BY DEF StoreInv, CopyIsFaithful
<1>2. QED
  BY <1>1, StoreInvariance, PTL

\* A call in which SQLite played back a journal that was there when the names were
\* compared does not succeed (_verified_sqlite_connection).
THEOREM PlayedBackRefused == StoreSpec => []PlayedBackIsRefused
<1>1. StoreInv => PlayedBackIsRefused
  BY DEF StoreInv, MissingJournalShows, PlayedBackIsRefused
<1>2. QED
  BY <1>1, StoreInvariance, PTL

\* No file of another program under the names of the target and of the copy is
\* destroyed: the replacement and the removal name the files they expect.
THEOREM OthersKept == StoreSpec => []OthersAreKept
<1>1. StoreInit => OthersAreKept
  BY DEF StoreInit, OthersAreKept
<1>2. StoreInv /\ OthersAreKept /\ [StoreNext]_storeVars => OthersAreKept'
  <2> SUFFICES ASSUME lost = {}, [StoreNext]_storeVars PROVE lost' = {}
    BY DEF OthersAreKept
  <2>1. CASE PublishCopy
    BY <2>1 DEF PublishCopy, MayReplace, Unchanged
  <2>2. CASE CleanUp
    BY <2>2 DEF CleanUp, MayRemove, Unchanged, IsForeign, Copy
  <2>3. CASE ~PublishCopy /\ ~CleanUp
    BY <2>3
       DEF StoreNext, storeVars, BeginStoreCall, NoteFamily, VerifyConnection, FirstSql,
       SqlIsLocked, RefreshFamily, VerifyOpen, Use, CloseUsed, LookAtTarget, Reserve,
       OpenTemporary, CopyPages, CheckCopy, CloseSource, TakeDigest, CompareBefore,
       ConfirmCopy, ConfirmAgain, FailStoreCall, CrashStore, Intrude
  <2>4. QED
    BY <2>1, <2>2, <2>3
<1>3. QED
  BY <1>1, <1>2, StoreInvariance, PTL DEF StoreSpec

\* A database and its backups survive what others do beside them (SqliteStore).
THEOREM StoreSafe == StoreSpec => []StoreIsSafe
BY TargetWhole, SuccessCopies, OthersKept, PlayedBackRefused, PTL DEF StoreIsSafe
=============================================================================
