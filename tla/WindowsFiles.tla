---------------------------- MODULE WindowsFiles ----------------------------
(***************************************************************************)
(* The Windows backend of core/project_fs.py: a destination that exists is *)
(* replaced by ReplaceFileW, which keeps what it displaced under a backup  *)
(* name and may stop halfway; the backup is deleted while the new file is  *)
(* open exclusively. A destination that does not exist is filled by a      *)
(* rename of the open source handle. Read-only attributes are lifted for   *)
(* the replacement and put back.                                           *)
(*                                                                         *)
(* The backup has the name "aside". Handles that share no deletion keep    *)
(* others away from what they have open.                                   *)
(***************************************************************************)
EXTENDS ProjectFiles

\* The source is open from its creation to ReplaceFileW; a file to be removed
\* from its opening on.
WPinned == IF step = "move by handle" THEN {"source"} ELSE {}

\* The read-only attribute is lifted through an open handle, if it was set.
Lifted(o) == {o} \cap readonly

WFail == /\ step' = IF op = "write" THEN "sweep temporary" ELSE "over"
         /\ result' = IF op = "write" THEN result ELSE "failed"

-----------------------------------------------------------------------------
(* Preparing. *)

\* The temporary file is created, written and kept open; its cleanup deletes
\* through the handle and tries a second time by name.
WCreateTemporary ==
    /\ At("prepare") /\ op = "write"
    /\ \/ /\ at' = [at EXCEPT !["source"] = New]
          /\ NoFault /\ Goto("recheck")
       \/ /\ UNCHANGED at
          /\ Fault /\ Return("failed")
    /\ UNCHANGED <<call, task, wanted, before, cleared, destroyed, others>>

WCreateExclusive ==
    /\ At("prepare") /\ op = "create"
    /\ \/ /\ at["destination"] = Nothing
          /\ at' = [at EXCEPT !["destination"] = New]
          /\ NoFault /\ Goto("final")
       \/ /\ UNCHANGED at
          /\ (at["destination"] # Nothing /\ NoFault) \/ Fault
          /\ Return("failed")
    /\ UNCHANGED <<call, task, wanted, before, cleared, destroyed, others>>

\* The temporary file of a write goes through its handle.
WDropByHandle ==
    /\ at' = IF op = "write" THEN [at EXCEPT !["source"] = Nothing] ELSE at
    /\ Return("failed")

\* Mutant of WRecheck: an attribute that was not set counts as lifted.
WRecheck_LiftsAny ==
    /\ At("recheck") /\ op \in {"write", "replace"}
    /\ at["destination"] = before
    /\ cleared' = {before} \ {Nothing}
    /\ NoFault
    /\ Goto(IF before = Nothing THEN "move by handle" ELSE "replace")
    /\ UNCHANGED <<call, at, task, wanted, before, destroyed, others>>

\* The second look. A destination that exists is opened, sharing everything,
\* and its read-only attribute lifted through that handle.
WRecheck ==
    /\ At("recheck") /\ op \in {"write", "replace"}
    /\ \/ /\ at["destination"] = before
          /\ NoFault
          /\ Goto(IF before = Nothing THEN "move by handle" ELSE "replace")
          /\ cleared' = Lifted(before)
          /\ UNCHANGED at
       \/ /\ (at["destination"] # before /\ NoFault) \/ Fault
          /\ WDropByHandle
          /\ UNCHANGED cleared
    /\ UNCHANGED <<call, task, wanted, before, destroyed, others>>

-----------------------------------------------------------------------------
(* The replacement with a backup. *)

\* The system call, for an old file, its successor and the backup name.
Replaced(old, successor, backup) ==
    [at EXCEPT ![backup] = at[old], ![old] = at[successor], ![successor] = Nothing]

\* Mutant of WReplace: without a backup name, what stops halfway loses the old file.
WReplace_NoBackup ==
    /\ At("replace")
    /\ cleared' = cleared \cup Lifted(New)
    /\ task' = "publish" /\ Goto("look after")
    /\ destroyed' = destroyed \cup ({at["destination"]} \ {Nothing})
    /\ \/ /\ NoFault
          /\ at' = [at EXCEPT !["destination"] = at["source"], !["source"] = Nothing]
       \/ /\ Fault
          /\ at' = [at EXCEPT !["destination"] = Nothing]
    /\ UNCHANGED <<call, wanted, before, others>>

\* It works, refuses without a change, stops after the old file went to the
\* backup name (1177), or is interrupted on either side.
WReplace ==
    /\ At("replace")
    /\ cleared' = cleared \cup Lifted(New)
    /\ LET found == at["destination"] # Nothing IN
       \/ /\ found /\ NoFault
          /\ at' = Replaced("destination", "source", "aside")
          /\ task' = "publish" /\ Goto("look after")
       \/ /\ ~found /\ NoFault
          /\ UNCHANGED at
          /\ task' = "undo" /\ Goto("look after")
       \/ /\ Fault
          /\ UNCHANGED at
          /\ task' = "undo" /\ Goto("look after")
       \/ /\ found /\ Fault
          /\ at' = Moved("destination", "aside")
          /\ task' = "undo" /\ Goto("look after")
       \/ /\ Fault
          /\ \/ UNCHANGED at
             \/ found /\ at' = Replaced("destination", "source", "aside")
          /\ UNCHANGED task /\ Goto("reconcile")
    /\ UNCHANGED <<call, wanted, before, destroyed, others>>

IsReplaced ==
    /\ at["destination"] = New
    /\ at["aside"] = before
    /\ at["source"] = Nothing

IsOriginal ==
    /\ at["destination"] = before
    /\ at["source"] = New
    /\ at["aside"] = Nothing

IsHalfway ==
    /\ at["destination"] = Nothing
    /\ at["source"] = New
    /\ at["aside"] = before

\* Mutant of WLookAfter: a replacement that stopped halfway is just an error.
WLookAfter_NotHalfway ==
    /\ At("look after")
    /\ Goto(IF IsReplaced THEN "finish"
            ELSE IF task = "undo" THEN "put back attributes"
            ELSE "reconcile")
    /\ UNCHANGED <<call, at, task, wanted, before, cleared, destroyed, others, faults>>

\* Where everything is decides, not what the call said; "undo" records that it
\* said no.
WLookAfter ==
    /\ At("look after")
    /\ Goto(IF IsReplaced THEN "finish"
            ELSE IF task = "undo" /\ IsHalfway THEN "complete"
            ELSE IF task = "undo" /\ IsOriginal THEN "put back attributes"
            ELSE "reconcile")
    /\ UNCHANGED <<call, at, task, wanted, before, cleared, destroyed, others, faults>>

\* The second half of a replacement that stopped halfway: a rename of the
\* source that replaces nothing.
WComplete ==
    /\ At("complete")
    /\ \/ /\ at["destination"] = Nothing
          /\ at' = Moved("source", "destination")
          /\ NoFault /\ Goto("look after")
       \/ /\ UNCHANGED at
          /\ (at["destination"] # Nothing /\ NoFault) \/ Fault
          /\ Goto("reconcile")
    /\ UNCHANGED <<call, task, wanted, before, cleared, destroyed, others>>

\* The new file is opened exclusively, gets its attributes, and stays open
\* while the backup is deleted.
WFinish ==
    /\ At("finish")
    /\ \/ /\ at["destination"] = New
          /\ at' = [at EXCEPT !["aside"] = Nothing]
          /\ destroyed' = destroyed \cup {at["aside"]}
          /\ \/ NoFault /\ cleared' = {} /\ Goto("final")
             \/ Fault /\ cleared' = cleared \ {New} /\ Goto("reconcile")
       \/ /\ (at["destination"] # New /\ NoFault) \/ Fault
          /\ Goto("reconcile")
          /\ UNCHANGED <<at, destroyed, cleared>>
    /\ UNCHANGED <<call, task, wanted, before, others>>

-----------------------------------------------------------------------------
(* Undoing a replacement. *)

\* Nothing happened; or the replacement happened, and is done backwards; or
\* the destination is empty, and gets its backup; anything else is a note.
WReconcile ==
    /\ At("reconcile")
    /\ Goto(IF /\ ~IsOriginal
               /\ at["destination"] # Nothing
               /\ at["source"] = Nothing
               /\ at["aside"] # Nothing
            THEN "replace back"
            ELSE IF /\ at["destination"] = Nothing
                    /\ at["source"] = New
                    /\ at["aside"] # Nothing
            THEN "move backup"
            ELSE "put back attributes")
    /\ UNCHANGED <<call, at, task, wanted, before, cleared, destroyed, others, faults>>

WReplaceBack ==
    /\ At("replace back")
    /\ LET found == at["destination"] # Nothing IN
       \/ /\ found /\ NoFault
          /\ at' = Replaced("destination", "aside", "source")
       \/ /\ ~found /\ NoFault /\ UNCHANGED at
       \/ /\ Fault /\ UNCHANGED at
       \/ /\ found /\ Fault
          /\ at' = Moved("destination", "source")
    /\ Goto("put back attributes")
    /\ UNCHANGED <<call, task, wanted, before, cleared, destroyed, others>>

WMoveBackup ==
    /\ At("move backup")
    /\ \/ /\ at["destination"] = Nothing
          /\ at' = Moved("aside", "destination")
          /\ NoFault
       \/ /\ UNCHANGED at
          /\ (at["destination"] # Nothing /\ NoFault) \/ Fault
    /\ Goto("put back attributes")
    /\ UNCHANGED <<call, task, wanted, before, cleared, destroyed, others>>

\* Mutant of WPutBackAttributes: the lease on the destination is not returned.
WPutBackAttributes_SourceOnly ==
    /\ At("put back attributes")
    /\ cleared' = IF at["source"] = New THEN cleared \ {New} ELSE cleared
    /\ NoFault
    /\ WFail
    /\ UNCHANGED <<call, at, task, wanted, before, destroyed, others>>

\* The source by its name, if it is there; the old file through its handle,
\* wherever it is now.
WPutBackAttributes ==
    /\ At("put back attributes")
    /\ \/ /\ cleared' = cleared \ ({before} \cup
                                   (IF at["source"] = New THEN {New} ELSE {}))
          /\ NoFault
       \/ /\ cleared' \in {cleared \ {o} : o \in {New, before}}
          /\ Fault
    /\ WFail
    /\ UNCHANGED <<call, at, task, wanted, before, destroyed, others>>

\* The temporary file, if it still is what was created, attributes and all.
WSweepTemporary ==
    /\ At("sweep temporary")
    /\ \/ /\ at["source"] = New /\ New \notin cleared
          /\ at' = [at EXCEPT !["source"] = Nothing]
          /\ NoFault
       \/ /\ UNCHANGED at
          /\ ((at["source"] # New \/ New \in cleared) /\ NoFault) \/ Fault
    /\ Return("failed")
    /\ UNCHANGED <<call, task, wanted, before, cleared, destroyed, others>>

-----------------------------------------------------------------------------
(* The rename of an open source, and the removal through a handle. *)

\* An interrupted rename is taken back, unless that fails too; a write then
\* deletes its temporary file through the handle, wherever it is.
WMoveByHandle ==
    /\ At("move by handle")
    /\ \/ /\ at["destination"] = Nothing
          /\ at' = Moved("source", "destination")
          /\ NoFault /\ Goto("final")
       \/ /\ (at["destination"] # Nothing /\ NoFault) \/ Fault
          /\ WDropByHandle
       \/ /\ at["destination"] = Nothing
          /\ faults + 2 <= MaxFaults /\ faults' = faults + 2
          /\ at' = IF op = "write"
                   THEN [at EXCEPT !["source"] = Nothing]
                   ELSE Moved("source", "destination")
          /\ Return("failed")
    /\ UNCHANGED <<call, task, wanted, before, cleared, destroyed, others>>

\* The entry is opened for deletion, and is what the first look saw.
WRemove ==
    /\ At("recheck") /\ op = "remove"
    /\ \/ /\ at["destination"] = before
          /\ at' = [at EXCEPT !["destination"] = Nothing]
          /\ destroyed' = destroyed \cup {before}
          /\ \/ NoFault /\ Goto("gone")
             \/ Fault /\ Return("failed")
       \/ /\ (at["destination"] # before /\ NoFault) \/ Fault
          /\ Return("failed")
          /\ UNCHANGED <<at, destroyed>>
    /\ UNCHANGED <<call, task, wanted, before, cleared, others>>

WGone ==
    /\ At("gone")
    /\ Return(IF at["destination"] = Nothing THEN "ok" ELSE "failed")
    /\ UNCHANGED <<call, at, task, wanted, before, cleared, destroyed, others, faults>>

\* The last look, at both names.
WFinal ==
    /\ At("final")
    /\ \/ /\ at["destination"] = New /\ at["source"] = Nothing
          /\ NoFault /\ Return("ok")
       \/ /\ at["destination"] # New \/ at["source"] # Nothing
          /\ NoFault /\ Return("failed")
       \/ Fault /\ Return("failed")
    /\ UNCHANGED <<call, at, task, wanted, before, cleared, destroyed, others>>

WindowsNext ==
    /\ system = "windows"
    /\ \/ WCreateTemporary \/ WCreateExclusive \/ WRecheck
       \/ WReplace \/ WLookAfter \/ WComplete \/ WFinish
       \/ WReconcile \/ WReplaceBack \/ WMoveBackup
       \/ WPutBackAttributes \/ WSweepTemporary
       \/ WMoveByHandle \/ WRemove \/ WGone \/ WFinal
=============================================================================
