----------------------------- MODULE PosixFiles -----------------------------
(***************************************************************************)
(* The POSIX backend of core/project_fs.py: a destination that exists is   *)
(* exchanged with the new file in one system call, what was displaced is   *)
(* moved to a random name, looked at once more and deleted; a destination  *)
(* that does not exist is filled by a rename that replaces nothing. Every  *)
(* rename is checked afterwards, and undone when it moved something else.  *)
(***************************************************************************)
EXTENDS ProjectFiles

Unwind == /\ step' = IF op = "write" THEN "sweep" ELSE "over"
          /\ result' = IF op = "write" THEN result ELSE "failed"

-----------------------------------------------------------------------------
(* Preparing. *)

\* The temporary file, created exclusively, written and synced.
PCreateTemporary ==
    /\ At("prepare") /\ op = "write"
    /\ \/ /\ at' = [at EXCEPT !["source"] = New]
          /\ NoFault /\ Goto("recheck")
       \/ /\ at' = [at EXCEPT !["source"] = New]
          /\ Fault /\ Goto("sweep")
       \/ /\ UNCHANGED at
          /\ Fault /\ Return("failed")
    /\ UNCHANGED <<call, task, wanted, before, cleared, destroyed, others>>

\* create_exclusive writes under the final name; what fails is taken back.
PCreateExclusive ==
    /\ At("prepare") /\ op = "create"
    /\ \/ /\ at["destination"] = Nothing
          /\ at' = [at EXCEPT !["destination"] = New]
          /\ \/ NoFault /\ Goto("final")
             \/ Fault /\ Goto("uncreate")
       \/ /\ at["destination"] # Nothing
          /\ NoFault /\ Return("failed")
          /\ UNCHANGED at
       \/ UNCHANGED at /\ Fault /\ Return("failed")
    /\ UNCHANGED <<call, task, wanted, before, cleared, destroyed, others>>

PUncreate ==
    /\ At("uncreate")
    /\ task' = "uncreate"
    /\ IF at["destination"] = New THEN Goto("set aside") ELSE Return("failed")
    /\ UNCHANGED <<call, at, wanted, before, cleared, destroyed, others, faults>>

\* The second look, and the descriptors that pin what it saw.
PRecheck ==
    /\ At("recheck")
    /\ task' = IF op = "remove" THEN "remove" ELSE "publish"
    /\ IF /\ AncestryHolds
          /\ at["destination"] = before
          /\ op = "replace" => at["source"] = New
       THEN Goto(IF op = "remove" THEN "set aside"
                 ELSE IF before = Nothing THEN "move" ELSE "check exchange")
       ELSE Unwind
    /\ UNCHANGED <<call, at, wanted, before, cleared, destroyed, others, faults>>

-----------------------------------------------------------------------------
(* The checked exchange of source and destination. *)

PCheckExchange ==
    /\ At("check exchange")
    /\ IF /\ at["source"] = wanted.source
          /\ at["destination"] = wanted.destination
       THEN Goto("exchange")
       ELSE Unwind
    /\ UNCHANGED <<call, at, task, wanted, before, cleared, destroyed, others, faults>>

Exchanged == [at EXCEPT !["source"] = at["destination"],
                        !["destination"] = at["source"]]

BothExist == at["source"] # Nothing /\ at["destination"] # Nothing

\* Mutant of PExchange: the old object is unlinked and its name filled by a rename.
PExchange_Unlinks ==
    /\ At("exchange")
    /\ at' = [at EXCEPT !["destination"] = Nothing]
    /\ destroyed' = destroyed \cup ({at["destination"]} \ {Nothing})
    /\ NoFault /\ Goto("move")
    /\ UNCHANGED <<call, task, wanted, before, cleared, others>>

PExchange ==
    /\ At("exchange")
    /\ \/ /\ BothExist
          /\ at' = Exchanged
          /\ \/ NoFault /\ Goto("confirm exchange")
             \/ Fault /\ Goto("reconcile exchange")
       \/ /\ UNCHANGED at
          /\ \/ ~BothExist /\ NoFault
             \/ Fault
          /\ Goto("reconcile exchange")
    /\ UNCHANGED <<call, task, wanted, before, cleared, destroyed, others>>

\* The exchange moved exactly the pair it was to move: the displaced object is
\* discarded, or, after an undo, the new file of a write.
PConfirmExchange ==
    /\ At("confirm exchange")
    /\ \/ /\ at["source"] = wanted.destination
          /\ at["destination"] = wanted.source
          /\ task' = IF task = "publish" THEN "discard" ELSE "retry"
          /\ IF task = "undo" /\ op # "write"
             THEN Return("failed")
             ELSE Goto("set aside")
       \/ /\ \/ at["source"] # wanted.destination
             \/ at["destination"] # wanted.source
          /\ Goto("reconcile exchange")
          /\ UNCHANGED task
    /\ UNCHANGED <<call, at, wanted, before, cleared, destroyed, others, faults>>

\* Whether a second exchange brings the pair back: both names hold something,
\* neither holds what it held before, and one holds what the other held.
ExchangeIsReversible ==
    /\ BothExist
    /\ at["source"] # wanted.source
    /\ at["destination"] # wanted.destination
    /\ \/ at["source"] = wanted.destination
       \/ at["destination"] = wanted.source

PReconcileExchange ==
    /\ At("reconcile exchange")
    /\ IF ExchangeIsReversible THEN Goto("exchange back") ELSE Unwind
    /\ UNCHANGED <<call, at, task, wanted, before, cleared, destroyed, others, faults>>

\* Whatever this finds afterwards is a note on the error that is raised.
PExchangeBack ==
    /\ At("exchange back")
    /\ \/ BothExist /\ at' = Exchanged /\ NoFault
       \/ ~BothExist /\ UNCHANGED at /\ NoFault
       \/ UNCHANGED at /\ Fault
    /\ Unwind
    /\ UNCHANGED <<call, task, wanted, before, cleared, destroyed, others>>

-----------------------------------------------------------------------------
(* The checked rename to a destination that does not exist. *)

CanMove == at["source"] # Nothing /\ at["destination"] = Nothing

PMove ==
    /\ At("move")
    /\ \/ /\ CanMove
          /\ at' = Moved("source", "destination")
          /\ \/ NoFault /\ Goto("confirm move")
             \/ Fault /\ Goto("reconcile move")
       \/ /\ UNCHANGED at
          /\ \/ ~CanMove /\ NoFault
             \/ Fault
          /\ Goto("reconcile move")
    /\ UNCHANGED <<call, task, wanted, before, cleared, destroyed, others>>

\* Neither name can be looked at safely.
MoveIsUnreadable ==
    \/ ~Ordinary(at["source"])
    \/ ~Ordinary(at["destination"])

PConfirmMove ==
    /\ At("confirm move")
    /\ \/ /\ MoveIsUnreadable \/ at["destination"] = Nothing
          /\ Goto("reconcile move")
       \/ /\ ~MoveIsUnreadable
          /\ at["destination"] = New /\ at["source"] = Nothing
          /\ Goto("final")
       \/ /\ ~MoveIsUnreadable
          /\ at["destination"] \notin {New, Nothing} /\ at["source"] = Nothing
          /\ Goto("move back")
       \/ /\ ~MoveIsUnreadable
          /\ at["destination"] # Nothing /\ at["source"] # Nothing
          /\ Unwind
    /\ UNCHANGED <<call, at, task, wanted, before, cleared, destroyed, others, faults>>

PReconcileMove ==
    /\ At("reconcile move")
    /\ IF ~MoveIsUnreadable /\ at["source"] = Nothing /\ at["destination"] # Nothing
       THEN Goto("move back")
       ELSE Unwind
    /\ UNCHANGED <<call, at, task, wanted, before, cleared, destroyed, others, faults>>

PMoveBack ==
    /\ At("move back")
    /\ \/ /\ at["source"] = Nothing /\ at["destination"] # Nothing
          /\ at' = Moved("destination", "source")
          /\ NoFault
       \/ /\ at["source"] # Nothing \/ at["destination"] = Nothing
          /\ UNCHANGED at
          /\ NoFault
       \/ UNCHANGED at /\ Fault
    /\ Unwind
    /\ UNCHANGED <<call, task, wanted, before, cleared, destroyed, others>>

-----------------------------------------------------------------------------
(* Deleting: set aside under a random name, looked at, unlinked. *)

\* The entry the current task deletes, and what it has to be.
Doomed == IF task \in {"remove", "uncreate"} THEN "destination" ELSE "source"

DoomedObject == IF task \in {"discard", "remove"} THEN before ELSE New

AfterDelete ==
    CASE task = "discard" -> Goto("final")
      [] task = "remove"  -> Goto("final")
      [] task = "retry"   -> Goto("sweep")
      [] OTHER            -> Return("failed")

DeleteFails ==
    CASE task = "discard" -> Goto("undo")
      [] task = "retry"   -> Goto("sweep")
      [] OTHER            -> Return("failed")

PSetAside ==
    /\ At("set aside")
    /\ \/ /\ at[Doomed] # Nothing
          /\ at' = Moved(Doomed, "aside")
          /\ \/ NoFault /\ Goto("inspect")
             \/ Fault /\ Goto("restore")
       \/ /\ UNCHANGED at
          /\ \/ at[Doomed] = Nothing /\ NoFault
             \/ Fault
          /\ Goto("restore")
    /\ UNCHANGED <<call, task, wanted, before, cleared, destroyed, others>>

\* Mutant of PInspect: what was set aside is deleted unseen.
PInspect_Blind ==
    /\ At("inspect")
    /\ Goto("delete")
    /\ UNCHANGED <<call, at, task, wanted, before, cleared, destroyed, others, faults>>

\* Mutant of PInspect: another program's file that was set aside stays there.
PInspect_Leaves ==
    /\ At("inspect")
    /\ \/ /\ at["aside"] = DoomedObject
          /\ at[Doomed] = Nothing
          /\ Goto("delete")
       \/ /\ at["aside"] # DoomedObject \/ at[Doomed] # Nothing
          /\ DeleteFails
    /\ UNCHANGED <<call, at, task, wanted, before, cleared, destroyed, others, faults>>

\* What was set aside is the pinned object, and nothing took its place; else
\* it goes back, if its name is still free.
PInspect ==
    /\ At("inspect")
    /\ \/ /\ ~Ordinary(at["aside"]) \/ ~Ordinary(at[Doomed])
          /\ Goto("restore")
          /\ UNCHANGED at /\ NoFault
       \/ /\ at["aside"] = DoomedObject
          /\ at[Doomed] = Nothing
          /\ Goto("delete")
          /\ UNCHANGED at /\ NoFault
       \/ /\ Ordinary(at["aside"]) /\ at["aside"] # DoomedObject
          /\ at[Doomed] = Nothing
          /\ DeleteFails
          /\ \/ at' = Moved("aside", Doomed) /\ NoFault
             \/ UNCHANGED at /\ Fault
       \/ /\ Ordinary(at["aside"]) /\ Ordinary(at[Doomed])
          /\ at[Doomed] # Nothing
          /\ DeleteFails
          /\ UNCHANGED at /\ NoFault
    /\ UNCHANGED <<call, task, wanted, before, cleared, destroyed, others>>

PDelete ==
    /\ At("delete")
    /\ \/ /\ at' = [at EXCEPT !["aside"] = Nothing]
          /\ destroyed' = destroyed \cup {at["aside"]}
          /\ \/ NoFault /\ AfterDelete
             \/ Fault /\ Goto("undelete")
       \/ /\ Fault /\ Goto("undelete")
          /\ UNCHANGED <<at, destroyed>>
    /\ UNCHANGED <<call, task, wanted, before, cleared, others>>

\* Back under the name it had, file or empty directory, when that is free.
BackToItsName ==
    /\ at[Doomed] = Nothing
    /\ at["aside"] = DoomedObject
    /\ at["aside"] # Nothing

PUndelete ==
    /\ At("undelete")
    /\ Goto("restore")
    /\ \/ BackToItsName /\ at' = Moved("aside", Doomed) /\ NoFault
       \/ ~BackToItsName /\ UNCHANGED at /\ NoFault
       \/ UNCHANGED at /\ Fault
    /\ UNCHANGED <<call, task, wanted, before, cleared, destroyed, others>>

\* reconcile_interruption: the last attempt to give the entry its name back.
PRestore ==
    /\ At("restore")
    /\ DeleteFails
    /\ \/ BackToItsName /\ at' = Moved("aside", Doomed) /\ NoFault
       \/ ~BackToItsName /\ UNCHANGED at /\ NoFault
       \/ UNCHANGED at /\ Fault
    /\ UNCHANGED <<call, task, wanted, before, cleared, destroyed, others>>

\* The displaced object could not be deleted: the exchange is done backwards.
PUndo ==
    /\ At("undo")
    /\ task' = "undo"
    /\ wanted' = [source |-> at["source"], destination |-> New]
    /\ IF at["source"] = Nothing THEN Unwind ELSE Goto("check exchange")
    /\ UNCHANGED <<call, at, before, cleared, destroyed, others, faults>>

\* The temporary file of a write that was not published.
PSweep ==
    /\ At("sweep")
    /\ task' = "sweep"
    /\ IF at["source"] = New THEN Goto("set aside") ELSE Return("failed")
    /\ UNCHANGED <<call, at, wanted, before, cleared, destroyed, others, faults>>

\* Mutant of PFinal: success is reported without a last look.
PFinal_Trusts ==
    /\ At("final")
    /\ Return("ok")
    /\ UNCHANGED <<call, at, task, wanted, before, cleared, destroyed, others, faults>>

\* The last look, the sync of the directory and the ancestors.
PFinal ==
    /\ At("final")
    /\ \/ /\ AncestryHolds
          /\ op = "remove" \/ at["destination"] = New
          /\ NoFault /\ Return("ok")
       \/ /\ ~AncestryHolds \/ (op # "remove" /\ at["destination"] # New)
          /\ NoFault /\ Return("failed")
       \/ Fault /\ Return("failed")
    /\ UNCHANGED <<call, at, task, wanted, before, cleared, destroyed, others>>

PosixNext ==
    /\ system = "posix"
    /\ \/ PCreateTemporary \/ PCreateExclusive \/ PUncreate \/ PRecheck
       \/ PCheckExchange \/ PExchange \/ PConfirmExchange
       \/ PReconcileExchange \/ PExchangeBack
       \/ PMove \/ PConfirmMove \/ PReconcileMove \/ PMoveBack
       \/ PSetAside \/ PInspect \/ PDelete \/ PUndelete \/ PRestore
       \/ PUndo \/ PSweep \/ PFinal
=============================================================================
