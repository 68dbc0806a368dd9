---------------------------- MODULE DatabaseBackup ----------------------------
(***************************************************************************)
(* A database file under the program's own connections: to read it, to     *)
(* write to it, to inspect one that is not in write-ahead mode, and to     *)
(* copy it to a backup (SqliteStore and _verified_sqlite_connection in     *)
(* core/store.py).                                                         *)
(* The operation lock lets one of them run at a time (OperationLock). The  *)
(* program does not control what lies beside the database: SQLite makes    *)
(* its write-ahead log, and plays back a rollback journal it finds. So the *)
(* identities of these files are noted and compared around every use.      *)
(*                                                                         *)
(* Other programs may put a file of theirs under any of the names, write   *)
(* over what is there, or remove it; the process may end at any step.      *)
(* "wal" stands for the log and its index. Replacing and removing a file   *)
(* are the operations of ProjectFiles, here one step each.                 *)
(***************************************************************************)
EXTENDS Naturals

CONSTANTS
    MaxStoreCalls,      \* bound on the transactions and backups
    MaxIntrusions       \* bound on what other programs do

ASSUME StoreBoundsAssumption == MaxStoreCalls \in Nat /\ MaxIntrusions \in Nat

VARIABLES
    storeStep,      \* where the call is
    storeCall,      \* what it does: see StoreKinds
    disk,           \* the file under each name
    sighted,        \* the identity noted for each name
    copied,         \* the content of the database when it was copied
    digested,       \* the content of the copy when its digest was taken
    published,      \* whether the copy has replaced the target
    playedBack,     \* whether SQLite played back a journal that was there when
                    \* the names were compared
    altered,        \* names others have touched since they were last compared
    lost,           \* files of others that the program destroyed
    storeCalls,     \* calls begun
    intrusions      \* what other programs did

storeVars == <<storeStep, storeCall, disk, sighted, copied, digested, published,
               playedBack, altered, lost, storeCalls, intrusions>>

Family == {"db", "wal", "journal"}
TargetFamily == {"target", "targetWal"}
TemporaryFamily == {"temporary", "temporaryWal"}
DiskNames == Family \cup TargetFamily \cup TemporaryFamily

\* Identities: none, of the program and SQLite, of the former target, of the
\* copy; then those of other programs, which are not used twice.
NoFile == 0
Ours == 1
Former == 2
Copy == 3
Identities == 0 .. Copy + MaxIntrusions
IsForeign(i) == i > Copy

Stored == {"nothing", "v0", "v1", "part", "other"}
Absence == [id |-> NoFile, content |-> "nothing"]
Present(n) == disk[n] # Absence

\* To overlap is to be given a file of the database as the target of a backup.
StoreKinds == {"use", "inspect", "backup", "overlap"}

StoreSteps ==
    {"called", "noted", "verified", "setup", "refreshed", "open", "closing", "looked",
     "reserved", "ready", "copied", "checked", "closed", "digested", "compared",
     "published", "confirmed", "failing", "failed", "done", "crashed"}
StoreOver == {"done", "failed", "crashed"}

StoreTypeOK ==
    /\ storeStep \in StoreSteps
    /\ storeCall \in StoreKinds
    /\ disk \in [DiskNames -> [id : Identities, content : Stored]]
    /\ sighted \in [DiskNames -> Identities]
    /\ copied \in Stored /\ digested \in Stored
    /\ published \in BOOLEAN /\ playedBack \in BOOLEAN
    /\ sighted["temporary"] \in {NoFile, Copy}
    /\ published => sighted["target"] = Copy
    /\ altered \subseteq DiskNames
    /\ lost \subseteq Identities
    /\ storeCalls \in 0 .. MaxStoreCalls
    /\ intrusions \in 0 .. MaxIntrusions

StoreInit ==
    /\ storeStep = "done"
    /\ storeCall = "use"
    /\ \E t \in {Absence, [id |-> Former, content |-> "other"]} :
           disk = [n \in DiskNames |->
                      CASE n = "db" -> [id |-> Ours, content |-> "v0"]
                        [] n = "target" -> t
                        [] OTHER -> Absence]
    /\ sighted = [n \in DiskNames |-> NoFile]
    /\ copied = "nothing"
    /\ digested = "nothing"
    /\ published = FALSE
    /\ playedBack = FALSE
    /\ altered = {}
    /\ lost = {}
    /\ storeCalls = 0
    /\ intrusions = 0

-----------------------------------------------------------------------------
(* Comparing what is under the names with what was noted. *)

Sight(names) == [n \in DiskNames |-> IF n \in names THEN disk[n].id ELSE sighted[n]]

\* Mutant of Unchanged: a file that was not there before is accepted.
Unchanged_AllowsNew(n) == disk[n].id = sighted[n] \/ sighted[n] = NoFile

Unchanged(n) == disk[n].id = sighted[n]

Authority == \A n \in Family : Unchanged(n)

\* When the connection is closed SQLite removes what it had made.
AuthorityAfterClose == \A n \in Family : Unchanged(n) \/ (n # "db" /\ ~Present(n))

\* In write-ahead mode SQLite makes a missing log and may drop one; nothing else
\* may differ.
OnlyLogIsNew ==
    \A n \in Family : \/ Unchanged(n)
                      \/ n = "wal" /\ (sighted[n] = NoFile \/ ~Present(n))

AsOpened == IF storeCall = "inspect" THEN Authority ELSE OnlyLogIsNew

TargetAsSeen == \A n \in TargetFamily : Unchanged(n)

\* The call goes on if what it compares is as expected.
Proceed(from, to, condition) ==
    /\ storeStep = from
    /\ storeStep' = IF condition THEN to ELSE "failing"

Compared(names) == altered' = altered \ names

-----------------------------------------------------------------------------
(* A connection. *)

BeginStoreCall ==
    /\ storeStep \in StoreOver
    /\ storeCalls < MaxStoreCalls
    /\ storeCalls' = storeCalls + 1
    /\ storeStep' = "called"
    /\ storeCall' \in StoreKinds
    /\ sighted' = [n \in DiskNames |-> IF n = "db" THEN disk[n].id ELSE NoFile]
    /\ copied' = "nothing"
    /\ digested' = "nothing"
    /\ published' = FALSE
    /\ playedBack' = FALSE
    /\ altered' = {}
    /\ UNCHANGED <<disk, lost, intrusions>>

CallData == <<storeCall, storeCalls, intrusions>>
CopyData == <<copied, digested, published>>

NoteFamily ==
    /\ storeStep = "called"
    /\ storeStep' = "noted"
    /\ sighted' = Sight(Family \ {"db"})
    /\ altered' = altered \ {"wal", "journal"}
    /\ UNCHANGED <<CallData, CopyData, disk, playedBack, lost>>

\* Connected, and compared before any SQL.
VerifyConnection ==
    /\ Proceed("noted", "verified", Authority)
    /\ Compared(Family)
    /\ UNCHANGED <<CallData, CopyData, disk, sighted, playedBack, lost>>

\* The first SQL: a journal is played back and removed, a missing log is made.
FirstSql ==
    /\ storeStep = "verified"
    /\ storeStep' = "setup"
    /\ disk' = [disk EXCEPT
                  !["db"].content = IF Present("journal") THEN "other" ELSE @,
                  !["journal"] = Absence,
                  !["wal"] = IF Present("wal") \/ storeCall = "inspect" THEN @
                             ELSE [id |-> Ours, content |-> "other"]]
    /\ playedBack' = (playedBack \/ (Present("journal") /\ "journal" \notin altered))
    /\ UNCHANGED <<CallData, CopyData, sighted, altered, lost>>

\* Another connection holds the database: closed, and tried again until the
\* deadline.
SqlIsLocked ==
    /\ storeStep = "verified"
    /\ \/ Proceed("verified", "called", Authority)
       \/ storeStep' = "failing"
    /\ UNCHANGED <<CallData, CopyData, disk, sighted, playedBack, altered, lost>>

RefreshFamily ==
    /\ Proceed("setup", "refreshed", AsOpened)
    /\ sighted' = IF AsOpened THEN Sight({"wal"}) ELSE sighted
    /\ Compared(Family)
    /\ UNCHANGED <<CallData, CopyData, disk, playedBack, lost>>

VerifyOpen ==
    /\ Proceed("refreshed", "open", Authority)
    /\ Compared(Family)
    /\ UNCHANGED <<CallData, CopyData, disk, sighted, playedBack, lost>>

\* What the connection is for: to change the facts or only to read them.
Use ==
    /\ storeStep = "open" /\ storeCall \in {"use", "inspect"}
    /\ storeStep' = "closing"
    /\ \/ storeCall = "use"
          /\ disk' = [disk EXCEPT !["db"].content =
                         IF @ = "v0" THEN "v1" ELSE IF @ = "v1" THEN "v0" ELSE @]
       \/ UNCHANGED disk
    /\ UNCHANGED <<CallData, CopyData, sighted, playedBack, altered, lost>>

\* SQLite removes its log, by name, when nobody else has the database open.
AfterClose == {disk, [disk EXCEPT !["wal"] = Absence]}

\* Compared, closed and compared again.
CloseUsed ==
    /\ storeStep = "closing"
    /\ disk' \in AfterClose
    /\ storeStep' = IF Authority THEN "done" ELSE "failed"
    /\ Compared(Family)
    /\ UNCHANGED <<CallData, CopyData, sighted, playedBack, lost>>

-----------------------------------------------------------------------------
(* The copy. *)

\* A target that is a file of the database itself is refused, and so is one with
\* a log or a journal of its own beside it.
LookAtTarget ==
    /\ storeCall \in {"backup", "overlap"}
    /\ Proceed("open", "looked", storeCall # "overlap" /\ ~Present("targetWal"))
    /\ sighted' = Sight(TargetFamily)
    /\ altered' = altered \ TargetFamily
    /\ UNCHANGED <<CallData, CopyData, disk, playedBack, lost>>

\* The names of the copy are random: one that is in use, or was left by another
\* call, is passed over.
Reserve ==
    /\ storeStep = "looked"
    /\ storeStep' = "reserved"
    /\ disk' = [disk EXCEPT !["temporary"] = [id |-> Copy, content |-> "nothing"],
                            !["temporaryWal"] = Absence]
    /\ sighted' = [sighted EXCEPT !["temporary"] = Copy]
    /\ Compared(TemporaryFamily)
    /\ UNCHANGED <<CallData, CopyData, playedBack, lost>>

OpenTemporary ==
    /\ Proceed("reserved", "ready", \A n \in TemporaryFamily : Unchanged(n))
    /\ Compared(TemporaryFamily)
    /\ UNCHANGED <<CallData, CopyData, disk, sighted, playedBack, lost>>

\* Mutant of CopyTo: SQLite copies to the target itself.
CopyTo_Target == "target"

CopyTo == "temporary"

\* SQLite writes to the file it has open, page by page; if the name has another
\* file by now, that one is left alone.
CopyPages ==
    /\ storeStep = "ready"
    /\ copied' = disk["db"].content
    /\ \E written \in {disk["db"].content, "part"} :
          /\ storeStep' = IF written = "part" THEN "failing" ELSE "copied"
          /\ disk' = IF disk["temporary"].id = Copy
                     THEN [disk EXCEPT ![CopyTo] = [@ EXCEPT !.content = written]]
                     ELSE disk
    /\ altered' = altered \ {"temporary"}
    /\ UNCHANGED <<CallData, digested, published, sighted, playedBack, lost>>

\* The identity of the copy; then its integrity and its foreign keys.
CheckCopy ==
    /\ \/ Proceed("copied", "checked", Unchanged("temporary"))
       \/ storeStep = "copied" /\ storeStep' = "failing"
    /\ UNCHANGED <<CallData, CopyData, disk, sighted, playedBack, altered, lost>>

\* Nothing may be left beside the copy. Then the database is closed.
CloseSource ==
    /\ Proceed("checked", "closed", ~Present("temporaryWal") /\ Authority)
    /\ disk' \in IF Present("temporaryWal") THEN {disk} ELSE AfterClose
    /\ Compared(Family)
    /\ UNCHANGED <<CallData, CopyData, sighted, playedBack, lost>>

TakeDigest ==
    /\ Proceed("closed", "digested", Unchanged("temporary"))
    /\ digested' = disk["temporary"].content
    /\ UNCHANGED <<CallData, copied, published, disk, sighted, playedBack, altered, lost>>

CompareBefore ==
    /\ Proceed("digested", "compared", AuthorityAfterClose /\ TargetAsSeen)
    /\ altered' = altered \ (Family \cup TargetFamily)
    /\ UNCHANGED <<CallData, CopyData, disk, sighted, playedBack, lost>>

\* Mutant of MayReplace: whatever has the name of the copy is published.
MayReplace_AnyCopy == Present("temporary") /\ Unchanged("target")

\* The files the replacement expects.
MayReplace == Unchanged("temporary") /\ Unchanged("target")

PublishCopy ==
    /\ Proceed("compared", "published", MayReplace)
    /\ published' = MayReplace
    /\ disk' = IF MayReplace
               THEN [disk EXCEPT !["target"] = disk["temporary"], !["temporary"] = Absence]
               ELSE disk
    /\ sighted' = IF MayReplace
                  THEN [sighted EXCEPT !["target"] = disk["temporary"].id]
                  ELSE sighted
    /\ lost' = IF MayReplace /\ disk["target"].id # sighted["target"]
               THEN lost \cup {disk["target"].id} ELSE lost
    /\ altered' = altered \ {"target"}
    /\ UNCHANGED <<CallData, copied, digested, playedBack>>

\* Mutant of TargetIsTheCopy: its identity is enough.
TargetIsTheCopy_ByName == Unchanged("target")

TargetIsTheCopy == Unchanged("target") /\ disk["target"].content = digested

\* What is there now, and what is beside it, is compared twice.
ConfirmCopy ==
    /\ Proceed("published", "confirmed", TargetIsTheCopy /\ Unchanged("targetWal"))
    /\ altered' = altered \ TargetFamily
    /\ UNCHANGED <<CallData, CopyData, disk, sighted, playedBack, lost>>

ConfirmAgain ==
    /\ Proceed("confirmed", "done",
               AuthorityAfterClose /\ TargetIsTheCopy /\ Unchanged("targetWal"))
    /\ altered' = altered \ (Family \cup TargetFamily)
    /\ UNCHANGED <<CallData, CopyData, disk, sighted, playedBack, lost>>

-----------------------------------------------------------------------------
(* The end of a call that fails. *)

\* Mutant of MayRemove: whatever has the name of the copy is removed.
MayRemove_Any == sighted["temporary"] = Copy /\ ~published

\* The copy is removed if it is still the file that was made and was not
\* published; what lies beside it is left where it is.
MayRemove == sighted["temporary"] = Copy /\ ~published /\ Unchanged("temporary")

CleanUp ==
    /\ storeStep = "failing"
    /\ storeStep' = "failed"
    /\ \E d \in AfterClose :
          disk' = IF MayRemove THEN [d EXCEPT !["temporary"] = Absence] ELSE d
    /\ lost' = IF MayRemove /\ IsForeign(disk["temporary"].id)
               THEN lost \cup {disk["temporary"].id} ELSE lost
    /\ UNCHANGED <<CallData, CopyData, sighted, playedBack, altered>>

\* Any input or output may fail.
FailStoreCall ==
    /\ storeStep \notin StoreOver \cup {"failing"}
    /\ storeStep' = "failing"
    /\ UNCHANGED <<CallData, CopyData, disk, sighted, playedBack, altered, lost>>

\* The process ends. The name of a copy it leaves is random and not met again.
CrashStore ==
    /\ storeStep \notin StoreOver
    /\ storeStep' = "crashed"
    /\ disk' = [n \in DiskNames |-> IF n \in TemporaryFamily THEN Absence ELSE disk[n]]
    /\ UNCHANGED <<CallData, CopyData, sighted, playedBack, altered, lost>>

-----------------------------------------------------------------------------
(* Other programs. They do not remove the database, and meet the names of the  *)
(* copy while it is there.                                                     *)

Intrude ==
    /\ intrusions < MaxIntrusions
    /\ storeStep \notin StoreOver
    /\ intrusions' = intrusions + 1
    /\ \E n \in DiskNames :
          /\ disk' \in {[disk EXCEPT ![n] = [id |-> Copy + intrusions', content |-> "other"]]}
                       \cup (IF Present(n) THEN {[disk EXCEPT ![n].content = "other"]} ELSE {})
                       \cup (IF n # "db" THEN {[disk EXCEPT ![n] = Absence]} ELSE {})
          /\ n \in TemporaryFamily => sighted["temporary"] = Copy
          /\ altered' = altered \cup {n}
    /\ UNCHANGED <<storeStep, storeCall, storeCalls, CopyData, sighted, playedBack, lost>>

StoreNext ==
    \/ BeginStoreCall
    \/ NoteFamily
    \/ VerifyConnection
    \/ FirstSql
    \/ SqlIsLocked
    \/ RefreshFamily
    \/ VerifyOpen
    \/ Use
    \/ CloseUsed
    \/ LookAtTarget
    \/ Reserve
    \/ OpenTemporary
    \/ CopyPages
    \/ CheckCopy
    \/ CloseSource
    \/ TakeDigest
    \/ CompareBefore
    \/ PublishCopy
    \/ ConfirmCopy
    \/ ConfirmAgain
    \/ CleanUp
    \/ FailStoreCall
    \/ CrashStore
    \/ Intrude

StoreSpec == StoreInit /\ [][StoreNext]_storeVars

-----------------------------------------------------------------------------
\* A backup file is never a part of one: a call that fails or a process that ends
\* leaves what was there or a whole copy.
TargetIsWhole == disk["target"].content \notin {"nothing", "part"} \/ ~Present("target")

\* A backup that succeeds holds what the database held, alone under its name,
\* unless the copy was written to in its hiding place, or the target after it was
\* looked at for the last time.
SuccessIsACopy ==
    storeStep = "done" /\ storeCall = "backup" =>
        /\ "target" \notin altered =>
              disk["target"].content = (IF "temporary" \in altered THEN digested ELSE copied)
        /\ "targetWal" \notin altered => ~Present("targetWal")

\* No file another program put under the names of the target and of the copy is
\* destroyed, except one written over the target before the call looked at it.
OthersAreKept == lost = {}

\* A call in which SQLite played back a journal does not succeed, unless the
\* journal came after the comparison just before the first SQL.
PlayedBackIsRefused == playedBack => storeStep # "done"

\* A database and its backups survive what others do beside them: no half backup,
\* no success that is no copy, no foreign file lost, no foreign journal played
\* back unnoticed (SqliteStore).
StoreIsSafe == TargetIsWhole /\ SuccessIsACopy /\ OthersAreKept /\ PlayedBackIsRefused
=============================================================================
