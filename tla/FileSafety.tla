----------------------------- MODULE FileSafety -----------------------------
(***************************************************************************)
(* What a call of core/project_fs.py promises on either system, whatever   *)
(* other programs do to the names it works on, whichever system call fails *)
(* and wherever the process ends.                                          *)
(***************************************************************************)
EXTENDS PosixFiles, WindowsFiles

FilesNext ==
    \/ Look
    \/ PosixNext
    \/ WindowsNext
    \/ Others(WPinned)
    \/ OthersMoveDirectory
    \/ Die

FilesSpec == FilesInit /\ [][FilesNext]_filesVars

-----------------------------------------------------------------------------
Publishes == op \in {"write", "replace"}

Undisturbed == touched = {} /\ inPlace

Over == step = "over"

\* A call deletes its own temporary file and the object it was called for,
\* never what another program put under a name.
OnlyOwnDestroyed == destroyed \cap Foreign = {}

\* The old object is deleted only after the new one took its name.
OldOutlivesPublication ==
    Publishes /\ before = Old /\ Undisturbed /\ Old \in destroyed
        => at["destination"] = New

\* Readers of a POSIX project find the whole old or the whole new file at every
\* moment, also when the process ends in the middle.
ReadersFindAFile ==
    system = "posix" /\ Publishes /\ before = Old /\ Undisturbed
        => at["destination"] \in {Old, New}

\* Compare and swap: a call that reports success displaced exactly the object
\* it looked at, and nobody changed the name in between.
SuccessIsASwap ==
    result = "ok" /\ Publishes /\ before = Old
        => /\ at["destination"] = New
           /\ system = "posix" => "destination" \notin touched
           /\ destroyed = {Old}
           /\ at["aside"] = Nothing

\* One failure is undone: the call reports success, or everything is as it was,
\* or the new file is in place and the old one gone.
OneFaultIsUndone ==
    result = "failed" /\ faults <= 1 /\ Undisturbed /\ Publishes /\ before \in {Old, Nothing}
        => /\ at["aside"] = Nothing
           /\ \/ /\ at["destination"] = before
                 /\ at["source"] = IF op = "replace" THEN New ELSE Nothing
              \/ at["destination"] = New /\ at["source"] = Nothing

\* A file that another program saves under a name that is being removed or
\* created keeps that name, whichever moment it chooses.
RacedNameIsKept ==
    /\ result # "none" /\ faults = 0 /\ moves = 1
    /\ op \in {"remove", "create"}
    => \A f \in used \ Unsafe : at["destination"] = f

\* A call that failed leaves no file of the caller writable that was read-only.
AttributesAreReturned ==
    result # "none" /\ faults <= 1 /\ Undisturbed
        => \A o \in cleared : o \in destroyed

\* A publication is atomic: its name holds a whole file at every moment on
\* POSIX, and on both systems the old file lives until the new one has its name
\* (atomic_write, replace_file).
PublicationIsAtomic == ReadersFindAFile /\ OldOutlivesPublication

\* A call is all or nothing: success is a swap of exactly what it looked at, one
\* failure is undone, attributes included, and a race leaves the other program's
\* file under its name (every mutating call of core/project_fs.py).
CallIsAllOrNothing ==
    SuccessIsASwap /\ OneFaultIsUndone /\ AttributesAreReturned /\ RacedNameIsKept
=============================================================================
