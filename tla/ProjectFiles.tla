---------------------------- MODULE ProjectFiles ----------------------------
(***************************************************************************)
(* One call of core/project_fs.py on files of a project directory that     *)
(* other programs use at the same time: what the call and the others see,  *)
(* and what the others may do. PosixFiles and WindowsFiles add the steps   *)
(* of the two backends, FileSafety what both promise.                      *)
(*                                                                         *)
(* A call writes (publishes a temporary file under a name), replaces (one  *)
(* existing file by another), creates (exclusively) or removes (a file, or *)
(* an empty directory, which takes the same steps). It works on directory  *)
(* entries: "destination" is the entry the caller named, "source" the      *)
(* temporary file or the file that replaces it, and "aside" the random     *)
(* name an entry is moved to before it is deleted.                         *)
(*                                                                         *)
(* Simplifications.                                                        *)
(*  - An object is its identity (volume, file id, kind, links); contents   *)
(*    are not compared by the code either.                                 *)
(*  - Another program acts on the names it can know: never on the random   *)
(*    temporary and quarantine names (the threat model of the source).     *)
(*  - Two looks with nothing between them are one step; a system call is   *)
(*    one step that works, fails before it did anything or fails after.    *)
(***************************************************************************)
EXTENDS Naturals, FiniteSets

CONSTANTS
    Foreign,        \* the objects other programs may put under a name
    Unsafe,         \* those a call refuses: links, directories, devices
    MaxMoves,       \* bound on what others do during one call
    MaxFaults       \* bound on the system calls that fail in one call

ASSUME UnsafeAssumption == Unsafe \subseteq Foreign
ASSUME ForeignAssumption == Foreign \cap {"old", "new", "nothing"} = {}
ASSUME BoundsAssumption == MaxMoves \in Nat /\ MaxFaults \in Nat

Nothing == "nothing"
Old == "old"            \* what the destination held when the call began
New == "new"            \* what the call is to put there

Object == {Old, New} \cup Foreign
Names == {"destination", "source", "aside"}

VARIABLES
    system,     \* the backend: "posix" or "windows"
    op,         \* the operation called
    readonly,   \* which of Old and New carry a read-only attribute (Windows)
    at,         \* what every name holds
    inPlace,    \* whether the path still leads to the pinned directory
    step,       \* where the call is
    task,       \* what the current rename is for
    wanted,     \* the pair an exchange has to find
    before,     \* what the destination held at the first look
    cleared,    \* whose read-only attribute is lifted at the moment
    destroyed,  \* the objects the call deleted for good
    touched,    \* the names others changed since the first look
    used,       \* the foreign objects that were put somewhere
    moves,      \* how often others acted since the first look
    faults,     \* the system calls that failed
    result      \* "none", "ok" or "failed"

\* What the caller fixed.
call == <<system, op, readonly>>

\* What only others change.
others == <<inPlace, touched, used, moves>>

filesVars == <<call, at, step, task, wanted, before, cleared, destroyed, others,
               faults, result>>

Tasks == {"publish", "discard", "undo", "retry", "sweep", "remove", "uncreate"}

FilesTypeOK ==
    /\ system \in {"posix", "windows"}
    /\ op \in {"write", "replace", "create", "remove"}
    /\ readonly \subseteq {Old, New}
    /\ at \in [Names -> Object \cup {Nothing}]
    /\ inPlace \in BOOLEAN
    /\ task \in Tasks
    /\ wanted \in [source : Object \cup {Nothing}, destination : Object \cup {Nothing}]
    /\ before \in Object \cup {Nothing}
    /\ cleared \subseteq readonly
    /\ destroyed \subseteq Object
    /\ touched \subseteq Names
    /\ used \subseteq Foreign
    /\ moves \in 0 .. MaxMoves
    /\ faults \in 0 .. MaxFaults
    /\ result \in {"none", "ok", "failed"}

\* ProjectFS.open found the root twice the same. A replacement has its source.
FilesInit ==
    /\ system \in {"posix", "windows"}
    /\ op \in {"write", "replace", "create", "remove"}
    /\ readonly \in IF system = "windows" THEN SUBSET {Old, New} ELSE {{}}
    /\ \E there \in {Old, Nothing} \cup Unsafe :
           /\ at = [n \in Names |-> IF n = "destination" THEN there
                                    ELSE IF n = "source" /\ op = "replace" THEN New
                                    ELSE Nothing]
           /\ used = Unsafe \cap {there}
    /\ inPlace = TRUE
    /\ step = "look"
    /\ task = "publish"
    /\ wanted = [source |-> New, destination |-> Nothing]
    /\ before = Nothing
    /\ cleared = {}
    /\ destroyed = {}
    /\ touched = {}
    /\ moves = 0
    /\ faults = 0
    /\ result = "none"

-----------------------------------------------------------------------------
(* What every step is made of. *)

\* What a checked snapshot accepts: a missing entry or an ordinary file. A raw
\* snapshot, used to undo a rename, accepts everything.
Ordinary(o) == o \notin Unsafe

At(s) == step = s

Goto(s) == step' = s /\ UNCHANGED result

Return(r) == step' = "over" /\ result' = r

\* A system call raises.
Fault == faults < MaxFaults /\ faults' = faults + 1

NoFault == UNCHANGED faults

\* The entry under name n moves to the free name m.
Moved(n, m) == [at EXCEPT ![m] = at[n], ![n] = Nothing]

\* Every ancestor of the named entry is the directory it was.
AncestryHolds == inPlace

\* The first look. A caller may also hand in what it saw earlier; a difference
\* ends the call.
Look ==
    /\ At("look")
    /\ before' = at["destination"]
    /\ wanted' = [source |-> New, destination |-> at["destination"]]
    /\ \/ /\ op \in {"write", "replace"}
          /\ Ordinary(at["destination"])
          /\ Goto(IF op = "write" THEN "prepare" ELSE "recheck")
       \/ /\ op = "create"
          /\ at["destination"] = Nothing
          /\ Goto("prepare")
       \/ /\ op = "remove"
          /\ at["destination"] = Old
          /\ Goto("recheck")
       \/ /\ op = "remove"      \* missing_ok, or not
          /\ at["destination"] = Nothing
          /\ \E r \in {"ok", "failed"} : Return(r)
       \/ Return("failed")
    /\ UNCHANGED <<call, at, task, cleared, destroyed, others, faults>>

-----------------------------------------------------------------------------
(* The other programs. *)

\* MaxMoves is a bound of the model.
OthersMayAct ==
    /\ step \notin {"look", "over"}
    /\ moves < MaxMoves
    /\ moves' = moves + 1

\* The names that are open without sharing, so that nobody moves or deletes
\* what they hold: a Windows source from its creation or its opening to the
\* call of ReplaceFileW.
Others(pinned) ==
    /\ OthersMayAct
    /\ \E n \in {"destination"} \cup IF op = "replace" /\ system = "posix"
                                      THEN {"source"} ELSE {} :
           /\ n \notin pinned
           /\ touched' = touched \cup {n}
           /\ \/ \E f \in Foreign \ used :
                     /\ at' = [at EXCEPT ![n] = f]
                     /\ used' = used \cup {f}
              \/ /\ at[n] # Nothing
                 /\ at' = [at EXCEPT ![n] = Nothing]
                 /\ UNCHANGED used
    /\ UNCHANGED <<call, inPlace, step, task, wanted, before, cleared, destroyed,
                   faults, result>>

\* The directory is moved away and the path leads elsewhere. The descriptors of
\* a POSIX call keep working in the directory that was moved; a Windows call
\* holds every ancestor open without sharing.
OthersMoveDirectory ==
    /\ OthersMayAct
    /\ system = "posix"
    /\ inPlace
    /\ inPlace' = FALSE
    /\ UNCHANGED <<call, at, step, task, wanted, before, cleared, destroyed,
                   touched, used, faults, result>>

\* The process ends where it is.
Die ==
    /\ ~At("over")
    /\ step' = "over"
    /\ UNCHANGED <<call, at, task, wanted, before, cleared, destroyed, others,
                   faults, result>>
=============================================================================
