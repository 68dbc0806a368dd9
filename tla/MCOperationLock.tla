--------------------------- MODULE MCOperationLock ---------------------------
(* Three threads: two of one process and one of another. *)
EXTENDS OperationLock, TLC
CONSTANTS t1, t2, t3, p1, p2
MCThreads == {t1, t2, t3}
MCProcesses == {p1, p2}
MCProcessOf == t1 :> p1 @@ t2 :> p1 @@ t3 :> p2
=============================================================================
