---------------------------- MODULE DeliveryCycle ----------------------------
(***************************************************************************)
(* What a delivery cycle promises, whatever is linked to what in the       *)
(* database.  Something is to be delivered, and goes on changing while the *)
(* cycle is open; reviews pass or reject candidates and saw it as it was;  *)
(* the last review of a candidate is the one that counts.  A candidate is  *)
(* delivered only if that review passed it and saw what is delivered, and  *)
(* a cycle that is closed, delivered or not, stays what it is.             *)
(***************************************************************************)

CONSTANT Candidates

VARIABLES
    subject,    \* what is to be delivered, as recorded now
    reviewed,   \* the candidates whose last review passed, with what it saw
    delivered,  \* the delivered candidate, if any, as a set
    closed      \* whether the cycle is closed

cycleVars == <<subject, reviewed, delivered, closed>>

CycleInit == reviewed = {} /\ delivered = {} /\ closed = FALSE

Rewrite == ~closed /\ UNCHANGED <<reviewed, delivered, closed>>

\* The word of the reviews before this one.
OthersReviewed(s) == {r \in reviewed : r[1] # s}

Pass(s) ==
    /\ ~closed
    /\ reviewed' = OthersReviewed(s) \cup {<<s, subject>>}
    /\ UNCHANGED <<subject, delivered, closed>>

Reject(s) ==
    /\ ~closed
    /\ reviewed' = OthersReviewed(s)
    /\ UNCHANGED <<subject, delivered, closed>>

DeliverReviewed(s) ==
    /\ ~closed
    /\ <<s, subject>> \in reviewed
    /\ delivered' = {s}
    /\ closed' = TRUE
    /\ UNCHANGED <<subject, reviewed>>

Abandon == ~closed /\ closed' = TRUE /\ UNCHANGED <<subject, reviewed, delivered>>

CycleNext ==
    \/ Rewrite
    \/ \E s \in Candidates : Pass(s) \/ Reject(s) \/ DeliverReviewed(s)
    \/ Abandon

CycleSpec == CycleInit /\ [][CycleNext]_cycleVars
=============================================================================
