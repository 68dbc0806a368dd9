----------------------------- MODULE TaskGraph -----------------------------
(***************************************************************************)
(* The tasks of every delivery cycle: how scripts/harness_db.py creates,   *)
(* runs and accepts them, what core/scheduler.py asks of their             *)
(* dependencies, and what the phases of a cycle and its delivery ask of    *)
(* them.                                                                   *)
(*                                                                         *)
(* Task ids are only unique within a cycle, rows of closed cycles stay in  *)
(* the tables the next cycle uses, and a task can be added, blocked or     *)
(* cancelled in any phase of an active cycle, also after readiness.        *)
(*                                                                         *)
(* Simplifications.                                                        *)
(*  - The requirement graph is one variable, scope; module EvidenceChain   *)
(*    has its details. Likewise the other prerequisites of a delivery are  *)
(*    taken as met: any delivery this module forbids the code forbids.     *)
(*  - Every criterion in Acceptances is active once the graph is recorded. *)
(*  - An accepted row always has its evidence and its accept actor, which  *)
(*    accept_task writes in the same statement.                            *)
(***************************************************************************)
EXTENDS Naturals

CONSTANTS
    Tasks,           \* task ids, reused by every cycle
    Acceptances,     \* the criteria a cycle records
    MaxCycle         \* bound: the cycles that can be started

ASSUME MaxCycleAssumption == MaxCycle \in Nat \ {0}

Cycles == 1 .. MaxCycle

VARIABLES
    current,     \* project.current_cycle_id
    status,      \* delivery_cycles.status
    phase,       \* the phase of the project and of its current cycle
    scope,       \* the current cycle's graph: none, recorded or confirmed
    state,       \* tasks.status
    deps,        \* task_dependencies
    covers,      \* task_acceptance
    created,     \* the task_created events so far
    born         \* the number of the task's own task_created event

vars == <<current, status, phase, scope, state, deps, covers, created, born>>
rows == <<state, deps, covers, created, born>>

CycleStatuses == {"unstarted", "active", "delivered", "archived"}
Phases == {"intake", "project_bootstrap", "requirement_baseline",
           "confirmation", "team_architecture", "planning", "implementation",
           "qa", "delivery_readiness", "retrospective", "archived"}
TaskStatuses == {"planned", "active", "submitted", "accepted", "blocked",
                 "cancelled"}

\* The phases a phase may be left for; readiness has an operation of its own.
PhaseTransitions ==
    [p \in Phases |->
        CASE p = "intake"               -> {"project_bootstrap"}
          [] p = "project_bootstrap"    -> {"requirement_baseline"}
          [] p = "requirement_baseline" -> {"confirmation"}
          [] p = "confirmation"         -> {"team_architecture", "planning"}
          [] p = "team_architecture"    -> {"planning"}
          [] p = "planning"             -> {"implementation"}
          [] p = "implementation"       -> {"qa"}
          [] p = "qa"                   -> {"delivery_readiness", "implementation"}
          [] p = "delivery_readiness"   -> {"retrospective"}
          [] p = "retrospective"        -> {"archived"}
          [] p = "archived"             -> {}]

TypeOK ==
    /\ current \in Cycles
    /\ status \in [Cycles -> CycleStatuses]
    /\ phase \in Phases
    /\ scope \in {"none", "recorded", "confirmed"}
    /\ state \in [Cycles -> [Tasks -> TaskStatuses \cup {"absent"}]]
    /\ deps \in [Cycles -> [Tasks -> SUBSET Tasks]]
    /\ covers \in [Cycles -> [Tasks -> SUBSET Acceptances]]
    /\ created \in Nat
    /\ born \in [Cycles -> [Tasks -> Nat]]

Init ==
    /\ current = 1
    /\ status = [c \in Cycles |-> IF c = 1 THEN "active" ELSE "unstarted"]
    /\ phase = "intake"
    /\ scope = "none"
    /\ state = [c \in Cycles |-> [t \in Tasks |-> "absent"]]
    /\ deps = [c \in Cycles |-> [t \in Tasks |-> {}]]
    /\ covers = [c \in Cycles |-> [t \in Tasks |-> {}]]
    /\ created = 0
    /\ born = [c \in Cycles |-> [t \in Tasks |-> 0]]

-----------------------------------------------------------------------------
(* What the operations read. *)

\* Every mutation but the start of a cycle refuses a closed one.
Mutable == status[current] = "active"

Exists(c, t) == state[c][t] # "absent"

\* The walk of assert_no_dependency_cycle, from task `from` along the
\* dependencies of cycle c: it meets `to` iff every set of tasks that holds
\* `from` and is closed under dependencies holds `to`.
Reaches(c, from, to) ==
    \A S \in SUBSET Tasks :
        (from \in S /\ \A x \in S : deps[c][x] \subseteq S) => to \in S

\* Mutant of Runnable: a dependency accepted in some cycle will do, as if
\* the join of dependency_blockers were on the task id alone.
Runnable_AnyCycle(c, t) ==
    /\ state[c][t] = "planned"
    /\ \A d \in deps[c][t] : \E k \in Cycles : state[k][d] = "accepted"

\* require_task_runnable: planned, and no dependency that is not accepted.
Runnable(c, t) ==
    /\ state[c][t] = "planned"
    /\ \A d \in deps[c][t] : state[c][d] = "accepted"

\* Mutant of Covered: a task still under review covers its criterion.
Covered_Submitted(c) ==
    \A a \in Acceptances :
        \E t \in Tasks : a \in covers[c][t] /\ state[c][t] \in {"submitted", "accepted"}

\* Every active criterion has an accepted task.
Covered(c) ==
    \A a \in Acceptances :
        \E t \in Tasks : a \in covers[c][t] /\ state[c][t] = "accepted"

\* phase_prerequisite_issues; the qa rows are selected without a cycle.
PhasePrerequisites(p) ==
    /\ p \in {"confirmation", "team_architecture", "planning"} => scope # "none"
    /\ p \in {"implementation", "qa"} => \E t \in Tasks : Exists(current, t)
    /\ p \in {"planning", "implementation", "qa"} => scope = "confirmed"
    /\ p = "qa" => \A c \in Cycles, t \in Tasks :
                        state[c][t] \notin {"planned", "active", "blocked"}

-----------------------------------------------------------------------------
(* The graph and the phases. *)

\* A requirement or a criterion is recorded, linked or rewritten, or the
\* baseline is frozen again without a confirmation: the confirmed
\* baseline, if there is one, is no longer current.
RecordGraph ==
    /\ Mutable
    /\ scope' = "recorded"
    /\ UNCHANGED <<current, status, phase, rows>>

\* confirm_baseline.
ConfirmBaseline ==
    /\ Mutable
    /\ scope # "none"
    /\ scope' = "confirmed"
    /\ UNCHANGED <<current, status, phase, rows>>

\* transition_phase to another phase than readiness.
TransitionPhase(p) ==
    /\ Mutable
    /\ p # "delivery_readiness"
    /\ p \in PhaseTransitions[phase]
    /\ PhasePrerequisites(p)
    /\ phase' = p
    /\ UNCHANGED <<current, status, scope, rows>>

\* enter_delivery_readiness evaluates the facts and not the phase, so it may
\* be entered from any phase.
EnterReadiness ==
    /\ Mutable
    /\ scope = "confirmed"
    /\ Covered(current)
    /\ phase' = "delivery_readiness"
    /\ UNCHANGED <<current, status, scope, rows>>

-----------------------------------------------------------------------------
(* The tasks. *)

\* Mutant of Acyclic: no walk, and the task itself counts as existing.
Acyclic_NoWalk(t, d) == Exists(current, d) \/ d = t

\* The row of t is inserted before its dependencies are looked up, so t
\* itself is found; the walk is what refuses it.
Acyclic(t, d) ==
    /\ Exists(current, d) \/ d = t
    /\ ~Reaches(current, d, t)

\* add_task: every row of it in one transaction.
AddTask(t, D, A) ==
    /\ Mutable
    /\ ~Exists(current, t)
    /\ A # {} => scope # "none"
    /\ \A d \in D : Acyclic(t, d)
    /\ state' = [state EXCEPT ![current][t] = "planned"]
    /\ deps' = [deps EXCEPT ![current][t] = D]
    /\ covers' = [covers EXCEPT ![current][t] = A]
    /\ created' = created + 1
    /\ born' = [born EXCEPT ![current][t] = created + 1]
    /\ UNCHANGED <<current, status, phase, scope>>

\* require_task_transition and the update of the row's status.
Move(t, from, to) ==
    /\ Mutable
    /\ state[current][t] \in from
    /\ state' = [state EXCEPT ![current][t] = to]
    /\ UNCHANGED <<current, status, phase, scope, deps, covers, created, born>>

StartTask(t) == Runnable(current, t) /\ Move(t, {"planned"}, "active")

SubmitTask(t) == Move(t, {"active"}, "submitted")

AcceptTask(t) == Move(t, {"submitted"}, "accepted")

BlockTask(t) == Move(t, {"active", "submitted"}, "blocked")

\* Mutant of CancelTask: an accepted task can be cancelled too.
CancelTask_Accepted(t) ==
    Move(t, {"planned", "active", "submitted", "accepted"}, "cancelled")

\* Mutant of CancelTask: the spelling that only migrations know.
CancelTask_Legacy(t) == Move(t, {"planned", "active", "submitted"}, "canceled")

CancelTask(t) == Move(t, {"planned", "active", "submitted"}, "cancelled")

-----------------------------------------------------------------------------
(* The cycles. *)

\* record_delivery, whose prerequisites are evaluated again before it commits.
Deliver ==
    /\ Mutable
    /\ phase = "delivery_readiness"
    /\ scope = "confirmed"
    /\ Covered(current)
    /\ status' = [status EXCEPT ![current] = "delivered"]
    /\ UNCHANGED <<current, phase, scope, rows>>

\* cycle_close: any active cycle can be archived, whatever its tasks.
Archive ==
    /\ Mutable
    /\ status' = [status EXCEPT ![current] = "archived"]
    /\ phase' = "archived"
    /\ UNCHANGED <<current, scope, rows>>

\* cycle_start: the new cycle has no facts, and the old rows stay.
StartCycle ==
    /\ status[current] \in {"delivered", "archived"}
    /\ current < MaxCycle
    /\ current' = current + 1
    /\ status' = [status EXCEPT ![current + 1] = "active"]
    /\ phase' = "intake"
    /\ scope' = "none"
    /\ UNCHANGED rows

Next ==
    \/ RecordGraph
    \/ ConfirmBaseline
    \/ \E p \in Phases : TransitionPhase(p)
    \/ EnterReadiness
    \/ \E t \in Tasks, D \in SUBSET Tasks, A \in SUBSET Acceptances : AddTask(t, D, A)
    \/ \E t \in Tasks :
        \/ StartTask(t)
        \/ SubmitTask(t)
        \/ AcceptTask(t)
        \/ BlockTask(t)
        \/ CancelTask(t)
    \/ Deliver
    \/ Archive
    \/ StartCycle

Spec == Init /\ [][Next]_vars

-----------------------------------------------------------------------------
(* Properties. *)

\* Work never runs ahead of what it builds on: a task that was ever started,
\* whatever became of it but a cancellation, depends on accepted tasks only,
\* accepted in its own cycle (start_task with dependency_blockers, and no
\* operation that takes an acceptance back).
WorkFollowsItsDependencies ==
    \A c \in Cycles, t \in Tasks :
        state[c][t] \in {"active", "submitted", "accepted", "blocked"} =>
            \A d \in deps[c][t] : state[c][d] = "accepted"

\* The dependencies of a cycle never close a circle, in which nothing could
\* ever start (assert_no_dependency_cycle of _create_task_conn).
NoDependencyCycle ==
    \A c \in Cycles, t \in Tasks : \A d \in deps[c][t] : ~Reaches(c, d, t)

\* A delivered cycle is complete work: each of its criteria was implemented
\* by an accepted task, and so was everything that task rests on, down to
\* the last dependency (the accepted-task prerequisite of record_delivery).
DeliveredWorkIsComplete ==
    \A c \in Cycles : status[c] = "delivered" =>
        \A a \in Acceptances : \E t \in Tasks :
            /\ a \in covers[c][t]
            /\ \A d \in Tasks : Reaches(c, t, d) => state[c][d] = "accepted"

\* What was accepted stays accepted with the dependencies and criteria it was
\* accepted for, through this cycle and all later ones, and the tasks of a
\* closed cycle never change (_require_active_cycle_for_mutation, and rows
\* looked up by the current cycle only).
AcceptedWorkStands ==
    [][\A c \in Cycles, t \in Tasks :
        (state[c][t] = "accepted" \/ status[c] \in {"delivered", "archived"}) =>
            /\ state'[c][t] = state[c][t]
            /\ deps'[c][t] = deps[c][t]
            /\ covers'[c][t] = covers[c][t]]_vars

\* openspec/specs/local-delivery-kernel/spec.md, scenario "New cycle": old
\* cycle failures do not block the new cycle. For the qa phase: a cycle with
\* a confirmed scope whose own tasks are all past implementation may enter.
OldTasksDoNotHoldBackQa ==
    (/\ Mutable
     /\ scope = "confirmed"
     /\ \E t \in Tasks : Exists(current, t)
     /\ \A t \in Tasks : state[current][t] \notin {"planned", "active", "blocked"})
        => PhasePrerequisites("qa")
=============================================================================
