-------------------------- MODULE TaskGraph_proofs --------------------------
(***************************************************************************)
(* Proofs about TaskGraph, for any task ids, criteria and number of        *)
(* cycles.                                                                 *)
(*                                                                         *)
(* The dependencies of a task are fixed when it is created and name tasks  *)
(* created before it, so the order of creation ranks them: no circle can   *)
(* close. And accepted is final, so what was accepted when a task started  *)
(* is accepted for good.                                                   *)
(***************************************************************************)
EXTENDS TaskGraph, TLAPS

\* A task that was never created has no dependencies; the others depend on
\* tasks of their cycle that were created earlier.
DependenciesAreOlder ==
    \A c \in Cycles, t \in Tasks :
        /\ born[c][t] <= created
        /\ ~Exists(c, t) => deps[c][t] = {}
        /\ \A d \in deps[c][t] : Exists(c, d) /\ born[c][d] < born[c][t]

DeliveredIsCovered ==
    \A c \in Cycles : status[c] = "delivered" => Covered(c)

\* The inductive invariant.
IInv ==
    /\ TypeOK
    /\ DependenciesAreOlder
    /\ WorkFollowsItsDependencies
    /\ DeliveredIsCovered

-----------------------------------------------------------------------------
(* The walk along dependencies. *)

\* The walk from a task always meets that task (assert_no_dependency_cycle
\* compares its first element): a task cannot depend on itself.
LEMMA ReachesItself ==
    ASSUME NEW c, NEW t
    PROVE  Reaches(c, t, t)
  BY DEF Reaches

\* A walk never leaves a set of tasks that is closed under dependencies.
LEMMA WalkStaysInside ==
    ASSUME NEW c, NEW from, NEW to, NEW S \in SUBSET Tasks,
           from \in S, \A x \in S : deps[c][x] \subseteq S,
           Reaches(c, from, to)
    PROVE  to \in S
  BY DEF Reaches

-----------------------------------------------------------------------------
(* The types. *)

LEMMA InitTypeOK == Init => TypeOK
  BY MaxCycleAssumption DEF Init, TypeOK, Cycles, CycleStatuses, Phases, TaskStatuses

\* Every operation writes values of the declared types (the check constraints
\* of the tables).
LEMMA NextTypeOK == TypeOK /\ [Next]_vars => TypeOK'
  <1> SUFFICES ASSUME TypeOK, [Next]_vars PROVE TypeOK'
    OBVIOUS
  <1> USE DEF TypeOK
  <1>1. CASE RecordGraph
    BY <1>1 DEF RecordGraph, rows
  <1>2. CASE ConfirmBaseline
    BY <1>2 DEF ConfirmBaseline, rows
  <1>3. ASSUME NEW p \in Phases, TransitionPhase(p) PROVE TypeOK'
    BY <1>3 DEF TransitionPhase, rows
  <1>4. CASE EnterReadiness
    BY <1>4 DEF EnterReadiness, rows, Phases
  <1>5. ASSUME NEW t \in Tasks, NEW D \in SUBSET Tasks, NEW A \in SUBSET Acceptances,
               AddTask(t, D, A)
        PROVE  TypeOK'
    <2>1. state' \in [Cycles -> [Tasks -> TaskStatuses \cup {"absent"}]]
      BY <1>5 DEF AddTask, TaskStatuses
    <2>2. deps' \in [Cycles -> [Tasks -> SUBSET Tasks]]
      BY <1>5 DEF AddTask
    <2>3. covers' \in [Cycles -> [Tasks -> SUBSET Acceptances]]
      BY <1>5 DEF AddTask
    <2>4. created' \in Nat /\ born' \in [Cycles -> [Tasks -> Nat]]
      BY <1>5 DEF AddTask
    <2> QED BY <1>5, <2>1, <2>2, <2>3, <2>4 DEF AddTask
  <1>6. ASSUME NEW t \in Tasks, NEW from, NEW to \in TaskStatuses, Move(t, from, to)
        PROVE  TypeOK'
    <2>1. state' \in [Cycles -> [Tasks -> TaskStatuses \cup {"absent"}]]
      BY <1>6 DEF Move
    <2> QED BY <1>6, <2>1 DEF Move
  <1>7. CASE Deliver
    BY <1>7 DEF Deliver, rows, CycleStatuses
  <1>8. CASE Archive
    BY <1>8 DEF Archive, rows, CycleStatuses, Phases
  <1>9. CASE StartCycle
    BY <1>9, MaxCycleAssumption DEF StartCycle, rows, CycleStatuses, Phases, Cycles
  <1>10. CASE UNCHANGED vars
    BY <1>10 DEF vars
  <1> QED BY <1>1, <1>2, <1>3, <1>4, <1>5, <1>6, <1>7, <1>8, <1>9, <1>10
          DEF Next, StartTask, SubmitTask, AcceptTask, BlockTask, CancelTask,
              TaskStatuses

-----------------------------------------------------------------------------
(* The parts of the invariant, over the two kinds of step that write rows. *)

\* A new task depends on tasks of its cycle that exist, never on itself, and
\* nothing depends on it yet (_create_task_conn).
LEMMA AddTaskKeepsOlder ==
    ASSUME TypeOK, DependenciesAreOlder,
           NEW t \in Tasks, NEW D \in SUBSET Tasks, NEW A \in SUBSET Acceptances,
           AddTask(t, D, A)
    PROVE  DependenciesAreOlder' /\ \A d \in D : d # t /\ Exists(current, d)
  <1>1. \A d \in D : d # t /\ Exists(current, d)
    BY ReachesItself DEF AddTask, Acyclic
  <1>2. ASSUME NEW c \in Cycles, NEW u \in Tasks
        PROVE  /\ born'[c][u] <= created'
               /\ ~(state'[c][u] # "absent") => deps'[c][u] = {}
               /\ \A d \in deps'[c][u] : state'[c][d] # "absent" /\ born'[c][d] < born'[c][u]
    <2>1. CASE c = current /\ u = t
      BY <2>1, <1>1 DEF AddTask, TypeOK, DependenciesAreOlder, Exists
    <2>2. CASE ~(c = current /\ u = t)
      <3>1. deps'[c][u] = deps[c][u] /\ born'[c][u] = born[c][u] /\ state'[c][u] = state[c][u]
        BY <2>2 DEF AddTask, TypeOK
      <3>2. \A d \in deps[c][u] : ~(c = current /\ d = t)
        BY DEF AddTask, TypeOK, DependenciesAreOlder, Exists
      <3>3. \A d \in deps[c][u] : state'[c][d] = state[c][d] /\ born'[c][d] = born[c][d]
        BY <3>2 DEF AddTask, TypeOK
      <3> QED BY <3>1, <3>3 DEF AddTask, TypeOK, DependenciesAreOlder, Exists
    <2> QED BY <2>1, <2>2
  <1> QED BY <1>1, <1>2 DEF DependenciesAreOlder, Exists

\* A new task is planned, so no claim is made of it, and it was accepted in
\* no dependency (_create_task_conn).
LEMMA AddTaskKeepsWork ==
    ASSUME TypeOK, DependenciesAreOlder, WorkFollowsItsDependencies, DeliveredIsCovered,
           NEW t \in Tasks, NEW D \in SUBSET Tasks, NEW A \in SUBSET Acceptances,
           AddTask(t, D, A)
    PROVE  WorkFollowsItsDependencies' /\ DeliveredIsCovered'
  <1>1. \A c \in Cycles, u \in Tasks : state[c][u] # "absent" =>
            state'[c][u] = state[c][u] /\ deps'[c][u] = deps[c][u] /\ covers'[c][u] = covers[c][u]
    BY DEF AddTask, Exists, TypeOK
  <1>2. WorkFollowsItsDependencies'
    <2> SUFFICES ASSUME NEW c \in Cycles, NEW u \in Tasks,
                        state'[c][u] \in {"active", "submitted", "accepted", "blocked"},
                        NEW d \in deps'[c][u]
                 PROVE  state'[c][d] = "accepted"
      BY DEF WorkFollowsItsDependencies
    <2>1. ~(c = current /\ u = t)
      BY DEF AddTask, TypeOK
    <2>2. state'[c][u] = state[c][u] /\ deps'[c][u] = deps[c][u]
      BY <2>1 DEF AddTask, TypeOK
    <2>3. d \in Tasks /\ state[c][d] = "accepted"
      BY <2>2 DEF WorkFollowsItsDependencies, TypeOK
    <2> QED BY <1>1, <2>3
  <1>3. DeliveredIsCovered'
    <2> SUFFICES ASSUME NEW c \in Cycles, status'[c] = "delivered", NEW a \in Acceptances
                 PROVE  \E u \in Tasks : a \in covers'[c][u] /\ state'[c][u] = "accepted"
      BY DEF DeliveredIsCovered, Covered
    <2>1. PICK u \in Tasks : a \in covers[c][u] /\ state[c][u] = "accepted"
      BY DEF AddTask, DeliveredIsCovered, Covered
    <2> QED BY <1>1, <2>1
  <1> QED BY <1>2, <1>3

\* A task moves out of a status that is not accepted, and into a working one
\* only from planned with accepted dependencies or from a working one
\* (require_task_transition, require_task_runnable).
LEMMA MoveKeepsInvariant ==
    ASSUME TypeOK, DependenciesAreOlder, WorkFollowsItsDependencies, DeliveredIsCovered,
           NEW t \in Tasks, NEW from, NEW to \in TaskStatuses, Move(t, from, to),
           "accepted" \notin from, "absent" \notin from,
           to = "cancelled" \/ \A d \in deps[current][t] : state[current][d] = "accepted"
    PROVE  DependenciesAreOlder' /\ WorkFollowsItsDependencies' /\ DeliveredIsCovered'
  <1>1. \A c \in Cycles, u \in Tasks :
            /\ state[c][u] = "accepted" => state'[c][u] = "accepted"
            /\ (state[c][u] # "absent") = (state'[c][u] # "absent")
            /\ ~(c = current /\ u = t) => state'[c][u] = state[c][u]
    BY DEF Move, TypeOK, TaskStatuses
  <1>2. deps' = deps /\ covers' = covers /\ born' = born /\ created' = created
        /\ status' = status /\ current' = current
    BY DEF Move
  <1>3. DependenciesAreOlder'
    <2> SUFFICES ASSUME NEW c \in Cycles, NEW u \in Tasks
                 PROVE  /\ born[c][u] <= created
                        /\ ~(state'[c][u] # "absent") => deps[c][u] = {}
                        /\ \A d \in deps[c][u] : state'[c][d] # "absent" /\ born[c][d] < born[c][u]
      BY <1>2 DEF DependenciesAreOlder, Exists
    <2>1. deps[c][u] \subseteq Tasks
      BY DEF TypeOK
    <2> QED BY <1>1, <2>1 DEF DependenciesAreOlder, Exists
  <1>4. WorkFollowsItsDependencies'
    <2> SUFFICES ASSUME NEW c \in Cycles, NEW u \in Tasks,
                        state'[c][u] \in {"active", "submitted", "accepted", "blocked"},
                        NEW d \in deps[c][u]
                 PROVE  state'[c][d] = "accepted"
      BY <1>2 DEF WorkFollowsItsDependencies
    <2>1. d \in Tasks
      BY DEF TypeOK
    <2>2. CASE c = current /\ u = t
      <3>1. to # "cancelled"
        BY <2>2 DEF Move, TypeOK
      <3> QED BY <1>1, <2>1, <2>2, <3>1
    <2>3. CASE ~(c = current /\ u = t)
      BY <1>1, <2>1, <2>3 DEF WorkFollowsItsDependencies
    <2> QED BY <2>2, <2>3
  <1>5. DeliveredIsCovered'
    <2> SUFFICES ASSUME NEW c \in Cycles, status[c] = "delivered", NEW a \in Acceptances
                 PROVE  \E u \in Tasks : a \in covers[c][u] /\ state'[c][u] = "accepted"
      BY <1>2 DEF DeliveredIsCovered, Covered
    <2>1. PICK u \in Tasks : a \in covers[c][u] /\ state[c][u] = "accepted"
      BY DEF DeliveredIsCovered, Covered
    <2> QED BY <1>1, <2>1
  <1> QED BY <1>3, <1>4, <1>5

\* Steps that leave the rows alone and deliver at most the current cycle.
LEMMA RowsKept ==
    ASSUME DependenciesAreOlder, WorkFollowsItsDependencies, DeliveredIsCovered,
           UNCHANGED rows,
           \A c \in Cycles : status'[c] = "delivered" => status[c] = "delivered" \/ Covered(c)
    PROVE  DependenciesAreOlder' /\ WorkFollowsItsDependencies' /\ DeliveredIsCovered'
  <1>1. state' = state /\ deps' = deps /\ covers' = covers /\ born' = born /\ created' = created
    BY DEF rows
  <1>2. DependenciesAreOlder' /\ WorkFollowsItsDependencies'
    BY <1>1 DEF DependenciesAreOlder, WorkFollowsItsDependencies, Exists
  <1>3. DeliveredIsCovered'
    BY <1>1 DEF DeliveredIsCovered, Covered
  <1> QED BY <1>2, <1>3

-----------------------------------------------------------------------------
(* The invariant. *)

LEMMA InitIInv == Init => IInv
  <1> SUFFICES ASSUME Init PROVE IInv
    OBVIOUS
  <1>1. TypeOK
    BY InitTypeOK
  <1>2. DependenciesAreOlder
    BY DEF Init, DependenciesAreOlder, Exists
  <1>3. WorkFollowsItsDependencies
    BY DEF Init, WorkFollowsItsDependencies
  <1>4. DeliveredIsCovered
    BY DEF Init, DeliveredIsCovered
  <1> QED BY <1>1, <1>2, <1>3, <1>4 DEF IInv

LEMMA NextIInv == IInv /\ [Next]_vars => IInv'
  <1> SUFFICES ASSUME IInv, [Next]_vars
               PROVE  DependenciesAreOlder' /\ WorkFollowsItsDependencies' /\ DeliveredIsCovered'
    BY NextTypeOK DEF IInv
  <1>0. TypeOK /\ DependenciesAreOlder /\ WorkFollowsItsDependencies /\ DeliveredIsCovered
    BY DEF IInv
  <1>1. CASE RecordGraph
    BY <1>0, <1>1, RowsKept DEF RecordGraph
  <1>2. CASE ConfirmBaseline
    BY <1>0, <1>2, RowsKept DEF ConfirmBaseline
  <1>3. ASSUME NEW p \in Phases, TransitionPhase(p)
        PROVE  DependenciesAreOlder' /\ WorkFollowsItsDependencies' /\ DeliveredIsCovered'
    BY <1>0, <1>3, RowsKept DEF TransitionPhase
  <1>4. CASE EnterReadiness
    BY <1>0, <1>4, RowsKept DEF EnterReadiness
  <1>5. ASSUME NEW t \in Tasks, NEW D \in SUBSET Tasks, NEW A \in SUBSET Acceptances,
               AddTask(t, D, A)
        PROVE  DependenciesAreOlder' /\ WorkFollowsItsDependencies' /\ DeliveredIsCovered'
    BY <1>0, <1>5, AddTaskKeepsOlder, AddTaskKeepsWork
  <1>6. ASSUME NEW t \in Tasks, StartTask(t)
        PROVE  DependenciesAreOlder' /\ WorkFollowsItsDependencies' /\ DeliveredIsCovered'
    BY <1>0, <1>6, MoveKeepsInvariant DEF StartTask, Runnable, TaskStatuses
  <1>7. ASSUME NEW t \in Tasks, SubmitTask(t) \/ AcceptTask(t) \/ BlockTask(t)
        PROVE  DependenciesAreOlder' /\ WorkFollowsItsDependencies' /\ DeliveredIsCovered'
    <2>1. \A d \in deps[current][t] : state[current][d] = "accepted"
      BY <1>0, <1>7 DEF SubmitTask, AcceptTask, BlockTask, Move, TypeOK,
                        WorkFollowsItsDependencies
    <2>2. CASE SubmitTask(t)
      BY <1>0, <2>1, <2>2, MoveKeepsInvariant DEF SubmitTask, TaskStatuses
    <2>3. CASE AcceptTask(t)
      BY <1>0, <2>1, <2>3, MoveKeepsInvariant DEF AcceptTask, TaskStatuses
    <2>4. CASE BlockTask(t)
      BY <1>0, <2>1, <2>4, MoveKeepsInvariant DEF BlockTask, TaskStatuses
    <2> QED BY <1>7, <2>2, <2>3, <2>4
  <1>8. ASSUME NEW t \in Tasks, CancelTask(t)
        PROVE  DependenciesAreOlder' /\ WorkFollowsItsDependencies' /\ DeliveredIsCovered'
    BY <1>0, <1>8, MoveKeepsInvariant DEF CancelTask, TaskStatuses
  <1>9. CASE Deliver
    <2>1. \A c \in Cycles : status'[c] = "delivered" => status[c] = "delivered" \/ Covered(c)
      BY <1>0, <1>9 DEF Deliver, TypeOK
    <2> QED BY <1>0, <1>9, <2>1, RowsKept DEF Deliver
  <1>10. CASE Archive
    <2>1. \A c \in Cycles : status'[c] = "delivered" => status[c] = "delivered" \/ Covered(c)
      BY <1>0, <1>10 DEF Archive, TypeOK
    <2> QED BY <1>0, <1>10, <2>1, RowsKept DEF Archive
  <1>11. CASE StartCycle
    <2>1. \A c \in Cycles : status'[c] = "delivered" => status[c] = "delivered" \/ Covered(c)
      BY <1>0, <1>11 DEF StartCycle, TypeOK
    <2> QED BY <1>0, <1>11, <2>1, RowsKept DEF StartCycle
  <1>12. CASE UNCHANGED vars
    BY <1>0, <1>12, RowsKept DEF vars, rows
  <1> QED BY <1>1, <1>2, <1>3, <1>4, <1>5, <1>6, <1>7, <1>8, <1>9, <1>10, <1>11,
             <1>12 DEF Next

-----------------------------------------------------------------------------
(* The theorems. *)

\* TaskGraph keeps its types.
THEOREM TypeCorrect == Spec => []TypeOK
  BY InitTypeOK, NextTypeOK, PTL DEF Spec

\* The order of creation ranks the dependencies, and delivered cycles stay
\* covered: the inductive invariant.
THEOREM Invariance == Spec => []IInv
  BY InitIInv, NextIInv, PTL DEF Spec

\* A started task depends on accepted tasks of its own cycle only.
THEOREM DependenciesFirst == Spec => []WorkFollowsItsDependencies
  <1>1. IInv => WorkFollowsItsDependencies
    BY DEF IInv
  <1> QED BY <1>1, Invariance, PTL

\* No circle of dependencies: the tasks no younger than a dependency of t are
\* closed under dependencies, and t is not among them.
THEOREM Circleless == Spec => []NoDependencyCycle
  <1>1. IInv => NoDependencyCycle
    <2> SUFFICES ASSUME IInv, NEW c \in Cycles, NEW t \in Tasks, NEW d \in deps[c][t],
                        Reaches(c, d, t)
                 PROVE  FALSE
      BY DEF NoDependencyCycle
    <2> DEFINE S == {x \in Tasks : born[c][x] <= born[c][d]}
    <2>1. d \in Tasks /\ born[c] \in [Tasks -> Nat] /\ deps[c] \in [Tasks -> SUBSET Tasks]
      BY DEF IInv, TypeOK
    <2>2. \A x \in S : deps[c][x] \subseteq S
      BY <2>1 DEF IInv, DependenciesAreOlder
    <2>3. d \in S
      BY <2>1
    <2>4. t \in S
      <3> HIDE DEF S
      <3>1. S \in SUBSET Tasks
        BY DEF S
      <3> QED BY <2>2, <2>3, <3>1, WalkStaysInside
    <2>5. born[c][d] < born[c][t]
      BY DEF IInv, DependenciesAreOlder
    <2> QED BY <2>1, <2>4, <2>5
  <1> QED BY <1>1, Invariance, PTL

\* Every criterion of a delivered cycle rests on accepted tasks all the way
\* down: the accepted tasks of a cycle are closed under dependencies.
THEOREM DeliveredComplete == Spec => []DeliveredWorkIsComplete
  <1>1. IInv => DeliveredWorkIsComplete
    <2> SUFFICES ASSUME IInv, NEW c \in Cycles, status[c] = "delivered", NEW a \in Acceptances
                 PROVE  \E t \in Tasks :
                            /\ a \in covers[c][t]
                            /\ \A d \in Tasks : Reaches(c, t, d) => state[c][d] = "accepted"
      BY DEF DeliveredWorkIsComplete
    <2> DEFINE S == {x \in Tasks : state[c][x] = "accepted"}
    <2>1. PICK t \in Tasks : a \in covers[c][t] /\ state[c][t] = "accepted"
      BY DEF IInv, DeliveredIsCovered, Covered
    <2>2. deps[c] \in [Tasks -> SUBSET Tasks]
      BY DEF IInv, TypeOK
    <2>3. \A x \in S : deps[c][x] \subseteq S
      BY <2>2 DEF IInv, WorkFollowsItsDependencies
    <2>4. ASSUME NEW d \in Tasks, Reaches(c, t, d) PROVE d \in S
      <3> t \in S
        BY <2>1
      <3> HIDE DEF S
      <3>1. S \in SUBSET Tasks
        BY DEF S
      <3> QED BY <2>3, <2>4, <3>1, WalkStaysInside
    <2> WITNESS t \in Tasks
    <2> QED BY <2>1, <2>4
  <1> QED BY <1>1, Invariance, PTL

\* Accepted work, and the tasks of closed cycles, never change again.
THEOREM AcceptedStands == Spec => AcceptedWorkStands
  <1> DEFINE Stands(c, t) ==
          /\ state'[c][t] = state[c][t]
          /\ deps'[c][t] = deps[c][t]
          /\ covers'[c][t] = covers[c][t]
  <1>1. ASSUME TypeOK, [Next]_vars, NEW c \in Cycles, NEW t \in Tasks,
               state[c][t] = "accepted" \/ status[c] \in {"delivered", "archived"}
        PROVE  Stands(c, t)
    <2>1. ASSUME NEW u \in Tasks, NEW D \in SUBSET Tasks, NEW A \in SUBSET Acceptances,
                 AddTask(u, D, A)
          PROVE  Stands(c, t)
      BY <1>1, <2>1 DEF AddTask, Mutable, Exists, TypeOK
    <2>2. ASSUME NEW u \in Tasks, NEW from, NEW to, Move(u, from, to), "accepted" \notin from
          PROVE  Stands(c, t)
      BY <1>1, <2>2 DEF Move, Mutable, TypeOK
    <2>3. UNCHANGED rows => Stands(c, t)
      BY DEF rows
    <2> QED BY <1>1, <2>1, <2>2, <2>3
            DEF Next, vars, rows, RecordGraph, ConfirmBaseline, TransitionPhase,
                EnterReadiness, Deliver, Archive, StartCycle, StartTask, SubmitTask,
                AcceptTask, BlockTask, CancelTask
  <1>2. TypeOK /\ [Next]_vars =>
            [\A c \in Cycles, t \in Tasks :
                (state[c][t] = "accepted" \/ status[c] \in {"delivered", "archived"}) =>
                    Stands(c, t)]_vars
    BY <1>1
  <1> QED BY <1>2, TypeCorrect, PTL DEF Spec, AcceptedWorkStands
=============================================================================
