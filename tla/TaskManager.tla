----------------------------- MODULE TaskManager -----------------------------
(***************************************************************************)
(* contracts/src/TaskManager.sol.  Task ids are handed out by nextTaskId   *)
(* and a task is never written again.  The task deadline is stored and     *)
(* read by no contract, so it is not part of the state; the task root is   *)
(* determined by the id.  active and registered are set together, once.    *)
(***************************************************************************)
EXTENDS ModelRegistry

CONSTANTS
    Workers,      \* nonzero worker addresses
    MaxTasks,     \* bound: number of tasks created
    Budgets       \* bound: credit budgets a task may be created with

TaskIds == 1..MaxTasks
TaskClasses == {"SERVICE", "CONSENSUS"}

ASSUME TaskAssumption ==
    /\ Zero \notin Workers
    /\ MaxTasks \in Nat
    /\ Budgets \subseteq Nat

VARIABLES
    nextTaskId,
    tasks,              \* tasks: id -> Task
    registeredWorkers   \* registeredWorkers, as the set of true entries

taskVars == <<nextTaskId, tasks, registeredWorkers>>

\* The zero value a mapping yields for an id never assigned.
NoTask == [model |-> Zero, worker |-> Zero, class |-> "SERVICE", budget |-> 0,
           epoch |-> 0, active |-> FALSE]

Task == [model : Models \cup {Zero}, worker : Workers \cup {Zero}, class : TaskClasses,
         budget : Nat, epoch : Nat, active : BOOLEAN]

TaskTypeOK ==
    /\ nextTaskId \in Nat \ {0}
    /\ tasks \in [TaskIds -> Task]
    /\ registeredWorkers \subseteq Workers

TaskInit ==
    /\ nextTaskId = 1
    /\ tasks = [t \in TaskIds |-> NoTask]
    /\ registeredWorkers = {}

RegisterWorker(w) ==
    /\ Authorized("TASK_ADMIN")
    /\ registeredWorkers' = registeredWorkers \cup {w}
    /\ UNCHANGED <<nextTaskId, tasks>>

\* The caller passes the epoch; it must be the current one.
CreateTask(m, w, class, budget, epoch) ==
    /\ Authorized("TASK_ADMIN")
    /\ nextTaskId <= MaxTasks
    /\ w \in registeredWorkers
    /\ IsRegisteredModel(m)
    /\ epoch = CurrentEpoch
    /\ tasks' = [tasks EXCEPT ![nextTaskId] =
           [model |-> m, worker |-> w, class |-> class, budget |-> budget,
            epoch |-> epoch, active |-> TRUE]]
    /\ nextTaskId' = nextTaskId + 1
    /\ UNCHANGED registeredWorkers
=============================================================================
