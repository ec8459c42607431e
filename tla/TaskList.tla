------------------------------ MODULE TaskList ------------------------------
(***************************************************************************)
(* The task list of kernel/src/sys/task.c: tasks linked through next and   *)
(* prev, with task_head, task_tail and current_task.  A task is the        *)
(* address kmalloc returned for it, so the address of a task that was      *)
(* freed can come back as another task's.  Process runs these operations.  *)
(***************************************************************************)
EXTENDS Integers, FiniteSets, Sequences, SequencesExt

CONSTANTS
    Task,    \* addresses kmalloc may return
    NULL

ASSUME TaskAssumption == NULL \notin Task /\ IsFiniteSet(Task)

VARIABLES
    next,            \* the field of each task_t, also of freed ones
    prev,
    live,            \* the tasks that are allocated
    task_head, task_tail, current_task,
    running          \* task_run_first_task has been called

listVars == <<next, prev, live, task_head, task_tail, current_task, running>>

ListInit ==
    /\ next = [t \in Task |-> NULL]
    /\ prev = [t \in Task |-> NULL]
    /\ live = {}
    /\ task_head = NULL /\ task_tail = NULL /\ current_task = NULL
    /\ running = FALSE

(* task_new: task_init clears the task, which is then put at the end. *)
TaskNew(t) ==
    /\ ~running
    /\ t \notin live
    /\ live' = live \cup {t}
    /\ task_tail' = t
    /\ IF task_head = NULL
       THEN /\ task_head' = t
            /\ current_task' = t
            /\ next' = [next EXCEPT ![t] = NULL]
            /\ prev' = [prev EXCEPT ![t] = NULL]
       ELSE /\ next' = [next EXCEPT ![t] = NULL, ![task_tail] = t]
            /\ prev' = [prev EXCEPT ![t] = task_tail]
            /\ UNCHANGED <<task_head, current_task>>
    /\ UNCHANGED running

(* Fault: a task with nobody behind it keeps its turn. *)
TaskGetNextSelf(after, head, t) == IF after[t] = NULL THEN t ELSE after[t]

(* task_get_next, as it is called when t is the current task. *)
TaskGetNext(after, head, t) == IF after[t] = NULL THEN head ELSE after[t]

(* Fault: the predecessor keeps pointing at the task that left. *)
UnlinkedNot(t) == next

(* The next fields once t's predecessor has been linked past t. *)
Unlinked(t) == IF prev[t] = NULL THEN next ELSE [next EXCEPT ![prev[t]] = next[t]]

(* task_free: task_list_remove in the order of its four ifs, then kfree.  The task
   behind t keeps its prev; the only caller, process.c:148, frees the task at the
   end, which has none behind it. *)
TaskFree(t) ==
    /\ ~running
    /\ t \in live
    /\ next' = Unlinked(t)
    /\ task_head' = IF t = task_head THEN next'[t] ELSE task_head
    /\ task_tail' = IF t = task_tail THEN prev[t] ELSE task_tail
    /\ current_task' = IF t = current_task THEN TaskGetNext(next', task_head', t)
                       ELSE current_task
    /\ live' = live \ {t}
    /\ UNCHANGED <<prev, running>>

(* task_run_first_task; without a task it panics. *)
TaskRunFirstTask ==
    /\ ~running
    /\ task_head # NULL
    /\ current_task' = task_head
    /\ running' = TRUE
    /\ UNCHANGED <<next, prev, live, task_head, task_tail>>

-----------------------------------------------------------------------------
(* Properties *)

(* Where a walk is that starts at t and follows the pointers in `after`, at most
   `fuel` of them: NULL from the end of the list on. *)
Walk(t, after, fuel) ==
    LET from[n \in 0..fuel] ==
            IF n = 0 THEN t
            ELSE IF from[n - 1] = NULL THEN NULL ELSE after[from[n - 1]]
    IN  from

(* The tasks the walk meets, at most `fuel`. *)
Met(t, after, fuel) ==
    LET from == Walk(t, after, fuel)
        met  == {n \in 1..fuel : from[n - 1] # NULL}
    IN  [n \in 1..Cardinality(met) |-> from[n - 1]]

Forwards == Met(task_head, next, Cardinality(Task) + 1)

Queue == INSTANCE TaskQueue WITH
    None <- NULL, queue <- Forwards, current <- current_task

(* The list behaves as a queue whose members take turns. *)
ImplementsQueue == Queue!Spec
=============================================================================
