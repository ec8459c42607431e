------------------------------ MODULE Process ------------------------------
(***************************************************************************)
(* Loading a program: process_load of kernel/src/sys/process.c, step by    *)
(* step, with every step that can fail.  Memory is a set of addresses: the *)
(* process_t, the binary, its stack and the task_t each take one, and one  *)
(* that is freed can come back as something else.  kmalloc never returns   *)
(* NULL, it panics.  The tasks are those of TaskList.                      *)
(***************************************************************************)
EXTENDS TaskList

CONSTANT MaxProcesses   \* KERNEL_MAX_PROCESSES

ASSUME ProcessAssumption == MaxProcesses \in Nat \ {0} /\ Task \subseteq Nat

VARIABLES
    processes,    \* the array of slots
    fields,       \* what each process_t points at: [data, stack, task]
    process_of,   \* the process field of each task_t
    heap,         \* addresses in use
    touched,      \* addresses that have been in use
    file_open,    \* open_fs's node has not been closed
    load,         \* the call in progress: [at, slot, process, data, stack, task]
    late_failure, \* a load has failed after its binary was given memory
    panicked      \* kmalloc found no memory

processVars == <<processes, fields, process_of, heap, touched,
                 file_open, load, late_failure, panicked>>
vars == <<listVars, processVars>>

Slot     == 0..(MaxProcesses - 1)
Pointer  == Task \cup {NULL}
NoFields == [data |-> NULL, stack |-> NULL, task |-> NULL]
NoLoad   == [at |-> "idle", slot |-> 0, process |-> NULL, data |-> NULL, stack |-> NULL, task |-> NULL]

Init ==
    /\ ListInit
    /\ processes = [i \in Slot |-> NULL]
    /\ fields = [p \in Task |-> NoFields]
    /\ process_of = [t \in Task |-> NULL]
    /\ heap = {} /\ touched = {}
    /\ file_open = FALSE
    /\ load = NoLoad
    /\ late_failure = FALSE
    /\ panicked = FALSE

Lowest(set) == {a \in set : \A b \in set : a <= b}

(* kmalloc takes the first address that was freed, when what lies there is
   large enough, or else one that was never used: any will do, so the first. *)
Available == Lowest(touched \ heap) \cup Lowest(Task \ touched)

KMalloc(a) == heap' = heap \cup {a} /\ touched' = touched \cup {a}

KFree(a) == heap' = heap \ {a} /\ UNCHANGED touched

FreeSlots == {i \in Slot : processes[i] = NULL}

At(step) == load.at = step /\ ~panicked

(* process_get_free_slot and the process_t.  Without a slot process_load
   returns ENOMEM and nothing happens. *)
BeginLoad(p) ==
    /\ At("idle")
    /\ ~running
    /\ \E i \in FreeSlots :
          /\ \A j \in FreeSlots : i <= j
          /\ load' = [NoLoad EXCEPT !.at = "open", !.slot = i, !.process = p]
    /\ KMalloc(p)
    /\ fields' = [fields EXCEPT ![p] = NoFields]
    /\ UNCHANGED <<listVars, processes, process_of, file_open, late_failure, panicked>>

OpenFile ==
    /\ At("open")
    /\ file_open' = TRUE
    /\ load' = [load EXCEPT !.at = "data"]
    /\ UNCHANGED <<listVars, processes, fields, process_of, heap, touched, late_failure, panicked>>

(* No such file: EIO, the process_t is freed. *)
OpenFails ==
    /\ At("open")
    /\ KFree(load.process)
    /\ load' = NoLoad
    /\ UNCHANGED <<listVars, processes, fields, process_of, file_open, late_failure, panicked>>

AllocateData(d) ==
    /\ At("data")
    /\ KMalloc(d)
    /\ load' = [load EXCEPT !.at = "read", !.data = d]
    /\ UNCHANGED <<listVars, processes, fields, process_of, file_open, late_failure, panicked>>

(* read_fs and close_fs. *)
ReadFile ==
    /\ At("read")
    /\ fields' = [fields EXCEPT ![load.process].data = load.data]
    /\ file_open' = FALSE
    /\ load' = [load EXCEPT !.at = "stack"]
    /\ UNCHANGED <<listVars, processes, process_of, heap, touched, late_failure, panicked>>

(* The file is closed and the process_t freed, the binary's memory is not. *)
ReadFails ==
    /\ At("read")
    /\ file_open' = FALSE
    /\ KFree(load.process)
    /\ load' = NoLoad
    /\ late_failure' = TRUE
    /\ UNCHANGED <<listVars, processes, fields, process_of, panicked>>

(* Fault: the stack is not recorded in the process. *)
AllocateStackUnrecorded(s) ==
    /\ At("stack")
    /\ KMalloc(s)
    /\ load' = [load EXCEPT !.at = "task", !.stack = s]
    /\ UNCHANGED <<listVars, processes, fields, process_of, file_open, late_failure, panicked>>

AllocateStack(s) ==
    /\ At("stack")
    /\ KMalloc(s)
    /\ fields' = [fields EXCEPT ![load.process].stack = s]
    /\ load' = [load EXCEPT !.at = "task", !.stack = s]
    /\ UNCHANGED <<listVars, processes, process_of, file_open, late_failure, panicked>>

NewTask(t) ==
    /\ At("task")
    /\ TaskNew(t)
    /\ KMalloc(t)
    /\ process_of' = [process_of EXCEPT ![t] = load.process]
    /\ fields' = [fields EXCEPT ![load.process].task = t]
    /\ load' = [load EXCEPT !.at = "map", !.task = t]
    /\ UNCHANGED <<processes, file_open, late_failure, panicked>>

(* process_map_memory; the process takes its slot. *)
MapMemory ==
    /\ At("map")
    /\ processes' = [processes EXCEPT ![load.slot] = load.process]
    /\ load' = NoLoad
    /\ UNCHANGED <<listVars, fields, process_of, heap, touched, file_open, late_failure, panicked>>

(* The task is freed; process_t, binary and stack are not ("TODO: memory leak"). *)
MapFails ==
    /\ At("map")
    /\ TaskFree(load.task)
    /\ KFree(load.task)
    /\ load' = NoLoad
    /\ late_failure' = TRUE
    /\ UNCHANGED <<processes, fields, process_of, file_open, panicked>>

(* kmalloc and kmalloc_aligned panic when the heap is full. *)
OutOfMemory ==
    /\ \/ At("idle") /\ ~running /\ FreeSlots # {}
       \/ At("data") \/ At("stack") \/ At("task")
    /\ heap = Task
    /\ panicked' = TRUE
    /\ UNCHANGED <<listVars, processes, fields, process_of, heap, touched, file_open, load, late_failure>>

RunFirstTask ==
    /\ At("idle")
    /\ TaskRunFirstTask
    /\ UNCHANGED processVars

Allocating(a) == BeginLoad(a) \/ AllocateData(a) \/ AllocateStack(a) \/ NewTask(a)

Next ==
    \/ \E a \in Available : Allocating(a)
    \/ OpenFile \/ OpenFails \/ ReadFile \/ ReadFails \/ MapMemory \/ MapFails
    \/ OutOfMemory
    \/ RunFirstTask
    \/ (running \/ panicked) /\ UNCHANGED vars
    \/ At("idle") /\ FreeSlots = {} /\ UNCHANGED vars

Spec == Init /\ [][Next]_vars

-----------------------------------------------------------------------------
(* Properties *)

Loaded == {processes[i] : i \in Slot} \ {NULL}

Parts(p) == {p, fields[p].data, fields[p].stack, fields[p].task}

(* A process in a slot is whole: its binary, stack and task are allocated, are
   its own, and its task leads back to it.  No failure of a later load, and no
   address that comes back from kmalloc, takes anything from it. *)
LoadedIsWhole ==
    /\ \A p \in Loaded :
          /\ Cardinality(Parts(p)) = 4
          /\ Parts(p) \subseteq heap
          /\ fields[p].task \in live
          /\ process_of[fields[p].task] = p
    /\ \A p, q \in Loaded : p # q => Parts(p) \cap Parts(q) = {}
    /\ \A i, j \in Slot : processes[i] # NULL /\ processes[i] = processes[j] => i = j

(* Between two loads, on whichever path the last one ended: no file is open; the
   tasks on the list are those of the processes in the slots, so that a load that
   fails leaves no task behind that could be scheduled; and memory is lost only
   where process.c admits to it, once the binary was given some. *)
FailuresGiveBack ==
    load.at = "idle" =>
        /\ ~file_open
        /\ ToSet(Forwards) = {fields[p].task : p \in Loaded}
        /\ ~late_failure => heap = UNION {Parts(p) : p \in Loaded}
=============================================================================
