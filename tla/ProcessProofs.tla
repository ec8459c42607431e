--------------------------- MODULE ProcessProofs ---------------------------
(***************************************************************************)
(* Proofs about loading programs and the task list under it, for every     *)
(* number of addresses and of process slots.                               *)
(***************************************************************************)
EXTENDS Process, BasicLemmas, FiniteSetTheorems, SequenceTheorems, TLAPS

-----------------------------------------------------------------------------
(* The task list.  What the pointers hold is compared with a sequence s: a walk
   along them meets s and nothing else. *)

Step(f, t, after, n) ==
    IF n = 0 THEN t ELSE IF f[n - 1] = NULL THEN NULL ELSE after[f[n - 1]]

(* The walk is the one function that takes every step. *)
LEMMA WalkIs ==
    ASSUME NEW t, NEW after, NEW fuel \in Nat,
           NEW g, g = [n \in 0..fuel |-> Step(g, t, after, n)]
    PROVE  Walk(t, after, fuel) = g
<1> DEFINE Walks(f) == f = [n \in 0..fuel |-> Step(f, t, after, n)]
<1>1. Walk(t, after, fuel) = CHOOSE f : Walks(f)
  BY DEF Walk, Step
<1>2. ASSUME NEW f, Walks(f) PROVE f = g
  <2> DEFINE Differing == {n \in 0..fuel : f[n] # g[n]}
  <2>1. Differing = {}
    <3> SUFFICES ASSUME Differing # {} PROVE FALSE
      OBVIOUS
    <3>1. PICK m \in Differing : \A n \in Differing : m <= n
      <4>1. Differing \subseteq Nat
        OBVIOUS
      <4> HIDE DEF Differing
      <4> QED
        BY <4>1, LeastExists
    <3>2. m = 0 \/ (m - 1 \in 0..fuel /\ f[m - 1] = g[m - 1])
      BY <3>1
    <3> QED
      BY <3>1, <3>2, <1>2 DEF Step
  <2>2. f = [n \in 0..fuel |-> f[n]] /\ g = [n \in 0..fuel |-> g[n]]
    BY <1>2
  <2> QED
    BY <2>1, <2>2
<1>3. Walks(g)
  OBVIOUS
<1>4. Walks(CHOOSE f : Walks(f))
  <2> HIDE DEF Walks
  <2> QED
    BY <1>3
<1> QED
  BY <1>1, <1>2, <1>4

(* The pointers in `after` lead from t through s and end. *)
Leads(s, t, after) ==
    /\ s \in Seq(Task)
    /\ t = IF Len(s) = 0 THEN NULL ELSE s[1]
    /\ \A k \in 1..Len(s) : after[s[k]] = IF k < Len(s) THEN s[k + 1] ELSE NULL
    /\ \A j, k \in 1..Len(s) : s[j] = s[k] => j = k

(* No walk is longer than there are addresses. *)
LEMMA LeadsIsShort ==
    ASSUME NEW s, NEW t, NEW after, Leads(s, t, after)
    PROVE  Len(s) <= Cardinality(Task) /\ Cardinality(Task) \in Nat
<1>1. IsFiniteSet(Task) /\ Cardinality(Task) \in Nat
  BY TaskAssumption, FS_CardinalityType
<1>2. Len(s) \in Nat /\ s \in [1..Len(s) -> Task]
  BY DEF Leads
<1>3. \A j, k \in 1..Len(s) : s[j] = s[k] => j = k
  BY DEF Leads
<1>4. s \in Injection(1..Len(s), Task)
  BY <1>2, <1>3 DEF Injection, IsInjective
<1>5. Cardinality(1..Len(s)) <= Cardinality(Task)
  BY <1>1, <1>4, FS_Injection
<1>6. Cardinality(1..Len(s)) = Len(s)
  BY <1>2, Counted
<1> QED
  BY <1>1, <1>2, <1>5, <1>6

(* A walk along next of a list that is a sequence meets that sequence. *)
LEMMA MetIs ==
    ASSUME NEW s, NEW t, NEW after, Leads(s, t, after)
    PROVE  Met(t, after, Cardinality(Task) + 1) = s
<1> DEFINE fuel == Cardinality(Task) + 1
           g == [n \in 0..fuel |-> IF n < Len(s) THEN s[n + 1] ELSE NULL]
           met == {n \in 1..fuel : g[n - 1] # NULL}
<1>1. fuel \in Nat /\ Len(s) \in Nat /\ Len(s) < fuel /\ s \in Seq(Task)
  BY LeadsIsShort DEF Leads
<1>2. \A k \in 1..Len(s) : s[k] \in Task /\ s[k] # NULL
  BY <1>1, TaskAssumption
<1> HIDE DEF fuel
<1>3. \A n \in 0..fuel : g[n] = Step(g, t, after, n)
  <2> SUFFICES ASSUME NEW n \in 0..fuel PROVE g[n] = Step(g, t, after, n)
    OBVIOUS
  <2>1. CASE n = 0
    BY <1>1, <2>1 DEF Step, Leads
  <2>2. CASE n # 0 /\ n - 1 >= Len(s)
    BY <1>1, <2>2 DEF Step
  <2>3. CASE n # 0 /\ n - 1 < Len(s)
    <3>1. n \in 1..Len(s) /\ g[n - 1] = s[n] /\ s[n] # NULL
      BY <1>1, <1>2, <2>3
    <3>2. after[s[n]] = IF n < Len(s) THEN s[n + 1] ELSE NULL
      BY <3>1 DEF Leads
    <3> QED
      BY <2>3, <3>1, <3>2 DEF Step
  <2> QED
    BY <1>1, <2>1, <2>2, <2>3
<1>4. Walk(t, after, fuel) = g
  <2>1. g = [n \in 0..fuel |-> Step(g, t, after, n)]
    BY <1>3
  <2> HIDE DEF g
  <2> QED
    BY <1>1, <2>1, WalkIs
<1>5. met = 1..Len(s)
  BY <1>1, <1>2
<1>6. Cardinality(met) = Len(s)
  <2>1. Cardinality(1..Len(s)) = Len(s)
    BY <1>1, Counted
  <2> HIDE DEF met
  <2> QED
    BY <1>5, <2>1
<1>7. Met(t, after, fuel) = [n \in 1..Len(s) |-> g[n - 1]]
  <2>1. Met(t, after, fuel) = [n \in 1..Cardinality(met) |-> g[n - 1]]
    <3> HIDE DEF g
    <3> QED
      BY <1>4, Zenon DEF Met
  <2> HIDE DEF met, g
  <2> QED
    BY <1>6, <2>1, Zenon
<1>8. [n \in 1..Len(s) |-> g[n - 1]] = s
  BY <1>1
<1> QED
  BY <1>7, <1>8 DEF fuel

-----------------------------------------------------------------------------
(* The inductive invariant. *)

Steps == {"idle", "open", "data", "read", "stack", "task", "map"}

TypeOK ==
    /\ processes \in [Slot -> Pointer]
    /\ fields = [p \in Task |-> fields[p]]
    /\ \A p \in Task :
          /\ DOMAIN fields[p] = {"data", "stack", "task"}
          /\ fields[p].data \in Pointer /\ fields[p].stack \in Pointer /\ fields[p].task \in Pointer
    /\ process_of \in [Task -> Pointer]
    /\ heap \subseteq touched /\ touched \subseteq Task
    /\ DOMAIN load = {"at", "slot", "process", "data", "stack", "task"}
    /\ load.at \in Steps /\ load.slot \in Slot
    /\ load.process \in Pointer /\ load.data \in Pointer
    /\ load.stack \in Pointer /\ load.task \in Pointer

(* What the load in progress has been given, and what it has stored of it. *)
LoadInStep ==
    /\ load.process = NULL <=> load.at = "idle"
    /\ load.data = NULL <=> load.at \in {"idle", "open", "data"}
    /\ load.stack = NULL <=> load.at \in {"idle", "open", "data", "read", "stack"}
    /\ load.task = NULL <=> load.at # "map"
    /\ load.at # "idle" => processes[load.slot] = NULL
    /\ load.at \in {"stack", "task", "map"} => fields[load.process].data = load.data
    /\ load.at \in {"task", "map"} => fields[load.process].stack = load.stack
    /\ load.at = "map" =>
          /\ fields[load.process].task = load.task
          /\ process_of[load.task] = load.process

FileInStep == file_open <=> load.at \in {"data", "read"}

Own == {load.process, load.data, load.stack, load.task} \ {NULL}

OwnApart ==
    /\ Own \subseteq heap
    /\ load.data # NULL => load.data # load.process
    /\ load.stack # NULL => load.stack \notin {load.process, load.data}
    /\ load.task # NULL => load.task \notin {load.process, load.data, load.stack}

(* A process that is loaded. *)
Whole(p) ==
    /\ Parts(p) \subseteq heap
    /\ fields[p].data # p
    /\ fields[p].stack \notin {p, fields[p].data}
    /\ fields[p].task \notin {p, fields[p].data, fields[p].stack}
    /\ fields[p].task \in live
    /\ process_of[fields[p].task] = p

LoadedApart ==
    /\ \A p \in Loaded : Whole(p) /\ Parts(p) \cap Own = {}
    /\ \A p, q \in Loaded : p # q => Parts(p) \cap Parts(q) = {}
    /\ \A i, j \in Slot : processes[i] # NULL /\ processes[i] = processes[j] => i = j

(* The tasks there are, and that they are those on the list. *)
TasksAre == live = {fields[p].task : p \in Loaded} \cup ({load.task} \ {NULL})

(* The list read from both ends. *)
Listed(s, head, tail, after, before) ==
    /\ Leads(s, head, after)
    /\ tail = IF Len(s) = 0 THEN NULL ELSE s[Len(s)]
    /\ \A k \in 1..Len(s) : before[s[k]] = IF k > 1 THEN s[k - 1] ELSE NULL

TasksListed ==
    /\ next \in [Task -> Pointer] /\ prev \in [Task -> Pointer]
    /\ Listed(Forwards, task_head, task_tail, next, prev)
    /\ ToSet(Forwards) = live
    /\ load.task # NULL => load.task = task_tail
    /\ current_task = task_head

HeapAccounted ==
    ~late_failure => \A a \in heap : a \in Own \/ \E p \in Loaded : a \in Parts(p)

IInv ==
    /\ TypeOK /\ LoadInStep /\ FileInStep /\ OwnApart /\ LoadedApart
    /\ TasksAre /\ TasksListed /\ HeapAccounted

-----------------------------------------------------------------------------
(* What every step leaves of the processes that are loaded. *)

(* An address kmalloc returns belongs to nobody. *)
LEMMA AvailableIsFree == ASSUME TypeOK, NEW a \in Available PROVE a \in Task \ heap
  BY DEF Available, Lowest, TypeOK

(* A loaded process holds its own address and those of its parts. *)
LEMMA LoadedIsUsed ==
    ASSUME TypeOK, LoadedApart, NEW p \in Loaded
    PROVE  p \in Task /\ p \in heap /\ p \in Parts(p) /\ fields[p].task \in Parts(p)
  BY DEF TypeOK, LoadedApart, Whole, Parts

(* A loaded process stays whole as long as nobody takes what is its own. *)
LEMMA LoadedKept ==
    ASSUME LoadedApart, UNCHANGED processes,
           \A p \in Loaded :
               /\ fields'[p] = fields[p]
               /\ process_of'[fields[p].task] = process_of[fields[p].task]
               /\ Parts(p) \subseteq heap' /\ fields[p].task \in live'
               /\ Parts(p) \cap Own' = {}
    PROVE  LoadedApart' /\ Loaded' = Loaded /\ \A p \in Loaded : Parts(p)' = Parts(p)
<1>1. Loaded' = Loaded
  BY DEF Loaded
<1>2. ASSUME NEW p \in Loaded PROVE Parts(p)' = Parts(p) /\ Whole(p)'
  BY <1>2 DEF Parts, Whole, LoadedApart
<1>3. \A p \in Loaded : Whole(p)' /\ Parts(p)' \cap Own' = {}
  BY <1>2
<1>4. \A p, q \in Loaded : p # q => Parts(p)' \cap Parts(q)' = {}
  BY <1>2 DEF LoadedApart
<1>5. \A i, j \in Slot : processes'[i] # NULL /\ processes'[i] = processes'[j] => i = j
  BY DEF LoadedApart
<1> QED
  BY <1>1, <1>2, <1>3, <1>4, <1>5 DEF LoadedApart

(* Nor does the list change. *)
LEMMA ListKept ==
    ASSUME TasksListed, UNCHANGED <<next, prev, live, task_head, task_tail, current_task>>,
           load'.task = NULL \/ load'.task = load.task
    PROVE  TasksListed'
<1>1. Forwards' = Forwards
  BY DEF Forwards
<1> QED
  BY <1>1 DEF TasksListed

(* The tasks on the list stay those of the processes as long as neither changes. *)
LEMMA TasksKept ==
    ASSUME TasksAre, UNCHANGED processes, UNCHANGED live, load'.task = load.task,
           \A p \in Loaded : fields'[p] = fields[p]
    PROVE  TasksAre'
<1>1. Loaded' = Loaded
  BY DEF Loaded
<1> QED
  BY <1>1 DEF TasksAre

(* Nothing is lost while what is new belongs to the load. *)
LEMMA HeapKept ==
    ASSUME HeapAccounted, UNCHANGED processes, late_failure' = late_failure,
           \A p \in Loaded : fields'[p] = fields[p],
           heap' \ Own' \subseteq heap \ Own
    PROVE  HeapAccounted'
<1>1. Loaded' = Loaded
  BY DEF Loaded
<1>2. \A p \in Loaded : Parts(p)' = Parts(p)
  BY DEF Parts
<1>3. ASSUME ~late_failure', NEW a \in heap', a \notin Own'
      PROVE  \E p \in Loaded' : a \in Parts(p)'
  BY <1>1, <1>2, <1>3 DEF HeapAccounted
<1> QED
  BY <1>3 DEF HeapAccounted

-----------------------------------------------------------------------------
(* The steps. *)

(* A load that has taken a slot and a process. *)
LEMMA BeginLoadKeeps ==
    ASSUME IInv, NEW a \in Available, BeginLoad(a)
    PROVE  IInv'
<1> USE TaskAssumption DEF IInv
<1>1. PICK i \in FreeSlots : load' = [NoLoad EXCEPT !.at = "open", !.slot = i, !.process = a]
  BY DEF BeginLoad
<1>2. /\ load.at = "idle" /\ heap' = heap \cup {a} /\ touched' = touched \cup {a}
      /\ fields' = [fields EXCEPT ![a] = NoFields]
      /\ UNCHANGED <<listVars, processes, process_of, file_open, late_failure>>
  BY DEF BeginLoad, At, KMalloc
<1>3. a \in Task /\ a \notin heap /\ a # NULL
  BY AvailableIsFree
<1>4. /\ DOMAIN load' = {"at", "slot", "process", "data", "stack", "task"}
      /\ load'.at = "open" /\ load'.slot = i /\ load'.process = a
      /\ load'.data = NULL /\ load'.stack = NULL /\ load'.task = NULL
      /\ i \in Slot /\ processes[i] = NULL
  BY <1>1 DEF NoLoad, FreeSlots
<1>5. load.process = NULL /\ load.data = NULL /\ load.stack = NULL /\ load.task = NULL
  BY <1>2 DEF LoadInStep
<1>6. Own' = {a} /\ Own = {}
  BY <1>3, <1>4, <1>5 DEF Own
<1>7. \A p \in Loaded : fields'[p] = fields[p] /\ a \notin Parts(p)
  BY <1>2, <1>3, LoadedIsUsed DEF LoadedApart, Whole
<1>8. TypeOK'
  <2>1. fields' = [p \in Task |-> fields'[p]]
    BY <1>2, <1>3 DEF TypeOK
  <2>2. \A p \in Task :
          /\ DOMAIN fields'[p] = {"data", "stack", "task"}
          /\ fields'[p].data \in Pointer /\ fields'[p].stack \in Pointer /\ fields'[p].task \in Pointer
    BY <1>2, <1>3 DEF TypeOK, NoFields, Pointer
  <2> QED
    BY <1>2, <1>3, <1>4, <2>1, <2>2 DEF TypeOK, Pointer, Steps
<1>9. LoadInStep'
  BY <1>2, <1>3, <1>4 DEF LoadInStep
<1>10. FileInStep'
  BY <1>2, <1>4 DEF FileInStep
<1>11. OwnApart'
  BY <1>2, <1>4, <1>6 DEF OwnApart
<1>12. LoadedApart'
  BY <1>2, <1>6, <1>7, LoadedKept DEF LoadedApart, Whole, listVars
<1>13. TasksAre'
  BY <1>2, <1>4, <1>5, <1>7, TasksKept DEF listVars
<1>14. TasksListed'
  BY <1>2, <1>4, ListKept DEF listVars
<1>15. HeapAccounted'
  BY <1>2, <1>6, <1>7, HeapKept
<1> QED
  BY <1>8, <1>9, <1>10, <1>11, <1>12, <1>13, <1>14, <1>15

(* The binary was opened. *)
LEMMA OpenFileKeeps ==
    ASSUME IInv, OpenFile
    PROVE  IInv'
<1> USE TaskAssumption DEF IInv
<1>1. /\ load.at = "open" /\ load' = [load EXCEPT !.at = "data"] /\ file_open' = TRUE
      /\ UNCHANGED <<listVars, processes, fields, process_of, heap, touched, late_failure>>
  BY DEF OpenFile, At
<1>2. /\ DOMAIN load' = DOMAIN load /\ load'.at = "data" /\ load'.slot = load.slot
      /\ load'.process = load.process /\ load'.data = load.data
      /\ load'.stack = load.stack /\ load'.task = load.task
  BY <1>1 DEF TypeOK
<1>3. Own' = Own
  BY <1>2 DEF Own
<1>4. TypeOK'
  BY <1>1, <1>2 DEF TypeOK, Steps
<1>5. LoadInStep' /\ FileInStep' /\ OwnApart'
  BY <1>1, <1>2, <1>3 DEF LoadInStep, FileInStep, OwnApart
<1>6. LoadedApart'
  BY <1>1, <1>3, LoadedKept DEF LoadedApart, Whole, listVars
<1>7. TasksAre' /\ TasksListed'
  BY <1>1, <1>2, TasksKept, ListKept DEF listVars
<1>8. HeapAccounted'
  BY <1>1, <1>3, HeapKept
<1> QED
  BY <1>4, <1>5, <1>6, <1>7, <1>8

(* The binary is not there: the process is given back. *)
LEMMA OpenFailsKeeps ==
    ASSUME IInv, OpenFails
    PROVE  IInv'
<1> USE TaskAssumption DEF IInv
<1>1. /\ load.at = "open" /\ load' = NoLoad /\ heap' = heap \ {load.process}
      /\ UNCHANGED <<listVars, processes, fields, process_of, touched, file_open, late_failure>>
  BY DEF OpenFails, At, KFree
<1>2. /\ load.data = NULL /\ load.stack = NULL /\ load.task = NULL
      /\ load.process # NULL /\ Own = {load.process} /\ Own' = {}
  BY <1>1 DEF LoadInStep, Own, NoLoad
<1>3. TypeOK'
  BY <1>1, ProcessAssumption DEF TypeOK, NoLoad, Steps, Slot, Pointer
<1>4. LoadInStep' /\ FileInStep' /\ OwnApart'
  BY <1>1, <1>2 DEF LoadInStep, FileInStep, OwnApart, NoLoad
<1>5. LoadedApart'
  BY <1>1, <1>2, LoadedKept DEF LoadedApart, Whole, listVars
<1>6. TasksAre' /\ TasksListed'
  BY <1>1, <1>2, TasksKept, ListKept DEF listVars, NoLoad
<1>7. HeapAccounted'
  BY <1>1, <1>2, HeapKept
<1> QED
  BY <1>3, <1>4, <1>5, <1>6, <1>7

(* The room for the binary belongs to the load. *)
LEMMA AllocateDataKeeps ==
    ASSUME IInv, NEW a \in Available, AllocateData(a)
    PROVE  IInv'
<1> USE TaskAssumption DEF IInv
<1>1. /\ load.at = "data" /\ load' = [load EXCEPT !.at = "read", !.data = a]
      /\ heap' = heap \cup {a} /\ touched' = touched \cup {a}
      /\ UNCHANGED <<listVars, processes, fields, process_of, file_open, late_failure>>
  BY DEF AllocateData, At, KMalloc
<1>2. a \in Task /\ a \notin heap /\ a # NULL
  BY AvailableIsFree
<1>3. /\ DOMAIN load' = DOMAIN load /\ load'.at = "read" /\ load'.slot = load.slot
      /\ load'.process = load.process /\ load'.data = a
      /\ load'.stack = load.stack /\ load'.task = load.task
  BY <1>1 DEF TypeOK
<1>4. /\ load.data = NULL /\ load.stack = NULL /\ load.task = NULL /\ load.process # NULL
      /\ Own' = Own \cup {a}
  BY <1>1, <1>2, <1>3 DEF LoadInStep, Own
<1>5. TypeOK'
  BY <1>1, <1>2, <1>3 DEF TypeOK, Steps, Pointer
<1>6. LoadInStep' /\ FileInStep'
  BY <1>1, <1>2, <1>3 DEF LoadInStep, FileInStep
<1>7. OwnApart'
  BY <1>1, <1>2, <1>3, <1>4 DEF OwnApart, Own
<1>8. LoadedApart'
  BY <1>1, <1>2, <1>4, LoadedKept DEF LoadedApart, Whole, listVars
<1>9. TasksAre' /\ TasksListed'
  BY <1>1, <1>3, TasksKept, ListKept DEF listVars
<1>10. HeapAccounted'
  BY <1>1, <1>4, HeapKept
<1> QED
  BY <1>5, <1>6, <1>7, <1>8, <1>9, <1>10

(* The binary was read and its file closed. *)
LEMMA ReadFileKeeps ==
    ASSUME IInv, ReadFile
    PROVE  IInv'
<1> USE TaskAssumption DEF IInv
<1>1. /\ load.at = "read" /\ load' = [load EXCEPT !.at = "stack"] /\ file_open' = FALSE
      /\ fields' = [fields EXCEPT ![load.process].data = load.data]
      /\ UNCHANGED <<listVars, processes, process_of, heap, touched, late_failure>>
  BY DEF ReadFile, At
<1>2. /\ DOMAIN load' = DOMAIN load /\ load'.at = "stack" /\ load'.slot = load.slot
      /\ load'.process = load.process /\ load'.data = load.data
      /\ load'.stack = load.stack /\ load'.task = load.task
  BY <1>1 DEF TypeOK
<1>3. load.process \in Task /\ load.process \in Own /\ Own' = Own
  BY <1>1, <1>2 DEF LoadInStep, TypeOK, Pointer, Own
<1>4. \A p \in Loaded : fields'[p] = fields[p]
  BY <1>1, <1>3, LoadedIsUsed DEF LoadedApart, TypeOK
<1>5. TypeOK'
  <2>1. fields' = [p \in Task |-> fields'[p]]
    BY <1>1 DEF TypeOK
  <2>2. \A p \in Task :
          /\ DOMAIN fields'[p] = {"data", "stack", "task"}
          /\ fields'[p].data \in Pointer /\ fields'[p].stack \in Pointer /\ fields'[p].task \in Pointer
    BY <1>1, <1>3 DEF TypeOK
  <2> QED
    BY <1>1, <1>2, <2>1, <2>2 DEF TypeOK, Steps
<1>6. fields'[load.process].data = load.data
  BY <1>1, <1>3 DEF TypeOK
<1>7. LoadInStep' /\ FileInStep' /\ OwnApart'
  BY <1>1, <1>2, <1>3, <1>6 DEF LoadInStep, FileInStep, OwnApart
<1>8. LoadedApart'
  BY <1>1, <1>3, <1>4, LoadedKept DEF LoadedApart, Whole, listVars
<1>9. TasksAre' /\ TasksListed'
  BY <1>1, <1>2, <1>4, TasksKept, ListKept DEF listVars
<1>10. HeapAccounted'
  BY <1>1, <1>3, <1>4, HeapKept
<1> QED
  BY <1>5, <1>7, <1>8, <1>9, <1>10

(* The binary could not be read: the room for it is lost, which the failure is recorded for. *)
LEMMA ReadFailsKeeps ==
    ASSUME IInv, ReadFails
    PROVE  IInv'
<1> USE TaskAssumption DEF IInv
<1>1. /\ load.at = "read" /\ load' = NoLoad /\ file_open' = FALSE
      /\ heap' = heap \ {load.process} /\ late_failure' = TRUE
      /\ UNCHANGED <<listVars, processes, fields, process_of, touched>>
  BY DEF ReadFails, At, KFree
<1>2. load.task = NULL /\ load.process \in Own /\ Own' = {}
  BY <1>1 DEF LoadInStep, Own, NoLoad
<1>3. TypeOK'
  BY <1>1, ProcessAssumption DEF TypeOK, NoLoad, Steps, Slot, Pointer
<1>4. LoadInStep' /\ FileInStep' /\ OwnApart'
  BY <1>1, <1>2 DEF LoadInStep, FileInStep, OwnApart, NoLoad
<1>5. LoadedApart'
  BY <1>1, <1>2, LoadedKept DEF LoadedApart, Whole, listVars
<1>6. TasksAre' /\ TasksListed'
  BY <1>1, <1>2, TasksKept, ListKept DEF listVars, NoLoad
<1>7. HeapAccounted'
  BY <1>1 DEF HeapAccounted
<1> QED
  BY <1>3, <1>4, <1>5, <1>6, <1>7

(* The stack belongs to the load. *)
LEMMA AllocateStackKeeps ==
    ASSUME IInv, NEW a \in Available, AllocateStack(a)
    PROVE  IInv'
<1> USE TaskAssumption DEF IInv
<1>1. /\ load.at = "stack" /\ load' = [load EXCEPT !.at = "task", !.stack = a]
      /\ heap' = heap \cup {a} /\ touched' = touched \cup {a}
      /\ fields' = [fields EXCEPT ![load.process].stack = a]
      /\ UNCHANGED <<listVars, processes, process_of, file_open, late_failure>>
  BY DEF AllocateStack, At, KMalloc
<1>2. a \in Task /\ a \notin heap /\ a # NULL
  BY AvailableIsFree
<1>3. /\ DOMAIN load' = DOMAIN load /\ load'.at = "task" /\ load'.slot = load.slot
      /\ load'.process = load.process /\ load'.data = load.data
      /\ load'.stack = a /\ load'.task = load.task
  BY <1>1 DEF TypeOK
<1>4. /\ load.stack = NULL /\ load.task = NULL /\ load.process \in Own /\ load.process \in Task
      /\ load.data # NULL /\ Own' = Own \cup {a}
  BY <1>1, <1>2, <1>3 DEF LoadInStep, Own, TypeOK, Pointer
<1>5. \A p \in Loaded : fields'[p] = fields[p]
  BY <1>1, <1>4, LoadedIsUsed DEF LoadedApart, TypeOK
<1>6. TypeOK'
  <2>1. fields' = [p \in Task |-> fields'[p]]
    BY <1>1 DEF TypeOK
  <2>2. \A p \in Task :
          /\ DOMAIN fields'[p] = {"data", "stack", "task"}
          /\ fields'[p].data \in Pointer /\ fields'[p].stack \in Pointer /\ fields'[p].task \in Pointer
    BY <1>1, <1>2, <1>4 DEF TypeOK, Pointer
  <2> QED
    BY <1>1, <1>2, <1>3, <2>1, <2>2 DEF TypeOK, Steps, Pointer
<1>7. fields'[load.process].stack = a /\ fields'[load.process].data = fields[load.process].data
  BY <1>1, <1>4 DEF TypeOK
<1>8. LoadInStep' /\ FileInStep'
  BY <1>1, <1>2, <1>3, <1>7 DEF LoadInStep, FileInStep
<1>9. OwnApart'
  BY <1>1, <1>2, <1>3, <1>4 DEF OwnApart, Own
<1>10. LoadedApart'
  BY <1>1, <1>2, <1>4, <1>5, LoadedKept DEF LoadedApart, Whole, listVars
<1>11. TasksAre' /\ TasksListed'
  BY <1>1, <1>3, <1>5, TasksKept, ListKept DEF listVars
<1>12. HeapAccounted'
  BY <1>1, <1>4, <1>5, HeapKept
<1> QED
  BY <1>6, <1>8, <1>9, <1>10, <1>11, <1>12

-----------------------------------------------------------------------------
(* What task_new and task_free make of a list that is a sequence. *)

(* task_new puts a task that is on no list behind the last one. *)
LEMMA TaskNewAppends ==
    ASSUME NEW s, NEW head, NEW tail, NEW after, NEW before,
           Listed(s, head, tail, after, before),
           NEW t \in Task, \A k \in 1..Len(s) : s[k] # t,
           NEW after2, \A u \in Task : after2[u] = IF u = tail THEN t ELSE IF u = t THEN NULL ELSE after[u],
           NEW before2, \A u \in Task : before2[u] = IF u = t THEN tail ELSE before[u]
    PROVE  /\ Listed(Append(s, t), IF head = NULL THEN t ELSE head, t, after2, before2)
           /\ ToSet(Append(s, t)) = ToSet(s) \cup {t}
<1> USE TaskAssumption
<1> DEFINE n == Len(s)
           s2 == Append(s, t)
<1>1. s \in Seq(Task) /\ n \in Nat /\ \A k \in 1..n : s[k] \in Task
  BY DEF Listed, Leads
<1>2. /\ s2 \in Seq(Task) /\ Len(s2) = n + 1 /\ s2[n + 1] = t
      /\ \A k \in 1..n : s2[k] = s[k]
  BY <1>1, AppendProperties
<1>3. head = NULL <=> n = 0
  BY <1>1 DEF Listed, Leads
<1>4. \A j, k \in 1..n : s[j] = s[k] => j = k
  BY DEF Listed, Leads
<1>5. n > 0 => tail = s[n]
  BY <1>1 DEF Listed
<1>6. \A k \in 1..n : after[s[k]] = IF k < n THEN s[k + 1] ELSE NULL
  BY DEF Listed, Leads
<1>7. \A k \in 1..n : before[s[k]] = IF k > 1 THEN s[k - 1] ELSE NULL
  BY DEF Listed
<1> HIDE DEF s2
<1>8. \A k \in 1..n + 1 : after2[s2[k]] = IF k < n + 1 THEN s2[k + 1] ELSE NULL
  <2> SUFFICES ASSUME NEW k \in 1..n + 1
               PROVE  after2[s2[k]] = IF k < n + 1 THEN s2[k + 1] ELSE NULL
    OBVIOUS
  <2>1. CASE k = n + 1
    <3>1. t # tail
      BY <1>1, <1>5 DEF Listed
    <3> QED
      BY <1>1, <1>2, <2>1, <3>1
  <2>2. CASE k = n
    BY <1>1, <1>2, <1>5, <2>2
  <2>3. CASE k < n
    <3>1. k \in 1..n /\ k + 1 \in 1..n /\ n \in 1..n
      BY <1>1, <2>3
    <3>2. s2[k] = s[k] /\ s2[k + 1] = s[k + 1] /\ s[k] # tail /\ s[k] # t /\ s[k] \in Task
      BY <1>1, <1>2, <1>4, <1>5, <2>3, <3>1
    <3> QED
      BY <1>1, <1>6, <2>3, <3>1, <3>2
  <2> QED
    BY <1>1, <2>1, <2>2, <2>3
<1>9. \A k \in 1..n + 1 : before2[s2[k]] = IF k > 1 THEN s2[k - 1] ELSE NULL
  <2> SUFFICES ASSUME NEW k \in 1..n + 1
               PROVE  before2[s2[k]] = IF k > 1 THEN s2[k - 1] ELSE NULL
    OBVIOUS
  <2>1. CASE k = n + 1
    BY <1>1, <1>2, <1>5, <2>1 DEF Listed
  <2>2. CASE k <= n
    <3>1. k \in 1..n /\ s2[k] = s[k] /\ s[k] # t /\ s[k] \in Task
      BY <1>1, <1>2, <2>2
    <3>2. before2[s2[k]] = before[s[k]]
      BY <3>1
    <3>3. k > 1 => k - 1 \in 1..n /\ s2[k - 1] = s[k - 1]
      BY <1>1, <1>2, <2>2
    <3> QED
      BY <1>7, <3>1, <3>2, <3>3
  <2> QED
    BY <1>1, <2>1, <2>2
<1>10. \A j, k \in 1..n + 1 : s2[j] = s2[k] => j = k
  <2> SUFFICES ASSUME NEW j \in 1..n + 1, NEW k \in 1..n + 1, s2[j] = s2[k] PROVE j = k
    OBVIOUS
  <2>1. CASE j = n + 1 \/ k = n + 1
    BY <1>1, <1>2, <2>1
  <2>2. CASE j # n + 1 /\ k # n + 1
    BY <1>1, <1>2, <1>4, <2>2
  <2> QED
    BY <2>1, <2>2
<1>11. (IF head = NULL THEN t ELSE head) = s2[1]
  BY <1>1, <1>2, <1>3 DEF Listed, Leads
<1>12. Listed(s2, IF head = NULL THEN t ELSE head, t, after2, before2)
  BY <1>1, <1>2, <1>8, <1>9, <1>10, <1>11 DEF Listed, Leads
<1>13. ToSet(s2) = ToSet(s) \cup {t}
  BY <1>1, <1>2 DEF ToSet
<1> QED
  BY <1>12, <1>13 DEF s2

(* The task that is freed is the last one: process.c frees no other. *)
LEMMA TaskFreeShortens ==
    ASSUME NEW s, NEW head, NEW tail, NEW after, NEW before,
           Listed(s, head, tail, after, before),
           NEW t \in Task, t = tail,
           NEW after2, \A u \in Task : after2[u] = IF u = before[t] THEN after[t] ELSE after[u]
    PROVE  /\ Len(s) \in Nat \ {0} /\ s[Len(s)] = t
           /\ after2[t] = NULL /\ (t = head <=> Len(s) = 1)
           /\ Listed(SubSeq(s, 1, Len(s) - 1), IF t = head THEN NULL ELSE head, before[t], after2, before)
           /\ ToSet(SubSeq(s, 1, Len(s) - 1)) = ToSet(s) \ {t}
<1> USE TaskAssumption
<1> DEFINE n == Len(s)
           q == SubSeq(s, 1, n - 1)
<1>1. s \in Seq(Task) /\ n \in Nat /\ \A k \in 1..n : s[k] \in Task
  BY DEF Listed, Leads
<1>2. n > 0 /\ s[n] = t
  BY <1>1 DEF Listed
<1>3. /\ q \in Seq(Task) /\ Len(q) = n - 1
      /\ \A k \in 1..n - 1 : q[k] = s[k]
  <2>1. \A k \in 1..n - 1 : s[k] \in Task
    BY <1>1
  <2>2. 1 \in Int /\ n - 1 \in Int
    BY <1>1
  <2>3. /\ SubSeq(s, 1, n - 1) \in Seq(Task)
        /\ Len(SubSeq(s, 1, n - 1)) = IF 1 <= n - 1 THEN n - 1 - 1 + 1 ELSE 0
        /\ \A k \in 1..n - 1 - 1 + 1 : SubSeq(s, 1, n - 1)[k] = s[1 + k - 1]
    BY <2>1, <2>2, SubSeqProperties
  <2>4. Len(q) = n - 1
    <3>1. Len(q) = IF 1 <= n - 1 THEN n - 1 - 1 + 1 ELSE 0
      BY <2>3, Zenon
    <3> HIDE DEF n
    <3> QED
      BY <1>1, <1>2, <3>1
  <2>5. ASSUME NEW k \in 1..n - 1 PROVE q[k] = s[k]
    <3>1. k \in 1..n - 1 - 1 + 1 /\ 1 + k - 1 = k
      BY <1>1
    <3> QED
      BY <2>3, <3>1
  <2> QED
    BY <2>3, <2>4, <2>5
<1> HIDE DEF q
<1>4. \A j, k \in 1..n : s[j] = s[k] => j = k
  BY DEF Listed, Leads
<1>5. \A k \in 1..n : after[s[k]] = IF k < n THEN s[k + 1] ELSE NULL
  BY DEF Listed, Leads
<1>6. \A k \in 1..n : before[s[k]] = IF k > 1 THEN s[k - 1] ELSE NULL
  BY DEF Listed
<1>7. after[t] = NULL /\ before[t] = (IF n > 1 THEN s[n - 1] ELSE NULL)
  <2>1. n \in 1..n
    BY <1>1, <1>2
  <2> QED
    BY <1>2, <1>5, <1>6, <2>1
<1>8. head = s[1]
  BY <1>1, <1>2 DEF Listed, Leads
<1>9. t = head <=> n = 1
  <2>1. 1 \in 1..n /\ n \in 1..n
    BY <1>1, <1>2
  <2>2. ASSUME t = head PROVE n = 1
    BY <1>2, <1>4, <1>8, <2>1, <2>2
  <2> QED
    BY <1>2, <1>8, <2>2
<1>10. before[t] # t
  BY <1>1, <1>2, <1>4, <1>7
<1>11. after2[t] = NULL
  BY <1>7, <1>10
<1>12. \A k \in 1..n - 1 : after2[q[k]] = IF k < n - 1 THEN q[k + 1] ELSE NULL
  <2> SUFFICES ASSUME NEW k \in 1..n - 1
               PROVE  after2[q[k]] = IF k < n - 1 THEN q[k + 1] ELSE NULL
    OBVIOUS
  <2>1. CASE k = n - 1
    BY <1>1, <1>3, <1>7, <2>1
  <2>2. CASE k < n - 1
    <3>1. k \in 1..n /\ k + 1 \in 1..n - 1 /\ n - 1 \in 1..n /\ n > 1
      BY <1>1, <2>2
    <3>2. q[k] = s[k] /\ q[k + 1] = s[k + 1] /\ s[k] # before[t] /\ s[k] \in Task
      BY <1>1, <1>3, <1>4, <1>7, <2>2, <3>1
    <3> QED
      BY <1>1, <1>5, <2>2, <3>1, <3>2
  <2> QED
    BY <1>1, <2>1, <2>2
<1>13. \A k \in 1..n - 1 : before[q[k]] = IF k > 1 THEN q[k - 1] ELSE NULL
  BY <1>1, <1>3, <1>6
<1>14. Leads(q, IF t = head THEN NULL ELSE head, after2)
  <2>1. \A j, k \in 1..n - 1 : q[j] = q[k] => j = k
    <3>1. \A k \in 1..n - 1 : k \in 1..n
      BY <1>1
    <3> QED
      BY <1>3, <1>4, <3>1
  <2>2. (IF t = head THEN NULL ELSE head) = IF Len(q) = 0 THEN NULL ELSE q[1]
    BY <1>1, <1>2, <1>3, <1>8, <1>9
  <2> QED
    BY <1>3, <1>12, <2>1, <2>2 DEF Leads
<1>15. before[t] = IF Len(q) = 0 THEN NULL ELSE q[Len(q)]
  BY <1>1, <1>2, <1>3, <1>7
<1>16. Listed(q, IF t = head THEN NULL ELSE head, before[t], after2, before)
  BY <1>3, <1>13, <1>14, <1>15 DEF Listed
<1>17. ToSet(q) = ToSet(s) \ {t}
  <2>1. DOMAIN q = 1..n - 1 /\ DOMAIN s = 1..n
    BY <1>1, <1>3
  <2>2. \A u : u \in ToSet(q) <=> u \in ToSet(s) /\ u # t
    <3> SUFFICES ASSUME NEW u PROVE u \in ToSet(q) <=> u \in ToSet(s) /\ u # t
      OBVIOUS
    <3>1. ASSUME u \in ToSet(q) PROVE u \in ToSet(s) /\ u # t
      BY <1>1, <1>2, <1>3, <1>4, <2>1, <3>1 DEF ToSet
    <3>2. ASSUME u \in ToSet(s), u # t PROVE u \in ToSet(q)
      <4>1. PICK k \in 1..n : s[k] = u
        BY <2>1, <3>2 DEF ToSet
      <4>2. k \in 1..n - 1
        BY <1>1, <1>2, <3>2, <4>1
      <4> QED
        BY <1>3, <2>1, <4>1, <4>2 DEF ToSet
    <3> QED
      BY <3>1, <3>2
  <2> QED
    BY <2>2
<1> QED
  BY <1>1, <1>2, <1>3, <1>9, <1>11, <1>16, <1>17 DEF q

(* The list after a step is the sequence its links make. *)
LEMMA ForwardsIs ==
    ASSUME NEW s, Listed(s, task_head', task_tail', next', prev')
    PROVE  Forwards' = s
  BY MetIs DEF Listed, Forwards

(* task_new as the module has it, on the list as the module reads it. *)
LEMMA NewTaskLists ==
    ASSUME TasksListed, NEW t \in Task, TaskNew(t)
    PROVE  /\ Listed(Forwards', task_head', task_tail', next', prev')
           /\ Forwards' = Append(Forwards, t) /\ ToSet(Forwards') = live'
           /\ task_tail' = t /\ current_task' = task_head'
           /\ next' \in [Task -> Pointer] /\ prev' \in [Task -> Pointer]
<1> USE TaskAssumption
<1> DEFINE s == Forwards
<1>1. Listed(s, task_head, task_tail, next, prev) /\ ToSet(s) = live /\ t \notin live
  BY DEF TasksListed, TaskNew
<1>2. s \in Seq(Task) /\ Len(s) \in Nat /\ \A k \in 1..Len(s) : s[k] \in Task /\ s[k] # t
  BY <1>1 DEF Listed, Leads, ToSet
<1>3. /\ task_head = NULL => task_tail = NULL
      /\ task_head # NULL => task_tail \in Task /\ task_tail # t
  BY <1>1, <1>2 DEF Listed, Leads
<1>4. /\ task_head' = IF task_head = NULL THEN t ELSE task_head
      /\ task_tail' = t /\ current_task' = task_head' /\ live' = live \cup {t}
  BY DEF TaskNew, TasksListed
<1>5. CASE task_head = NULL
  <2>1. next' = [next EXCEPT ![t] = NULL] /\ prev' = [prev EXCEPT ![t] = NULL]
    BY <1>5 DEF TaskNew
  <2>2. /\ \A u \in Task : next'[u] = IF u = task_tail THEN t ELSE IF u = t THEN NULL ELSE next[u]
        /\ \A u \in Task : prev'[u] = IF u = t THEN task_tail ELSE prev[u]
        /\ next' \in [Task -> Pointer] /\ prev' \in [Task -> Pointer]
    BY <1>3, <1>5, <2>1 DEF TasksListed, Pointer
  <2>3. /\ Listed(Append(s, t), IF task_head = NULL THEN t ELSE task_head, t, next', prev')
        /\ ToSet(Append(s, t)) = ToSet(s) \cup {t}
    <3> HIDE DEF s
    <3> QED
      BY <1>1, <1>2, <2>2, TaskNewAppends
  <2>4. Listed(Append(s, t), task_head', task_tail', next', prev')
    BY <1>4, <2>3, Zenon
  <2> QED
    BY <1>1, <1>4, <2>2, <2>3, <2>4, ForwardsIs
<1>6. CASE task_head # NULL
  <2>1. /\ next' = [next EXCEPT ![t] = NULL, ![task_tail] = t]
        /\ prev' = [prev EXCEPT ![t] = task_tail]
    BY <1>6 DEF TaskNew
  <2>2. /\ \A u \in Task : next'[u] = IF u = task_tail THEN t ELSE IF u = t THEN NULL ELSE next[u]
        /\ \A u \in Task : prev'[u] = IF u = t THEN task_tail ELSE prev[u]
        /\ next' \in [Task -> Pointer] /\ prev' \in [Task -> Pointer]
    BY <1>3, <1>6, <2>1 DEF TasksListed, Pointer
  <2>3. /\ Listed(Append(s, t), IF task_head = NULL THEN t ELSE task_head, t, next', prev')
        /\ ToSet(Append(s, t)) = ToSet(s) \cup {t}
    <3> HIDE DEF s
    <3> QED
      BY <1>1, <1>2, <2>2, TaskNewAppends
  <2>4. Listed(Append(s, t), task_head', task_tail', next', prev')
    BY <1>4, <2>3, Zenon
  <2> QED
    BY <1>1, <1>4, <2>2, <2>3, <2>4, ForwardsIs
<1> QED
  BY <1>5, <1>6

(* The task of the load joins the list and is not yet a process's. *)
LEMMA NewTaskKeeps ==
    ASSUME IInv, NEW a \in Available, NewTask(a)
    PROVE  IInv'
<1> USE TaskAssumption DEF IInv
<1>1. /\ load.at = "task" /\ load' = [load EXCEPT !.at = "map", !.task = a]
      /\ heap' = heap \cup {a} /\ touched' = touched \cup {a}
      /\ fields' = [fields EXCEPT ![load.process].task = a]
      /\ process_of' = [process_of EXCEPT ![a] = load.process]
      /\ TaskNew(a) /\ UNCHANGED <<processes, file_open, late_failure>>
  BY DEF NewTask, At, KMalloc
<1>2. a \in Task /\ a \notin heap /\ a # NULL
  BY AvailableIsFree
<1>3. /\ DOMAIN load' = DOMAIN load /\ load'.at = "map" /\ load'.slot = load.slot
      /\ load'.process = load.process /\ load'.data = load.data
      /\ load'.stack = load.stack /\ load'.task = a
  BY <1>1 DEF TypeOK
<1>4. /\ load.task = NULL /\ load.process \in Own /\ load.process \in Task
      /\ load.data # NULL /\ load.stack # NULL /\ Own' = Own \cup {a}
  BY <1>1, <1>2, <1>3 DEF LoadInStep, Own, TypeOK, Pointer
<1>5. \A p \in Loaded :
          /\ fields'[p] = fields[p]
          /\ process_of'[fields[p].task] = process_of[fields[p].task]
          /\ a \notin Parts(p)
  <2>1. \A p \in Loaded : fields[p].task \in Parts(p) /\ Parts(p) \subseteq heap /\ p \in Parts(p)
                            /\ Parts(p) \cap Own = {}
    BY DEF LoadedApart, Whole, Parts
  <2> QED
    BY <1>1, <1>2, <1>4, <2>1 DEF TypeOK
<1>6. live' = live \cup {a}
  BY <1>1 DEF TaskNew
<1>7. TypeOK'
  <2>1. fields' = [p \in Task |-> fields'[p]]
    BY <1>1 DEF TypeOK
  <2>2. \A p \in Task :
          /\ DOMAIN fields'[p] = {"data", "stack", "task"}
          /\ fields'[p].data \in Pointer /\ fields'[p].stack \in Pointer /\ fields'[p].task \in Pointer
    BY <1>1, <1>2, <1>4 DEF TypeOK, Pointer
  <2> QED
    BY <1>1, <1>2, <1>3, <2>1, <2>2 DEF TypeOK, Steps, Pointer
<1>8. /\ fields'[load.process].task = a /\ fields'[load.process].data = fields[load.process].data
      /\ fields'[load.process].stack = fields[load.process].stack /\ process_of'[a] = load.process
  BY <1>1, <1>2, <1>4 DEF TypeOK
<1>9. LoadInStep' /\ FileInStep'
  BY <1>1, <1>2, <1>3, <1>8 DEF LoadInStep, FileInStep
<1>10. OwnApart'
  BY <1>1, <1>2, <1>3, <1>4 DEF OwnApart, Own
<1>11. LoadedApart'
  BY <1>1, <1>2, <1>4, <1>5, <1>6, LoadedKept DEF LoadedApart, Whole
<1>12. TasksAre'
  <2>1. Loaded' = Loaded
    BY <1>1 DEF Loaded
  <2> QED
    BY <1>2, <1>3, <1>4, <1>5, <1>6, <2>1 DEF TasksAre
<1>13. TasksListed'
  BY <1>1, <1>2, <1>3, NewTaskLists DEF TasksListed
<1>14. HeapAccounted'
  BY <1>1, <1>4, <1>5, HeapKept
<1> QED
  BY <1>7, <1>9, <1>10, <1>11, <1>12, <1>13, <1>14

(* task_free of the last task takes it from the end of the list. *)
LEMMA TaskFreeLists ==
    ASSUME TasksListed, NEW t \in Task, t = task_tail, TaskFree(t)
    PROVE  /\ Listed(Forwards', task_head', task_tail', next', prev')
           /\ Len(Forwards) \in Nat \ {0} /\ Forwards[Len(Forwards)] = t
           /\ Forwards' = SubSeq(Forwards, 1, Len(Forwards) - 1) /\ ToSet(Forwards') = live'
           /\ current_task' = task_head' /\ (t = task_head <=> Len(Forwards) = 1)
           /\ next' \in [Task -> Pointer] /\ prev' \in [Task -> Pointer]
           /\ t = task_head => task_head' = NULL
<1> USE TaskAssumption
<1> DEFINE s == Forwards
           q == SubSeq(s, 1, Len(s) - 1)
<1>1. /\ Listed(s, task_head, task_tail, next, prev) /\ ToSet(s) = live
      /\ next \in [Task -> Pointer] /\ prev \in [Task -> Pointer] /\ current_task = task_head
  BY DEF TasksListed
<1>2. /\ next' = Unlinked(t) /\ prev' = prev /\ live' = live \ {t}
      /\ task_head' = IF t = task_head THEN next'[t] ELSE task_head
      /\ task_tail' = prev[t]
      /\ current_task' = IF t = current_task THEN TaskGetNext(next', task_head', t) ELSE current_task
  BY DEF TaskFree
<1>3. /\ \A u \in Task : next'[u] = IF u = prev[t] THEN next[t] ELSE next[u]
      /\ next' \in [Task -> Pointer]
  BY <1>1, <1>2 DEF Unlinked, Pointer
<1>4. /\ Len(s) \in Nat \ {0} /\ s[Len(s)] = t
      /\ next'[t] = NULL /\ (t = task_head <=> Len(s) = 1)
      /\ Listed(q, IF t = task_head THEN NULL ELSE task_head, prev[t], next', prev)
      /\ ToSet(q) = ToSet(s) \ {t}
  <2>1. \A u \in Task : next'[u] = IF u = prev[t] THEN next[t] ELSE next[u]
    BY <1>3
  <2> HIDE DEF s
  <2> QED
    BY <1>1, <2>1, TaskFreeShortens
<1>5. task_head' = IF t = task_head THEN NULL ELSE task_head
  BY <1>2, <1>4
<1>6. Listed(q, task_head', task_tail', next', prev')
  BY <1>2, <1>4, <1>5, Zenon
<1>7. Forwards' = q
  BY <1>6, ForwardsIs
<1>8. current_task' = task_head'
  BY <1>1, <1>2, <1>4, <1>5 DEF TaskGetNext
<1> QED
  BY <1>1, <1>2, <1>3, <1>4, <1>5, <1>6, <1>7, <1>8

(* The binary could not be mapped: the task leaves the list again, room and stack are lost. *)
LEMMA MapFailsKeeps ==
    ASSUME IInv, MapFails
    PROVE  IInv'
<1> USE TaskAssumption DEF IInv
<1>1. /\ load.at = "map" /\ load' = NoLoad /\ TaskFree(load.task)
      /\ heap' = heap \ {load.task} /\ late_failure' = TRUE
      /\ UNCHANGED <<processes, fields, process_of, touched, file_open>>
  BY DEF MapFails, At, KFree
<1>2. load.task # NULL /\ load.task \in Task /\ load.task \in Own /\ load.task = task_tail /\ Own' = {}
  BY <1>1 DEF LoadInStep, Own, NoLoad, TypeOK, Pointer, TasksListed
<1>3. live' = live \ {load.task}
  BY <1>1 DEF TaskFree
<1>4. \A p \in Loaded : load.task \notin Parts(p) /\ fields[p].task \in Parts(p)
  BY <1>2 DEF LoadedApart, Parts
<1>5. TypeOK'
  BY <1>1, ProcessAssumption DEF TypeOK, NoLoad, Steps, Slot, Pointer
<1>6. LoadInStep' /\ FileInStep' /\ OwnApart'
  BY <1>1, <1>2 DEF LoadInStep, FileInStep, OwnApart, NoLoad
<1>7. LoadedApart'
  BY <1>1, <1>2, <1>3, <1>4, LoadedKept DEF LoadedApart, Whole
<1>8. TasksAre'
  <2>1. Loaded' = Loaded /\ load'.task = NULL
    BY <1>1 DEF Loaded, NoLoad
  <2> QED
    BY <1>1, <1>2, <1>3, <1>4, <2>1 DEF TasksAre
<1>9. TasksListed'
  <2>1. load'.task = NULL
    BY <1>1 DEF NoLoad
  <2> QED
    BY <1>1, <1>2, <2>1, TaskFreeLists DEF TasksListed
<1>10. HeapAccounted'
  BY <1>1 DEF HeapAccounted
<1> QED
  BY <1>5, <1>6, <1>7, <1>8, <1>9, <1>10

(* What was the load's becomes the process's. *)
LEMMA MapMemoryKeeps ==
    ASSUME IInv, MapMemory
    PROVE  IInv'
<1> USE TaskAssumption DEF IInv
<1>0. PICK p0 : p0 = load.process
  OBVIOUS
<1> USE <1>0
<1>1. /\ load.at = "map" /\ load' = NoLoad
      /\ processes' = [processes EXCEPT ![load.slot] = p0]
      /\ UNCHANGED <<listVars, fields, process_of, heap, touched, file_open, late_failure>>
  BY DEF MapMemory, At
<1>2. /\ p0 # NULL /\ p0 \in Task /\ load.data # NULL /\ load.stack # NULL /\ load.task # NULL
      /\ load.slot \in Slot /\ processes[load.slot] = NULL /\ Own' = {}
  BY <1>1 DEF LoadInStep, Own, NoLoad, TypeOK, Pointer
<1>3. Parts(p0) = Own /\ fields[p0].task = load.task /\ process_of[load.task] = p0
      /\ fields[p0].data = load.data /\ fields[p0].stack = load.stack
  BY <1>1, <1>2 DEF LoadInStep, Parts, Own
<1>4. Loaded' = Loaded \cup {p0}
  <2>1. \A i \in Slot : processes'[i] = IF i = load.slot THEN p0 ELSE processes[i]
    BY <1>1 DEF TypeOK
  <2>2. ASSUME NEW p PROVE p \in Loaded' <=> p \in Loaded \/ p = p0
    <3> QED
      BY <1>2, <2>1 DEF Loaded
  <2> QED
    BY <2>2
<1>5. \A p : Parts(p)' = Parts(p)
  BY <1>1 DEF Parts
<1>6. \A p \in Loaded : Whole(p) /\ Parts(p) \cap Own = {} /\ p \in Parts(p)
  BY DEF LoadedApart, Parts
<1>7. TypeOK'
  BY <1>1, <1>2, ProcessAssumption DEF TypeOK, NoLoad, Steps, Slot, Pointer
<1>8. LoadInStep' /\ FileInStep' /\ OwnApart'
  BY <1>1, <1>2 DEF LoadInStep, FileInStep, OwnApart, NoLoad
<1>9. LoadedApart'
  <2>1. \A p \in Loaded : Whole(p)'
    BY <1>1, <1>5, <1>6 DEF Whole, listVars
  <2>2. Whole(p0)'
    <3>1. fields[p0].task \in live
      BY <1>2, <1>3 DEF TasksAre
    <3>2. /\ Parts(p0) \subseteq heap
          /\ fields[p0].data # p0
          /\ fields[p0].stack \notin {p0, fields[p0].data}
          /\ fields[p0].task \notin {p0, fields[p0].data, fields[p0].stack}
          /\ process_of[fields[p0].task] = p0
      BY <1>2, <1>3 DEF OwnApart
    <3>3. Whole(p0)
      BY <3>1, <3>2, Zenon DEF Whole
    <3> QED
      BY <1>1, <1>5, <3>3 DEF Whole, listVars
  <2>3. \A p, q \in Loaded' : p # q => Parts(p)' \cap Parts(q)' = {}
    BY <1>3, <1>4, <1>5, <1>6 DEF LoadedApart
  <2>4. \A i, j \in Slot : processes'[i] # NULL /\ processes'[i] = processes'[j] => i = j
    <3>1. p0 \notin Loaded
      BY <1>2, <1>6 DEF Own
    <3>2. \A i \in Slot : processes'[i] = IF i = load.slot THEN p0 ELSE processes[i]
      BY <1>1 DEF TypeOK
    <3>3. \A i \in Slot : processes[i] # p0
      BY <1>2, <3>1 DEF Loaded
    <3>4. \A i, j \in Slot : processes[i] # NULL /\ processes[i] = processes[j] => i = j
      BY DEF LoadedApart
    <3> QED
      BY <3>2, <3>3, <3>4
  <2>5. \A p \in Loaded' : Whole(p)' /\ Parts(p)' \cap Own' = {}
    BY <1>2, <1>4, <2>1, <2>2
  <2> QED
    BY <2>3, <2>4, <2>5 DEF LoadedApart
<1>10. TasksAre'
  BY <1>1, <1>2, <1>3, <1>4 DEF TasksAre, NoLoad, listVars
<1>11. TasksListed'
  BY <1>1, ListKept DEF NoLoad, listVars
<1>12. HeapAccounted'
  <2>1. ASSUME ~late_failure, NEW a \in heap PROVE \E p \in Loaded' : a \in Parts(p)
    BY <1>3, <1>4, <2>1 DEF HeapAccounted
  <2> QED
    BY <1>1, <1>5, <2>1 DEF HeapAccounted
<1> QED
  BY <1>7, <1>8, <1>9, <1>10, <1>11, <1>12

(* Steps that load nothing. *)
LEMMA OthersKeep ==
    ASSUME IInv, OutOfMemory \/ RunFirstTask \/ UNCHANGED vars
    PROVE  IInv'
<1> USE DEF IInv
<1>1. /\ UNCHANGED <<processes, fields, process_of, heap, touched, file_open, load, late_failure>>
      /\ UNCHANGED <<next, prev, live, task_head, task_tail>>
      /\ current_task' = task_head
  BY DEF OutOfMemory, RunFirstTask, TaskRunFirstTask, vars, listVars, processVars, TasksListed
<1>2. TypeOK' /\ LoadInStep' /\ FileInStep' /\ OwnApart'
  BY <1>1 DEF TypeOK, LoadInStep, FileInStep, OwnApart, Own
<1>3. LoadedApart'
  BY <1>1, LoadedKept DEF LoadedApart, Whole, Own
<1>4. TasksAre'
  BY <1>1 DEF TasksAre, Loaded
<1>5. TasksListed'
  <2>1. Forwards' = Forwards
    BY <1>1 DEF Forwards
  <2> QED
    BY <1>1, <2>1 DEF TasksListed
<1>6. HeapAccounted'
  BY <1>1, HeapKept DEF Own
<1> QED
  BY <1>2, <1>3, <1>4, <1>5, <1>6

(* No process, no task, nothing taken. *)
LEMMA IInvInitially == Init => IInv
<1> SUFFICES ASSUME Init PROVE IInv
  OBVIOUS
<1> USE TaskAssumption, ProcessAssumption DEF Init, ListInit
<1>1. Loaded = {} /\ Own = {}
  BY DEF Loaded, Own, NoLoad
<1>2. TypeOK
  <2>1. \A p \in Task :
          /\ DOMAIN fields[p] = {"data", "stack", "task"}
          /\ fields[p].data \in Pointer /\ fields[p].stack \in Pointer /\ fields[p].task \in Pointer
    BY DEF NoFields, Pointer
  <2>2. fields = [p \in Task |-> fields[p]]
    OBVIOUS
  <2>3. 0 \in Slot
    BY DEF Slot
  <2>4. processes \in [Slot -> Pointer] /\ process_of \in [Task -> Pointer]
    BY DEF Pointer
  <2> QED
    BY <2>1, <2>2, <2>3, <2>4 DEF TypeOK, NoLoad, Pointer, Steps
<1>3. LoadInStep /\ FileInStep /\ OwnApart
  BY <1>1 DEF LoadInStep, FileInStep, OwnApart, NoLoad
<1>4. LoadedApart
  BY <1>1 DEF LoadedApart
<1>5. TasksAre
  BY <1>1 DEF TasksAre, NoLoad
<1>6. TasksListed
  <2>1. <<>> \in Seq(Task) /\ Len(<<>>) = 0
    OBVIOUS
  <2>2. Leads(<<>>, task_head, next)
    BY <2>1 DEF Leads
  <2>3. Forwards = <<>>
    BY <2>2, MetIs DEF Forwards
  <2>4. Listed(Forwards, task_head, task_tail, next, prev) /\ ToSet(Forwards) = live
    BY <2>1, <2>2, <2>3 DEF Listed, ToSet
  <2> QED
    BY <2>4 DEF TasksListed, NoLoad, Pointer
<1>7. HeapAccounted
  BY DEF HeapAccounted
<1> QED
  BY <1>2, <1>3, <1>4, <1>5, <1>6, <1>7 DEF IInv

(* Every step of a load, its failures and the first task's start keep the invariant. *)
LEMMA IInvKept == IInv /\ [Next]_vars => IInv'
<1> SUFFICES ASSUME IInv, [Next]_vars PROVE IInv'
  OBVIOUS
<1>1. CASE \E a \in Available : Allocating(a)
  BY <1>1, BeginLoadKeeps, AllocateDataKeeps, AllocateStackKeeps, NewTaskKeeps DEF Allocating
<1>2. CASE OpenFile \/ OpenFails \/ ReadFile \/ ReadFails \/ MapMemory \/ MapFails
  BY <1>2, OpenFileKeeps, OpenFailsKeeps, ReadFileKeeps, ReadFailsKeeps, MapMemoryKeeps, MapFailsKeeps
<1>3. CASE OutOfMemory \/ RunFirstTask \/ UNCHANGED vars
  BY <1>3, OthersKeep
<1> QED
  BY <1>1, <1>2, <1>3 DEF Next

(* The inductive invariant: at every step of a load, what it was given is its own
   and accounted for, and the list holds the tasks of the loaded processes and of
   the load. *)
THEOREM ProcessInvariant == Spec => []IInv
<1> QED
  BY IInvInitially, IInvKept, PTL DEF Spec

(* Whatever loads failed before and whatever addresses they gave back: a process in
   a slot has its four parts, which no other process shares. *)
THEOREM ProcessLoadedIsWhole == Spec => []LoadedIsWhole
<1>1. IInv => LoadedIsWhole
  <2> SUFFICES ASSUME IInv PROVE LoadedIsWhole
    OBVIOUS
  <2>1. ASSUME NEW p \in Loaded
        PROVE  /\ Cardinality(Parts(p)) = 4 /\ Parts(p) \subseteq heap
               /\ fields[p].task \in live /\ process_of[fields[p].task] = p
    <3>1. Whole(p)
      BY DEF IInv, LoadedApart
    <3>2. PICK d, k, t : d = fields[p].data /\ k = fields[p].stack /\ t = fields[p].task
      OBVIOUS
    <3>3. d # p /\ k \notin {p, d} /\ t \notin {p, d, k}
      BY <3>1, <3>2 DEF Whole
    <3>4. Cardinality({p, d, k, t}) = 4
      BY <3>3, FourParts
    <3> QED
      BY <3>1, <3>2, <3>4 DEF Whole, Parts
  <2> QED
    BY <2>1 DEF IInv, LoadedApart, LoadedIsWhole
<1> QED
  BY <1>1, ProcessInvariant, PTL

(* Between two loads no file is open, the tasks on the list are those of the loaded
   processes, and until a load has failed late the heap holds their parts and
   nothing else. *)
THEOREM ProcessFailuresGiveBack == Spec => []FailuresGiveBack
<1>1. IInv => FailuresGiveBack
  <2> SUFFICES ASSUME IInv, load.at = "idle"
               PROVE  /\ ~file_open
                      /\ ToSet(Forwards) = {fields[p].task : p \in Loaded}
                      /\ ~late_failure => heap = UNION {Parts(p) : p \in Loaded}
    BY DEF FailuresGiveBack
  <2>1. Own = {} /\ load.task = NULL
    BY DEF IInv, LoadInStep, Own
  <2>2. ~file_open
    BY DEF IInv, FileInStep
  <2>3. ToSet(Forwards) = {fields[p].task : p \in Loaded}
    BY <2>1 DEF IInv, TasksAre, TasksListed
  <2>4. ASSUME ~late_failure PROVE heap = UNION {Parts(p) : p \in Loaded}
    <3>1. \A a \in heap : \E p \in Loaded : a \in Parts(p)
      BY <2>1, <2>4 DEF IInv, HeapAccounted
    <3>2. \A p \in Loaded : Parts(p) \subseteq heap
      BY DEF IInv, LoadedApart, Whole
    <3> QED
      BY <3>1, <3>2
  <2> QED
    BY <2>2, <2>3, <2>4
<1> QED
  BY <1>1, ProcessInvariant, PTL

-----------------------------------------------------------------------------
(* The list implements the queue of TaskQueue. *)

(* The head of the list is the first task, and NULL only if there is none. *)
LEMMA ListEmpty ==
    ASSUME TasksListed
    PROVE  /\ Forwards \in Seq(Task) /\ Len(Forwards) \in Nat
           /\ task_head = NULL <=> Forwards = <<>>
           /\ Forwards # <<>> => Head(Forwards) = task_head
<1>1. Forwards \in Seq(Task) /\ Len(Forwards) \in Nat
  BY DEF TasksListed, Listed, Leads
<1>2. task_head = IF Len(Forwards) = 0 THEN NULL ELSE Forwards[1]
  BY DEF TasksListed, Listed, Leads
<1>3. Len(Forwards) = 0 <=> Forwards = <<>>
  BY <1>1
<1>4. Forwards # <<>> => Head(Forwards) = Forwards[1] /\ Forwards[1] \in Task
  BY <1>1
<1> QED
  BY <1>1, <1>2, <1>3, <1>4, TaskAssumption

(* task_new is a join of the abstract queue. *)
LEMMA JoinsQueue ==
    ASSUME IInv, NEW t \in Task, TaskNew(t)
    PROVE  Queue!Join(t)
<1>1. TasksListed
  BY DEF IInv
<1>2. ~Queue!Contains(Forwards, t)
  <2>1. \A k \in 1..Len(Forwards) : Forwards[k] \in live
    BY <1>1, ListEmpty DEF TasksListed, ToSet
  <2> QED
    BY <2>1 DEF TaskNew, Queue!Contains
<1>3. Forwards' = Append(Forwards, t)
  BY <1>1, NewTaskLists
<1>4. current_task' = IF Forwards = <<>> THEN t ELSE current_task
  BY <1>1, ListEmpty DEF TaskNew
<1> QED
  BY <1>2, <1>3, <1>4 DEF Queue!Join

(* task_free is a leave of the abstract queue. *)
LEMMA LeavesQueue ==
    ASSUME IInv, NEW t \in Task, t = task_tail, TaskFree(t)
    PROVE  Queue!Leave(t)
<1>1. TasksListed
  BY DEF IInv
<1> DEFINE n == Len(Forwards)
<1>2. /\ n \in Nat \ {0} /\ Forwards[n] = t
      /\ Forwards' = SubSeq(Forwards, 1, n - 1)
      /\ current_task' = task_head' /\ (t = task_head <=> n = 1)
      /\ t = task_head => task_head' = NULL
  BY <1>1, TaskFreeLists
<1>3. Forwards \in Seq(Task)
  BY <1>1, ListEmpty
<1>4. SubSeq(Forwards, n + 1, n) = <<>>
  BY <1>2, SubSeqEmpty
<1>5. SubSeq(Forwards, 1, n - 1) \in Seq(Task)
  <2>1. \A k \in 1..n - 1 : Forwards[k] \in Task
    BY <1>2, <1>3
  <2>2. 1 \in Int /\ n - 1 \in Int
    BY <1>2
  <2> QED
    BY <2>1, <2>2, SubSeqProperties
<1>6. Forwards' = Queue!RemoveAt(Forwards, n)
  <2>1. SubSeq(Forwards, 1, n - 1) \o <<>> = SubSeq(Forwards, 1, n - 1)
    BY <1>5
  <2> QED
    BY <1>2, <1>4, <2>1, Zenon DEF Queue!RemoveAt
<1>7. n \in DOMAIN Forwards
  BY <1>2, <1>3
<1>8. current_task' = IF t # current_task THEN current_task ELSE NULL
  <2>1. current_task = task_head
    BY <1>1 DEF TasksListed
  <2>2. t # task_head => task_head' = task_head
    BY DEF TaskFree
  <2> QED
    BY <1>2, <2>1, <2>2
<1>9. t = current_task => n = 1
  BY <1>1, <1>2 DEF TasksListed
<1> QED
  BY <1>2, <1>6, <1>7, <1>8, <1>9 DEF Queue!Leave

(* The list starts as an empty queue. *)
LEMMA QueueInitially == Init => Queue!Init
<1> SUFFICES ASSUME Init PROVE Queue!Init
  OBVIOUS
<1>1. TasksListed
  BY IInvInitially DEF IInv
<1> QED
  BY <1>1, ListEmpty DEF Init, ListInit, Queue!Init

(* Every step is one of the queue, or changes nothing in it. *)
LEMMA QueueStep == IInv /\ [Next]_vars => [Queue!Next]_<<Forwards, current_task>>
<1> SUFFICES ASSUME IInv, [Next]_vars PROVE [Queue!Next]_<<Forwards, current_task>>
  OBVIOUS
<1>1. CASE \E a \in Available : NewTask(a)
  <2>1. PICK a \in Available : NewTask(a)
    BY <1>1
  <2>2. a \in Task /\ TaskNew(a)
    BY <2>1, AvailableIsFree DEF IInv, NewTask
  <2> QED
    BY <2>2, JoinsQueue DEF Queue!Next
<1>2. CASE MapFails
  <2>1. load.task \in Task /\ load.task = task_tail /\ TaskFree(load.task)
    BY <1>2 DEF MapFails, At, IInv, TypeOK, Pointer, LoadInStep, TasksListed
  <2> QED
    BY <2>1, LeavesQueue DEF Queue!Next
<1>3. CASE RunFirstTask
  <2>1. task_head # NULL /\ current_task' = task_head /\ next' = next /\ task_head' = task_head
    BY <1>3 DEF RunFirstTask, TaskRunFirstTask
  <2>2. Forwards' = Forwards
    BY <2>1 DEF Forwards
  <2>3. Queue!RunFirst
    BY <2>1, <2>2, ListEmpty DEF Queue!RunFirst, IInv
  <2> QED
    BY <2>3 DEF Queue!Next
<1>4. CASE \E a \in Available : BeginLoad(a) \/ AllocateData(a) \/ AllocateStack(a)
  <2>1. UNCHANGED <<next, task_head, current_task>>
    BY <1>4 DEF BeginLoad, AllocateData, AllocateStack, listVars
  <2> QED
    BY <2>1 DEF Forwards
<1>5. CASE OpenFile \/ OpenFails \/ ReadFile \/ ReadFails \/ MapMemory \/ OutOfMemory \/ UNCHANGED vars
  <2>1. UNCHANGED <<next, task_head, current_task>>
    BY <1>5 DEF OpenFile, OpenFails, ReadFile, ReadFails, MapMemory, OutOfMemory, vars, listVars
  <2> QED
    BY <2>1 DEF Forwards
<1> QED
  BY <1>1, <1>2, <1>3, <1>4, <1>5 DEF Next, Allocating

(* The task list behaves as a queue: tasks in the order they were made, one that is
   freed leaves, and the current one hands its turn on. *)
THEOREM ProcessImplementsQueue == Spec => ImplementsQueue
<1>1. Queue!vars = <<Forwards, current_task>>
  BY DEF Queue!vars
<1> QED
  BY <1>1, QueueInitially, QueueStep, ProcessInvariant, PTL
  DEF Spec, ImplementsQueue, Queue!Spec, Queue!vars
=============================================================================
