----------------------------- MODULE TaskQueue -----------------------------
(***************************************************************************)
(* What the scheduler's task list promises: tasks in the order they were   *)
(* made, and one of them current.  A task that leaves hands its turn to    *)
(* the one behind it, the last to the first.  TaskList is shown to         *)
(* implement this module.                                                  *)
(***************************************************************************)
EXTENDS Naturals, Sequences, SequencesExt

CONSTANTS Task, None

VARIABLES queue, current

vars == <<queue, current>>

Init == queue = <<>> /\ current = None

Join(t) ==
    /\ ~Contains(queue, t)
    /\ queue' = Append(queue, t)
    /\ current' = IF queue = <<>> THEN t ELSE current

(* The task behind the i-th, in a queue that is a circle. *)
Behind(i) == queue[(i % Len(queue)) + 1]

Leave(t) ==
    \E i \in DOMAIN queue :
        /\ queue[i] = t
        /\ queue' = RemoveAt(queue, i)
        /\ current' = IF t # current THEN current
                      ELSE IF Len(queue) = 1 THEN None
                      ELSE Behind(i)

RunFirst ==
    /\ queue # <<>>
    /\ current' = Head(queue)
    /\ UNCHANGED queue

Next ==
    \/ \E t \in Task : Join(t) \/ Leave(t)
    \/ RunFirst

Spec == Init /\ [][Next]_vars
=============================================================================
