------------------------------ MODULE KeyQueue ------------------------------
(***************************************************************************)
(* What the keyboard driver promises its reader: the codes that were sent, *)
(* in the order they were sent, each once.  Room is limited, and a code    *)
(* sent when there is none makes the queue deaf for good.                  *)
(***************************************************************************)
EXTENDS Naturals, Sequences

CONSTANTS Code, Room

VARIABLES queue, delivered, deaf

queueVars == <<queue, delivered, deaf>>

Init == queue = <<>> /\ delivered = <<>> /\ deaf = FALSE

Accept(code) ==
    /\ ~deaf /\ Len(queue) < Room
    /\ queue' = Append(queue, code)
    /\ UNCHANGED <<delivered, deaf>>

Refuse ==
    /\ ~deaf /\ Len(queue) = Room
    /\ deaf' = TRUE
    /\ UNCHANGED <<queue, delivered>>

Deliver ==
    /\ queue # <<>>
    /\ queue' = Tail(queue)
    /\ delivered' = Append(delivered, Head(queue))
    /\ UNCHANGED deaf

Next == (\E code \in Code : Accept(code)) \/ Refuse \/ Deliver

Spec == Init /\ [][Next]_queueVars
=============================================================================
