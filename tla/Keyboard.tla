------------------------------ MODULE Keyboard ------------------------------
(***************************************************************************)
(* The keyboard driver, kernel/src/dev/input/keyboard_ps2/keyboard.c: an   *)
(* interrupt handler appends scan codes to keycache, and whoever reads     *)
(* events takes the first one and moves the others down, one load or store *)
(* of shared data per step.  The controller is external: it holds one code *)
(* and interrupts once for it, when the previous one has been read.        *)
(***************************************************************************)
EXTENDS Integers, Sequences

CONSTANTS
    Code,           \* scan codes, bytes
    Cells,          \* bytes of keycache, 256 in the code
    Behind,         \* what the byte behind keycache may hold
    MaxSent         \* bound: codes the keyboard sends

ASSUME KeyboardAssumption ==
    /\ Code \subseteq 0..255 /\ Behind \subseteq 0..255 /\ Behind # {}
    /\ Cells \in Nat \ {0, 1}

VARIABLES
    keycache, key_loc,
    pc, c, loaded, i,   \* the reader: place, char c, key_loc as loaded, loop index
    event,              \* data[0] of the latest event, an uint32_t; 0 if none
    port,               \* the controller's output, {} if read
    irq,                \* an interrupt waits to be taken
    masked,             \* the reader keeps interrupts off during get_event
    accepted, delivered \* history: codes put into and taken out of the queue

reader == <<pc, c, loaded, i, event, delivered>>
controller == <<port, irq, masked, accepted>>
vars == <<keycache, key_loc, reader, controller>>

(* keyboard_ps2_init *)
Init ==
    /\ keycache = [k \in 0..Cells - 1 |-> 0] /\ key_loc = 0
    /\ pc = "idle" /\ c = 0 /\ loaded = 0 /\ i = 0 /\ event = 0
    /\ port = {} /\ irq = FALSE /\ masked \in BOOLEAN /\ accepted = <<>> /\ delivered = <<>>

-----------------------------------------------------------------------------
(* The keyboard sends a code. *)
Send ==
    /\ port = {} /\ Len(accepted) < MaxSent
    /\ \E code \in Code : port' = {code}
    /\ irq' = TRUE
    /\ UNCHANGED <<keycache, key_loc, reader, masked, accepted>>

(* Fault: the bound is the size of the array, which leaves no cell the shift
   could fill. *)
KeyboardIrqToTheBrim ==
    /\ irq /\ (masked => pc = "idle")
    /\ irq' = FALSE
    /\ IF key_loc >= Cells THEN UNCHANGED <<keycache, key_loc, port, accepted>>
       ELSE \E code \in port :
                /\ keycache' = [keycache EXCEPT ![key_loc] = code]
                /\ key_loc' = key_loc + 1
                /\ port' = {}
                /\ accepted' = Append(accepted, code)
    /\ UNCHANGED <<reader, masked>>

(* keyboard_irq.  If it returns early the code stays in the controller. *)
KeyboardIrq ==
    /\ irq /\ (masked => pc = "idle")
    /\ irq' = FALSE
    /\ IF key_loc >= Cells - 1 THEN UNCHANGED <<keycache, key_loc, port, accepted>>
       ELSE \E code \in port :
                /\ keycache' = [keycache EXCEPT ![key_loc] = code]
                /\ key_loc' = key_loc + 1
                /\ port' = {}
                /\ accepted' = Append(accepted, code)
    /\ UNCHANGED <<reader, masked>>

-----------------------------------------------------------------------------
(* keyboard_ps2_get_event *)

(* Fault: a single code is taken for none. *)
IsEmptyTooSoon == key_loc <= 1

IsEmpty == key_loc = 0

Empty ==
    /\ pc = "idle" /\ IsEmpty
    /\ c' = 0 /\ event' = 0
    /\ UNCHANGED <<keycache, key_loc, pc, loaded, i, delivered, controller>>

NotEmpty ==
    /\ pc = "idle" /\ ~IsEmpty
    /\ c' = 0 /\ pc' = "take"
    /\ UNCHANGED <<keycache, key_loc, loaded, i, event, delivered, controller>>

TakeFirst ==
    /\ pc = "take"
    /\ c' = keycache[0] /\ pc' = "load"
    /\ UNCHANGED <<keycache, key_loc, loaded, i, event, delivered, controller>>

(* key_loc-- loads and stores. *)
LoadKeyLoc ==
    /\ pc = "load"
    /\ loaded' = key_loc /\ pc' = "store"
    /\ UNCHANGED <<keycache, key_loc, c, i, event, delivered, controller>>

(* Fault: the count is stored as it was loaded. *)
StoreSameKeyLoc ==
    /\ pc = "store"
    /\ key_loc' = loaded /\ i' = 0 /\ pc' = "shift"
    /\ UNCHANGED <<keycache, c, loaded, event, delivered, controller>>

StoreKeyLoc ==
    /\ pc = "store"
    /\ key_loc' = loaded - 1 /\ i' = 0 /\ pc' = "shift"
    /\ UNCHANGED <<keycache, c, loaded, event, delivered, controller>>

(* The last round reads the byte behind the array. *)
Shift ==
    /\ pc = "shift" /\ i < Cells
    /\ \E byte \in Behind :
          keycache' = [keycache EXCEPT ![i] = IF i + 1 < Cells THEN keycache[i + 1] ELSE byte]
    /\ i' = i + 1
    /\ UNCHANGED <<key_loc, pc, c, loaded, event, delivered, controller>>

(* char is signed: what an uint32_t makes of the upper half of the bytes is
   written here as a negative number. *)
SignExtended(byte) == IF byte < 128 THEN byte ELSE byte - 256

Deliver ==
    /\ pc = "shift" /\ i = Cells
    /\ event' = SignExtended(c) /\ pc' = "idle"
    /\ delivered' = Append(delivered, c)
    /\ UNCHANGED <<keycache, key_loc, c, loaded, i, controller>>

GetEvent == Empty \/ NotEmpty \/ TakeFirst \/ LoadKeyLoc \/ StoreKeyLoc \/ Shift \/ Deliver

Next == Send \/ KeyboardIrq \/ GetEvent

(* Whoever reads events does so in an endless loop (shell.c:209-216), and the
   processor takes an interrupt that waits; the keyboard need not send. *)
Fairness == WF_vars(GetEvent) /\ WF_vars(KeyboardIrq)

Spec == Init /\ [][Next]_vars /\ Fairness

-----------------------------------------------------------------------------
(* Properties *)

(* The codes that wait, in the middle of a shift too: the first one is taken, and
   the ones from i on still lie one cell higher. *)
Waiting ==
    IF pc = "shift"
    THEN <<c>> \o [k \in 1..key_loc |-> keycache[IF k - 1 < i THEN k - 1 ELSE k]]
    ELSE [k \in 1..key_loc |-> keycache[k - 1]]

(* Only a reader that is not interrupted is promised a queue. *)
Promised(value, else) == IF masked THEN value ELSE else

promised == <<Promised(Waiting, <<>>), Promised(delivered, <<>>), masked /\ port # {} /\ ~irq>>

Queue == INSTANCE KeyQueue WITH
    Room <- Cells - 1, queue <- promised[1], delivered <- promised[2], deaf <- promised[3]

(* With interrupts disabled while events are read, the array is a queue: nothing
   is lost, doubled or put in another order, whatever the shift copies from
   behind the array, and a code is refused only when there is no room. *)
ImplementsQueue == Queue!Init /\ [][Queue!Next]_promised

(* Every code the handler took from such a reader's keyboard is delivered, also when
   the controller no longer interrupts. *)
AcceptedArrives ==
    \A n \in 1..MaxSent : masked /\ Len(accepted) >= n ~> Len(delivered) >= n

(* With interrupts in between, a code may be lost or come twice, but the driver
   never offers more codes than it took: the count stays in step. *)
NoMoreThanSent ==
    Len(delivered) + (IF pc \in {"idle", "take", "load", "store"} THEN key_loc ELSE key_loc + 1)
        <= Len(accepted)
=============================================================================
