-------------------------------- MODULE Page --------------------------------
(***************************************************************************)
(* What a terminal promises: a page of lines that only grows, a cursor on  *)
(* it, and a window on the last Height lines.  There is no scrolling here: *)
(* the window is wherever the page ends.                                   *)
(***************************************************************************)
EXTENDS Integers, Sequences

CONSTANTS Width, Height, Glyph, Blank

VARIABLES
    lines,      \* every line ever shown, oldest first
    at,         \* the line the cursor is on
    col

pageVars == <<lines, at, col>>

BlankLine == [x \in 0..Width - 1 |-> Blank]

Window == SubSeq(lines, Len(lines) - Height + 1, Len(lines))

Init == lines = [y \in 1..Height |-> BlankLine] /\ at = 1 /\ col = 0

(* The cursor goes to the start of the next line, on paper that may be new. *)
Down(paper) ==
    /\ at' = at + 1 /\ col' = 0
    /\ lines' = IF at = Len(lines) THEN Append(paper, BlankLine) ELSE paper

Type(g) ==
    LET paper == [lines EXCEPT ![at][col] = g]
    IN  IF col = Width - 1 THEN Down(paper)
        ELSE lines' = paper /\ col' = col + 1 /\ UNCHANGED at

Return == Down(lines)

(* The cell in front of the cursor. *)
Before == IF col > 0 THEN [y |-> at, x |-> col - 1] ELSE [y |-> at - 1, x |-> Width - 1]

(* The window is as far as one can go back. *)
AtHome == col = 0 /\ at = Len(lines) - Height + 1

RubOut ==
    /\ ~AtHome
    /\ lines' = [lines EXCEPT ![Before.y][Before.x] = Blank]
    /\ at' = Before.y /\ col' = Before.x

Overtype(g) ==
    /\ ~AtHome
    /\ lines' = [lines EXCEPT ![Before.y][Before.x] = g]
    /\ UNCHANGED <<at, col>>

Next == (\E g \in Glyph : Type(g) \/ Overtype(g)) \/ Return \/ RubOut

Spec == Init /\ [][Next]_pageVars
=============================================================================
