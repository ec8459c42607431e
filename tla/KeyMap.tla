------------------------------- MODULE KeyMap -------------------------------
(***************************************************************************)
(* key_code_to_ascii of kernel/src/lib/ascii.c, from the data of an event  *)
(* of the keyboard driver to a character.  "nul" is no character; a code   *)
(* of the upper half arrives negative (Keyboard, SignExtended) and is none *)
(* of the codes the function knows.                                        *)
(***************************************************************************)
EXTENDS Integers, Sequences

CONSTANT Beyond     \* what may lie behind the string "qwertzuiop" and its end

QwertzRow == <<"q", "w", "e", "r", "t", "z", "u", "i", "o", "p", "nul">>
AsdfRow   == <<"a", "s", "d", "f", "g", "h", "j", "k", "l">>
YxcvRow   == <<"y", "x", "c", "v", "b", "n", "m">>
Num       == <<"1", "2", "3", "4", "5", "6", "7", "8", "9">>

BACKSPACE_PRESSED == 14
ENTER_PRESSED == 28

(* The characters the function may return for a key: one, but for the key whose
   place in the first row is behind the end of the string. *)
KeyCodeToAscii(key) ==
    IF key = BACKSPACE_PRESSED THEN {"bs"}
    ELSE IF key = ENTER_PRESSED THEN {"nl"}
    ELSE IF key = 57 THEN {" "}
    ELSE IF key = 52 THEN {"."}
    ELSE IF key \in {41, 181} THEN {"/"}
    ELSE IF key \in 2..10 THEN {Num[key - 1]}
    ELSE IF key \in 16..26 THEN {QwertzRow[key - 15]}
    ELSE IF key = 27 THEN Beyond
    ELSE IF key \in 30..38 THEN {AsdfRow[key - 29]}
    ELSE IF key \in 44..50 THEN {YxcvRow[key - 43]}
    ELSE {"nul"}
=============================================================================
