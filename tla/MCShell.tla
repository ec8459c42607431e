------------------------------- MODULE MCShell -------------------------------
(***************************************************************************)
(* A keyboard of two letters, space, Backspace, Enter, a key without a     *)
(* character, a key that was released and the key behind the first row;    *)
(* commands of two or three letters, a file "a" and a directory "e".       *)
(***************************************************************************)
EXTENDS Shell

MCKeys == {18, 30, 57, BACKSPACE_PRESSED, ENTER_PRESSED, 26, 27, -98}
MCBeyond == {"nul", "a"}
MCCommand == [name \in {"help", "ls", "print", "page", "echo"} |->
    IF name = "help" THEN <<"e", "e", "e">>
    ELSE IF name = "ls" THEN <<"e", "a">>
    ELSE IF name = "print" THEN <<"a", "e">>
    ELSE IF name = "page" THEN <<"a", "a">>
    ELSE <<"e", "e">>]
MCFiles == [path \in {<<"a">>} |-> <<"text">>]
MCDirectories == [path \in {<<"e">>, <<"a", "a">>} |->
    IF path = <<"e">> THEN <<".", "..", "x", "sub", "y">> ELSE <<"..">>]
=============================================================================
