------------------------------- MODULE MCText -------------------------------
(***************************************************************************)
(* What the kernel does to texts: the string library, numbers, and the     *)
(* names of a FAT directory.  They share nothing: a behaviour is one of    *)
(* the three, and the variables of the other two keep their first value.   *)
(* Numbers are all those of 8 bits, and of 16 bits the ones around powers  *)
(* of 10 and 2, where digits are added and signs change.                   *)
(***************************************************************************)
EXTENDS Strings, ShortName

VARIABLES
    part,
    bits, value, conversion, text

numbers == <<bits, value, conversion, text>>

MCValues ==
    LET near(n) == {n - 1, n, n + 1}
        wide == UNION ({near(2^k) : k \in 0..16} \cup {near(10^k) : k \in 0..4}
                       \cup {near(32768 + 10^k) : k \in 0..4} \cup {near(65536 - 10^k) : k \in 0..4}
                       \cup {near(6553 * k) : k \in 0..10})
    IN  [width \in {8, 16} |-> IF width = 8 THEN 0..255 ELSE wide \cap 0..65535]

Number == INSTANCE Numbers WITH Values <- MCValues

ASSUME TextAssumption == Number!NumbersAssumption

NoString ==
    /\ mem = [a \in Addr |-> 0] /\ olds = Size - 1
    /\ call = NoCall /\ before = mem /\ words = <<>>
NoNumber == bits = 8 /\ value = 0 /\ conversion = "none" /\ text = <<>>
NoName == nameext = <<>> /\ index = 0 /\ mode = "none" /\ filename = <<>>

TextInit ==
    \/ part = "string" /\ StringsInit /\ NoNumber /\ NoName
    \/ part = "number" /\ NoString /\ Number!Init /\ NoName
    \/ part = "name" /\ NoString /\ NoNumber /\ NameInit

TextNext ==
    /\ UNCHANGED part
    /\ \/ part = "string" /\ StringsNext /\ UNCHANGED <<numbers, nameVars>>
       \/ part = "number" /\ Number!Next /\ UNCHANGED <<stringVars, nameVars>>
       \/ part = "name" /\ NameNext /\ UNCHANGED <<stringVars, numbers>>

TextSpec == TextInit /\ [][TextNext]_<<part, stringVars, numbers, nameVars>>

(* Numbers: what is printed for a number is the number. *)
TextIsNumber == part = "number" => Number!TextIsNumber
=============================================================================
