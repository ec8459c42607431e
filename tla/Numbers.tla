------------------------------- MODULE Numbers -------------------------------
(***************************************************************************)
(* Numbers to text: kernel/src/lib/cast.c and int_to_ascii of ascii.c.     *)
(* The functions of cast.c exist for 8, 16 and 32 bits; bits is the width. *)
(* A character is its distance from "0": a digit is its value, "-" is -3.  *)
(***************************************************************************)
EXTENDS Integers, Sequences, SequencesExt, FiniteSetsExt

CONSTANT Values     \* the unsigned numbers tried of each width

NumbersAssumption ==
    \A width \in DOMAIN Values : width \in Nat \ {0} /\ Values[width] \subseteq 0..2^width - 1

VARIABLES
    bits,       \* width of the number
    value,      \* the argument, as the function's type reads it
    conversion, \* the function
    text        \* what it wrote

vars == <<bits, value, conversion, text>>

Minus == -3

Unsigned(n) == n % 2^bits
Signed(n) == LET u == Unsigned(n) IN IF u >= 2^(bits - 1) THEN u - 2^bits ELSE u
Least == -(2^(bits - 1))

(* How often a number can be divided by 10 before it is 0; none for a number
   that is not positive. *)
NumDigits(n) == Cardinality({k \in 0..bits \div 3 : n \div 10^k > 0 /\ n > 0})

(* divisor, multiplied by 10 in its own type. *)
Power(i, signed) ==
    FoldLeft(LAMBDA d, j : IF signed THEN Signed(10 * d) ELSE Unsigned(10 * d), 1, [j \in 1..i |-> j])

(* Fault: the divisor is one power too high. *)
DigitsShifted(n, signed) ==
    [i \in 1..NumDigits(n) |-> (n \div Power(NumDigits(n) - i + 1, signed)) % 10]

(* The digits of a positive number, most significant first. *)
DigitsOf(n, signed) ==
    [i \in 1..NumDigits(n) |-> (n \div Power(NumDigits(n) - i, signed)) % 10]

UintToString(n) == IF n = 0 THEN <<0>> ELSE DigitsOf(n, FALSE)

(* value = -value, in the function's own type. *)
IntToString(n) ==
    IF n = 0 THEN <<0>>
    ELSE IF n < 0 THEN <<Minus>> \o DigitsOf(Signed(-n), TRUE)
    ELSE DigitsOf(n, TRUE)

(* One nibble at a time, the highest first. *)
UintToHexString(n) == [i \in 1..bits \div 4 |-> (n \div 2^(bits - 4 * i)) % 16]

(* int_to_ascii: the lowest digit first, the sign last. *)
IntToAscii(n) ==
    LET u == IF n < 0 THEN Signed(-n) ELSE n
        digits == [i \in 1..Max({NumDigits(u), 1}) |->
                      IF u < 0 THEN -(-u % 10) ELSE (u \div 10^(i - 1)) % 10]
    IN  IF n < 0 THEN Append(digits, Minus) ELSE digits

-----------------------------------------------------------------------------
Conversions == {"unsigned", "signed", "hex", "ascii"}

Init ==
    /\ bits \in DOMAIN Values
    /\ conversion \in Conversions
    /\ \E v \in Values[bits] : value = IF conversion \in {"signed", "ascii"} THEN Signed(v) ELSE v
    /\ text = <<>>

Convert ==
    /\ text = <<>>
    /\ text' = IF conversion = "unsigned" THEN UintToString(value)
               ELSE IF conversion = "signed" THEN IntToString(value)
               ELSE IF conversion = "hex" THEN UintToHexString(value)
               ELSE IntToAscii(value)
    /\ UNCHANGED <<bits, value, conversion>>

Done == text # <<>> /\ UNCHANGED vars

Next == Convert \/ Done

Spec == Init /\ [][Next]_vars

-----------------------------------------------------------------------------
(* Properties *)

Denoted(digits, base) == FoldLeft(LAMBDA n, d : base * n + d, 0, digits)

(* A text of decimal digits, without a zero too many, and what it says. *)
ReadsAs(t, n) ==
    /\ t # <<>> /\ (t[1] = Minus) = (n < 0)
    /\ LET digits == IF n < 0 THEN Tail(t) ELSE t IN
       /\ digits # <<>> /\ (Len(digits) > 1 => digits[1] # 0)
       /\ Range(digits) \subseteq 0..9
       /\ Denoted(digits, 10) = IF n < 0 THEN -n ELSE n

(* What is printed for a number is the number: in decimal without leading zeros,
   in hexadecimal with all of them, and backwards by int_to_ascii.  The least
   negative number of a width is its own negation: only its sign is written. *)
TextIsNumber ==
    text # <<>> /\ value # Least =>
        /\ conversion \in {"unsigned", "signed"} => ReadsAs(text, value)
        /\ conversion = "ascii" => ReadsAs(Reverse(text), value)
        /\ conversion = "hex" => Len(text) = bits \div 4 /\ Denoted(text, 16) = value
=============================================================================
