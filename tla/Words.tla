------------------------------- MODULE Words -------------------------------
(***************************************************************************)
(* The words of a text, as one would say it: its longest runs without a    *)
(* delimiter, from left to right.  It is the reference strtok is checked   *)
(* against in Strings, and stands for strtok in Shell.  And what is left   *)
(* of a text without some of its characters.                               *)
(***************************************************************************)
EXTENDS Integers, Sequences, FiniteSets, FiniteSetsExt

WordsOf(text, delims) ==
    LET plain(i) == i \in DOMAIN text /\ text[i] \notin delims
        starts == {i \in DOMAIN text : plain(i) /\ ~plain(i - 1)}
        end(i) == CHOOSE j \in i..Len(text) : ~plain(j + 1) /\ \A k \in i..j : plain(k)
    IN  [k \in 1..Cardinality(starts) |->
            LET i == CHOOSE i \in starts : Cardinality({j \in starts : j <= i}) = k
            IN  SubSeq(text, i, end(i))]

Without(text, dropped) ==
    LET kept == {k \in DOMAIN text : text[k] \notin dropped}
        upTo(k) == Cardinality({j \in kept : j <= k})
    IN  [n \in 1..Cardinality(kept) |-> text[Min({k \in kept : upTo(k) = n})]]
=============================================================================
