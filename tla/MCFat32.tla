------------------------------- MODULE MCFat32 -------------------------------
(***************************************************************************)
(* Volumes with 32-byte sectors, a byte of 16 values and directories of    *)
(* four entries to a cluster.  The first FAT sector holds the entries of   *)
(* clusters 0 to 7, and the end of a chain has 15 as its low byte.         *)
(***************************************************************************)
EXTENDS Fat32

EOC == 1023

Short(name, first, size) ==
    [kind |-> "short", name |-> name, dir |-> FALSE, first |-> first, size |-> size]
SubDir(name, first) == [Short(name, first, 0) EXCEPT !.dir = TRUE]
Long(part) == [NoEntry EXCEPT !.kind = "long", !.name = <<part>>]
Free == [NoEntry EXCEPT !.kind = "free"]
Removed(part) == [Long(part) EXCEPT !.kind = "free"]

A == <<"a", "">>   B == <<"b", "">>   C == <<"c", "">>   D == <<"d", "">>   E == <<"e", "">>
Here == <<".", "">>   Up == <<"..", "">>
\* a long name of two parts, and its short one
L1 == <<"longfilenam", "e_">>   L2 == <<"continued", "">>   S == <<"LONGFI~1", "">>
\* a long name of one part
K == <<"anotherlong", "er">>

\* what the bytes of a file read as in a directory's place
Text == Short(<<<<"lorem ipsum", "">>>>, 5, 99)
FullOfText == <<Text, Text, Text, Text>>

(* The root in clusters 2 and 4, file a of 50 bytes in 3 and 6, file b of one
   cluster's length in 7, and a directory with a long name in 5, which is full. *)
Sound ==
    [sectors_per_cluster |-> 1, reserved_sector_count |-> 1, fat_sectors |-> 2,
     sectors |-> 20, root_cluster |-> 2, stray |-> 15, other |-> <<>>,
     fat |-> [c \in 2..7 |-> IF c = 2 THEN 4 ELSE IF c = 3 THEN 6 ELSE EOC],
     dirs |-> [c \in 2..6 |->
        IF c = 2 THEN <<Short(<<A>>, 3, 50), Removed(K), Free, Short(<<B>>, 7, 32)>>
        ELSE IF c = 3 THEN FullOfText
        ELSE IF c = 4 THEN <<Long(L2), Long(L1), SubDir(<<S>>, 5)>>
        ELSE IF c = 5 THEN <<SubDir(<<Here>>, 5), SubDir(<<Up>>, 0), Short(<<C>>, 0, 0), Short(<<B>>, 3, 64)>>
        ELSE <<Text>>]]

(* Three clusters, not in order; a directory in a directory. *)
Scattered == [Sound EXCEPT
    !.fat = [c \in 2..7 |-> IF c = 3 THEN 7 ELSE IF c = 7 THEN 6 ELSE EOC],
    !.dirs = [c \in 2..7 |->
        IF c = 2 THEN <<Long(K), Short(<<A>>, 3, 96), SubDir(<<D>>, 4)>>
        ELSE IF c = 4 THEN <<SubDir(<<Here>>, 4), SubDir(<<Up>>, 0), SubDir(<<E>>, 5), Short(<<B>>, 7, 33)>>
        ELSE IF c = 5 THEN <<SubDir(<<Here>>, 5), SubDir(<<Up>>, 4), Removed(K), Free>>
        ELSE FullOfText]]

(* A disk that ends before cluster 15. *)
Small == [Sound EXCEPT !.sectors = 12]

MCVolumes == {Sound, Scattered, Small}
MCPaths == {<<>>, <<<<A>>>>, <<<<B>>>>, <<<<L1, L2>>>>, <<<<K>>>>, <<<<D>>>>,
            <<<<L1, L2>>, <<B>>>>, <<<<L1, L2>>, <<C>>>>, <<<<L1, L2>>, <<E>>>>,
            <<<<A>>, <<C>>>>, <<<<K>>, <<C>>>>, <<<<D>>, <<B>>>>,
            <<<<D>>, <<E>>>>, <<<<D>>, <<E>>, <<Up>>>>, <<<<D>>, <<E>>, <<Up>>, <<B>>>>}
MCPositions == {0, 1, 31, 32, 33, 49, 63, 64, 65, 95}

ASSUME VolumesArePlain == \A v \in Volumes : PlainVolume(v)
=============================================================================
