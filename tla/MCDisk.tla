------------------------------- MODULE MCDisk -------------------------------
(***************************************************************************)
(* Blocks of two words.  A block <<9, k>> holds the k-th partition table;  *)
(* every other block holds no partition.                                   *)
(***************************************************************************)
EXTENDS Disk

Unused == [type |-> 0, bootable |-> FALSE, start |-> 0, length |-> 0]
Partition(start, length, bootable) ==
    [type |-> 11, bootable |-> bootable, start |-> start, length |-> length]

MCTableOf(block) ==
    IF block = <<9, 1>> THEN <<Unused, Partition(1, 3, TRUE), Unused, Partition(4, 1, FALSE)>>
    ELSE IF block = <<9, 2>> THEN <<Partition(1, 1, FALSE), Unused, Unused, Unused>>
    ELSE <<Unused, Unused, Unused, Unused>>

MCBlocks == {<<7, 8>>}

DiskOf(content, bad) == [kind |-> "disk", size |-> Len(content), content |-> content, bad |-> bad]
None == [kind |-> "none", size |-> 0, content |-> <<>>, bad |-> {}]
Packet == [None EXCEPT !.kind = "packet"]
NoBus == [None EXCEPT !.kind = "no bus"]

Five == DiskOf(<<<<9, 1>>, <<1, 2>>, <<3, 4>>, <<5, 6>>, <<0, 0>>>>, {})
Worn == DiskOf(Five.content, {2})
Two == DiskOf(<<<<9, 2>>, <<4, 4>>>>, {})
Blank == DiskOf(<<<<0, 0>>, <<4, 4>>>>, {})
Machine(a, b) ==
    [drives |-> [bus_ \in 1..2 |-> [d \in 0..1 |-> IF d = 1 THEN None ELSE IF bus_ = 1 THEN a ELSE b]],
     selected |-> [bus_ \in 1..2 |-> 0]]

MCMachines ==
    {Machine(Five, Two), Machine(Worn, Packet), Machine(None, Five), Machine(Blank, None),
     Machine(Two, Worn), Machine(None, None), Machine(Two, NoBus)}
=============================================================================
