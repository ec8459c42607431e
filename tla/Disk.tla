-------------------------------- MODULE Disk --------------------------------
(***************************************************************************)
(* The IDE driver, kernel/src/dev/disk/ide/ide.c, under the block devices  *)
(* of block_device.c and the partitions of kernel/src/fs/mbr.c: the scan   *)
(* at boot, and after it the requests of the file system.  The driver      *)
(* polls; the controller, which is external, works at its own pace.        *)
(* A block is a sequence of words.                                         *)
(***************************************************************************)
EXTENDS Integers, Sequences, SequencesExt

CONSTANTS
    Buses,          \* 1..2: the channels at 0x1F0 and 0x170
    Machines,       \* what is attached, see MachineAssumption
    WordsPerBlock,  \* 256 in the code
    LbaLimit,       \* 2^28: the address bits the driver writes
    Blocks,         \* blocks that are written
    TableOf(_),     \* the partition table in a block: four records
    IdleWords,      \* what the data port reads as when there is no data
    MaxRequest      \* bound: blocks of a request, and where it begins

Block == [1..WordsPerBlock -> Nat]

Entry == [type : Nat, bootable : BOOLEAN, start : Nat, length : Nat]

(* A drive is a disk of size blocks, of which those in bad cannot be accessed, or
   a packet device such as a CD drive, or not there.  "no bus" stands for a channel
   without a controller. *)
DriveType == [kind : {"disk", "packet", "none", "no bus"}, size : Nat,
              content : Seq(Block), bad : SUBSET Nat]

IsDrive(drive) == drive.size = Len(drive.content) /\ (drive.kind # "disk" => drive.content = <<>>)

(* A machine has two drives on every bus, and what a disk begins with can be looked
   at as a partition table. *)
ASSUME MachineAssumption ==
    /\ Buses = 1..2 /\ WordsPerBlock \in Nat \ {0} /\ LbaLimit \in Nat \ {0}
    /\ \A machine \in Machines :
          /\ machine.selected \in [Buses -> 0..1]
          /\ machine.drives \in [Buses -> [0..1 -> DriveType]]
          /\ \A b \in Buses :
                /\ \A d \in 0..1 : IsDrive(machine.drives[b][d])
                /\ machine.drives[b][0].content # <<>> =>
                      TableOf(machine.drives[b][0].content[1]) \in [1..4 -> Entry]

ASSUME PortAssumption == Blocks \subseteq Block /\ IdleWords \subseteq Nat /\ MaxRequest \in Nat

VARIABLES
    drives,         \* drives[bus][d]
    ctl,            \* controller of each bus
    pc,             \* where the driver is
    bus,            \* the bus it works on
    request,        \* the request and how far it is
    buffer,         \* words read or to be written
    block_devices, logical_block_devices,
    found           \* how many block devices have been asked for partitions

device == <<drives, ctl>>
tables == <<block_devices, logical_block_devices, found>>
vars == <<device, pc, bus, request, buffer, tables>>

NoRequest == [op |-> "none", lba |-> 0, num_blocks |-> 0, i |-> 0, data |-> <<>>]
NoCommand == [selected |-> 0, bsy |-> FALSE, drq |-> FALSE, err |-> FALSE,
              command |-> "none", lba |-> 0, data |-> <<>>]

(* The firmware leaves some drive of each bus selected. *)
Init ==
    \E machine \in Machines :
        /\ drives = machine.drives
        /\ ctl = [b \in Buses |-> [NoCommand EXCEPT !.selected = machine.selected[b]]]
        /\ pc = "identify" /\ bus = 1
        /\ request = NoRequest /\ buffer = <<>>
        /\ block_devices = <<>> /\ logical_block_devices = <<>> /\ found = 0

-----------------------------------------------------------------------------
(* The controller *)

Drive(b) == drives[b][ctl[b].selected]

(* Without a controller the status reads as 0xFF, without a drive as 0. *)
Busy(b) == ctl[b].bsy \/ Drive(b).kind = "no bus"
StatusZero(b) == Drive(b).kind = "none"

(* A command is taken unless the drive is busy or in the middle of a transfer. *)
Commanded(b, d, command, lba) ==
    IF ctl[b].bsy \/ ctl[b].drq THEN [ctl[b] EXCEPT !.selected = d]
    ELSE IF drives[b][d].kind \in {"none", "no bus"} THEN [NoCommand EXCEPT !.selected = d]
    ELSE [selected |-> d, bsy |-> TRUE, drq |-> FALSE, err |-> FALSE,
          command |-> command, lba |-> lba, data |-> <<>>]

Ends(b, error) == [ctl[b] EXCEPT !.bsy = FALSE, !.err = error]
Offers(b, data) == [ctl[b] EXCEPT !.bsy = FALSE, !.drq = TRUE, !.data = data]

Accessible(b) ==
    /\ Drive(b).kind = "disk"
    /\ ctl[b].lba < Drive(b).size /\ ctl[b].lba \notin Drive(b).bad

(* What IDENTIFY returns; the number of sectors is in it. *)
Identity(size) == [w \in 1..WordsPerBlock |-> IF w = WordsPerBlock THEN size ELSE 0]

AnswersIdentify(b) ==
    /\ ctl[b].command = "identify"
    /\ ctl' = [ctl EXCEPT ![b] = IF Drive(b).kind = "disk"
                                 THEN Offers(b, Identity(Drive(b).size)) ELSE Ends(b, TRUE)]
    /\ UNCHANGED drives

AnswersRead(b) ==
    /\ ctl[b].command = "read"
    /\ ctl' = [ctl EXCEPT ![b] = IF Accessible(b)
                                 THEN Offers(b, Drive(b).content[ctl[b].lba + 1]) ELSE Ends(b, TRUE)]
    /\ UNCHANGED drives

AnswersWrite(b) ==
    /\ ctl[b].command = "write" /\ ctl[b].data = <<>>
    /\ ctl' = [ctl EXCEPT ![b] = IF ctl[b].lba < Drive(b).size THEN Offers(b, <<>>) ELSE Ends(b, TRUE)]
    /\ UNCHANGED drives

Stores(b) ==
    /\ ctl[b].command = "write" /\ ctl[b].data # <<>>
    /\ ctl' = [ctl EXCEPT ![b] = Ends(b, ~Accessible(b))]
    /\ drives' = IF Accessible(b)
                 THEN [drives EXCEPT ![b][ctl[b].selected].content[ctl[b].lba + 1] = ctl[b].data]
                 ELSE drives

EmptiesCache(b) == ctl[b].command = "flush" /\ ctl' = [ctl EXCEPT ![b] = Ends(b, FALSE)] /\ UNCHANGED drives

DeviceWorks(b) ==
    /\ ctl[b].bsy
    /\ AnswersIdentify(b) \/ AnswersRead(b) \/ AnswersWrite(b) \/ Stores(b) \/ EmptiesCache(b)
    /\ UNCHANGED <<pc, bus, request, buffer, tables>>

(* A word is taken from the data port: port_word_in. *)
WordIn(b) ==
    IF ctl[b].drq
    THEN /\ buffer' = Append(buffer, Head(ctl[b].data))
         /\ ctl' = [ctl EXCEPT ![b].data = Tail(@), ![b].drq = Len(ctl[b].data) > 1]
    ELSE \E word \in IdleWords : buffer' = Append(buffer, word) /\ UNCHANGED ctl

(* A word is given to it: the last one makes the drive busy. *)
WordOut(b, word) ==
    IF ctl[b].drq
    THEN LET all == Append(ctl[b].data, word) IN
         ctl' = [ctl EXCEPT ![b].data = all,
                            ![b].drq = Len(all) < WordsPerBlock, ![b].bsy = Len(all) = WordsPerBlock]
    ELSE UNCHANGED ctl

-----------------------------------------------------------------------------
(* ide_driver_scan_disks and ide_device_identify.  The drive ought to be chosen
   first, but what is written for that goes to another port, and the drive that
   is selected stays so. *)

NextBus == IF bus = 2 THEN pc' = "mbr" /\ bus' = 1 ELSE pc' = "identify" /\ bus' = bus + 1

Identify ==
    /\ pc = "identify"
    /\ ctl' = [ctl EXCEPT ![bus] = Commanded(bus, ctl[bus].selected, "identify", 0)]
    /\ pc' = "present"
    /\ UNCHANGED <<drives, bus, request, buffer, tables>>

Present ==
    /\ pc = "present"
    /\ IF StatusZero(bus) THEN NextBus ELSE pc' = "ready" /\ UNCHANGED bus
    /\ UNCHANGED <<device, request, buffer, tables>>

(* Fault: the identity is taken without waiting for it. *)
WaitReadyNot == TRUE

(* ata_wait_ready, and ata_wait when only BSY counts. *)
WaitReady == ~Busy(bus)

Ready ==
    /\ pc = "ready" /\ WaitReady
    /\ pc' = "identity" /\ buffer' = <<>>
    /\ UNCHANGED <<device, bus, request, tables>>

TakeIdentity ==
    /\ pc = "identity"
    /\ WordIn(bus)
    /\ IF Len(buffer') < WordsPerBlock THEN UNCHANGED <<pc, bus, block_devices>>
       ELSE /\ NextBus
            /\ block_devices' = IF Last(buffer') = 0 THEN block_devices
                                ELSE Append(block_devices, [bus |-> bus, total_blocks |-> Last(buffer')])
    /\ UNCHANGED <<drives, request, logical_block_devices, found>>

-----------------------------------------------------------------------------
(* ide_read_block and ide_write_block, in the loops of submit_read_request and
   submit_write_request *)

Submit(b, op, lba, num_blocks, data) ==
    /\ bus' = b /\ buffer' = <<>> /\ pc' = "issue"
    /\ request' = [op |-> op, lba |-> lba, num_blocks |-> num_blocks, i |-> 0, data |-> data]

Writes == request.op = "write"

(* After ata_wait_ready: drive 0, the block's address and the command. *)
Issue ==
    /\ pc = "issue" /\ WaitReady
    /\ ctl' = [ctl EXCEPT ![bus] = Commanded(bus, 0, IF Writes THEN "write" ELSE "read",
                                             (request.lba + request.i) % LbaLimit)]
    /\ pc' = "wait"
    /\ UNCHANGED <<drives, bus, request, buffer, tables>>

(* Fault: the data is taken as soon as the drive is not busy. *)
FailedNever == FALSE

(* ata_wait: a read looks at the error bits and at DRQ. *)
Failed == ctl[bus].err \/ ~ctl[bus].drq

(* Fault: a read that failed is tried again, and again. *)
WaitRetrying ==
    /\ pc = "wait" /\ WaitReady
    /\ pc' = IF Writes THEN "put" ELSE IF Failed THEN "issue" ELSE "take"
    /\ UNCHANGED <<device, bus, request, buffer, tables>>

Wait ==
    /\ pc = "wait" /\ WaitReady
    /\ pc' = IF Writes THEN "put" ELSE IF Failed THEN "panic" ELSE "take"
    /\ UNCHANGED <<device, bus, request, buffer, tables>>

(* buffer + i * block_size: the blocks of a request follow each other. *)
Take ==
    /\ pc = "take"
    /\ WordIn(bus)
    /\ pc' = IF Len(buffer') = (request.i + 1) * WordsPerBlock THEN "after" ELSE "take"
    /\ UNCHANGED <<drives, bus, request, tables>>

Put ==
    /\ pc = "put"
    /\ LET k == Len(buffer) + 1
       IN  /\ WordOut(bus, request.data[k])
           /\ buffer' = Append(buffer, request.data[k])
           /\ pc' = IF k = (request.i + 1) * WordsPerBlock THEN "flush" ELSE "put"
    /\ UNCHANGED <<drives, bus, request, tables>>

Flush ==
    /\ pc = "flush"
    /\ ctl' = [ctl EXCEPT ![bus] = Commanded(bus, 0, "flush", 0)]
    /\ pc' = "after"
    /\ UNCHANGED <<drives, bus, request, buffer, tables>>

(* The block is done: ata_wait, and the next block or back to the caller.  A write
   returns EOK whatever the drive says. *)
After ==
    /\ pc = "after" /\ WaitReady
    /\ request' = [request EXCEPT !.i = @ + 1]
    /\ pc' = IF request.i + 1 < request.num_blocks THEN "issue"
             ELSE IF request.op = "mbr" THEN "parse" ELSE "idle"
    /\ UNCHANGED <<device, bus, buffer, tables>>

-----------------------------------------------------------------------------
(* scan_logical_block_devices_mbr, and kernel_main's choice of the root *)

ReadTable ==
    /\ pc = "mbr" /\ found < Len(block_devices)
    /\ Submit(block_devices[found + 1].bus, "mbr", 0, 1, <<>>)
    /\ UNCHANGED <<device, tables>>

(* Entry k of the table, unless its type says that it is not used.  The flags of a
   partition that is not bootable are never set. *)
Registered(k, garbage) ==
    LET entry == TableOf(buffer)[k]
    IN  IF entry.type = 0 THEN <<>>
        ELSE <<[parent |-> found + 1, local_id |-> k - 1, bootable |-> entry.bootable \/ k \in garbage,
                lba_offset |-> entry.start, num_blocks |-> entry.length]>>

ParseTable ==
    /\ pc = "parse"
    /\ \E garbage \in SUBSET (1..4) :
          logical_block_devices' = logical_block_devices \o Registered(1, garbage) \o Registered(2, garbage)
                                       \o Registered(3, garbage) \o Registered(4, garbage)
    /\ found' = found + 1
    /\ pc' = "mbr"
    /\ UNCHANGED <<device, bus, request, buffer, block_devices>>

ScanEnds ==
    /\ pc = "mbr" /\ found = Len(block_devices)
    /\ pc' = IF logical_block_devices = <<>> THEN "panic" ELSE "idle"
    /\ request' = NoRequest /\ buffer' = <<>>
    /\ UNCHANGED <<device, bus, tables>>

-----------------------------------------------------------------------------
(* read_fat_device and write_fat_device, on the first partition found.  Nobody
   looks at the size of the partition. *)

Root == Head(logical_block_devices)
RootBus == block_devices[Root.parent].bus

Read ==
    /\ pc = "idle"
    /\ \E lba \in 0..MaxRequest, num_blocks \in 1..MaxRequest :
          Submit(RootBus, "read", Root.lba_offset + lba, num_blocks, <<>>)
    /\ UNCHANGED <<device, tables>>

(* The words of count blocks, one block after the other. *)
Laid(data, count) ==
    [k \in 1..count * WordsPerBlock |->
        data[(k - 1) \div WordsPerBlock + 1][((k - 1) % WordsPerBlock) + 1]]

Write ==
    /\ pc = "idle"
    /\ \E lba \in 0..MaxRequest, num_blocks \in 1..MaxRequest :
       \E data \in [1..num_blocks -> Blocks] :
          Submit(RootBus, "write", Root.lba_offset + lba, num_blocks, Laid(data, num_blocks))
    /\ UNCHANGED <<device, tables>>

(* Another poll of the status register. *)
Poll == pc \in {"ready", "issue", "wait", "after"} /\ ~WaitReady /\ UNCHANGED vars

Stopped == pc = "panic" /\ UNCHANGED vars

Driver == Identify \/ Present \/ Ready \/ TakeIdentity \/ Issue \/ Wait \/ Take \/ Put \/ Flush
            \/ After \/ ReadTable \/ ParseTable \/ ScanEnds

Next == Driver \/ (\E b \in Buses : DeviceWorks(b)) \/ Poll \/ Read \/ Write \/ Stopped

(* The driver goes on by itself, and a controller that works ends what it began. *)
Spec == Init /\ [][Next]_vars /\ WF_vars(Driver) /\ \A b \in Buses : WF_vars(DeviceWorks(b))

-----------------------------------------------------------------------------
(* Properties *)

Scanned == pc \in {"mbr", "parse", "idle"} \/ (request.op # "none")

DiskOn(b) ==
    LET drive == drives[b][0]
    IN  IF drive.kind = "disk" /\ drive.size > 0 THEN <<[bus |-> b, total_blocks |-> drive.size]>> ELSE <<>>

(* Every bus whose first drive is a disk has one block device, of that disk's
   size, and no other block device exists, although the driver asks whatever drive
   is there and looks neither at DRQ nor at errors. *)
DevicesAreDisks == block_devices = DiskOn(1) \o DiskOn(2)

(* What that takes, as no drive is ever selected and no answer is checked. *)
FirstDrivesAnswer ==
    IdleWords = {0} /\ \A machine \in Machines, b \in Buses : machine.selected[b] = 0

(* The partitions are those of the tables of all the disks, each once, in order,
   with gaps in a table passed over. *)
PartitionsAreTables ==
    LET tableOn(n) == TableOf(drives[block_devices[n].bus][0].content[1])
        parts == {part \in (1..Len(block_devices)) \X (1..4) : tableOn(part[1])[part[2]].type # 0}
        here == [m \in DOMAIN logical_block_devices |->
                    <<logical_block_devices[m].parent, logical_block_devices[m].local_id + 1>>]
    IN  /\ ToSet(here) = parts
        /\ \A m, n \in DOMAIN here : m < n =>
              here[m][1] < here[n][1] \/ (here[m][1] = here[n][1] /\ here[m][2] < here[n][2])

(* What the scan of the machine leaves behind is what the machine has: its disks
   as block devices, and their partitions as logical ones; also when the kernel
   then stops because there is none. *)
ScanFindsDisks ==
    /\ Scanned /\ FirstDrivesAnswer => DevicesAreDisks
    /\ pc \in {"mbr", "idle", "panic"} /\ found = Len(block_devices) /\ request.op \in {"none", "mbr"} =>
          PartitionsAreTables

Contents(first, count) == Laid([k \in 1..count |-> drives[bus][0].content[first + k]], count)

ReadReturned == pc = "idle" /\ request.op = "read"

(* A read that returns has brought the blocks it was asked for, in order, however
   long the drive takes for each of them and whatever was written before, as long
   as the driver can express their addresses.  One that stops the kernel asked for
   a block that cannot be read. *)
ReadIsBlocks ==
    request.lba + request.num_blocks <= LbaLimit =>
        /\ ReadReturned =>
              /\ request.lba + request.num_blocks <= drives[bus][0].size
              /\ buffer = Contents(request.lba, request.num_blocks)
        /\ pc = "panic" /\ request.op \in {"read", "mbr"} =>
              \E lba \in request.lba..(request.lba + request.num_blocks - 1) :
                  lba >= drives[bus][0].size \/ lba \in drives[bus][0].bad

(* The scan and every request come to an end, or stop the kernel, unless there is a
   channel without a controller, for which the driver waits for ever. *)
CallsEnd ==
    (pc # "idle" /\ \A b \in Buses : Drive(b).kind # "no bus") ~> pc \in {"idle", "panic"}
=============================================================================
