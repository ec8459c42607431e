----------------------------- MODULE DiskProofs -----------------------------
(***************************************************************************)
(* Proofs about the IDE driver, for every set of machines, every size of   *)
(* blocks, every limit of addresses and every order of requests, and for a *)
(* controller of any speed; and about fat32_nameext_to_name, for every     *)
(* width of the two parts of a name.                                       *)
(***************************************************************************)
EXTENDS Disk, ShortName, BasicLemmas, SequenceTheorems, TLAPS

ControllerType == [selected : 0..1, bsy : BOOLEAN, drq : BOOLEAN, err : BOOLEAN,
                   command : {"none", "identify", "read", "write", "flush"}, lba : Nat, data : Seq(Nat)]

RequestType == [op : {"none", "mbr", "read", "write"}, lba : Nat, num_blocks : Nat, i : Nat, data : Seq(Nat)]

BlockDeviceType == [bus : Buses, total_blocks : Nat]

LogicalType == [parent : Nat, local_id : 0..3, bootable : BOOLEAN, lba_offset : Nat, num_blocks : Nat]

Scanning == {"identify", "present", "ready", "identity"}

Transferring == {"issue", "wait", "take", "put", "flush", "after"}

DriveTypes == drives \in [Buses -> [0..1 -> DriveType]] /\ \A b \in Buses, d \in 0..1 : IsDrive(drives[b][d])

DiskTypeOK ==
    /\ DriveTypes
    /\ ctl \in [Buses -> ControllerType]
    /\ pc \in Scanning \cup Transferring \cup {"mbr", "parse", "idle", "panic"}
    /\ bus \in Buses
    /\ request \in RequestType
    /\ buffer \in Seq(Nat)
    /\ block_devices \in Seq(BlockDeviceType)
    /\ logical_block_devices \in Seq(LogicalType)
    /\ found \in 0..Len(block_devices)

Reads == request.op \in {"read", "mbr"}

Quiet(b) == ~ctl[b].bsy /\ ~ctl[b].drq

(* A drive works only for the driver, and only where the driver expects it to. *)
Waited ==
    /\ \A b \in Buses \ {bus} : Quiet(b)
    /\ pc \in {"identify", "mbr", "issue", "parse", "idle", "panic"} => Quiet(bus)
    /\ pc \in Transferring \ {"issue"} => ctl[bus].selected = 0

(* How an IDENTIFY goes: a disk answers, every other drive ends it with an error, or
   does not take it. *)
Asked ==
    /\ pc \in {"present", "ready"} =>
          \/ Quiet(bus) /\ Drive(bus).kind # "disk"
          \/ /\ ctl[bus].bsy /\ ~ctl[bus].drq /\ ctl[bus].command = "identify"
             /\ Drive(bus).kind \in {"disk", "packet"}
          \/ /\ ~ctl[bus].bsy /\ ctl[bus].drq /\ Drive(bus).kind = "disk"
             /\ ctl[bus].data = Identity(Drive(bus).size)
    /\ pc = "identity" =>
          /\ ~ctl[bus].bsy /\ Len(buffer) < WordsPerBlock
          /\ \/ ~ctl[bus].drq /\ Drive(bus).kind # "disk"
             \/ /\ ctl[bus].drq /\ Drive(bus).kind = "disk"
                /\ Len(ctl[bus].data) = WordsPerBlock - Len(buffer)
                /\ \A j \in 1..Len(ctl[bus].data) :
                      ctl[bus].data[j] = Identity(Drive(bus).size)[Len(buffer) + j]

(* The scan of the buses, one after the other. *)
BusScan ==
    /\ pc \in Scanning => request.op = "none" /\ found = 0 /\ logical_block_devices = <<>>
    /\ FirstDrivesAnswer =>
          /\ \A b \in Buses : ctl[b].selected = 0
          /\ pc \in Scanning /\ bus = 1 => block_devices = <<>>
          /\ pc \in Scanning /\ bus = 2 => block_devices = DiskOn(1)
          /\ pc \notin Scanning => DevicesAreDisks

(* Which block the driver asks for, and whether it can be had. *)
At(n) == (request.lba + n) % LbaLimit

Readable(a) == drives[bus][0].kind = "disk" /\ a < drives[bus][0].size /\ a \notin drives[bus][0].bad

(* Block n of the request is in the buffer. *)
Brought(n) ==
    /\ Readable(At(n))
    /\ \A k \in 1..WordsPerBlock : buffer[n * WordsPerBlock + k] = drives[bus][0].content[At(n) + 1][k]

Done == IF pc = "after" THEN request.i + 1 ELSE request.i

(* How many words of the current block have been moved. *)
Moved == Len(buffer) - request.i * WordsPerBlock

InBlock == 0 <= Moved /\ Moved < WordsPerBlock

Reading ==
    /\ Reads => \A n \in 0..Done - 1 : Brought(n)
    /\ Reads /\ pc = "wait" =>
          \/ Quiet(bus) /\ ~Readable(At(request.i))
          \/ /\ ctl[bus].bsy /\ ~ctl[bus].drq /\ ~ctl[bus].err
             /\ ctl[bus].command = "read" /\ ctl[bus].lba = At(request.i)
          \/ /\ ~ctl[bus].bsy /\ ctl[bus].drq /\ ~ctl[bus].err /\ Readable(At(request.i))
             /\ ctl[bus].data = drives[bus][0].content[At(request.i) + 1]
    /\ pc = "take" =>
          /\ ~ctl[bus].bsy /\ ctl[bus].drq /\ InBlock /\ Readable(At(request.i))
          /\ Len(ctl[bus].data) = WordsPerBlock - Moved
          /\ \A j \in 1..Len(ctl[bus].data) :
                ctl[bus].data[j] = drives[bus][0].content[At(request.i) + 1][Moved + j]
          /\ \A k \in 1..Moved :
                buffer[request.i * WordsPerBlock + k] = drives[bus][0].content[At(request.i) + 1][k]
    /\ Reads /\ pc = "after" => Quiet(bus)
    /\ Reads /\ pc = "panic" => ~Readable(At(request.i))

Storing == ctl[bus].command = "write" /\ Len(ctl[bus].data) = WordsPerBlock

Writing ==
    /\ Writes => Len(request.data) = request.num_blocks * WordsPerBlock
    /\ Writes /\ pc = "wait" =>
          /\ ctl[bus].bsy => ~ctl[bus].drq /\ ctl[bus].command = "write"
          /\ ctl[bus].data = <<>>
          /\ ctl[bus].drq => ctl[bus].command = "write"
    /\ pc = "put" =>
          /\ ~ctl[bus].bsy /\ InBlock
          /\ ctl[bus].drq => ctl[bus].command = "write" /\ Len(ctl[bus].data) = Moved
    /\ pc = "flush" => ~ctl[bus].drq /\ (ctl[bus].bsy => Storing)
    /\ Writes /\ pc = "after" =>
          ~ctl[bus].drq /\ (ctl[bus].bsy => Storing \/ ctl[bus].command = "flush")

(* How far a request is. *)
Progress ==
    /\ pc \in Transferring =>
          request.op # "none" /\ request.i < request.num_blocks
    /\ pc = "take" => Reads
    /\ pc \in {"put", "flush"} => Writes
    /\ pc \in {"issue", "wait"} => Moved = 0
    /\ pc \in {"flush", "after"} => Moved = WordsPerBlock
    /\ pc = "panic" /\ request.op # "none" => Reads /\ request.i < request.num_blocks
    /\ pc = "parse" => request.op = "mbr" /\ request.i = request.num_blocks /\ Moved = 0
    /\ pc = "idle" => request.op # "mbr" /\ request.i = request.num_blocks
    /\ pc = "idle" /\ request.op # "none" => Moved = 0
    /\ pc = "mbr" => request.op \in {"none", "mbr"}
    /\ request.op # "none" => request.num_blocks > 0
    /\ request.op = "mbr" => request.lba = 0 /\ request.num_blocks = 1
    /\ request.op = "mbr" /\ pc # "mbr" => found < Len(block_devices) /\ bus = block_devices[found + 1].bus

(* The entries up to k of table n, and those of the tables before, are registered
   once each and in order. *)
TableOn(n) == TableOf(drives[block_devices[n].bus][0].content[1])

Before(m, j, n, k) == m < n \/ (m = n /\ j <= k)

RegisteredUpTo(lbdevs, n, k) ==
    /\ \A x \in DOMAIN lbdevs :
          /\ lbdevs[x].parent \in 1..Len(block_devices)
          /\ Before(lbdevs[x].parent, lbdevs[x].local_id + 1, n, k)
          /\ TableOn(lbdevs[x].parent)[lbdevs[x].local_id + 1].type # 0
    /\ \A m \in 1..Len(block_devices), j \in 1..4 :
          Before(m, j, n, k) /\ TableOn(m)[j].type # 0 =>
              \E x \in DOMAIN lbdevs : lbdevs[x].parent = m /\ lbdevs[x].local_id + 1 = j
    /\ \A x, y \in DOMAIN lbdevs : x < y =>
          Before(lbdevs[x].parent, lbdevs[x].local_id + 2, lbdevs[y].parent, lbdevs[y].local_id + 1)

TableScan ==
    /\ request.op \in {"none", "mbr"} =>
          /\ \E machine \in Machines : drives = machine.drives
          /\ RegisteredUpTo(logical_block_devices, found, 4)
    /\ \A x \in DOMAIN logical_block_devices : logical_block_devices[x].parent \in 1..Len(block_devices)
    /\ pc = "idle" \/ request.op \in {"read", "write"} => logical_block_devices # <<>>

IInv == DiskTypeOK /\ Waited /\ Asked /\ BusScan /\ Reading /\ Writing /\ Progress /\ TableScan
-----------------------------------------------------------------------------
(* What the constants are. *)
LEMMA Parameters ==
    /\ Buses = {1, 2} /\ WordsPerBlock \in Nat \ {0} /\ LbaLimit \in Nat \ {0}
    /\ Blocks \subseteq Block /\ IdleWords \subseteq Nat /\ MaxRequest \in Nat
BY MachineAssumption, PortAssumption

(* A machine as it is attached. *)
LEMMA Attached ==
    ASSUME NEW machine \in Machines
    PROVE  /\ machine.selected \in [Buses -> 0..1]
           /\ machine.drives \in [Buses -> [0..1 -> DriveType]]
           /\ \A b \in Buses, d \in 0..1 : IsDrive(machine.drives[b][d])
           /\ \A b \in Buses : machine.drives[b][0].content # <<>> =>
                 TableOf(machine.drives[b][0].content[1]) \in [1..4 -> Entry]
BY MachineAssumption

(* A controller that nothing is asked of. *)
LEMMA Idle ==
    ASSUME NEW d \in 0..1, NEW c, c = [NoCommand EXCEPT !.selected = d]
    PROVE  c \in ControllerType /\ c.selected = d /\ ~c.bsy /\ ~c.drq /\ c.data = <<>>
<1>1. <<>> \in Seq(Nat)
  OBVIOUS
<1> QED
  BY <1>1 DEF ControllerType, NoCommand

(* The machine is switched on: no drive works, and nothing is known of it. *)
LEMMA DiskInit == Init => IInv
<1> SUFFICES ASSUME NEW machine \in Machines,
                    drives = machine.drives,
                    ctl = [b \in Buses |-> [NoCommand EXCEPT !.selected = machine.selected[b]]],
                    pc = "identify", bus = 1, request = NoRequest, buffer = <<>>,
                    block_devices = <<>>, logical_block_devices = <<>>, found = 0
             PROVE  IInv
  BY DEF Init
<1>1. \A b \in Buses : ctl[b] = [NoCommand EXCEPT !.selected = machine.selected[b]]
  OBVIOUS
<1>2. \A b \in Buses : ctl[b] \in ControllerType /\ Quiet(b) /\ ctl[b].selected = machine.selected[b]
  <2> SUFFICES ASSUME NEW b \in Buses
               PROVE  ctl[b] \in ControllerType /\ Quiet(b) /\ ctl[b].selected = machine.selected[b]
    OBVIOUS
  <2>1. machine.selected[b] \in 0..1
    BY Attached
  <2> QED
    BY <1>1, <2>1, Idle DEF Quiet
<1>3. DiskTypeOK
  <2>1. DriveTypes
    BY Attached DEF DriveTypes
  <2>2. ctl \in [Buses -> ControllerType]
    BY <1>2
  <2>3. request \in RequestType
    BY DEF NoRequest, RequestType
  <2> QED
    BY <2>1, <2>2, <2>3, Parameters DEF DiskTypeOK, Scanning
<1>4. Waited
  BY <1>2, Parameters DEF Waited, Transferring
<1>5. Asked
  BY DEF Asked
<1>6. BusScan
  BY <1>2, Parameters DEF BusScan, Scanning, FirstDrivesAnswer, NoRequest
<1>7. Reading /\ Writing /\ Progress
  BY DEF Reading, Writing, Progress, Transferring, NoRequest, Reads, Writes
<1>8. TableScan
  BY DEF TableScan, RegisteredUpTo, NoRequest, Before
<1> QED
  BY <1>3, <1>4, <1>5, <1>6, <1>7, <1>8 DEF IInv
-----------------------------------------------------------------------------
(* The controller *)

(* A drive is selected. *)
LEMMA DriveIs ==
    ASSUME DiskTypeOK, NEW b \in Buses
    PROVE  Drive(b) \in DriveType /\ IsDrive(Drive(b)) /\ ctl[b].selected \in 0..1
<1>1. ctl[b].selected \in 0..1
  BY DEF DiskTypeOK, ControllerType
<1> QED
  BY <1>1 DEF DiskTypeOK, DriveTypes, Drive

(* What a controller that was quiet is like after a command. *)
Taken(b, d, command, lba, c) ==
    /\ c \in ControllerType /\ c.selected = d /\ ~c.drq /\ c.data = <<>>
    /\ c.bsy <=> drives[b][d].kind \notin {"none", "no bus"}
    /\ c.bsy => ~c.err /\ c.command = command /\ c.lba = lba

(* A quiet controller takes a command if a drive is there. *)
LEMMA TakesCommand ==
    ASSUME DiskTypeOK, NEW b \in Buses, Quiet(b), NEW d \in 0..1, NEW lba \in Nat,
           NEW command \in {"identify", "read", "write", "flush"}, NEW c, c = Commanded(b, d, command, lba)
    PROVE  Taken(b, d, command, lba, c)
<1>1. CASE drives[b][d].kind \in {"none", "no bus"}
  <2>1. c = [NoCommand EXCEPT !.selected = d]
    BY <1>1 DEF Commanded, Quiet
  <2> QED
    BY <1>1, <2>1, Idle DEF Taken
<1>2. CASE drives[b][d].kind \notin {"none", "no bus"}
  <2>1. c = [selected |-> d, bsy |-> TRUE, drq |-> FALSE, err |-> FALSE,
             command |-> command, lba |-> lba, data |-> <<>>]
    BY <1>2 DEF Commanded, Quiet
  <2>2. <<>> \in Seq(Nat)
    OBVIOUS
  <2>3. c \in ControllerType /\ c.selected = d /\ ~c.drq /\ c.data = <<>>
        /\ c.bsy /\ ~c.err /\ c.command = command /\ c.lba = lba
    BY <2>1, <2>2 DEF ControllerType
  <2> QED
    BY <1>2, <2>3 DEF Taken
<1> QED
  BY <1>1, <1>2

(* One that is busy is only told which drive the next command is for. *)
LEMMA TakesNoCommand ==
    ASSUME DiskTypeOK, NEW b \in Buses, ~Quiet(b), NEW d \in 0..1, NEW lba, NEW command,
           NEW c, c = Commanded(b, d, command, lba)
    PROVE  /\ c \in ControllerType /\ c.selected = d
           /\ c.bsy = ctl[b].bsy /\ c.drq = ctl[b].drq /\ c.err = ctl[b].err
           /\ c.command = ctl[b].command /\ c.lba = ctl[b].lba /\ c.data = ctl[b].data
<1>1. c = [ctl[b] EXCEPT !.selected = d]
  BY DEF Commanded, Quiet
<1>2. ctl[b] \in ControllerType
  BY DEF DiskTypeOK
<1> QED
  BY <1>1, <1>2 DEF ControllerType

(* How a command ends. *)
LEMMA EndsQuiet ==
    ASSUME DiskTypeOK, NEW b \in Buses, NEW error \in BOOLEAN, NEW c, c = Ends(b, error)
    PROVE  /\ c \in ControllerType /\ c.selected = ctl[b].selected
           /\ ~c.bsy /\ c.drq = ctl[b].drq /\ c.data = ctl[b].data
<1>1. ctl[b] \in ControllerType
  BY DEF DiskTypeOK
<1> QED
  BY <1>1 DEF ControllerType, Ends

(* The controller holds out data. *)
LEMMA OffersData ==
    ASSUME DiskTypeOK, NEW b \in Buses, NEW data \in Seq(Nat), NEW c, c = Offers(b, data)
    PROVE  /\ c \in ControllerType /\ c.selected = ctl[b].selected
           /\ ~c.bsy /\ c.drq /\ c.err = ctl[b].err /\ c.command = ctl[b].command /\ c.data = data
<1>1. ctl[b] \in ControllerType
  BY DEF DiskTypeOK
<1> QED
  BY <1>1 DEF ControllerType, Offers

(* The controller of one bus changes, and no other. *)
LEMMA OneController ==
    ASSUME DiskTypeOK, NEW b \in Buses, NEW c, c \in ControllerType, ctl' = [ctl EXCEPT ![b] = c]
    PROVE  /\ ctl' \in [Buses -> ControllerType]
           /\ ctl'[b] = c /\ \A a \in Buses \ {b} : ctl'[a] = ctl[a]
BY DEF DiskTypeOK
(* A word that is offered is taken. *)
LEMMA WordTaken ==
    ASSUME DiskTypeOK, NEW b \in Buses, ctl[b].drq, ctl[b].data # <<>>, WordIn(b)
    PROVE  /\ ctl' \in [Buses -> ControllerType] /\ \A a \in Buses \ {b} : ctl'[a] = ctl[a]
           /\ ctl'[b].selected = ctl[b].selected /\ ctl'[b].bsy = ctl[b].bsy
           /\ ctl'[b].data = Tail(ctl[b].data) /\ (ctl'[b].drq <=> Len(ctl[b].data) > 1)
           /\ buffer' = Append(buffer, ctl[b].data[1]) /\ buffer' \in Seq(Nat)
<1>1. ctl[b] \in ControllerType /\ ctl[b].data \in Seq(Nat)
  BY DEF DiskTypeOK, ControllerType
<1>2. Tail(ctl[b].data) \in Seq(Nat) /\ Head(ctl[b].data) = ctl[b].data[1] /\ ctl[b].data[1] \in Nat
  BY <1>1
<1>3. PICK more \in BOOLEAN : more = (Len(ctl[b].data) > 1)
  <2> WITNESS (Len(ctl[b].data) > 1) \in BOOLEAN
  <2> QED
    OBVIOUS
<1>a. PICK c : c = [ctl[b] EXCEPT !.data = Tail(@), !.drq = more]
  OBVIOUS
<1>4. c \in ControllerType /\ c.selected = ctl[b].selected /\ c.bsy = ctl[b].bsy
      /\ c.data = Tail(ctl[b].data) /\ c.drq = more
  BY <1>1, <1>2, <1>a DEF ControllerType
<1>5. ctl' = [ctl EXCEPT ![b] = c]
  BY <1>3, <1>a DEF WordIn
<1>6. ctl' \in [Buses -> ControllerType] /\ ctl'[b] = c /\ \A a \in Buses \ {b} : ctl'[a] = ctl[a]
  BY <1>4, <1>5, OneController
<1>7. buffer' = Append(buffer, ctl[b].data[1]) /\ buffer' \in Seq(Nat)
  <2>1. buffer' = Append(buffer, Head(ctl[b].data))
    BY DEF WordIn
  <2>2. buffer \in Seq(Nat)
    BY DEF DiskTypeOK
  <2> QED
    BY <1>2, <2>1, <2>2
<1> QED
  BY <1>3, <1>4, <1>6, <1>7
-----------------------------------------------------------------------------
(* The scan of the buses *)

(* Nothing is requested or registered while it goes on. *)
LEMMA ScanStep ==
    ASSUME IInv, pc \in Scanning, UNCHANGED <<drives, request, logical_block_devices, found>>,
           pc' \in Scanning \cup {"mbr"}, block_devices' \in Seq(BlockDeviceType)
    PROVE  Reading' /\ Writing' /\ Progress' /\ TableScan'
<1>1. request.op = "none" /\ found = 0 /\ logical_block_devices = <<>>
  BY DEF IInv, BusScan
<1>2. pc' \notin Transferring \cup {"panic", "parse", "idle"}
  BY DEF Scanning, Transferring
<1>3. Reading' /\ Writing' /\ Progress'
  BY <1>1, <1>2 DEF Reading, Writing, Progress, Reads, Writes, Transferring
<1>4. TableScan'
  BY <1>1, <1>2 DEF TableScan, IInv, RegisteredUpTo, Before
<1> QED
  BY <1>3, <1>4

(* The next bus is turned to, or the partitions, when this one's drive is quiet and
   registered if it should be. *)
LEMMA BusDone ==
    ASSUME IInv, pc \in Scanning, NextBus,
           UNCHANGED <<drives, request, logical_block_devices, found>>,
           ctl' \in [Buses -> ControllerType],
           \A b \in Buses : Quiet(b)' /\ ctl'[b].selected = ctl[b].selected,
           buffer' \in Seq(Nat), block_devices' \in Seq(BlockDeviceType),
           FirstDrivesAnswer => block_devices' = block_devices \o DiskOn(bus)
    PROVE  IInv'
<1>1. bus \in {1, 2}
  BY Parameters DEF IInv, DiskTypeOK
<1>2. \/ bus = 2 /\ pc' = "mbr" /\ bus' = 1
      \/ bus = 1 /\ pc' = "identify" /\ bus' = 2
  BY <1>1 DEF NextBus
<1>3. DiskTypeOK'
  <2>1. found' \in 0..Len(block_devices')
    BY DEF IInv, BusScan
  <2>2. DriveTypes' /\ request' \in RequestType /\ logical_block_devices' \in Seq(LogicalType)
    BY DEF IInv, DiskTypeOK, DriveTypes
  <2>3. bus' \in Buses /\ pc' \in {"mbr", "identify"}
    BY <1>2, Parameters
  <2> QED
    BY <2>1, <2>2, <2>3 DEF DiskTypeOK, Scanning
<1>4. Waited' /\ Asked'
  <2>1. bus' \in Buses /\ pc' \in {"mbr", "identify"}
    BY <1>2, Parameters
  <2>2. Quiet(bus)' /\ \A b \in Buses \ {bus'} : Quiet(b)'
    BY <2>1 DEF Quiet
  <2> QED
    BY <2>1, <2>2 DEF Waited, Asked, Transferring
<1>5. BusScan'
  <2>1. request' = request /\ request.op = "none" /\ found' = 0 /\ logical_block_devices' = <<>>
    BY DEF IInv, BusScan
  <2>2. ASSUME FirstDrivesAnswer
        PROVE  /\ \A b \in Buses : ctl'[b].selected = 0
               /\ bus = 1 => block_devices' = DiskOn(1)
               /\ bus = 2 => block_devices' = DiskOn(1) \o DiskOn(2)
    <3>1. bus = 1 => block_devices = <<>>
      BY <2>2 DEF IInv, BusScan
    <3>2. bus = 2 => block_devices = DiskOn(1)
      BY <2>2 DEF IInv, BusScan
    <3>3. DiskOn(1) \in Seq(BlockDeviceType)
      <4>1. drives[1][0] \in DriveType
        BY Parameters DEF IInv, DiskTypeOK, DriveTypes
      <4>a. drives[1][0].size \in Nat /\ 1 \in Buses
        BY <4>1, Parameters DEF DriveType
      <4>2. [bus |-> 1, total_blocks |-> drives[1][0].size] \in BlockDeviceType
        BY <4>a DEF BlockDeviceType
      <4> QED
        BY <4>2 DEF DiskOn
    <3>4. bus = 1 => block_devices' = DiskOn(1)
      BY <2>2, <3>1, <3>3
    <3> QED
      BY <2>2, <3>2, <3>4 DEF IInv, BusScan
  <2>3. DiskOn(1)' = DiskOn(1) /\ DiskOn(2)' = DiskOn(2) /\ (FirstDrivesAnswer' <=> FirstDrivesAnswer)
    BY DEF DiskOn, FirstDrivesAnswer
  <2> QED
    BY <1>2, <2>1, <2>2, <2>3 DEF BusScan, DevicesAreDisks, Scanning
<1>6. Reading' /\ Writing' /\ Progress' /\ TableScan'
  BY <1>2, ScanStep DEF Scanning
<1> QED
  BY <1>3, <1>4, <1>5, <1>6 DEF IInv

(* IDENTIFY is written to the command register. *)
LEMMA IdentifyInv == ASSUME IInv, Identify PROVE IInv'
<1>1. bus \in Buses /\ Quiet(bus) /\ DiskTypeOK /\ ctl[bus].selected \in 0..1
  BY DEF IInv, Waited, Identify, DiskTypeOK, ControllerType
<1>2. PICK c \in ControllerType :
        /\ ctl' = [ctl EXCEPT ![bus] = c]
        /\ c.selected = ctl[bus].selected /\ ~c.drq
        /\ c.bsy <=> Drive(bus).kind \notin {"none", "no bus"}
        /\ c.bsy => c.command = "identify"
  <2>1. PICK c : c = Commanded(bus, ctl[bus].selected, "identify", 0)
    OBVIOUS
  <2>2. c \in ControllerType /\ c.selected = ctl[bus].selected /\ ~c.drq
        /\ (c.bsy <=> drives[bus][ctl[bus].selected].kind \notin {"none", "no bus"})
        /\ (c.bsy => c.command = "identify")
    <3>1. PICK command \in {"identify", "read", "write", "flush"}, lba \in Nat : command = "identify" /\ lba = 0
      OBVIOUS
    <3>2. c = Commanded(bus, ctl[bus].selected, command, lba)
      BY <2>1, <3>1
    <3>3. Taken(bus, ctl[bus].selected, command, lba, c)
      BY <1>1, <3>2, TakesCommand
    <3> QED
      BY <3>1, <3>3 DEF Taken
  <2> QED
    BY <2>1, <2>2 DEF Identify, Drive
<1>3. ctl' \in [Buses -> ControllerType] /\ ctl'[bus] = c /\ \A a \in Buses \ {bus} : ctl'[a] = ctl[a]
  BY <1>1, <1>2, OneController
<1>4. pc' = "present" /\ UNCHANGED <<drives, bus, request, buffer, tables>>
  BY DEF Identify
<1>5. DiskTypeOK'
  BY <1>1, <1>3, <1>4 DEF DiskTypeOK, DriveTypes, tables, Scanning
<1>6. Waited'
  BY <1>3, <1>4 DEF IInv, Waited, Quiet, Transferring
<1>7. Asked'
  <2>1. Drive(bus)' = Drive(bus)
    BY <1>2, <1>3, <1>4 DEF Drive
  <2>3. Drive(bus).kind \in {"disk", "packet", "none", "no bus"}
    BY <1>1, DriveIs DEF DriveType
  <2>2. ctl'[bus'] = c
    BY <1>3, <1>4
  <2> QED
    BY <1>2, <1>4, <2>1, <2>2, <2>3 DEF Asked, Quiet
<1>8. BusScan'
  <2>1. \A b \in Buses : ctl'[b].selected = ctl[b].selected
    BY <1>2, <1>3
  <2> QED
    BY <1>4, <2>1 DEF IInv, BusScan, Identify, tables, DiskOn, DevicesAreDisks, FirstDrivesAnswer, Scanning
<1>9. Reading' /\ Writing' /\ Progress' /\ TableScan'
  BY <1>4, ScanStep DEF Scanning, tables, Identify, IInv, DiskTypeOK
<1> QED
  BY <1>5, <1>6, <1>7, <1>8, <1>9 DEF IInv

(* The driver goes on to wait. *)
LEMMA ReadyStep ==
    ASSUME IInv, pc = "present", pc' = "ready", UNCHANGED <<drives, ctl, bus, request, buffer, tables>>
    PROVE  IInv'
<1>1. DiskTypeOK'
  BY DEF IInv, DiskTypeOK, DriveTypes, tables, Scanning
<1>2. Waited' /\ BusScan'
  BY DEF IInv, Waited, BusScan, Quiet, Transferring, Scanning, tables, DiskOn, DevicesAreDisks, FirstDrivesAnswer
<1>3. Asked'
  BY DEF IInv, Asked, Quiet, Drive
<1>4. Reading' /\ Writing' /\ Progress' /\ TableScan'
  BY ScanStep DEF Scanning, tables, IInv, DiskTypeOK
<1> QED
  BY <1>1, <1>2, <1>3, <1>4 DEF IInv

(* Is a drive there?  If not, on to the next bus. *)
LEMMA PresentInv == ASSUME IInv, Present PROVE IInv'
<1>1. bus \in Buses /\ pc = "present" /\ UNCHANGED <<device, request, buffer, tables>>
  BY DEF IInv, Present, DiskTypeOK
<1>2. ctl' = ctl /\ \A b \in Buses : Quiet(b)' <=> Quiet(b)
  BY <1>1 DEF device, Quiet
<1>3. CASE StatusZero(bus)
  <2>1. Drive(bus).kind = "none"
    BY <1>3 DEF StatusZero
  <2>2. NextBus
    BY <1>3 DEF Present
  <2>3. Quiet(bus)
    BY <1>1, <2>1 DEF IInv, Asked
  <2>4. FirstDrivesAnswer => DiskOn(bus) = <<>>
    <3> SUFFICES ASSUME FirstDrivesAnswer PROVE DiskOn(bus) = <<>>
      OBVIOUS
    <3>1. ctl[bus].selected = 0
      BY <1>1 DEF IInv, BusScan
    <3> QED
      BY <2>1, <3>1 DEF DiskOn, Drive
  <2>5. \A b \in Buses : Quiet(b)' /\ ctl'[b].selected = ctl[b].selected
    BY <1>2, <2>3 DEF IInv, Waited
  <2> QED
    BY <1>1, <1>2, <2>2, <2>4, <2>5, BusDone DEF Scanning, tables, device, IInv, DiskTypeOK
<1>4. CASE ~StatusZero(bus)
  <2>1. pc' = "ready" /\ bus' = bus /\ UNCHANGED <<device, request, buffer, tables>>
    BY <1>1, <1>4 DEF Present
  <2> QED
    BY <1>1, <2>1, ReadyStep DEF device
<1> QED
  BY <1>3, <1>4

(* The drive is no longer busy: the words come. *)
LEMMA ReadyInv == ASSUME IInv, Ready PROVE IInv'
<1>1. bus \in Buses /\ pc = "ready" /\ pc' = "identity" /\ buffer' = <<>> /\ ~ctl[bus].bsy
      /\ UNCHANGED <<device, bus, request, tables>>
  BY DEF IInv, Ready, DiskTypeOK, WaitReady, Busy
<1>2. DiskTypeOK'
  BY <1>1 DEF IInv, DiskTypeOK, DriveTypes, device, tables, Scanning
<1>3. Waited' /\ BusScan'
  BY <1>1 DEF IInv, Waited, BusScan, Quiet, Transferring, Scanning, device, tables, DiskOn, DevicesAreDisks,
              FirstDrivesAnswer
<1>4. Asked'
  <2>1. WordsPerBlock \in Nat \ {0} /\ Len(buffer') = 0
    BY <1>1, Parameters
  <2>2. Drive(bus)' = Drive(bus) /\ ctl'[bus'] = ctl[bus]
    BY <1>1 DEF Drive, device
  <2>3. \/ Quiet(bus) /\ Drive(bus).kind # "disk"
        \/ ctl[bus].drq /\ Drive(bus).kind = "disk" /\ ctl[bus].data = Identity(Drive(bus).size)
    BY <1>1 DEF IInv, Asked, Quiet
  <2>4. Len(Identity(Drive(bus).size)) = WordsPerBlock
    BY <2>1 DEF Identity
  <2> QED
    BY <1>1, <2>1, <2>2, <2>3, <2>4 DEF Asked, Quiet
<1>5. Reading' /\ Writing' /\ Progress' /\ TableScan'
  BY <1>1, ScanStep DEF Scanning, tables, device, IInv, DiskTypeOK
<1> QED
  BY <1>2, <1>3, <1>4, <1>5 DEF IInv

(* A word of the identity is taken, and the disk is registered after the last one. *)
LEMMA TakeIdentityInv == ASSUME IInv, TakeIdentity PROVE IInv'
<1>1. bus \in Buses /\ pc = "identity" /\ WordIn(bus) /\ DiskTypeOK /\ buffer \in Seq(Nat)
      /\ UNCHANGED <<drives, request, logical_block_devices, found>>
  BY DEF IInv, TakeIdentity, DiskTypeOK
<1>2. WordsPerBlock \in Nat \ {0} /\ IdleWords \subseteq Nat
  BY Parameters
<1>3. /\ ~ctl[bus].bsy /\ Len(buffer) < WordsPerBlock
      /\ \/ ~ctl[bus].drq /\ Drive(bus).kind # "disk"
         \/ /\ ctl[bus].drq /\ Drive(bus).kind = "disk"
            /\ Len(ctl[bus].data) = WordsPerBlock - Len(buffer)
            /\ \A j \in 1..Len(ctl[bus].data) :
                  ctl[bus].data[j] = Identity(Drive(bus).size)[Len(buffer) + j]
  BY <1>1 DEF IInv, Asked
(* The controller and the buffer afterwards. *)
<1>4. PICK word \in Nat :
        /\ buffer' = Append(buffer, word) /\ buffer' \in Seq(Nat) /\ Len(buffer') = Len(buffer) + 1
        /\ ctl[bus].drq => word = Identity(Drive(bus).size)[Len(buffer) + 1]
        /\ ~ctl[bus].drq => word \in IdleWords /\ ctl' = ctl
  <2>1. CASE ctl[bus].drq
    <3>1. ctl[bus].data # <<>> /\ ctl[bus].data[1] = Identity(Drive(bus).size)[Len(buffer) + 1]
      BY <1>1, <1>2, <1>3, <2>1
    <3>2. ctl[bus].data[1] \in Nat
      BY <1>1, <3>1 DEF DiskTypeOK, ControllerType
    <3>3. buffer' = Append(buffer, ctl[bus].data[1])
      BY <1>1, <2>1, <3>1, WordTaken
    <3> QED
      BY <1>1, <2>1, <3>1, <3>2, <3>3
  <2>2. CASE ~ctl[bus].drq
    <3>1. PICK w \in IdleWords : buffer' = Append(buffer, w) /\ ctl' = ctl
      BY <1>1, <2>2 DEF WordIn
    <3> QED
      BY <1>1, <1>2, <2>2, <3>1
  <2> QED
    BY <2>1, <2>2
<1>5. /\ ctl' \in [Buses -> ControllerType] /\ \A a \in Buses \ {bus} : ctl'[a] = ctl[a]
      /\ ctl'[bus].selected = ctl[bus].selected /\ ~ctl'[bus].bsy
      /\ ctl[bus].drq => /\ ctl'[bus].data = Tail(ctl[bus].data)
                         /\ ctl'[bus].drq <=> Len(ctl[bus].data) > 1
  <2>1. CASE ctl[bus].drq
    <3>1. ctl[bus].data # <<>>
      BY <1>1, <1>2, <1>3, <2>1
    <3> QED
      BY <1>1, <1>3, <2>1, <3>1, WordTaken
  <2>2. CASE ~ctl[bus].drq
    BY <1>1, <1>3, <1>4, <2>2 DEF DiskTypeOK
  <2> QED
    BY <2>1, <2>2
<1>6. CASE Len(buffer') < WordsPerBlock
  <2>1. pc' = "identity" /\ UNCHANGED <<drives, bus, request, tables>>
    BY <1>1, <1>6 DEF TakeIdentity, tables
  <2>2. DiskTypeOK'
    BY <1>1, <1>4, <1>5, <2>1 DEF DiskTypeOK, DriveTypes, tables
  <2>3. Waited' /\ BusScan'
    <3>1. \A b \in Buses : ctl'[b].selected = ctl[b].selected
      BY <1>5
    <3>2. Waited'
      BY <1>1, <1>5, <2>1 DEF IInv, Waited, Quiet, Transferring
    <3> QED
      BY <1>1, <2>1, <3>1, <3>2 DEF IInv, BusScan, DiskOn, FirstDrivesAnswer, Scanning, tables
  <2>4. Asked'
    <3>1. Drive(bus)' = Drive(bus)
      BY <1>5, <2>1 DEF Drive
    <3>2. CASE ctl[bus].drq
      <4>1. ctl[bus].data \in Seq(Nat)
        BY <1>1 DEF DiskTypeOK, ControllerType
      <4>2. /\ Len(ctl'[bus].data) = WordsPerBlock - Len(buffer') /\ ctl'[bus].drq
            /\ \A j \in 1..Len(ctl'[bus].data) : ctl'[bus].data[j] = ctl[bus].data[j + 1]
        <5>1. Len(ctl[bus].data) = WordsPerBlock - Len(buffer) /\ Len(ctl[bus].data) > 1
          BY <1>1, <1>2, <1>3, <1>4, <1>6, <3>2
        <5>2. Len(Tail(ctl[bus].data)) = Len(ctl[bus].data) - 1
              /\ \A j \in 1..Len(Tail(ctl[bus].data)) : Tail(ctl[bus].data)[j] = ctl[bus].data[j + 1]
          BY <4>1, <5>1
        <5>3. ctl'[bus].data = Tail(ctl[bus].data) /\ ctl'[bus].drq
          BY <1>5, <3>2, <5>1
        <5>4. WordsPerBlock - Len(buffer') = (WordsPerBlock - Len(buffer)) - 1
          BY <1>1, <1>2, <1>4
        <5>5. Len(Tail(ctl[bus].data)) = WordsPerBlock - Len(buffer')
          BY <5>1, <5>2, <5>4
        <5> QED
          BY <5>2, <5>3, <5>5, Zenon
      <4>3. ASSUME NEW j \in 1..Len(ctl'[bus].data)
            PROVE  ctl'[bus].data[j] = Identity(Drive(bus).size)[Len(buffer') + j]
        <5>1. j + 1 \in 1..Len(ctl[bus].data) /\ Len(buffer) + (j + 1) = Len(buffer') + j
          BY <1>1, <1>2, <1>3, <1>4, <3>2, <4>2
        <5>2. ctl[bus].data[j + 1] = Identity(Drive(bus).size)[Len(buffer) + (j + 1)]
          BY <1>3, <3>2, <5>1
        <5> QED
          BY <4>2, <5>1, <5>2
      <4> QED
        BY <1>3, <1>5, <1>6, <2>1, <3>1, <3>2, <4>2, <4>3 DEF Asked
    <3>3. CASE ~ctl[bus].drq
      BY <1>3, <1>4, <1>5, <1>6, <2>1, <3>1, <3>3 DEF Asked
    <3> QED
      BY <3>2, <3>3
  <2>5. Reading' /\ Writing' /\ Progress' /\ TableScan'
    BY <1>1, <2>1, ScanStep DEF Scanning, tables, DiskTypeOK
  <2> QED
    BY <2>2, <2>3, <2>4, <2>5 DEF IInv
<1>7. CASE ~(Len(buffer') < WordsPerBlock)
  <2>1. Len(buffer') = WordsPerBlock /\ Len(buffer) + 1 = WordsPerBlock
    BY <1>1, <1>2, <1>3, <1>4, <1>7
  <2>2. NextBus /\ block_devices' = IF Last(buffer') = 0 THEN block_devices
                      ELSE Append(block_devices, [bus |-> bus, total_blocks |-> Last(buffer')])
    BY <1>7 DEF TakeIdentity
  <2>3. \A b \in Buses : Quiet(b)' /\ ctl'[b].selected = ctl[b].selected
    <3>1. ~ctl'[bus].drq
      BY <1>1, <1>2, <1>3, <1>4, <1>5, <2>1
    <3> QED
      BY <1>1, <1>5, <3>1 DEF IInv, Waited, Quiet
  <2>4. Last(buffer') = word
    BY <1>1, <1>4 DEF Last
  <2>5. block_devices' \in Seq(BlockDeviceType)
    <3>1. [bus |-> bus, total_blocks |-> word] \in BlockDeviceType
      BY <1>1 DEF BlockDeviceType
    <3>2. block_devices \in Seq(BlockDeviceType)
      BY <1>1 DEF DiskTypeOK
    <3> QED
      BY <2>2, <2>4, <3>1, <3>2
  <2>6. FirstDrivesAnswer => block_devices' = block_devices \o DiskOn(bus)
    <3> SUFFICES ASSUME FirstDrivesAnswer PROVE block_devices' = block_devices \o DiskOn(bus)
      OBVIOUS
    <3>1. ctl[bus].selected = 0 /\ IdleWords = {0}
      BY <1>1 DEF IInv, BusScan, FirstDrivesAnswer
    <3>2. Drive(bus) = drives[bus][0] /\ Drive(bus).size \in Nat
      BY <1>1, <3>1, DriveIs DEF Drive, DriveType
    <3>3. block_devices \in Seq(BlockDeviceType)
      BY <1>1 DEF DiskTypeOK
    <3>4. CASE ctl[bus].drq
      <4>1. word = Drive(bus).size
        BY <1>2, <1>4, <2>1, <3>4 DEF Identity
      <4>2. DiskOn(bus) = IF word = 0 THEN <<>> ELSE <<[bus |-> bus, total_blocks |-> word]>>
        BY <1>3, <3>2, <3>4, <4>1 DEF DiskOn
      <4> QED
        BY <2>2, <2>4, <3>3, <4>2
    <3>5. CASE ~ctl[bus].drq
      <4>1. word = 0 /\ DiskOn(bus) = <<>>
        BY <1>3, <1>4, <3>1, <3>2, <3>5 DEF DiskOn
      <4> QED
        BY <2>2, <2>4, <3>3, <4>1
    <3> QED
      BY <3>4, <3>5
  <2> QED
    BY <1>1, <1>4, <1>5, <2>2, <2>3, <2>5, <2>6, BusDone DEF Scanning
<1> QED
  BY <1>6, <1>7
-----------------------------------------------------------------------------
(* The drive *)

(* Where a drive can be at work, and on what. *)
LEMMA AtWork ==
    ASSUME IInv, NEW b \in Buses, ctl[b].bsy
    PROVE  /\ b = bus /\ ~ctl[bus].drq
           /\ \/ pc \in {"present", "ready"} /\ ctl[bus].command = "identify"
              \/ pc = "wait" /\ Reads /\ ctl[bus].command = "read"
              \/ pc = "wait" /\ Writes /\ ctl[bus].command = "write" /\ ctl[bus].data = <<>>
              \/ pc \in {"flush", "after"} /\ Writes /\ Storing
              \/ pc = "after" /\ Writes /\ ctl[bus].command = "flush"
<1>1. b = bus
  BY DEF IInv, Waited, Quiet
<1>2. pc \in {"present", "ready", "wait", "flush", "after"}
  BY <1>1 DEF IInv, DiskTypeOK, Scanning, Transferring, Waited, Quiet, Asked, Reading, Writing
<1>3. CASE pc \in {"present", "ready"}
  BY <1>1, <1>3 DEF IInv, Asked, Quiet
<1>4. CASE pc \in {"wait", "flush", "after"}
  <2>1. Reads \/ Writes
    BY <1>4 DEF IInv, Progress, Transferring, DiskTypeOK, RequestType, Reads, Writes
  <2> QED
    BY <1>1, <1>4, <2>1 DEF IInv, Reading, Writing, Progress, Quiet, Reads, Writes
<1> QED
  BY <1>1, <1>2, <1>3, <1>4

(* What is registered stays so when neither disks nor devices change. *)
LEMMA TablesKept ==
    ASSUME IInv, UNCHANGED <<drives, tables>>, request'.op = request.op,
           pc' = "idle" => pc = "idle" \/ logical_block_devices # <<>>
    PROVE  TableScan'
<1>1. drives' = drives /\ block_devices' = block_devices /\ found' = found
      /\ logical_block_devices' = logical_block_devices
  BY DEF tables
<1>2. ASSUME NEW m PROVE TableOn(m)' = TableOn(m)
  BY <1>1 DEF TableOn
<1>3. RegisteredUpTo(logical_block_devices, found, 4) => RegisteredUpTo(logical_block_devices, found, 4)'
  BY <1>1, <1>2 DEF RegisteredUpTo
<1> QED
  BY <1>1, <1>3 DEF IInv, TableScan

(* What a step of the controller alone leaves as it is. *)
LEMMA ControllerStep ==
    ASSUME IInv, UNCHANGED <<drives, pc, bus, request, buffer, tables>>,
           pc \notin {"identify", "mbr", "issue", "parse", "idle", "panic"},
           ctl' \in [Buses -> ControllerType], \A a \in Buses \ {bus} : ctl'[a] = ctl[a],
           ctl'[bus].selected = ctl[bus].selected
    PROVE  /\ DiskTypeOK' /\ Waited' /\ BusScan' /\ Progress' /\ TableScan'
           /\ Reads' => \A n \in 0..Done' - 1 : Brought(n)'
<1>1. DiskTypeOK'
  BY DEF IInv, DiskTypeOK, DriveTypes, tables
<1>2. Waited'
  BY DEF IInv, Waited, Quiet
<1>3. BusScan'
  <2>1. \A b \in Buses : ctl'[b].selected = ctl[b].selected
    OBVIOUS
  <2> QED
    BY <2>1 DEF IInv, BusScan, tables, DiskOn, DevicesAreDisks, FirstDrivesAnswer
<1>4. Progress'
  BY DEF IInv, Progress, Reads, Writes, Moved, tables
<1>5. TableScan'
  BY TablesKept DEF IInv, TableScan
<1>6. Reads' => \A n \in 0..Done' - 1 : Brought(n)'
  <2>1. Reads' = Reads /\ Done' = Done
    BY DEF Reads, Done
  <2>2. ASSUME NEW n PROVE Brought(n)' <=> Brought(n)
    BY DEF Brought, Readable, At
  <2> QED
    BY <2>1, <2>2 DEF IInv, Reading
<1> QED
  BY <1>1, <1>2, <1>3, <1>4, <1>5, <1>6

(* The drive answers IDENTIFY. *)
LEMMA AnswersIdentifyInv ==
    ASSUME IInv, NEW b \in Buses, DeviceWorks(b), AnswersIdentify(b) PROVE IInv'
<1>1. b = bus /\ ~ctl[bus].drq /\ pc \in {"present", "ready"} /\ bus \in Buses /\ DiskTypeOK
  BY AtWork DEF DeviceWorks, AnswersIdentify, Storing, IInv, DiskTypeOK
<1>2. Drive(bus) \in DriveType /\ Drive(bus).size \in Nat
  BY <1>1, DriveIs DEF DriveType
<1>3. Identity(Drive(bus).size) \in Seq(Nat)
  <2>1. WordsPerBlock \in Nat
    BY Parameters
  <2>2. Identity(Drive(bus).size) \in [1..WordsPerBlock -> Nat]
    BY <1>2 DEF Identity
  <2> QED
    BY <2>1, <2>2
<1>4. PICK c \in ControllerType :
        /\ ctl' = [ctl EXCEPT ![bus] = c] /\ c.selected = ctl[bus].selected /\ ~c.bsy
        /\ Drive(bus).kind # "disk" => ~c.drq
        /\ Drive(bus).kind = "disk" => c.drq /\ c.data = Identity(Drive(bus).size)
  <2>1. CASE Drive(bus).kind = "disk"
    <3>1. PICK c : c = Offers(bus, Identity(Drive(bus).size))
      OBVIOUS
    <3>2. c \in ControllerType /\ c.selected = ctl[bus].selected /\ ~c.bsy /\ c.drq
          /\ c.data = Identity(Drive(bus).size)
      BY <1>1, <1>3, <3>1, OffersData
    <3> QED
      BY <1>1, <2>1, <3>1, <3>2 DEF AnswersIdentify
  <2>2. CASE Drive(bus).kind # "disk"
    <3>a. PICK error \in BOOLEAN : error = TRUE
      OBVIOUS
    <3>1. PICK c : c = Ends(bus, error)
      OBVIOUS
    <3>2. c \in ControllerType /\ c.selected = ctl[bus].selected /\ ~c.bsy /\ ~c.drq
      BY <1>1, <3>1, EndsQuiet
    <3> QED
      BY <1>1, <2>2, <3>a, <3>1, <3>2 DEF AnswersIdentify
  <2> QED
    BY <2>1, <2>2
<1>5. ctl' \in [Buses -> ControllerType] /\ ctl'[bus] = c /\ \A a \in Buses \ {bus} : ctl'[a] = ctl[a]
  BY <1>1, <1>4, OneController
<1>6. UNCHANGED <<drives, pc, bus, request, buffer, tables>>
  BY DEF DeviceWorks, AnswersIdentify
<1>7. DiskTypeOK' /\ Waited' /\ BusScan' /\ Progress' /\ TableScan'
  BY <1>1, <1>4, <1>5, <1>6, ControllerStep
<1>8. Asked'
  <2>1. Drive(bus)' = Drive(bus)
    BY <1>4, <1>5, <1>6 DEF Drive
  <2> QED
    BY <1>1, <1>4, <1>5, <1>6, <2>1 DEF Asked, Quiet
<1>9. Reading' /\ Writing'
  <2>1. request'.op = "none"
    BY <1>1, <1>6 DEF IInv, BusScan, Scanning
  <2> QED
    BY <1>1, <1>6, <2>1 DEF Reading, Writing, Reads, Writes
<1> QED
  BY <1>7, <1>8, <1>9 DEF IInv

(* A block is a sequence of words, on a disk and in a request. *)
LEMMA BlockIsWords ==
    ASSUME NEW block \in Block
    PROVE  block \in Seq(Nat) /\ Len(block) = WordsPerBlock
BY Parameters DEF Block

(* A block on a drive is words. *)
LEMMA BlockOnDisk ==
    ASSUME DiskTypeOK, NEW b \in Buses, NEW d \in 0..1, NEW a \in Nat, a < drives[b][d].size
    PROVE  /\ drives[b][d].content[a + 1] \in Seq(Nat)
           /\ Len(drives[b][d].content[a + 1]) = WordsPerBlock
<1>1. drives[b][d] \in DriveType /\ IsDrive(drives[b][d])
  BY DEF DiskTypeOK, DriveTypes
<1>2. drives[b][d].content \in Seq(Block) /\ drives[b][d].size = Len(drives[b][d].content)
  BY <1>1 DEF DriveType, IsDrive
<1>3. drives[b][d].content[a + 1] \in Block
  BY <1>2
<1> QED
  BY <1>3, BlockIsWords

(* Where the n-th block of a request is. *)
LEMMA AddressOf ==
    ASSUME DiskTypeOK, NEW n \in Nat
    PROVE  At(n) \in Nat
<1>1. request.lba + n \in Nat /\ LbaLimit \in Nat \ {0}
  BY Parameters DEF DiskTypeOK, RequestType
<1> QED
  BY <1>1 DEF At

(* The drive brings the block that it was asked for, or an error. *)
LEMMA AnswersReadInv ==
    ASSUME IInv, NEW b \in Buses, DeviceWorks(b), AnswersRead(b) PROVE IInv'
<1>1. b = bus /\ ~ctl[bus].drq /\ pc = "wait" /\ Reads /\ bus \in Buses /\ DiskTypeOK /\ ctl[bus].bsy
  BY AtWork DEF DeviceWorks, AnswersRead, Storing, IInv, DiskTypeOK
<1>2. /\ ctl[bus].lba = At(request.i) /\ ~ctl[bus].err /\ ctl[bus].selected = 0
      /\ request.i \in Nat /\ At(request.i) \in Nat
  <2>1. ctl[bus].lba = At(request.i) /\ ~ctl[bus].err
    BY <1>1 DEF IInv, Reading, Quiet
  <2>2. ctl[bus].selected = 0
    BY <1>1 DEF IInv, Waited, Transferring
  <2>3. request.i \in Nat
    BY <1>1 DEF DiskTypeOK, RequestType
  <2> QED
    BY <1>1, <2>1, <2>2, <2>3, AddressOf
<1>3. Drive(bus) = drives[bus][0] /\ (Accessible(bus) <=> Readable(At(request.i)))
  BY <1>2 DEF Drive, Accessible, Readable
<1>4. PICK c \in ControllerType :
        /\ ctl' = [ctl EXCEPT ![bus] = c] /\ c.selected = 0 /\ ~c.bsy
        /\ ~Readable(At(request.i)) => ~c.drq
        /\ Readable(At(request.i)) => /\ c.drq /\ ~c.err
                                      /\ c.data = drives[bus][0].content[At(request.i) + 1]
  <2>1. CASE Readable(At(request.i))
    <3>1. drives[bus][0].content[At(request.i) + 1] \in Seq(Nat)
      BY <1>1, <1>2, <2>1, BlockOnDisk DEF Readable
    <3>2. PICK c : c = Offers(bus, drives[bus][0].content[At(request.i) + 1])
      OBVIOUS
    <3>3. c \in ControllerType /\ c.selected = 0 /\ ~c.bsy /\ c.drq /\ ~c.err
          /\ c.data = drives[bus][0].content[At(request.i) + 1]
      BY <1>1, <1>2, <3>1, <3>2, OffersData
    <3>4. ctl' = [ctl EXCEPT ![bus] = c]
      BY <1>1, <1>2, <1>3, <2>1, <3>2 DEF AnswersRead
    <3> QED
      BY <2>1, <3>3, <3>4
  <2>2. CASE ~Readable(At(request.i))
    <3>1. PICK error \in BOOLEAN : error = TRUE
      OBVIOUS
    <3>2. PICK c : c = Ends(bus, error)
      OBVIOUS
    <3>3. c \in ControllerType /\ c.selected = 0 /\ ~c.bsy /\ ~c.drq
      BY <1>1, <1>2, <3>2, EndsQuiet
    <3>4. ctl' = [ctl EXCEPT ![bus] = c]
      BY <1>1, <1>3, <2>2, <3>1, <3>2 DEF AnswersRead
    <3> QED
      BY <2>2, <3>3, <3>4
  <2> QED
    BY <2>1, <2>2
<1>5. ctl' \in [Buses -> ControllerType] /\ ctl'[bus] = c /\ \A a \in Buses \ {bus} : ctl'[a] = ctl[a]
  BY <1>1, <1>4, OneController
<1>6. UNCHANGED <<drives, pc, bus, request, buffer, tables>>
  BY DEF DeviceWorks, AnswersRead
<1>7. /\ DiskTypeOK' /\ Waited' /\ BusScan' /\ Progress' /\ TableScan'
      /\ Reads' => \A n \in 0..Done' - 1 : Brought(n)'
  BY <1>1, <1>2, <1>4, <1>5, <1>6, ControllerStep
<1>8. Asked' /\ Writing'
  BY <1>1, <1>6 DEF Asked, Writing, Reads, Writes, IInv
<1>9. Reading'
  <2>1. At(request.i)' = At(request.i) /\ (Readable(At(request.i))' <=> Readable(At(request.i)))
    BY <1>6 DEF At, Readable
  <2>2. CASE Readable(At(request.i))
    BY <1>1, <1>4, <1>5, <1>6, <1>7, <2>1, <2>2 DEF Reading
  <2>3. CASE ~Readable(At(request.i))
    BY <1>1, <1>4, <1>5, <1>6, <1>7, <2>1, <2>3 DEF Reading, Quiet
  <2> QED
    BY <2>2, <2>3
<1> QED
  BY <1>7, <1>8, <1>9 DEF IInv

(* The drive asks for the words to be written, or refuses. *)
LEMMA AnswersWriteInv ==
    ASSUME IInv, NEW b \in Buses, DeviceWorks(b), AnswersWrite(b) PROVE IInv'
<1>1. b = bus /\ ~ctl[bus].drq /\ pc = "wait" /\ Writes /\ bus \in Buses /\ DiskTypeOK
  BY AtWork, Parameters DEF DeviceWorks, AnswersWrite, Storing, IInv, DiskTypeOK
<1>2. ctl[bus].data = <<>> /\ ctl[bus].command = "write"
  BY <1>1 DEF AnswersWrite
<1>3. PICK c \in ControllerType :
        /\ ctl' = [ctl EXCEPT ![bus] = c] /\ c.selected = ctl[bus].selected /\ ~c.bsy
        /\ c.data = <<>> /\ (c.drq => c.command = "write")
  <2>1. CASE ctl[bus].lba < Drive(bus).size
    <3>a. <<>> \in Seq(Nat)
      OBVIOUS
    <3>1. PICK data \in Seq(Nat) : data = <<>>
      BY <3>a, Zenon
    <3>2. PICK c : c = Offers(bus, data)
      OBVIOUS
    <3>3. c \in ControllerType /\ c.selected = ctl[bus].selected /\ ~c.bsy
          /\ c.data = data /\ c.command = ctl[bus].command
      BY <1>1, <3>2, OffersData
    <3> QED
      BY <1>1, <1>2, <2>1, <3>1, <3>2, <3>3 DEF AnswersWrite
  <2>2. CASE ~(ctl[bus].lba < Drive(bus).size)
    <3>1. PICK error \in BOOLEAN : error = TRUE
      OBVIOUS
    <3>2. PICK c : c = Ends(bus, error)
      OBVIOUS
    <3>3. c \in ControllerType /\ c.selected = ctl[bus].selected /\ ~c.bsy /\ ~c.drq /\ c.data = <<>>
      BY <1>1, <1>2, <3>2, EndsQuiet
    <3> QED
      BY <1>1, <2>2, <3>1, <3>2, <3>3 DEF AnswersWrite
  <2> QED
    BY <2>1, <2>2
<1>4. ctl' \in [Buses -> ControllerType] /\ ctl'[bus] = c /\ \A a \in Buses \ {bus} : ctl'[a] = ctl[a]
  BY <1>1, <1>3, OneController
<1>5. UNCHANGED <<drives, pc, bus, request, buffer, tables>>
  BY DEF DeviceWorks, AnswersWrite
<1>6. /\ DiskTypeOK' /\ Waited' /\ BusScan' /\ Progress' /\ TableScan'
  BY <1>1, <1>3, <1>4, <1>5, ControllerStep
<1>7. Asked' /\ Reading'
  BY <1>1, <1>5 DEF Asked, Reading, Reads, Writes
<1>8. Writing'
  BY <1>1, <1>3, <1>4, <1>5 DEF Writing, Writes, IInv
<1> QED
  BY <1>6, <1>7, <1>8 DEF IInv

(* A block of a disk is replaced. *)
LEMMA BlockReplaced ==
    ASSUME NEW drive \in DriveType, IsDrive(drive), NEW a \in Nat, a < drive.size, NEW block \in Block,
           NEW new, new = [drive EXCEPT !.content[a + 1] = block], drive.kind = "disk"
    PROVE  new \in DriveType /\ IsDrive(new) /\ new.kind = drive.kind /\ new.size = drive.size
<1>1. drive.content \in Seq(Block) /\ Len(drive.content) = drive.size
  BY DEF DriveType, IsDrive
<1>2. PICK content : content = [drive.content EXCEPT ![a + 1] = block]
  OBVIOUS
<1>3. content \in Seq(Block) /\ Len(content) = drive.size
  BY <1>1, <1>2
<1>4. new = [drive EXCEPT !.content = content]
  BY <1>2
<1>5. new \in DriveType /\ new.kind = drive.kind /\ new.size = drive.size /\ new.content = content
  BY <1>3, <1>4 DEF DriveType
<1> QED
  BY <1>3, <1>5 DEF IsDrive

(* The drive stores what it was given, or not. *)
LEMMA StoresInv ==
    ASSUME IInv, NEW b \in Buses, DeviceWorks(b), Stores(b) PROVE IInv'
<1>1. b = bus /\ ~ctl[bus].drq /\ pc \in {"flush", "after"} /\ Writes /\ Storing /\ bus \in Buses /\ DiskTypeOK
  BY AtWork DEF DeviceWorks, Stores, Storing, IInv, DiskTypeOK
<1>2. UNCHANGED <<pc, bus, request, buffer, tables>>
  BY DEF DeviceWorks
<1>3. PICK c \in ControllerType : ctl' = [ctl EXCEPT ![bus] = c] /\ c.selected = ctl[bus].selected /\ ~c.bsy /\ ~c.drq
  <2>1. PICK error \in BOOLEAN : error = ~Accessible(bus)
    <3> WITNESS (~Accessible(bus)) \in BOOLEAN
    <3> QED
      OBVIOUS
  <2>2. PICK c : c = Ends(bus, error)
    OBVIOUS
  <2>3. c \in ControllerType /\ c.selected = ctl[bus].selected /\ ~c.bsy /\ ~c.drq
    BY <1>1, <2>2, EndsQuiet
  <2> QED
    BY <1>1, <2>1, <2>2, <2>3 DEF Stores
<1>4. ctl' \in [Buses -> ControllerType] /\ ctl'[bus] = c /\ \A a \in Buses \ {bus} : ctl'[a] = ctl[a]
  BY <1>1, <1>3, OneController
<1>5. /\ drives' \in [Buses -> [0..1 -> DriveType]]
      /\ \A a \in Buses, d \in 0..1 :
            /\ IsDrive(drives'[a][d])
            /\ drives'[a][d].kind = drives[a][d].kind /\ drives'[a][d].size = drives[a][d].size
  <2>1. drives \in [Buses -> [0..1 -> DriveType]] /\ \A a \in Buses, d \in 0..1 : IsDrive(drives[a][d])
    BY <1>1 DEF DiskTypeOK, DriveTypes
  <2>2. CASE ~Accessible(bus)
    BY <1>1, <2>1, <2>2 DEF Stores
  <2>3. CASE Accessible(bus)
    <3>1. PICK d \in 0..1 : d = ctl[bus].selected
      BY <1>1 DEF DiskTypeOK, ControllerType
    <3>2. ctl[bus].data \in Block /\ ctl[bus].lba \in Nat
      <4>1. ctl[bus].data \in Seq(Nat) /\ ctl[bus].lba \in Nat /\ Len(ctl[bus].data) = WordsPerBlock
        BY <1>1 DEF DiskTypeOK, ControllerType, Storing
      <4> QED
        BY <4>1 DEF Block
    <3>3. PICK new : new = [drives[bus][d] EXCEPT !.content[ctl[bus].lba + 1] = ctl[bus].data]
      OBVIOUS
    <3>4. new \in DriveType /\ IsDrive(new) /\ new.kind = drives[bus][d].kind /\ new.size = drives[bus][d].size
      <4>1. drives[bus][d] \in DriveType /\ IsDrive(drives[bus][d])
        BY <1>1, <2>1
      <4>2. drives[bus][d].kind = "disk" /\ ctl[bus].lba < drives[bus][d].size
        BY <2>3, <3>1 DEF Accessible, Drive
      <4> QED
        BY <3>2, <3>3, <4>1, <4>2, BlockReplaced
    <3>5. drives' = [drives EXCEPT ![bus][d] = new]
      BY <1>1, <2>3, <3>1, <3>3 DEF Stores
    <3>6. drives'[bus][d] = new /\ \A a \in Buses, e \in 0..1 : a # bus \/ e # d => drives'[a][e] = drives[a][e]
      BY <1>1, <2>1, <3>5
    <3>7. drives' \in [Buses -> [0..1 -> DriveType]]
      BY <1>1, <2>1, <3>4, <3>5
    <3> QED
      BY <2>1, <3>4, <3>6, <3>7
  <2> QED
    BY <2>2, <2>3
<1>6. DiskTypeOK'
  BY <1>1, <1>2, <1>4, <1>5 DEF DiskTypeOK, DriveTypes, tables
<1>7. Waited' /\ Asked'
  BY <1>1, <1>2, <1>3, <1>4 DEF IInv, Waited, Asked, Quiet, Transferring
<1>8. BusScan'
  <2>1. DiskOn(1)' = DiskOn(1) /\ DiskOn(2)' = DiskOn(2)
    BY <1>5, Parameters DEF DiskOn
  <2>2. \A a \in Buses : ctl'[a].selected = ctl[a].selected
    BY <1>3, <1>4
  <2> QED
    BY <1>1, <1>2, <2>1, <2>2 DEF IInv, BusScan, Scanning, DevicesAreDisks, FirstDrivesAnswer, tables
<1>9. Reading' /\ Writing'
  BY <1>1, <1>2, <1>3, <1>4 DEF IInv, Reading, Writing, Reads, Writes, Quiet, Moved
<1>10. Progress'
  BY <1>1, <1>2 DEF IInv, Progress, Reads, Writes, Moved, tables
<1>11. TableScan'
  BY <1>1, <1>2 DEF IInv, TableScan, Writes, tables
<1> QED
  BY <1>6, <1>7, <1>8, <1>9, <1>10, <1>11 DEF IInv

(* The drive has emptied its cache. *)
LEMMA EmptiesCacheInv ==
    ASSUME IInv, NEW b \in Buses, DeviceWorks(b), EmptiesCache(b) PROVE IInv'
<1>1. b = bus /\ ~ctl[bus].drq /\ pc = "after" /\ Writes /\ bus \in Buses /\ DiskTypeOK
  BY AtWork DEF DeviceWorks, EmptiesCache, Storing, IInv, DiskTypeOK
<1>2. UNCHANGED <<drives, pc, bus, request, buffer, tables>>
  BY DEF DeviceWorks, EmptiesCache
<1>3. PICK c \in ControllerType : ctl' = [ctl EXCEPT ![bus] = c] /\ c.selected = ctl[bus].selected /\ ~c.bsy /\ ~c.drq
  <2>1. PICK error \in BOOLEAN : error = FALSE
    OBVIOUS
  <2>2. PICK c : c = Ends(bus, error)
    OBVIOUS
  <2>3. c \in ControllerType /\ c.selected = ctl[bus].selected /\ ~c.bsy /\ ~c.drq
    BY <1>1, <2>2, EndsQuiet
  <2> QED
    BY <1>1, <2>1, <2>2, <2>3 DEF EmptiesCache
<1>4. ctl' \in [Buses -> ControllerType] /\ ctl'[bus] = c /\ \A a \in Buses \ {bus} : ctl'[a] = ctl[a]
  BY <1>1, <1>3, OneController
<1>5. /\ DiskTypeOK' /\ Waited' /\ BusScan' /\ Progress' /\ TableScan'
  BY <1>1, <1>2, <1>3, <1>4, ControllerStep
<1>6. Asked' /\ Reading' /\ Writing'
  BY <1>1, <1>2, <1>3, <1>4 DEF Asked, Reading, Writing, Reads, Writes, IInv
<1> QED
  BY <1>5, <1>6 DEF IInv
-----------------------------------------------------------------------------
(* Requests *)

(* A request begins while every drive is quiet. *)
LEMMA SubmitInv ==
    ASSUME IInv, NEW b \in Buses, NEW op \in {"read", "write", "mbr"}, NEW lba \in Nat,
           NEW num_blocks \in Nat \ {0}, NEW data \in Seq(Nat),
           Submit(b, op, lba, num_blocks, data), UNCHANGED <<device, tables>>,
           op = "write" => Len(data) = num_blocks * WordsPerBlock,
           op = "mbr" => /\ pc = "mbr" /\ lba = 0 /\ num_blocks = 1
                         /\ found < Len(block_devices) /\ b = block_devices[found + 1].bus,
           op # "mbr" => pc = "idle"
    PROVE  IInv'
<1>1. /\ bus' = b /\ buffer' = <<>> /\ pc' = "issue" /\ drives' = drives /\ ctl' = ctl
      /\ block_devices' = block_devices /\ logical_block_devices' = logical_block_devices /\ found' = found
  BY DEF Submit, device, tables
<1>2. /\ request' \in RequestType /\ request'.op = op /\ request'.lba = lba /\ request'.i = 0
      /\ request'.num_blocks = num_blocks /\ request'.data = data
  BY DEF Submit, RequestType
<1>3. pc \in {"mbr", "idle"} /\ DiskTypeOK /\ WordsPerBlock \in Nat
  BY Parameters DEF IInv
<1>4. DiskTypeOK'
  <2>1. buffer' \in Seq(Nat)
    BY <1>1
  <2> QED
    BY <1>1, <1>2, <1>3, <2>1 DEF DiskTypeOK, DriveTypes, Transferring
<1>5. \A a \in Buses : Quiet(a)
  BY <1>3 DEF IInv, Waited
<1>6. Waited' /\ Asked'
  BY <1>1, <1>5 DEF Waited, Asked, Quiet, Transferring
<1>7. BusScan'
  BY <1>1, <1>3 DEF IInv, BusScan, DiskOn, DevicesAreDisks, FirstDrivesAnswer, Scanning
<1>8. Moved' = 0 /\ Done' = 0
  <2>1. Len(buffer') = 0 /\ 0 * WordsPerBlock = 0
    BY <1>1, <1>3
  <2> QED
    BY <1>1, <1>2, <2>1 DEF Moved, Done
<1>9. Reading' /\ Writing'
  BY <1>1, <1>2, <1>8 DEF Reading, Writing, Reads, Writes
<1>10. Progress'
  BY <1>1, <1>2, <1>8 DEF Progress, Transferring
<1>11. TableScan'
  <2>1. CASE op = "mbr"
    <3>1. request.op \in {"none", "mbr"}
      BY <2>1 DEF IInv, Progress
    <3>2. ASSUME NEW m PROVE TableOn(m)' = TableOn(m)
      BY <1>1 DEF TableOn
    <3>3. RegisteredUpTo(logical_block_devices, found, 4)'
      BY <1>1, <3>1, <3>2 DEF IInv, TableScan, RegisteredUpTo
    <3> QED
      BY <1>1, <1>2, <2>1, <3>1, <3>3 DEF IInv, TableScan
  <2>2. CASE op # "mbr"
    BY <1>1, <1>2, <2>2 DEF IInv, TableScan
  <2> QED
    BY <2>1, <2>2
<1> QED
  BY <1>4, <1>6, <1>7, <1>9, <1>10, <1>11 DEF IInv

(* Blocks that are laid out have all their words. *)
LEMMA LaidOut ==
    ASSUME NEW count \in Nat, NEW data \in [1..count -> Block]
    PROVE  Laid(data, count) \in Seq(Nat) /\ Len(Laid(data, count)) = count * WordsPerBlock
<1>1. WordsPerBlock \in Nat \ {0}
  BY Parameters
<1>2. PICK n \in Nat : n = count * WordsPerBlock
  BY <1>1
<1>3. ASSUME NEW k \in 1..n
      PROVE  data[(k - 1) \div WordsPerBlock + 1][((k - 1) % WordsPerBlock) + 1] \in Nat
  <2>a. PICK m \in Nat : m = k - 1
    BY <1>2
  <2>b. m \div WordsPerBlock \in Nat /\ m % WordsPerBlock \in 0..WordsPerBlock - 1
        /\ m = (m \div WordsPerBlock) * WordsPerBlock + (m % WordsPerBlock)
    BY <1>1, DivMod
  <2>1. PICK q \in Nat, r \in 0..WordsPerBlock - 1 :
           q = (k - 1) \div WordsPerBlock /\ r = (k - 1) % WordsPerBlock /\ k - 1 = q * WordsPerBlock + r
    BY <2>a, <2>b, Zenon
  <2>2. q < count
    <3>1. PICK p \in Nat : p = q * WordsPerBlock
      BY <1>1
    <3>2. k - 1 = p + r /\ k - 1 < n
      BY <1>2, <2>1, <3>1
    <3>a. p < n
      BY <1>1, <1>2, <2>1, <3>1, <3>2
    <3>b. q * WordsPerBlock < count * WordsPerBlock
      BY <1>2, <3>1, <3>a
    <3> QED
      BY <1>1, <3>b, ProductsAgree
  <2>3. q + 1 \in 1..count /\ r + 1 \in 1..WordsPerBlock
    BY <1>1, <2>1, <2>2
  <2>4. data[q + 1] \in [1..WordsPerBlock -> Nat]
    BY <2>3 DEF Block
  <2>5. data[q + 1][r + 1] \in Nat
    BY <2>3, <2>4
  <2> QED
    BY <2>1, <2>5, Zenon
<1>4. Laid(data, count) = [k \in 1..n |-> data[(k - 1) \div WordsPerBlock + 1][((k - 1) % WordsPerBlock) + 1]]
  BY <1>2 DEF Laid
<1>5. Laid(data, count) \in [1..n -> Nat]
  BY <1>3, <1>4
<1> QED
  BY <1>2, <1>5

(* The first partition is on a bus. *)
LEMMA RootIs ==
    ASSUME IInv, logical_block_devices # <<>>
    PROVE  Root.lba_offset \in Nat /\ RootBus \in Buses
<1>1. logical_block_devices \in Seq(LogicalType) /\ block_devices \in Seq(BlockDeviceType)
  BY DEF IInv, DiskTypeOK
<1>2. 1 \in DOMAIN logical_block_devices /\ Root = logical_block_devices[1] /\ Root \in LogicalType
  BY <1>1 DEF Root
<1>3. Root.parent \in 1..Len(block_devices)
  BY <1>2 DEF IInv, TableScan
<1>4. block_devices[Root.parent] \in BlockDeviceType
  BY <1>1, <1>3
<1> QED
  BY <1>2, <1>4 DEF RootBus, LogicalType, BlockDeviceType

(* A read is asked for. *)
LEMMA ReadInv == ASSUME IInv, Read PROVE IInv'
<1>1. pc = "idle" /\ UNCHANGED <<device, tables>> /\ MaxRequest \in Nat
  BY Parameters DEF Read
<1>2. PICK lba \in 0..MaxRequest, num_blocks \in 1..MaxRequest :
        Submit(RootBus, "read", Root.lba_offset + lba, num_blocks, <<>>)
  BY DEF Read
<1>3. Root.lba_offset \in Nat /\ RootBus \in Buses
  BY <1>1, RootIs DEF IInv, TableScan
<1>4. PICK op \in {"read", "write", "mbr"} : op = "read"
  OBVIOUS
<1>5. <<>> \in Seq(Nat) /\ Root.lba_offset + lba \in Nat /\ num_blocks \in Nat \ {0}
  BY <1>1, <1>3
<1>6. PICK data \in Seq(Nat) : data = <<>>
  BY <1>5, Zenon
<1>7. Submit(RootBus, op, Root.lba_offset + lba, num_blocks, data)
  BY <1>2, <1>4, <1>6
<1> QED
  BY <1>1, <1>3, <1>4, <1>5, <1>7, SubmitInv

(* A write is asked for. *)
LEMMA WriteInv == ASSUME IInv, Write PROVE IInv'
<1>1. pc = "idle" /\ UNCHANGED <<device, tables>> /\ MaxRequest \in Nat /\ Blocks \subseteq Block
  BY Parameters DEF Write
<1>a. PICK lba \in 0..MaxRequest, num_blocks \in 1..MaxRequest :
        \E blocks \in [1..num_blocks -> Blocks] :
            Submit(RootBus, "write", Root.lba_offset + lba, num_blocks, Laid(blocks, num_blocks))
  BY DEF Write
<1>2. PICK blocks \in [1..num_blocks -> Blocks] :
        Submit(RootBus, "write", Root.lba_offset + lba, num_blocks, Laid(blocks, num_blocks))
  BY <1>a
<1>3. Root.lba_offset \in Nat /\ RootBus \in Buses
  BY <1>1, RootIs DEF IInv, TableScan
<1>4. PICK op \in {"read", "write", "mbr"} : op = "write"
  OBVIOUS
<1>5. Root.lba_offset + lba \in Nat /\ num_blocks \in Nat \ {0}
  BY <1>1, <1>3
<1>6. blocks \in [1..num_blocks -> Block]
  BY <1>1
<1>7. Laid(blocks, num_blocks) \in Seq(Nat) /\ Len(Laid(blocks, num_blocks)) = num_blocks * WordsPerBlock
  BY <1>5, <1>6, LaidOut
<1>8. Submit(RootBus, op, Root.lba_offset + lba, num_blocks, Laid(blocks, num_blocks))
  BY <1>2, <1>4
<1> QED
  BY <1>1, <1>3, <1>4, <1>5, <1>7, <1>8, SubmitInv

(* A partition table is asked for. *)
LEMMA ReadTableInv == ASSUME IInv, ReadTable PROVE IInv'
<1>1. pc = "mbr" /\ found < Len(block_devices) /\ UNCHANGED <<device, tables>>
  BY DEF ReadTable
<1>2. Submit(block_devices[found + 1].bus, "mbr", 0, 1, <<>>)
  BY DEF ReadTable
<1>3. block_devices[found + 1].bus \in Buses
  <2>1. block_devices \in Seq(BlockDeviceType) /\ found + 1 \in 1..Len(block_devices)
    BY <1>1 DEF IInv, DiskTypeOK
  <2>2. block_devices[found + 1] \in BlockDeviceType
    BY <2>1
  <2> QED
    BY <2>2 DEF BlockDeviceType
<1>4. PICK op \in {"read", "write", "mbr"} : op = "mbr"
  OBVIOUS
<1>5. <<>> \in Seq(Nat)
  OBVIOUS
<1>6. PICK data \in Seq(Nat) : data = <<>>
  BY <1>5, Zenon
<1>8. PICK lba \in Nat : lba = 0
  OBVIOUS
<1>9. PICK num_blocks \in Nat \ {0} : num_blocks = 1
  OBVIOUS
<1>7. Submit(block_devices[found + 1].bus, op, lba, num_blocks, data)
  BY <1>2, <1>4, <1>6, <1>8, <1>9
<1> QED
  BY <1>1, <1>3, <1>4, <1>7, <1>8, <1>9, SubmitInv

(* Drive 0, the block's address and the command are written. *)
LEMMA IssueInv == ASSUME IInv, Issue PROVE IInv'
<1>1. pc = "issue" /\ pc' = "wait" /\ UNCHANGED <<drives, bus, request, buffer, tables>>
      /\ bus \in Buses /\ Quiet(bus) /\ DiskTypeOK
  BY DEF Issue, IInv, DiskTypeOK, Waited
<1>2. request.i \in Nat /\ At(request.i) \in Nat /\ (Reads <=> ~Writes)
  BY <1>1, AddressOf DEF IInv, DiskTypeOK, RequestType, Progress, Transferring, Reads, Writes
<1>3. PICK command \in {"identify", "read", "write", "flush"} : command = IF Writes THEN "write" ELSE "read"
  OBVIOUS
<1>4. PICK c : c = Commanded(bus, 0, command, At(request.i))
  OBVIOUS
<1>5. Taken(bus, 0, command, At(request.i), c)
  BY <1>1, <1>2, <1>4, TakesCommand
<1>6. ctl' = [ctl EXCEPT ![bus] = c]
  BY <1>3, <1>4 DEF Issue, At
<1>7. /\ c \in ControllerType /\ c.selected = 0 /\ ~c.drq /\ c.data = <<>>
      /\ ~c.bsy => drives[bus][0].kind # "disk"
      /\ c.bsy => ~c.err /\ c.command = command /\ c.lba = At(request.i)
  BY <1>5 DEF Taken
<1>8. ctl' \in [Buses -> ControllerType] /\ ctl'[bus] = c /\ \A a \in Buses \ {bus} : ctl'[a] = ctl[a]
  BY <1>1, <1>6, <1>7, OneController
<1>9. DiskTypeOK'
  BY <1>1, <1>8 DEF DiskTypeOK, DriveTypes, tables, Transferring
<1>10. Waited' /\ Asked'
  BY <1>1, <1>7, <1>8 DEF IInv, Waited, Asked, Quiet, Transferring
<1>11. BusScan'
  <2>1. ASSUME FirstDrivesAnswer PROVE \A b \in Buses : ctl'[b].selected = 0
    BY <1>7, <1>8, <2>1 DEF IInv, BusScan
  <2> QED
    BY <1>1, <2>1 DEF IInv, BusScan, DiskOn, DevicesAreDisks, FirstDrivesAnswer, Scanning, tables
<1>12. Reading'
  <2>1. Reads' = Reads /\ Done' = Done /\ At(request.i)' = At(request.i)
        /\ (Readable(At(request.i))' <=> Readable(At(request.i)))
    BY <1>1 DEF Reads, Done, At, Readable
  <2>2. ASSUME NEW n PROVE Brought(n)' <=> Brought(n)
    BY <1>1 DEF Brought, Readable, At
  <2>3. Reads => \A n \in 0..Done - 1 : Brought(n)
    BY DEF IInv, Reading
  <2>4. ~c.bsy => ~Readable(At(request.i))
    BY <1>7 DEF Readable
  <2>5. Reads => command = "read"
    BY <1>2, <1>3
  <2> QED
    BY <1>1, <1>7, <1>8, <2>1, <2>2, <2>3, <2>4, <2>5 DEF Reading, Quiet
<1>13. Writing'
  BY <1>1, <1>3, <1>7, <1>8 DEF IInv, Writing, Writes
<1>14. Progress'
  BY <1>1 DEF IInv, Progress, Reads, Writes, Moved, Transferring, tables
<1>15. TableScan'
  BY <1>1, TablesKept
<1> QED
  BY <1>9, <1>10, <1>11, <1>12, <1>13, <1>14, <1>15 DEF IInv

(* The drive has looked at the command: on with the words, or stop. *)
LEMMA WaitInv == ASSUME IInv, Wait PROVE IInv'
<1>1. pc = "wait" /\ UNCHANGED <<drives, ctl, bus, request, buffer, tables>>
      /\ bus \in Buses /\ DiskTypeOK /\ ~ctl[bus].bsy
  BY DEF Wait, IInv, DiskTypeOK, WaitReady, Busy, device
<1>2. \/ Writes /\ pc' = "put"
      \/ Reads /\ pc' = "panic" /\ (ctl[bus].err \/ ~ctl[bus].drq)
      \/ Reads /\ pc' = "take" /\ ~ctl[bus].err /\ ctl[bus].drq
  BY <1>1 DEF Wait, Failed, Reads, Writes, IInv, Progress, DiskTypeOK, RequestType, Transferring
<1>3. request.i \in Nat /\ Moved = 0 /\ WordsPerBlock \in Nat \ {0} /\ request.i < request.num_blocks
      /\ At(request.i) \in Nat
  BY <1>1, Parameters, AddressOf DEF IInv, Progress, DiskTypeOK, RequestType, Transferring
<1>4. DiskTypeOK'
  BY <1>1, <1>2 DEF DiskTypeOK, DriveTypes, tables, Transferring
<1>5. Reads => \/ Quiet(bus) /\ ~Readable(At(request.i))
              \/ /\ ctl[bus].drq /\ ~ctl[bus].err /\ Readable(At(request.i))
                 /\ ctl[bus].data = drives[bus][0].content[At(request.i) + 1]
  BY <1>1 DEF IInv, Reading
<1>6. Waited' /\ Asked'
  <2>1. pc' = "panic" => Quiet(bus)
    BY <1>1, <1>2, <1>5 DEF Quiet, Reads, Writes
  <2> QED
    BY <1>1, <1>2, <2>1 DEF IInv, Waited, Asked, Quiet, Transferring
<1>7. BusScan'
  BY <1>1, <1>2 DEF IInv, BusScan, DiskOn, DevicesAreDisks, FirstDrivesAnswer, Scanning, tables
<1>8. Reads' = Reads /\ Writes' = Writes /\ Moved' = Moved /\ Done' = Done /\ At(request.i)' = At(request.i)
      /\ (Readable(At(request.i))' <=> Readable(At(request.i)))
  BY <1>1, <1>2 DEF Reads, Writes, Moved, Done, At, Readable
<1>9. Reading'
  <2>2. ASSUME NEW n PROVE Brought(n)' <=> Brought(n)
    BY <1>1 DEF Brought, Readable, At
  <2>3. Reads => \A n \in 0..Done - 1 : Brought(n)
    BY DEF IInv, Reading
  <2>4. CASE Writes
    BY <1>1, <1>2, <1>8, <2>4 DEF Reading, Reads, Writes
  <2>5. CASE Reads /\ pc' = "panic"
    BY <1>1, <1>2, <1>5, <1>8, <2>2, <2>3, <2>5 DEF Reading, Quiet
  <2>6. CASE Reads /\ pc' = "take"
    <3>1. /\ ctl[bus].drq /\ Readable(At(request.i))
          /\ ctl[bus].data = drives[bus][0].content[At(request.i) + 1]
      BY <1>2, <1>5, <2>6 DEF Quiet, Reads, Writes
    <3>2. Len(ctl[bus].data) = WordsPerBlock
      BY <1>1, <1>3, <3>1, BlockOnDisk DEF Readable
    <3>3. InBlock' /\ 1..Moved = {} /\ \A j \in 1..WordsPerBlock : Moved + j = j
      BY <1>3, <1>8 DEF InBlock
    <3> QED
      BY <1>1, <1>3, <1>8, <2>2, <2>3, <2>6, <3>1, <3>2, <3>3 DEF Reading
  <2> QED
    BY <1>2, <2>4, <2>5, <2>6
<1>10. Writing'
  <2>1. CASE Writes
    BY <1>1, <1>2, <1>3, <1>8, <2>1 DEF IInv, Writing, InBlock, Reads, Writes
  <2>2. CASE ~Writes
    BY <1>1, <1>2, <1>8, <2>2 DEF Writing
  <2> QED
    BY <2>1, <2>2
<1>11. Progress'
  BY <1>1, <1>2, <1>3, <1>8 DEF IInv, Progress, Transferring, tables, Reads, Writes
<1>12. TableScan'
  BY <1>1, <1>2, TablesKept
<1> QED
  BY <1>4, <1>6, <1>7, <1>9, <1>10, <1>11, <1>12 DEF IInv

(* Words of different blocks of the buffer have different places. *)
LEMMA Places ==
    ASSUME NEW i \in Nat, NEW n \in 0..i, NEW k \in 1..WordsPerBlock
    PROVE  /\ n * WordsPerBlock + k \in Nat \ {0}
           /\ n < i => n * WordsPerBlock + k <= i * WordsPerBlock
           /\ i * WordsPerBlock \in Nat /\ (i + 1) * WordsPerBlock = i * WordsPerBlock + WordsPerBlock
<1>1. WordsPerBlock \in Nat \ {0} /\ n \in Nat
  BY Parameters
<1>2. PICK p \in Nat : p = n * WordsPerBlock
  BY <1>1
<1>3. PICK q \in Nat : q = i * WordsPerBlock
  BY <1>1
<1>4. (i + 1) * WordsPerBlock = q + WordsPerBlock
  BY <1>1, <1>3, ProductsAgree
<1>5. n < i => p + WordsPerBlock <= q
  <2> SUFFICES ASSUME n < i PROVE p + WordsPerBlock <= q
    OBVIOUS
  <2>1. n + 1 <= i /\ n + 1 \in Int /\ i \in Int
    BY <1>1
  <2>2. (n + 1) * WordsPerBlock <= i * WordsPerBlock /\ (n + 1) * WordsPerBlock = p + WordsPerBlock
    BY <1>1, <1>2, <2>1, ProductsAgree
  <2> QED
    BY <1>3, <2>2
<1> QED
  BY <1>1, <1>2, <1>3, <1>4, <1>5

(* A word that is appended leaves the finished blocks as they were. *)
LEMMA BlocksStay ==
    ASSUME NEW i \in Nat, NEW n \in 0..i - 1, NEW word, buffer \in Seq(Nat), buffer' = Append(buffer, word),
           i * WordsPerBlock <= Len(buffer), UNCHANGED <<drives, bus>>, request'.lba = request.lba, Brought(n)
    PROVE  Brought(n)'
<1>1. ASSUME NEW k \in 1..WordsPerBlock
      PROVE  buffer'[n * WordsPerBlock + k] = buffer[n * WordsPerBlock + k]
  <2>a. n \in 0..i /\ n < i
    OBVIOUS
  <2>1. PICK p \in Nat \ {0} : p = n * WordsPerBlock + k /\ p <= i * WordsPerBlock /\ i * WordsPerBlock \in Nat
    BY <2>a, Places
  <2>2. p \in 1..Len(buffer)
    BY <2>1
  <2>3. buffer'[p] = buffer[p]
    BY <2>2
  <2> QED
    BY <2>1, <2>3
<1>2. At(n)' = At(n) /\ (Readable(At(n))' <=> Readable(At(n)))
  BY DEF At, Readable
<1> QED
  BY <1>1, <1>2 DEF Brought

(* A word of a block is read. *)
LEMMA TakeInv == ASSUME IInv, Take PROVE IInv'
<1>1. pc = "take" /\ WordIn(bus) /\ UNCHANGED <<drives, bus, request, tables>>
      /\ bus \in Buses /\ DiskTypeOK /\ Reads /\ WordsPerBlock \in Nat \ {0}
  BY Parameters DEF Take, IInv, DiskTypeOK, Progress
<1>2. /\ ~ctl[bus].bsy /\ ctl[bus].drq /\ InBlock /\ Readable(At(request.i))
      /\ Len(ctl[bus].data) = WordsPerBlock - Moved
      /\ \A j \in 1..Len(ctl[bus].data) :
            ctl[bus].data[j] = drives[bus][0].content[At(request.i) + 1][Moved + j]
      /\ \A k \in 1..Moved :
            buffer[request.i * WordsPerBlock + k] = drives[bus][0].content[At(request.i) + 1][k]
      /\ \A n \in 0..request.i - 1 : Brought(n)
  BY <1>1 DEF IInv, Reading, Done
<1>3. /\ ctl[bus].data \in Seq(Nat) /\ buffer \in Seq(Nat) /\ request.i \in Nat
  BY <1>1 DEF DiskTypeOK, ControllerType, RequestType
<1>4. PICK base \in Nat, moved \in 0..WordsPerBlock - 1 :
         /\ base = request.i * WordsPerBlock /\ Moved = moved /\ Len(buffer) = base + moved
         /\ (request.i + 1) * WordsPerBlock = base + WordsPerBlock
  <2>1. PICK base \in Nat : base = request.i * WordsPerBlock
    BY <1>1, <1>3
  <2>2. (request.i + 1) * WordsPerBlock = base + WordsPerBlock
    BY <1>1, <1>3, <2>1, ProductsAgree
  <2>3. Moved = Len(buffer) - base
    BY <2>1 DEF Moved
  <2>4. Moved \in 0..WordsPerBlock - 1 /\ Len(buffer) = base + Moved
    BY <1>1, <1>2, <1>3, <2>3 DEF InBlock
  <2> QED
    BY <2>1, <2>2, <2>4
<1>5. ctl[bus].data # <<>> /\ Len(ctl[bus].data) = WordsPerBlock - moved
  <2>1. Len(ctl[bus].data) = WordsPerBlock - moved
    BY <1>2, <1>4, Zenon
  <2>2. Len(ctl[bus].data) > 0
    BY <1>1, <1>4, <2>1
  <2> QED
    BY <1>3, <2>1, <2>2
<1>6. /\ ctl' \in [Buses -> ControllerType] /\ \A a \in Buses \ {bus} : ctl'[a] = ctl[a]
      /\ ctl'[bus].selected = ctl[bus].selected /\ ctl'[bus].bsy = ctl[bus].bsy
      /\ ctl'[bus].data = Tail(ctl[bus].data) /\ (ctl'[bus].drq <=> Len(ctl[bus].data) > 1)
      /\ buffer' = Append(buffer, ctl[bus].data[1]) /\ buffer' \in Seq(Nat)
  BY <1>1, <1>2, <1>5, WordTaken
<1>7. Len(buffer') = base + (moved + 1) /\ Moved' = moved + 1
  <2>1. Len(buffer') = Len(buffer) + 1
    BY <1>3, <1>6
  <2>2. Len(buffer') = base + (moved + 1)
    BY <1>4, <2>1
  <2> QED
    BY <1>1, <1>4, <2>2 DEF Moved
<1>8. At(request.i)' = At(request.i) /\ Readable(At(request.i))' /\ Reads'
  BY <1>1, <1>2 DEF At, Readable, Reads
<1>9. ASSUME NEW k \in 1..moved + 1
      PROVE  buffer'[base + k] = drives[bus][0].content[At(request.i) + 1][k]
  <2>1. CASE k = moved + 1
    <3>1. buffer'[base + k] = ctl[bus].data[1]
      BY <1>3, <1>4, <1>6, <2>1
    <3>2. 1 \in 1..Len(ctl[bus].data) /\ Moved + 1 = k
      BY <1>1, <1>4, <1>5, <2>1
    <3> QED
      BY <1>2, <3>1, <3>2
  <2>2. CASE k # moved + 1
    <3>1. k \in 1..Moved /\ base + k \in 1..Len(buffer)
      BY <1>4, <2>2
    <3>2. buffer'[base + k] = buffer[base + k]
      BY <1>3, <1>6, <3>1
    <3>3. buffer[request.i * WordsPerBlock + k] = drives[bus][0].content[At(request.i) + 1][k]
      BY <1>2, <3>1
    <3> QED
      BY <1>4, <3>2, <3>3
  <2> QED
    BY <2>1, <2>2
<1>10. \A n \in 0..request.i - 1 : Brought(n)'
  <2>1. request.i * WordsPerBlock <= Len(buffer)
    BY <1>4
  <2> QED
    BY <1>1, <1>2, <1>3, <1>6, <2>1, BlocksStay
<1>11. pc' = IF moved + 1 = WordsPerBlock THEN "after" ELSE "take"
  <2>1. pc' = IF Len(buffer') = (request.i + 1) * WordsPerBlock THEN "after" ELSE "take"
    BY DEF Take
  <2>2. Len(buffer') = (request.i + 1) * WordsPerBlock <=> moved + 1 = WordsPerBlock
    BY <1>1, <1>4, <1>7
  <2> QED
    BY <2>1, <2>2
<1>12. DiskTypeOK'
  BY <1>1, <1>6, <1>11 DEF DiskTypeOK, DriveTypes, tables, Transferring
<1>13. Waited' /\ Asked'
  BY <1>1, <1>6, <1>11 DEF IInv, Waited, Asked, Quiet, Transferring
<1>14. BusScan'
  <2>1. \A b \in Buses : ctl'[b].selected = ctl[b].selected
    BY <1>6
  <2> QED
    BY <1>1, <1>11, <2>1 DEF IInv, BusScan, DiskOn, DevicesAreDisks, FirstDrivesAnswer, Scanning, tables
<1>15. Writing'
  BY <1>1, <1>11 DEF IInv, Writing, Writes, Reads
<1>16. Progress'
  BY <1>1, <1>7, <1>8, <1>11 DEF IInv, Progress, Reads, Writes, Transferring, tables
<1>17. TableScan'
  BY <1>1, <1>11, TablesKept
<1>18. Reading'
  <2>1. CASE moved + 1 = WordsPerBlock
    <3>1. pc' = "after" /\ Done' = request.i + 1
      BY <1>1, <1>11, <2>1 DEF Done
    <3>2. Quiet(bus)'
      <4>1. Len(ctl[bus].data) = 1
        BY <1>1, <1>4, <1>5, <2>1
      <4>2. ~(Len(ctl[bus].data) > 1)
        BY <4>1
      <4>3. ~ctl'[bus].drq /\ ~ctl'[bus].bsy
        BY <1>2, <1>6, <4>2, Zenon
      <4> QED
        BY <1>1, <4>3 DEF Quiet
    <3>3. Brought(request.i)'
      BY <1>1, <1>4, <1>8, <1>9, <2>1 DEF Brought
    <3>4. \A n \in 0..Done' - 1 : Brought(n)'
      <4>1. ASSUME NEW n \in 0..Done' - 1 PROVE n = request.i \/ n \in 0..request.i - 1
        BY <1>3, <3>1
      <4> QED
        BY <1>1, <1>10, <3>3, <4>1
    <3> QED
      BY <3>1, <3>2, <3>4 DEF Reading
  <2>2. CASE moved + 1 # WordsPerBlock
    <3>1. pc' = "take" /\ Done' = request.i /\ InBlock'
      BY <1>1, <1>7, <1>11, <2>2 DEF Done, InBlock
    <3>2. Len(ctl[bus].data) > 1 /\ ctl'[bus].drq /\ ctl'[bus].data = Tail(ctl[bus].data)
      BY <1>1, <1>4, <1>5, <1>6, <2>2
    <3>3. Len(Tail(ctl[bus].data)) = Len(ctl[bus].data) - 1
          /\ \A j \in 1..Len(Tail(ctl[bus].data)) : Tail(ctl[bus].data)[j] = ctl[bus].data[j + 1]
      BY <1>3, <3>2
    <3>4. Len(ctl'[bus].data) = WordsPerBlock - (moved + 1)
      BY <1>1, <1>5, <3>2, <3>3
    <3>5. ASSUME NEW j \in 1..Len(ctl'[bus].data)
          PROVE  ctl'[bus].data[j] = drives[bus][0].content[At(request.i) + 1][(moved + 1) + j]
      <4>1. j + 1 \in 1..Len(ctl[bus].data) /\ Moved + (j + 1) = (moved + 1) + j
        BY <1>1, <1>4, <1>5, <3>4
      <4>2. ctl[bus].data[j + 1] = drives[bus][0].content[At(request.i) + 1][Moved + (j + 1)]
        BY <1>2, <4>1
      <4> QED
        BY <3>2, <3>3, <4>1, <4>2
    <3>6. /\ ~ctl'[bus].bsy /\ ctl'[bus].drq /\ Readable(At(request.i))'
          /\ \A j \in 1..Len(ctl'[bus].data) :
                ctl'[bus].data[j] = drives[bus][0].content[At(request.i) + 1][Moved' + j]
      BY <1>2, <1>6, <1>7, <1>8, <3>2, <3>5
    <3>7. \A k \in 1..Moved' :
             buffer'[request.i * WordsPerBlock + k] = drives[bus][0].content[At(request.i) + 1][k]
      BY <1>4, <1>7, <1>9
    <3>8. Len(ctl'[bus].data) = WordsPerBlock - Moved'
      BY <1>7, <3>4
    <3>9. At(request.i)' = At(request.i) /\ request' = request /\ bus' = bus /\ drives' = drives
      BY <1>1, <1>8
    <3> QED
      BY <1>10, <3>1, <3>6, <3>7, <3>8, <3>9 DEF Reading
  <2> QED
    BY <2>1, <2>2
<1> QED
  BY <1>12, <1>13, <1>14, <1>15, <1>16, <1>17, <1>18 DEF IInv

(* A word is given to a drive that waits for it. *)
LEMMA WordGiven ==
    ASSUME DiskTypeOK, NEW b \in Buses, ctl[b].drq, NEW word \in Nat, WordOut(b, word)
    PROVE  /\ ctl' \in [Buses -> ControllerType] /\ \A a \in Buses \ {b} : ctl'[a] = ctl[a]
           /\ ctl'[b].selected = ctl[b].selected /\ ctl'[b].command = ctl[b].command
           /\ Len(ctl'[b].data) = Len(ctl[b].data) + 1
           /\ (ctl'[b].drq <=> Len(ctl[b].data) + 1 < WordsPerBlock)
           /\ (ctl'[b].bsy <=> Len(ctl[b].data) + 1 = WordsPerBlock)
<1>1. ctl[b] \in ControllerType /\ ctl[b].data \in Seq(Nat)
  BY DEF DiskTypeOK, ControllerType
<1>2. PICK all \in Seq(Nat) : all = Append(ctl[b].data, word)
  <2>1. Append(ctl[b].data, word) \in Seq(Nat)
    BY <1>1
  <2> QED
    BY <2>1, Zenon
<1>3. Len(all) = Len(ctl[b].data) + 1
  BY <1>1, <1>2
<1>4. PICK more \in BOOLEAN : more = (Len(all) < WordsPerBlock)
  <2> WITNESS (Len(all) < WordsPerBlock) \in BOOLEAN
  <2> QED
    OBVIOUS
<1>5. PICK full \in BOOLEAN : full = (Len(all) = WordsPerBlock)
  <2> WITNESS (Len(all) = WordsPerBlock) \in BOOLEAN
  <2> QED
    OBVIOUS
<1>6. PICK c : c = [ctl[b] EXCEPT !.data = all, !.drq = more, !.bsy = full]
  OBVIOUS
<1>7. c \in ControllerType /\ c.selected = ctl[b].selected /\ c.command = ctl[b].command
      /\ c.data = all /\ c.drq = more /\ c.bsy = full
  BY <1>1, <1>6 DEF ControllerType
<1>8. ctl' = [ctl EXCEPT ![b] = c]
  BY <1>2, <1>4, <1>5, <1>6 DEF WordOut
<1>9. ctl' \in [Buses -> ControllerType] /\ ctl'[b] = c /\ \A a \in Buses \ {b} : ctl'[a] = ctl[a]
  BY <1>7, <1>8, OneController
<1> QED
  BY <1>3, <1>4, <1>5, <1>7, <1>9

(* A word of a block is written. *)
LEMMA PutInv == ASSUME IInv, Put PROVE IInv'
<1>1. pc = "put" /\ UNCHANGED <<drives, bus, request, tables>> /\ WordOut(bus, request.data[Len(buffer) + 1])
      /\ buffer' = Append(buffer, request.data[Len(buffer) + 1])
      /\ bus \in Buses /\ DiskTypeOK /\ Writes /\ WordsPerBlock \in Nat \ {0}
      /\ request.i < request.num_blocks
  BY Parameters DEF Put, IInv, DiskTypeOK, Progress, Transferring
<1>2. /\ ~ctl[bus].bsy /\ InBlock
      /\ ctl[bus].drq => ctl[bus].command = "write" /\ Len(ctl[bus].data) = Moved
  BY <1>1 DEF IInv, Writing
<1>3. /\ buffer \in Seq(Nat) /\ request.i \in Nat /\ request.num_blocks \in Nat
      /\ request.data \in Seq(Nat) /\ Len(request.data) = request.num_blocks * WordsPerBlock
  BY <1>1 DEF IInv, Writing, DiskTypeOK, RequestType
<1>4. PICK base \in Nat, moved \in 0..WordsPerBlock - 1 :
         /\ base = request.i * WordsPerBlock /\ Moved = moved /\ Len(buffer) = base + moved
         /\ (request.i + 1) * WordsPerBlock = base + WordsPerBlock
  <2>1. PICK base \in Nat : base = request.i * WordsPerBlock
    BY <1>1, <1>3
  <2>2. (request.i + 1) * WordsPerBlock = base + WordsPerBlock
    BY <1>1, <1>3, <2>1, ProductsAgree
  <2>3. Moved = Len(buffer) - base
    BY <2>1 DEF Moved
  <2>4. buffer \in Seq(Nat) /\ Len(buffer) \in Nat
    BY <1>3
  <2>5. Moved \in 0..WordsPerBlock - 1 /\ Len(buffer) = base + Moved
    BY <1>1, <1>2, <2>3, <2>4 DEF InBlock
  <2> QED
    BY <2>1, <2>2, <2>5
<1>a. Len(buffer) = base + moved
  BY <1>4
<1>5. request.data[Len(buffer) + 1] \in Nat
  <2>1. PICK n \in Nat : n = request.num_blocks * WordsPerBlock
    BY <1>1, <1>3
  <2>2. (request.i + 1) * WordsPerBlock <= request.num_blocks * WordsPerBlock
    <3>1. request.i + 1 <= request.num_blocks /\ request.i + 1 \in Int /\ request.num_blocks \in Int
      BY <1>1, <1>3
    <3> QED
      BY <1>1, <3>1, ProductsAgree
  <2>3. Len(buffer) + 1 \in 1..Len(request.data)
    <3>1. base + WordsPerBlock <= n /\ Len(request.data) = n
      BY <1>3, <1>4, <2>1, <2>2
    <3> QED
      BY <1>1, <1>a, <3>1
  <2> QED
    BY <1>3, <2>3
<1>6. buffer' \in Seq(Nat) /\ Len(buffer') = base + (moved + 1) /\ Moved' = moved + 1
  <2>1. buffer' \in Seq(Nat) /\ Len(buffer') = Len(buffer) + 1
    BY <1>1, <1>3, <1>5
  <2>2. Len(buffer') = base + (moved + 1)
    BY <1>a, <2>1
  <2> QED
    BY <1>1, <1>4, <2>1, <2>2 DEF Moved
<1>7. pc' = IF moved + 1 = WordsPerBlock THEN "flush" ELSE "put"
  <2>1. pc' = IF Len(buffer) + 1 = (request.i + 1) * WordsPerBlock THEN "flush" ELSE "put"
    BY DEF Put
  <2>2. Len(buffer) + 1 = (request.i + 1) * WordsPerBlock <=> moved + 1 = WordsPerBlock
    BY <1>1, <1>4
  <2> QED
    BY <2>1, <2>2
<1>8. /\ ctl' \in [Buses -> ControllerType] /\ \A a \in Buses \ {bus} : ctl'[a] = ctl[a]
      /\ ctl'[bus].selected = ctl[bus].selected
      /\ moved + 1 = WordsPerBlock => ~ctl'[bus].drq
      /\ moved + 1 # WordsPerBlock => ~ctl'[bus].bsy
      /\ ctl'[bus].drq \/ ctl'[bus].bsy => ctl'[bus].command = "write" /\ Len(ctl'[bus].data) = moved + 1
  <2>1. CASE ctl[bus].drq
    <3>1. PICK word \in Nat : word = request.data[Len(buffer) + 1]
      BY <1>5
    <3>2. Len(ctl[bus].data) = moved
      BY <1>2, <1>4, <2>1
    <3>3. /\ ctl' \in [Buses -> ControllerType] /\ \A a \in Buses \ {bus} : ctl'[a] = ctl[a]
          /\ ctl'[bus].selected = ctl[bus].selected /\ ctl'[bus].command = ctl[bus].command
          /\ Len(ctl'[bus].data) = Len(ctl[bus].data) + 1
          /\ (ctl'[bus].drq <=> Len(ctl[bus].data) + 1 < WordsPerBlock)
          /\ (ctl'[bus].bsy <=> Len(ctl[bus].data) + 1 = WordsPerBlock)
      BY <1>1, <2>1, <3>1, WordGiven
    <3> QED
      BY <1>1, <1>2, <2>1, <3>2, <3>3
  <2>2. CASE ~ctl[bus].drq
    <3>1. ctl' = ctl
      BY <1>1, <2>2 DEF WordOut
    <3> QED
      BY <1>1, <1>2, <2>2, <3>1 DEF DiskTypeOK
  <2> QED
    BY <2>1, <2>2
<1>9. DiskTypeOK'
  BY <1>1, <1>6, <1>7, <1>8 DEF DiskTypeOK, DriveTypes, tables, Transferring
<1>10. Waited' /\ Asked'
  BY <1>1, <1>7, <1>8 DEF IInv, Waited, Asked, Quiet, Transferring
<1>11. BusScan'
  <2>1. \A b \in Buses : ctl'[b].selected = ctl[b].selected
    BY <1>8
  <2> QED
    BY <1>1, <1>7, <2>1 DEF IInv, BusScan, DiskOn, DevicesAreDisks, FirstDrivesAnswer, Scanning, tables
<1>12. Reading'
  BY <1>1, <1>7 DEF Reading, Reads, Writes
<1>13. Writing'
  <2>1. CASE moved + 1 = WordsPerBlock
    BY <1>1, <1>3, <1>7, <1>8, <2>1 DEF Writing, Writes, Storing
  <2>2. CASE moved + 1 # WordsPerBlock
    <3>1. InBlock'
      BY <1>1, <1>6, <2>2 DEF InBlock
    <3> QED
      BY <1>1, <1>3, <1>6, <1>7, <1>8, <2>2, <3>1 DEF Writing, Writes, Storing
  <2> QED
    BY <2>1, <2>2
<1>14. Progress'
  BY <1>1, <1>6, <1>7 DEF IInv, Progress, Reads, Writes, Transferring, tables
<1>15. TableScan'
  BY <1>1, <1>7, TablesKept
<1> QED
  BY <1>9, <1>10, <1>11, <1>12, <1>13, <1>14, <1>15 DEF IInv

(* The cache is to be emptied; a drive that still stores the block does not hear of it. *)
LEMMA FlushInv == ASSUME IInv, Flush PROVE IInv'
<1>1. pc = "flush" /\ pc' = "after" /\ UNCHANGED <<drives, bus, request, buffer, tables>>
      /\ bus \in Buses /\ DiskTypeOK /\ Writes /\ ~ctl[bus].drq /\ (ctl[bus].bsy => Storing)
      /\ ctl[bus].selected = 0
  BY DEF Flush, IInv, DiskTypeOK, Progress, Writing, Waited, Transferring
<1>2. PICK c \in ControllerType :
        /\ ctl' = [ctl EXCEPT ![bus] = c] /\ c.selected = 0 /\ ~c.drq
        /\ c.bsy => (c.command = "write" /\ Len(c.data) = WordsPerBlock) \/ c.command = "flush"
  <2>1. PICK command \in {"identify", "read", "write", "flush"} : command = "flush"
    OBVIOUS
  <2>2. PICK lba \in Nat : lba = 0
    OBVIOUS
  <2>3. PICK c : c = Commanded(bus, 0, command, lba)
    OBVIOUS
  <2>4. ctl' = [ctl EXCEPT ![bus] = c]
    BY <2>1, <2>2, <2>3 DEF Flush
  <2>5. CASE Quiet(bus)
    <3>1. Taken(bus, 0, command, lba, c)
      BY <1>1, <2>3, <2>5, TakesCommand
    <3> QED
      BY <2>1, <2>4, <3>1 DEF Taken
  <2>6. CASE ~Quiet(bus)
    <3>1. /\ c \in ControllerType /\ c.selected = 0
          /\ c.bsy = ctl[bus].bsy /\ c.drq = ctl[bus].drq /\ c.err = ctl[bus].err
          /\ c.command = ctl[bus].command /\ c.lba = ctl[bus].lba /\ c.data = ctl[bus].data
      BY <1>1, <2>3, <2>6, TakesNoCommand
    <3> QED
      BY <1>1, <2>4, <3>1 DEF Storing
  <2> QED
    BY <2>5, <2>6
<1>3. ctl' \in [Buses -> ControllerType] /\ ctl'[bus] = c /\ \A a \in Buses \ {bus} : ctl'[a] = ctl[a]
  BY <1>1, <1>2, OneController
<1>4. DiskTypeOK'
  BY <1>1, <1>3 DEF DiskTypeOK, DriveTypes, tables, Transferring
<1>5. Waited' /\ Asked'
  BY <1>1, <1>2, <1>3 DEF IInv, Waited, Asked, Quiet, Transferring
<1>6. BusScan'
  <2>1. \A b \in Buses : ctl'[b].selected = ctl[b].selected
    BY <1>1, <1>2, <1>3
  <2> QED
    BY <1>1, <2>1 DEF IInv, BusScan, DiskOn, DevicesAreDisks, FirstDrivesAnswer, Scanning, tables
<1>7. Reading'
  BY <1>1 DEF Reading, Reads, Writes
<1>8. Writing'
  BY <1>1, <1>2, <1>3 DEF IInv, Writing, Writes, Storing
<1>9. Progress'
  BY <1>1 DEF IInv, Progress, Reads, Writes, Moved, Transferring, tables
<1>10. TableScan'
  BY <1>1, TablesKept
<1> QED
  BY <1>4, <1>5, <1>6, <1>7, <1>8, <1>9, <1>10 DEF IInv

(* A block is done. *)
LEMMA AfterInv == ASSUME IInv, After PROVE IInv'
<1>1. pc = "after" /\ UNCHANGED <<drives, ctl, bus, buffer, tables>> /\ bus \in Buses /\ DiskTypeOK
      /\ ~ctl[bus].bsy /\ request.op # "none" /\ request.i < request.num_blocks /\ Moved = WordsPerBlock
      /\ WordsPerBlock \in Nat \ {0}
  BY Parameters DEF After, IInv, DiskTypeOK, WaitReady, Busy, device, Progress, Transferring
<1>2. request \in RequestType /\ request.i \in Nat /\ request.num_blocks \in Nat
      /\ request.op \in {"none", "mbr", "read", "write"}
  BY <1>1 DEF DiskTypeOK, RequestType
<1>3. /\ request' \in RequestType /\ request'.op = request.op /\ request'.lba = request.lba
      /\ request'.i = request.i + 1 /\ request'.num_blocks = request.num_blocks
      /\ request'.data = request.data
  <2>1. request' = [request EXCEPT !.i = request.i + 1] /\ request.i + 1 \in Nat
    BY <1>2 DEF After
  <2> QED
    BY <1>2, <2>1 DEF RequestType
<1>4. \/ pc' = "issue" /\ request.i + 1 < request.num_blocks
      \/ pc' = "parse" /\ request.op = "mbr" /\ request.i + 1 = request.num_blocks
      \/ pc' = "idle" /\ request.op # "mbr" /\ request.i + 1 = request.num_blocks
  BY <1>1, <1>2 DEF After
<1>5. Quiet(bus)
  BY <1>1, <1>2 DEF IInv, Reading, Writing, Reads, Writes, Quiet
<1>6. DiskTypeOK'
  BY <1>1, <1>3, <1>4 DEF DiskTypeOK, DriveTypes, tables, Transferring
<1>7. Waited' /\ Asked'
  BY <1>1, <1>4, <1>5 DEF IInv, Waited, Asked, Quiet, Transferring
<1>8. BusScan'
  BY <1>1, <1>4 DEF IInv, BusScan, DiskOn, DevicesAreDisks, FirstDrivesAnswer, Scanning, tables
<1>9. Reads' = Reads /\ Writes' = Writes /\ Done' = Done /\ Done = request.i + 1
  BY <1>1, <1>3, <1>4 DEF Reads, Writes, Done
<1>10. Moved' = 0
  <2>1. PICK base \in Nat : base = request.i * WordsPerBlock
    BY <1>1, <1>2
  <2>2. (request.i + 1) * WordsPerBlock = base + WordsPerBlock
    BY <1>1, <1>2, <2>1, ProductsAgree
  <2>3. PICK length \in Nat : length = Len(buffer) /\ Len(buffer') = length
    BY <1>1 DEF DiskTypeOK
  <2>4. length - base = WordsPerBlock
    BY <1>1, <2>1, <2>3 DEF Moved
  <2>5. Moved' = length - (base + WordsPerBlock)
    BY <1>1, <1>3, <2>2, <2>3 DEF Moved
  <2> QED
    BY <1>1, <2>4, <2>5
<1>11. Reading'
  <2>1. ASSUME NEW n PROVE Brought(n)' <=> Brought(n)
    BY <1>1, <1>3 DEF Brought, Readable, At
  <2> QED
    BY <1>1, <1>4, <1>9, <2>1 DEF IInv, Reading
<1>12. Writing'
  BY <1>1, <1>3, <1>4, <1>9 DEF IInv, Writing
<1>13. Progress'
  BY <1>1, <1>2, <1>3, <1>4, <1>9, <1>10 DEF IInv, Progress, Transferring, tables
<1>14. TableScan'
  <2>1. pc' = "idle" => logical_block_devices # <<>>
    BY <1>1, <1>2, <1>4 DEF IInv, TableScan
  <2> QED
    BY <1>1, <1>3, <2>1, TablesKept
<1> QED
  BY <1>6, <1>7, <1>8, <1>11, <1>12, <1>13, <1>14 DEF IInv
-----------------------------------------------------------------------------
(* The scan of the tables *)

(* Before the first entry of the next table. *)
LEMMA NextTable ==
    ASSUME NEW lbdevs \in Seq(LogicalType), NEW n \in Nat, RegisteredUpTo(lbdevs, n, 4)
    PROVE  RegisteredUpTo(lbdevs, n + 1, 0)
<1>1. ASSUME NEW x \in DOMAIN lbdevs
      PROVE  lbdevs[x].parent \in Nat /\ Before(lbdevs[x].parent, lbdevs[x].local_id + 1, n + 1, 0)
  <2>1. lbdevs[x] \in LogicalType
    BY <1>1
  <2>2. lbdevs[x].parent \in Nat
    BY <2>1 DEF LogicalType
  <2>3. Before(lbdevs[x].parent, lbdevs[x].local_id + 1, n, 4)
    BY <1>1 DEF RegisteredUpTo
  <2> QED
    BY <2>2, <2>3 DEF Before
<1>2. ASSUME NEW m \in 1..Len(block_devices), NEW j \in 1..4, Before(m, j, n + 1, 0)
      PROVE  Before(m, j, n, 4)
  BY <1>2 DEF Before
<1> QED
  BY <1>1, <1>2 DEF RegisteredUpTo

(* An entry more: it is registered behind the others if it is used. *)
LEMMA NextEntry ==
    ASSUME NEW lbdevs \in Seq(LogicalType), NEW n \in 1..Len(block_devices), NEW k \in 1..4,
           RegisteredUpTo(lbdevs, n, k - 1),
           NEW lbdev \in LogicalType, lbdev.parent = n, lbdev.local_id = k - 1,
           NEW more, more = IF TableOn(n)[k].type = 0 THEN <<>> ELSE <<lbdev>>
    PROVE  lbdevs \o more \in Seq(LogicalType) /\ RegisteredUpTo(lbdevs \o more, n, k)
<1>1. ASSUME NEW x \in DOMAIN lbdevs
      PROVE  lbdevs[x].parent \in Nat /\ lbdevs[x].local_id \in 0..3
  <2>1. lbdevs[x] \in LogicalType
    BY <1>1
  <2> QED
    BY <2>1 DEF LogicalType
<1>2. CASE TableOn(n)[k].type = 0
  <2>1. lbdevs \o more = lbdevs
    BY <1>2
  <2>2. ASSUME NEW x \in DOMAIN lbdevs
        PROVE  Before(lbdevs[x].parent, lbdevs[x].local_id + 1, n, k)
    <3>1. Before(lbdevs[x].parent, lbdevs[x].local_id + 1, n, k - 1)
      BY <2>2 DEF RegisteredUpTo
    <3> QED
      BY <1>1, <2>2, <3>1 DEF Before
  <2>3. ASSUME NEW m \in 1..Len(block_devices), NEW j \in 1..4, Before(m, j, n, k), TableOn(m)[j].type # 0
        PROVE  Before(m, j, n, k - 1)
    BY <1>2, <2>3 DEF Before
  <2>4. RegisteredUpTo(lbdevs, n, k)
    BY <2>2, <2>3 DEF RegisteredUpTo
  <2> QED
    BY <2>1, <2>4
<1>3. CASE TableOn(n)[k].type # 0
  <2> DEFINE all == lbdevs \o more
             last == Len(lbdevs) + 1
  <2>1. /\ all \in Seq(LogicalType) /\ DOMAIN all = DOMAIN lbdevs \cup {last}
        /\ DOMAIN lbdevs = 1..Len(lbdevs) /\ Len(lbdevs) \in Nat
        /\ all[last] = lbdev /\ \A x \in DOMAIN lbdevs : all[x] = lbdevs[x]
    <3>1. all = Append(lbdevs, lbdev)
      BY <1>3
    <3> QED
      BY <3>1
  <2> HIDE DEF all, last
  <2>2. ASSUME NEW x \in DOMAIN all
        PROVE  /\ all[x].parent \in 1..Len(block_devices)
               /\ Before(all[x].parent, all[x].local_id + 1, n, k)
               /\ TableOn(all[x].parent)[all[x].local_id + 1].type # 0
    <3>1. CASE x = last
      BY <1>3, <2>1, <3>1 DEF Before
    <3>2. CASE x \in DOMAIN lbdevs
      <4>1. /\ lbdevs[x].parent \in 1..Len(block_devices)
            /\ Before(lbdevs[x].parent, lbdevs[x].local_id + 1, n, k - 1)
            /\ TableOn(lbdevs[x].parent)[lbdevs[x].local_id + 1].type # 0
        BY <3>2 DEF RegisteredUpTo
      <4>2. Before(lbdevs[x].parent, lbdevs[x].local_id + 1, n, k)
        BY <1>1, <3>2, <4>1 DEF Before
      <4> QED
        BY <2>1, <3>2, <4>1, <4>2
    <3> QED
      BY <2>1, <2>2, <3>1, <3>2
  <2>3. ASSUME NEW m \in 1..Len(block_devices), NEW j \in 1..4, Before(m, j, n, k), TableOn(m)[j].type # 0
        PROVE  \E x \in DOMAIN all : all[x].parent = m /\ all[x].local_id + 1 = j
    <3>1. CASE m = n /\ j = k
      BY <2>1, <3>1
    <3>2. CASE ~(m = n /\ j = k)
      <4>1. Before(m, j, n, k - 1)
        BY <2>3, <3>2 DEF Before
      <4>2. PICK x \in DOMAIN lbdevs : lbdevs[x].parent = m /\ lbdevs[x].local_id + 1 = j
        BY <2>3, <4>1 DEF RegisteredUpTo
      <4> QED
        BY <2>1, <4>2
    <3> QED
      BY <3>1, <3>2
  <2>4. ASSUME NEW x \in DOMAIN all, NEW y \in DOMAIN all, x < y
        PROVE  Before(all[x].parent, all[x].local_id + 2, all[y].parent, all[y].local_id + 1)
    <3>1. x \in DOMAIN lbdevs
      BY <2>1, <2>4 DEF last
    <3>2. CASE y \in DOMAIN lbdevs
      BY <2>1, <2>4, <3>1, <3>2 DEF RegisteredUpTo
    <3>3. CASE y = last
      <4>1. Before(lbdevs[x].parent, lbdevs[x].local_id + 1, n, k - 1)
        BY <3>1 DEF RegisteredUpTo
      <4>2. Before(lbdevs[x].parent, lbdevs[x].local_id + 2, n, (k - 1) + 1)
        BY <1>1, <3>1, <4>1 DEF Before
      <4> QED
        BY <2>1, <3>1, <3>3, <4>2
    <3> QED
      BY <2>1, <2>4, <3>2, <3>3
  <2>5. RegisteredUpTo(all, n, k)
    BY <2>2, <2>3, <2>4 DEF RegisteredUpTo
  <2> QED
    BY <2>1, <2>5 DEF all
<1> QED
  BY <1>2, <1>3

(* What has been read is the table. *)
LEMMA TableRead ==
    ASSUME IInv, pc = "parse"
    PROVE  /\ found + 1 \in 1..Len(block_devices) /\ buffer = drives[bus][0].content[1]
           /\ TableOf(buffer) = TableOn(found + 1) /\ TableOf(buffer) \in [1..4 -> Entry]
<1>1. request.op = "mbr" /\ request.lba = 0 /\ request.num_blocks = 1 /\ request.i = 1 /\ Moved = 0
      /\ found < Len(block_devices) /\ bus = block_devices[found + 1].bus /\ bus \in Buses /\ DiskTypeOK
  BY DEF IInv, Progress, DiskTypeOK
<1>2. WordsPerBlock \in Nat \ {0} /\ LbaLimit \in Nat \ {0}
  BY Parameters
<1>3. At(0) = 0
  BY <1>1, <1>2 DEF At
<1>4. Brought(0)
  <2>1. Reads /\ Done = 1
    BY <1>1 DEF Reads, Done
  <2> QED
    BY <2>1 DEF IInv, Reading
<1>5. drives[bus][0].kind = "disk" /\ 0 < drives[bus][0].size
      /\ \A k \in 1..WordsPerBlock : buffer[0 * WordsPerBlock + k] = drives[bus][0].content[0 + 1][k]
  BY <1>3, <1>4 DEF Brought, Readable
<1>6. drives[bus][0].content[0 + 1] \in Seq(Nat) /\ Len(drives[bus][0].content[0 + 1]) = WordsPerBlock
  BY <1>1, <1>5, BlockOnDisk
<1>7. buffer \in Seq(Nat) /\ Len(buffer) = WordsPerBlock
  <2>1. buffer \in Seq(Nat) /\ Len(buffer) \in Nat
    BY <1>1 DEF DiskTypeOK
  <2>2. Len(buffer) - 1 * WordsPerBlock = 0
    BY <1>1 DEF Moved
  <2> QED
    BY <1>2, <2>1, <2>2
<1>8. ASSUME NEW k \in 1..WordsPerBlock PROVE buffer[k] = drives[bus][0].content[1][k]
  <2>1. 0 * WordsPerBlock + k = k /\ 0 + 1 = 1
    BY <1>2
  <2> QED
    BY <1>5, <2>1
<1>9. buffer = drives[bus][0].content[1]
  <2>1. PICK block \in Seq(Nat) : block = drives[bus][0].content[1] /\ Len(block) = WordsPerBlock
    BY <1>6
  <2>2. block \in [1..WordsPerBlock -> Nat] /\ buffer \in [1..WordsPerBlock -> Nat]
    <3>1. \A s \in Seq(Nat) : s \in [1..Len(s) -> Nat]
      OBVIOUS
    <3> QED
      BY <1>7, <2>1, <3>1
  <2>3. \A k \in 1..WordsPerBlock : buffer[k] = block[k]
    BY <1>8, <2>1
  <2>4. buffer = block
    <3> DEFINE places == 1..WordsPerBlock
    <3>1. buffer \in [places -> Nat] /\ block \in [places -> Nat] /\ \A k \in places : buffer[k] = block[k]
      BY <2>2, <2>3
    <3> HIDE DEF places
    <3> QED
      BY <3>1
  <2> QED
    BY <2>1, <2>4
<1>10. TableOf(buffer) = TableOn(found + 1)
  BY <1>1, <1>9 DEF TableOn
<1>11. drives[bus][0].content # <<>>
  <2>1. drives[bus][0].size = Len(drives[bus][0].content)
    BY <1>1 DEF DiskTypeOK, DriveTypes, IsDrive
  <2> QED
    BY <1>5, <2>1
<1>12. PICK machine \in Machines : drives = machine.drives
  BY <1>1 DEF IInv, TableScan
<1>13. TableOf(drives[bus][0].content[1]) \in [1..4 -> Entry]
  BY <1>1, <1>11, <1>12, Attached
<1> QED
  BY <1>1, <1>9, <1>10, <1>13 DEF DiskTypeOK

(* The entries that are used are registered. *)
LEMMA ParseTableInv == ASSUME IInv, ParseTable PROVE IInv'
<1>1. pc = "parse" /\ pc' = "mbr" /\ found' = found + 1 /\ DiskTypeOK
      /\ UNCHANGED <<drives, ctl, bus, request, buffer, block_devices>>
      /\ request.op = "mbr"
  BY DEF ParseTable, device, IInv, Progress
<1>2. /\ found + 1 \in 1..Len(block_devices)
      /\ TableOf(buffer) = TableOn(found + 1) /\ TableOf(buffer) \in [1..4 -> Entry]
  BY <1>1, TableRead
<1>3. PICK garbage : logical_block_devices' = logical_block_devices \o Registered(1, garbage)
                        \o Registered(2, garbage) \o Registered(3, garbage) \o Registered(4, garbage)
  BY DEF ParseTable
<1>4. ASSUME NEW lbdevs \in Seq(LogicalType), NEW k \in 1..4, RegisteredUpTo(lbdevs, found + 1, k - 1)
      PROVE  /\ lbdevs \o Registered(k, garbage) \in Seq(LogicalType)
             /\ RegisteredUpTo(lbdevs \o Registered(k, garbage), found + 1, k)
  <2>1. PICK entry \in Entry : entry = TableOf(buffer)[k]
    BY <1>2
  <2>2. PICK bootable \in BOOLEAN : bootable = (entry.bootable \/ k \in garbage)
    <3>1. (entry.bootable \/ k \in garbage) \in BOOLEAN
      BY Zenon
    <3> QED
      BY <3>1, Zenon
  <2>3. PICK lbdev : lbdev = [parent |-> found + 1, local_id |-> k - 1, bootable |-> bootable,
                              lba_offset |-> entry.start, num_blocks |-> entry.length]
    BY Zenon
  <2>4. lbdev \in LogicalType /\ lbdev.parent = found + 1 /\ lbdev.local_id = k - 1
    <3>1. entry.start \in Nat /\ entry.length \in Nat
      BY DEF Entry
    <3>2. found + 1 \in Nat /\ k - 1 \in 0..3
      BY <1>2
    <3> QED
      BY <2>3, <3>1, <3>2 DEF LogicalType
  <2>5. Registered(k, garbage) = IF TableOn(found + 1)[k].type = 0 THEN <<>> ELSE <<lbdev>>
    BY <1>2, <2>1, <2>2, <2>3 DEF Registered
  <2> QED
    BY <1>2, <1>4, <2>4, <2>5, NextEntry
<1>5. logical_block_devices' \in Seq(LogicalType) /\ RegisteredUpTo(logical_block_devices', found + 1, 4)
  <2>1. logical_block_devices \in Seq(LogicalType) /\ found \in Nat
    BY <1>1 DEF DiskTypeOK
  <2>2. RegisteredUpTo(logical_block_devices, found + 1, 0)
    BY <1>1, <2>1, NextTable DEF IInv, TableScan
  <2>3. PICK one \in Seq(LogicalType) :
          one = logical_block_devices \o Registered(1, garbage) /\ RegisteredUpTo(one, found + 1, 1)
    <3>1. PICK k \in 1..4 : k = 1
      OBVIOUS
    <3>2. k - 1 = 0
      BY <3>1
    <3> QED
      BY <1>4, <2>1, <2>2, <3>1, <3>2, Zenon
  <2>4. PICK two \in Seq(LogicalType) : two = one \o Registered(2, garbage) /\ RegisteredUpTo(two, found + 1, 2)
    <3>1. PICK k \in 1..4 : k = 2
      OBVIOUS
    <3>2. k - 1 = 1
      BY <3>1
    <3> QED
      BY <1>4, <2>3, <3>1, <3>2, Zenon
  <2>5. PICK three \in Seq(LogicalType) : three = two \o Registered(3, garbage) /\ RegisteredUpTo(three, found + 1, 3)
    <3>1. PICK k \in 1..4 : k = 3
      OBVIOUS
    <3>2. k - 1 = 2
      BY <3>1
    <3> QED
      BY <1>4, <2>4, <3>1, <3>2, Zenon
  <2>6. PICK four \in Seq(LogicalType) : four = three \o Registered(4, garbage) /\ RegisteredUpTo(four, found + 1, 4)
    <3>1. PICK k \in 1..4 : k = 4
      OBVIOUS
    <3>2. k - 1 = 3
      BY <3>1
    <3> QED
      BY <1>4, <2>5, <3>1, <3>2, Zenon
  <2> QED
    BY <1>3, <2>3, <2>4, <2>5, <2>6, Zenon
<1>6. RegisteredUpTo(logical_block_devices, found, 4)'
  <2>1. ASSUME NEW m PROVE TableOn(m)' = TableOn(m)
    BY <1>1 DEF TableOn
  <2> QED
    BY <1>1, <1>5, <2>1 DEF RegisteredUpTo
<1>7. DiskTypeOK'
  BY <1>1, <1>2, <1>5 DEF DiskTypeOK, DriveTypes
<1>8. Waited' /\ Asked'
  BY <1>1 DEF IInv, Waited, Asked, Quiet, Transferring
<1>9. BusScan'
  BY <1>1 DEF IInv, BusScan, DiskOn, DevicesAreDisks, FirstDrivesAnswer, Scanning
<1>10. Reading'
  <2>1. Reads' = Reads /\ Done' = Done
    BY <1>1 DEF Reads, Done
  <2>2. ASSUME NEW n PROVE Brought(n)' <=> Brought(n)
    BY <1>1 DEF Brought, Readable, At
  <2> QED
    BY <1>1, <2>1, <2>2 DEF IInv, Reading
<1>11. Writing' /\ Progress'
  BY <1>1 DEF IInv, Writing, Progress, Writes, Transferring
<1>12. TableScan'
  BY <1>1, <1>6 DEF IInv, TableScan, RegisteredUpTo
<1> QED
  BY <1>7, <1>8, <1>9, <1>10, <1>11, <1>12 DEF IInv

(* Every disk has been asked for its partitions. *)
LEMMA ScanEndsInv == ASSUME IInv, ScanEnds PROVE IInv'
<1>1. pc = "mbr" /\ DiskTypeOK /\ UNCHANGED <<drives, ctl, bus, tables>> /\ request' = NoRequest /\ buffer' = <<>>
      /\ pc' = IF logical_block_devices = <<>> THEN "panic" ELSE "idle"
  BY DEF ScanEnds, device, IInv
<1>2. request' \in RequestType /\ request'.op = "none" /\ request'.i = 0 /\ request'.num_blocks = 0
  BY <1>1 DEF NoRequest, RequestType
<1>3. DiskTypeOK'
  <2>1. buffer' \in Seq(Nat)
    BY <1>1
  <2> QED
    BY <1>1, <1>2, <2>1 DEF DiskTypeOK, DriveTypes, tables
<1>4. Waited' /\ Asked'
  BY <1>1 DEF IInv, Waited, Asked, Quiet, Transferring
<1>5. BusScan'
  BY <1>1, <1>2 DEF IInv, BusScan, DiskOn, DevicesAreDisks, FirstDrivesAnswer, Scanning, tables
<1>6. Reading' /\ Writing' /\ Progress'
  BY <1>1, <1>2 DEF Reading, Writing, Progress, Reads, Writes, Transferring
<1>7. TableScan'
  <2>1. request.op \in {"none", "mbr"}
    BY <1>1 DEF IInv, Progress
  <2>2. drives' = drives /\ block_devices' = block_devices /\ found' = found
        /\ logical_block_devices' = logical_block_devices
    BY <1>1 DEF tables
  <2>3. ASSUME NEW m PROVE TableOn(m)' = TableOn(m)
    BY <2>2 DEF TableOn
  <2>4. RegisteredUpTo(logical_block_devices, found, 4)'
    BY <2>1, <2>2, <2>3 DEF IInv, TableScan, RegisteredUpTo
  <2> QED
    BY <1>1, <1>2, <2>1, <2>2, <2>4 DEF IInv, TableScan
<1> QED
  BY <1>3, <1>4, <1>5, <1>6, <1>7 DEF IInv
-----------------------------------------------------------------------------
(* Every step keeps the invariant. *)
LEMMA DiskNext == IInv /\ [Next]_vars => IInv'
<1> SUFFICES ASSUME IInv, [Next]_vars PROVE IInv'
  OBVIOUS
<1>1. CASE Driver
  BY <1>1, IdentifyInv, PresentInv, ReadyInv, TakeIdentityInv, IssueInv, WaitInv, TakeInv, PutInv, FlushInv,
     AfterInv, ReadTableInv, ParseTableInv, ScanEndsInv DEF Driver
<1>2. ASSUME NEW b \in Buses, DeviceWorks(b) PROVE IInv'
  BY <1>2, AnswersIdentifyInv, AnswersReadInv, AnswersWriteInv, StoresInv, EmptiesCacheInv DEF DeviceWorks
<1>3. CASE Read
  BY <1>3, ReadInv
<1>4. CASE Write
  BY <1>4, WriteInv
<1>5. CASE UNCHANGED vars
  <2>1. UNCHANGED <<drives, ctl, pc, bus, request, buffer, block_devices, logical_block_devices, found>>
    BY <1>5 DEF vars, device, tables
  <2>2. DiskTypeOK' /\ Waited' /\ Asked'
    BY <2>1 DEF IInv, DiskTypeOK, DriveTypes, Waited, Asked, Quiet, Drive
  <2>3. BusScan'
    BY <2>1 DEF IInv, BusScan, DiskOn, DevicesAreDisks, FirstDrivesAnswer
  <2>4. Reading'
    <3>1. ASSUME NEW n PROVE Brought(n)' <=> Brought(n)
      BY <2>1 DEF Brought, Readable, At
    <3>2. Reads' = Reads /\ Done' = Done /\ Moved' = Moved /\ (InBlock' <=> InBlock)
          /\ At(request.i)' = At(request.i) /\ (Readable(At(request.i))' <=> Readable(At(request.i)))
      BY <2>1 DEF Reads, Done, Moved, InBlock, At, Readable
    <3> QED
      BY <2>1, <3>1, <3>2 DEF IInv, Reading, Quiet
  <2>5. Writing' /\ Progress'
    BY <2>1 DEF IInv, Writing, Progress, Reads, Writes, Moved, InBlock, Storing
  <2>6. TableScan'
    BY <2>1, TablesKept DEF tables
  <2> QED
    BY <2>2, <2>3, <2>4, <2>5, <2>6 DEF IInv
<1> QED
  BY <1>1, <1>2, <1>3, <1>4, <1>5 DEF Next, Poll, Stopped

(* The last request of a driver that is idle has been answered. *)
LEMMA ReadsAnswered == IInv => ReadIsBlocks
<1> SUFFICES ASSUME IInv, request.lba + request.num_blocks <= LbaLimit PROVE
        /\ ReadReturned =>
              /\ request.lba + request.num_blocks <= drives[bus][0].size
              /\ buffer = Contents(request.lba, request.num_blocks)
        /\ pc = "panic" /\ request.op \in {"read", "mbr"} =>
              \E lba \in request.lba..(request.lba + request.num_blocks - 1) :
                  lba >= drives[bus][0].size \/ lba \in drives[bus][0].bad
  BY DEF ReadIsBlocks
<1>1. request.lba \in Nat /\ request.num_blocks \in Nat /\ request.i \in Nat /\ LbaLimit \in Nat \ {0}
      /\ WordsPerBlock \in Nat \ {0} /\ buffer \in Seq(Nat) /\ DiskTypeOK /\ bus \in Buses
  BY Parameters DEF IInv, DiskTypeOK, RequestType
<1>2. drives[bus][0].size \in Nat
  <2>1. drives[bus][0] \in DriveType
    BY <1>1 DEF DiskTypeOK, DriveTypes
  <2> QED
    BY <2>1 DEF DriveType
<1>3. ASSUME NEW n \in 0..request.num_blocks - 1
      PROVE  At(n) = request.lba + n
  <2>1. PICK a \in Nat : a = request.lba + n /\ a < LbaLimit
    BY <1>1
  <2>2. a % LbaLimit = a
    BY <1>1, <2>1, ModSmall
  <2> QED
    BY <2>1, <2>2, Zenon DEF At
<1>4. ASSUME ReadReturned PROVE request.lba + request.num_blocks <= drives[bus][0].size
                                /\ buffer = Contents(request.lba, request.num_blocks)
  <2>1. request.i = request.num_blocks /\ Moved = 0
    BY <1>4 DEF IInv, Progress, ReadReturned
  <2>2. ASSUME NEW n \in 0..request.num_blocks - 1
        PROVE  /\ request.lba + n < drives[bus][0].size
               /\ \A k \in 1..WordsPerBlock :
                     buffer[n * WordsPerBlock + k] = drives[bus][0].content[request.lba + (n + 1)][k]
    <3>1. Reads /\ Done = request.num_blocks
      BY <1>4, <2>1 DEF Reads, Done, ReadReturned
    <3>2. Brought(n)
      BY <3>1 DEF IInv, Reading
    <3>3. PICK a \in Nat : a = request.lba + n /\ a + 1 = request.lba + (n + 1) /\ At(n) = a
      BY <1>1, <1>3
    <3>4. At(n) < drives[bus][0].size
          /\ \A k \in 1..WordsPerBlock : buffer[n * WordsPerBlock + k] = drives[bus][0].content[At(n) + 1][k]
      BY <3>2 DEF Brought, Readable
    <3> QED
      BY <3>3, <3>4, Zenon
  <2>3. request.lba + request.num_blocks <= drives[bus][0].size
    <3>1. request.num_blocks > 0
      BY <1>4 DEF IInv, Progress, ReadReturned
    <3>2. request.num_blocks - 1 \in 0..request.num_blocks - 1
      BY <1>1, <3>1
    <3>3. request.lba + (request.num_blocks - 1) < drives[bus][0].size
      BY <2>2, <3>2
    <3> QED
      BY <1>1, <1>2, <3>3
  <2>4. PICK words \in Nat : words = request.num_blocks * WordsPerBlock
    BY <1>1
  <2>5. buffer \in [1..words -> Nat]
    <3>1. Len(buffer) = words
      BY <1>1, <2>1, <2>4 DEF Moved
    <3>2. \A s \in Seq(Nat) : s \in [1..Len(s) -> Nat]
      OBVIOUS
    <3> QED
      BY <1>1, <3>1, <3>2
  <2> DEFINE blocks == [k \in 1..request.num_blocks |-> drives[bus][0].content[request.lba + k]]
             Word(x) == blocks[(x - 1) \div WordsPerBlock + 1][((x - 1) % WordsPerBlock) + 1]
  <2>6. ASSUME NEW x \in 1..words PROVE buffer[x] = Word(x)
    <3>1. PICK m \in Nat : m = x - 1 /\ m < words
      BY <2>4
    <3>2. PICK q \in Nat, k \in 0..WordsPerBlock - 1 :
             q = m \div WordsPerBlock /\ k = m % WordsPerBlock /\ m = q * WordsPerBlock + k
      <4>1. m \div WordsPerBlock \in Nat /\ m % WordsPerBlock \in 0..WordsPerBlock - 1
            /\ m = (m \div WordsPerBlock) * WordsPerBlock + (m % WordsPerBlock)
        BY <1>1, DivMod
      <4> QED
        BY <4>1, Zenon
    <3>3. q < request.num_blocks
      <4>1. PICK p \in Nat : p = q * WordsPerBlock
        BY <1>1
      <4>2. p < words
        BY <1>1, <3>1, <3>2, <4>1
      <4>3. q * WordsPerBlock < request.num_blocks * WordsPerBlock
        BY <2>4, <4>1, <4>2
      <4>4. request.num_blocks \in Int /\ q \in Int
        BY <1>1
      <4>5. PICK n \in Int : n = request.num_blocks
        BY <4>4, Zenon
      <4>6. q * WordsPerBlock < n * WordsPerBlock
        BY <4>3, <4>5, Zenon
      <4>7. q < n
        BY <1>1, <4>4, <4>6, ProductsAgree
      <4> QED
        BY <4>5, <4>7
    <3>4. q \in 0..request.num_blocks - 1 /\ q + 1 \in 1..request.num_blocks /\ k + 1 \in 1..WordsPerBlock
      BY <1>1, <3>2, <3>3
    <3>5. buffer[q * WordsPerBlock + (k + 1)] = drives[bus][0].content[request.lba + (q + 1)][k + 1]
      BY <2>2, <3>4
    <3>6. q * WordsPerBlock + (k + 1) = x
      <4>1. PICK p \in Nat : p = q * WordsPerBlock
        BY <1>1
      <4>2. p + (k + 1) = x
        BY <1>1, <3>1, <3>2, <4>1
      <4> QED
        BY <4>1, <4>2
    <3>7. Word(x) = blocks[q + 1][k + 1]
      BY <3>1, <3>2, Zenon
    <3> QED
      BY <3>4, <3>5, <3>6, <3>7
  <2>7. Contents(request.lba, request.num_blocks) = [x \in 1..words |-> Word(x)]
    BY <2>4 DEF Contents, Laid
  <2>8. buffer = [x \in 1..words |-> Word(x)]
    <3> HIDE DEF Word
    <3> QED
      BY <2>5, <2>6
  <2> QED
    BY <2>3, <2>7, <2>8
<1>5. ASSUME pc = "panic", request.op \in {"read", "mbr"}
      PROVE  \E lba \in request.lba..(request.lba + request.num_blocks - 1) :
                  lba >= drives[bus][0].size \/ lba \in drives[bus][0].bad
  <2>1. request.i < request.num_blocks /\ ~Readable(At(request.i))
    BY <1>5 DEF IInv, Progress, Reading, Reads
  <2>2. At(request.i) = request.lba + request.i
    BY <1>1, <1>3, <2>1
  <2>3. drives[bus][0].kind # "disk" => drives[bus][0].size = 0
    <3>1. IsDrive(drives[bus][0])
      BY <1>1 DEF DiskTypeOK, DriveTypes
    <3> QED
      BY <3>1 DEF IsDrive
  <2>4. PICK lba \in request.lba..(request.lba + request.num_blocks - 1) : lba = At(request.i)
    <3>1. request.lba + request.i \in request.lba..(request.lba + request.num_blocks - 1)
      BY <1>1, <2>1
    <3> QED
      BY <2>2, <3>1, Zenon
  <2>5. lba \in Nat
    BY <1>1, <2>4
  <2>6. ~Readable(lba)
    BY <2>1, <2>4
  <2>7. drives[bus][0].kind # "disk" \/ ~(lba < drives[bus][0].size) \/ lba \in drives[bus][0].bad
    BY <2>6 DEF Readable
  <2>8. lba >= drives[bus][0].size \/ lba \in drives[bus][0].bad
    BY <1>2, <2>3, <2>5, <2>7
  <2> QED
    BY <2>8
<1> QED
  BY <1>4, <1>5

(* What the scan leaves behind is what the machine has. *)
LEMMA ScanFound == IInv => ScanFindsDisks
<1> SUFFICES ASSUME IInv PROVE ScanFindsDisks
  OBVIOUS
<1>1. ASSUME Scanned, FirstDrivesAnswer PROVE DevicesAreDisks
  <2>1. pc \notin Scanning
    BY <1>1 DEF IInv, BusScan, Scanned, Scanning
  <2> QED
    BY <1>1, <2>1 DEF IInv, BusScan
<1>2. ASSUME found = Len(block_devices), request.op \in {"none", "mbr"} PROVE PartitionsAreTables
  <2> DEFINE places == DOMAIN logical_block_devices
             parts == {part \in (1..Len(block_devices)) \X (1..4) : TableOn(part[1])[part[2]].type # 0}
             here == [m \in places |->
                         <<logical_block_devices[m].parent, logical_block_devices[m].local_id + 1>>]
  <2>1. RegisteredUpTo(logical_block_devices, found, 4)
    BY <1>2 DEF IInv, TableScan
  <2>2. ASSUME NEW x \in places
        PROVE  logical_block_devices[x].parent \in Nat /\ logical_block_devices[x].local_id \in 0..3
    <3>1. logical_block_devices[x] \in LogicalType
      BY DEF IInv, DiskTypeOK
    <3> QED
      BY <3>1 DEF LogicalType
  <2>3. Len(block_devices) \in Nat
    BY DEF IInv, DiskTypeOK
  <2>4. ASSUME NEW x \in places PROVE here[x] \in parts
    <3>1. logical_block_devices[x].parent \in 1..Len(block_devices)
          /\ TableOn(logical_block_devices[x].parent)[logical_block_devices[x].local_id + 1].type # 0
      BY <2>1 DEF RegisteredUpTo
    <3>2. logical_block_devices[x].local_id + 1 \in 1..4
      BY <2>2
    <3> QED
      BY <3>1, <3>2
  <2>5. ASSUME NEW part \in parts PROVE \E x \in places : here[x] = part
    <3>1. PICK m \in 1..Len(block_devices), j \in 1..4 : part = <<m, j>> /\ TableOn(m)[j].type # 0
      BY <2>5
    <3>2. Before(m, j, found, 4)
      BY <1>2, <2>3, <3>1 DEF Before
    <3>3. PICK x \in places : logical_block_devices[x].parent = m /\ logical_block_devices[x].local_id + 1 = j
      BY <2>1, <3>1, <3>2 DEF RegisteredUpTo
    <3> QED
      BY <3>1, <3>3
  <2>6. ASSUME NEW m \in places, NEW n \in places, m < n
        PROVE  here[m][1] < here[n][1] \/ (here[m][1] = here[n][1] /\ here[m][2] < here[n][2])
    <3>1. Before(logical_block_devices[m].parent, logical_block_devices[m].local_id + 2,
                 logical_block_devices[n].parent, logical_block_devices[n].local_id + 1)
      BY <2>1, <2>6 DEF RegisteredUpTo
    <3>2. logical_block_devices[m].parent < logical_block_devices[n].parent
          \/ (logical_block_devices[m].parent = logical_block_devices[n].parent
              /\ logical_block_devices[m].local_id + 1 < logical_block_devices[n].local_id + 1)
      BY <2>2, <2>6, <3>1 DEF Before
    <3> QED
      BY <3>2
  <2>7. DOMAIN here = places
    OBVIOUS
  <2> HIDE DEF here, parts, places
  <2>8. {here[x] : x \in places} = parts
    BY <2>4, <2>5
  <2>9. ToSet(here) = parts
    BY <2>7, <2>8 DEF ToSet
  <2> QED
    BY <2>6, <2>7, <2>9 DEF PartitionsAreTables, here, parts, places, TableOn
<1> QED
  BY <1>1, <1>2 DEF ScanFindsDisks

(* The driver, its drives and the devices found have their types in every run. *)
THEOREM DiskTypes == Spec => []DiskTypeOK
<1>1. IInv => DiskTypeOK
  BY DEF IInv
<1> QED
  BY <1>1, DiskInit, DiskNext, PTL DEF Spec

(* What a read brings, the driver waiting for every block, is what the disk holds
   there, and a read stops the kernel only for a block that cannot be had
   (ide_read_block, submit_read_request). *)
THEOREM DiskReads == Spec => []ReadIsBlocks
BY DiskInit, DiskNext, ReadsAnswered, PTL DEF Spec

(* The scan finds the disks of the machine and the partitions of their tables
   (ide_driver_scan_disks, scan_logical_block_devices_mbr). *)
THEOREM DiskScan == Spec => []ScanFindsDisks
BY DiskInit, DiskNext, ScanFound, PTL DEF Spec

-----------------------------------------------------------------------------
(* fat32_nameext_to_name, which makes a name of a directory entry's field. *)

NameChar == Letter \cup {"."}

(* The characters of a field, and of base, point and extension in a row. *)
FieldAt(base, ext, k) ==
    IF k <= Base THEN (IF k <= Len(base) THEN base[k] ELSE " ")
    ELSE IF k - Base <= Len(ext) THEN ext[k - Base] ELSE " "

JoinedAt(base, ext, k) ==
    IF k <= Len(base) THEN base[k]
    ELSE IF k = Len(base) + 1 THEN "." ELSE ext[k - Len(base) - 1]

IsField(field, base, ext) ==
    /\ base \in Seq(NameChar) /\ Len(base) \in 1..Base
    /\ ext \in Seq(Letter) /\ Len(ext) \in 0..Ext
    /\ field \in Seq(NameChar \cup {" "}) /\ Len(field) = Base + Ext
    /\ \A k \in 1..Base + Ext : field[k] = FieldAt(base, ext, k)

(* The file name has the first n characters. *)
Begins(name, base, ext, n) ==
    /\ name \in Seq(NameChar) /\ Len(name) = n
    /\ \A k \in 1..n : name[k] = JoinedAt(base, ext, k)

(* How far the loop is in each of its modes. *)
Joining(base, ext, k, m, name) ==
    /\ m = "before" => k <= Len(base) /\ Begins(name, base, ext, k)
    /\ m = "spaces" => /\ k > Len(base) /\ (k <= Base \/ Len(ext) = 0)
                       /\ Begins(name, base, ext, Len(base) + 1)
    /\ m = "extension in spaces" =>
          /\ k > Base /\ Len(base) = Base /\ Len(ext) > 0 /\ (k = Base + 1 \/ Len(ext) = 1)
          /\ Begins(name, base, ext, Len(base) + 2)
    /\ m = "extension" => /\ k > Base /\ k - Base <= Len(ext)
                          /\ Begins(name, base, ext, Len(base) + 1 + (k - Base))
    /\ m = "last" => Begins(name, base, ext, Len(base) + 1 + Len(ext))
    /\ m = "end" => name = base \o (IF ext = <<>> THEN <<>> ELSE <<".">> \o ext)

Modes == {"before", "spaces", "extension in spaces", "extension", "last", "end"}

NameInv ==
    \E base \in Seq(NameChar), ext \in Seq(Letter) :
        /\ IsField(nameext, base, ext)
        /\ index \in 0..Base + Ext /\ mode \in Modes
        /\ Joining(base, ext, index, mode, filename)

(* No character of a name is a space, and none of an extension is a point. *)
LEMMA PlainCharacters ==
    /\ Base \in Nat /\ Base >= 2 /\ Ext \in Nat /\ Ext >= 1
    /\ " " \notin NameChar /\ " " \notin Letter /\ "." \notin Letter /\ "." \in NameChar
    /\ Letter \subseteq NameChar
<1>1. Base \in Nat /\ Base >= 2 /\ Ext \in Nat /\ Ext >= 1
  <2>1. Base \in Nat \ {0, 1} /\ Ext \in Nat \ {0}
    BY ShortNameAssumption, Zenon
  <2> QED
    BY <2>1
<1>2. " " \notin Letter /\ "." \notin Letter
  BY ShortNameAssumption
<1>3. "." # " "
  OBVIOUS
<1> QED
  BY <1>1, <1>2, <1>3 DEF NameChar

(* What is padded keeps its characters and has spaces behind them. *)
LEMMA PaddedIs ==
    ASSUME NEW S, NEW text \in Seq(S), NEW width \in Nat
    PROVE  /\ Padded(text, width) \in Seq(S \cup {" "}) /\ Len(Padded(text, width)) = width
           /\ \A k \in 1..width : Padded(text, width)[k] = IF k <= Len(text) THEN text[k] ELSE " "
<1>1. Len(text) \in Nat
  BY LenProperties
<1>2. ASSUME NEW k \in 1..width
      PROVE  (IF k <= Len(text) THEN text[k] ELSE " ") \in S \cup {" "}
  <2>1. CASE k <= Len(text)
    <3>1. text[k] \in S
      BY <1>1, <2>1, ElementOfSeq
    <3> QED
      BY <2>1, <3>1
  <2>2. CASE ~(k <= Len(text))
    BY <2>2
  <2> QED
    BY <2>1, <2>2
<1>3. Padded(text, width) \in [1..width -> S \cup {" "}]
  BY <1>2 DEF Padded
<1>4. \A k \in 1..width : Padded(text, width)[k] = IF k <= Len(text) THEN text[k] ELSE " "
  BY DEF Padded
<1>5. \A T : \A f \in [1..width -> T] : f \in Seq(T) /\ Len(f) = width
  OBVIOUS
<1>6. Padded(text, width) \in Seq(S \cup {" "}) /\ Len(Padded(text, width)) = width
  BY <1>3, <1>5, Zenon
<1> QED
  BY <1>4, <1>6, Zenon

(* A name and its extension, padded. *)
LEMMA FieldOfName ==
    ASSUME NEW base \in Seq(NameChar), Len(base) \in 1..Base, NEW ext \in Seq(Letter), Len(ext) \in 0..Ext
    PROVE  IsField(Padded(base, Base) \o Padded(ext, Ext), base, ext)
<1> DEFINE S == NameChar \cup {" "}
           left == Padded(base, Base)
           right == Padded(ext, Ext)
<1>1. Base \in Nat /\ Ext \in Nat
  BY PlainCharacters
<1>2. /\ left \in Seq(S) /\ Len(left) = Base
      /\ \A k \in 1..Base : left[k] = IF k <= Len(base) THEN base[k] ELSE " "
  BY <1>1, PaddedIs
<1>3. /\ ext \in Seq(NameChar)
  <2>1. Letter \subseteq NameChar
    BY PlainCharacters
  <2> QED
    BY <2>1
<1>4. /\ right \in Seq(S) /\ Len(right) = Ext
      /\ \A k \in 1..Ext : right[k] = IF k <= Len(ext) THEN ext[k] ELSE " "
  BY <1>1, <1>3, PaddedIs
<1> HIDE DEF S, left, right
<1>5. /\ left \o right \in Seq(S) /\ Len(left \o right) = Base + Ext
      /\ \A k \in 1..Base + Ext : (left \o right)[k] = IF k <= Base THEN left[k] ELSE right[k - Base]
  BY <1>2, <1>4, ConcatProperties
<1>6. ASSUME NEW k \in 1..Base + Ext
      PROVE  (left \o right)[k] = FieldAt(base, ext, k)
  <2>1. CASE k <= Base
    <3>1. k \in 1..Base
      BY <1>1, <2>1
    <3> QED
      BY <1>2, <1>5, <2>1, <3>1, Zenon DEF FieldAt
  <2>2. CASE ~(k <= Base)
    <3>1. k - Base \in 1..Ext
      BY <1>1, <2>2
    <3> QED
      BY <1>4, <1>5, <2>2, <3>1, Zenon DEF FieldAt
  <2> QED
    BY <2>1, <2>2
<1>7. IsField(left \o right, base, ext)
  BY <1>5, <1>6 DEF IsField, S
<1> QED
  BY <1>7 DEF left, right

(* The entries of a directory for itself and its parent have no extension. *)
LEMMA FieldOfDots ==
    ASSUME NEW base \in Seq(NameChar), Len(base) \in 1..Base
    PROVE  IsField(Padded(base, Base + Ext), base, <<>>)
<1>1. Base \in Nat /\ Ext \in Nat
  BY PlainCharacters
<1>2. PICK width \in Nat : width = Base + Ext
  BY <1>1
<1>3. /\ Padded(base, width) \in Seq(NameChar \cup {" "}) /\ Len(Padded(base, width)) = width
      /\ \A k \in 1..width : Padded(base, width)[k] = IF k <= Len(base) THEN base[k] ELSE " "
  BY PaddedIs
<1>4. <<>> \in Seq(Letter) /\ Len(<<>>) = 0
  BY EmptySeq
<1>5. ASSUME NEW k \in 1..width
      PROVE  Padded(base, width)[k] = FieldAt(base, <<>>, k)
  <2>1. CASE k <= Base
    BY <1>3, <2>1, Zenon DEF FieldAt
  <2>2. CASE ~(k <= Base)
    <3>1. ~(k <= Len(base)) /\ ~(k - Base <= Len(<<>>))
      BY <1>1, <1>4, <2>2
    <3> QED
      BY <1>3, <2>2, <3>1, Zenon DEF FieldAt
  <2> QED
    BY <2>1, <2>2
<1>6. 0 \in 0..Ext
  BY <1>1
<1> QED
  BY <1>2, <1>3, <1>4, <1>5, <1>6 DEF IsField

(* A character of base, point and extension in a row. *)
LEMMA JoinedIs ==
    ASSUME NEW field, NEW base, NEW ext, IsField(field, base, ext),
           NEW k \in 1..Len(base) + 1 + Len(ext)
    PROVE  JoinedAt(base, ext, k) \in NameChar
<1>1. /\ base \in Seq(NameChar) /\ Len(base) \in Nat /\ ext \in Seq(Letter) /\ Len(ext) \in Nat
      /\ Letter \subseteq NameChar /\ "." \in NameChar
  BY PlainCharacters, LenProperties DEF IsField
<1>2. CASE k <= Len(base)
  <2>1. base[k] \in NameChar
    BY <1>1, <1>2, ElementOfSeq
  <2> QED
    BY <1>2, <2>1 DEF JoinedAt
<1>3. CASE k = Len(base) + 1
  <2>1. ~(k <= Len(base))
    BY <1>1, <1>3
  <2> QED
    BY <1>1, <1>3, <2>1 DEF JoinedAt
<1>4. CASE ~(k <= Len(base)) /\ k # Len(base) + 1
  <2>1. k - Len(base) - 1 \in 1..Len(ext)
    BY <1>1, <1>4
  <2>2. ext[k - Len(base) - 1] \in Letter
    BY <1>1, <2>1, ElementOfSeq
  <2> QED
    BY <1>1, <1>4, <2>2 DEF JoinedAt
<1> QED
  BY <1>2, <1>3, <1>4

(* One character more. *)
LEMMA NameGrows ==
    ASSUME NEW field, NEW base, NEW ext, IsField(field, base, ext), NEW n \in Nat,
           n < Len(base) + 1 + Len(ext), NEW name, Begins(name, base, ext, n),
           NEW x, x = JoinedAt(base, ext, n + 1)
    PROVE  Begins(Append(name, x), base, ext, n + 1)
<1>1. Len(base) \in Nat /\ Len(ext) \in Nat
  BY LenProperties DEF IsField
<1>2. x \in NameChar
  <2>1. PICK k \in Nat : k = n + 1
    OBVIOUS
  <2>2. k \in 1..Len(base) + 1 + Len(ext)
    BY <1>1, <2>1
  <2>3. JoinedAt(base, ext, k) \in NameChar
    BY <2>2, JoinedIs
  <2> QED
    BY <2>1, <2>3, Zenon
<1>3. name \in Seq(NameChar) /\ Len(name) = n /\ \A k \in 1..n : name[k] = JoinedAt(base, ext, k)
  BY DEF Begins
<1>4. /\ Append(name, x) \in Seq(NameChar) /\ Len(Append(name, x)) = n + 1
      /\ \A k \in 1..n : Append(name, x)[k] = name[k]
      /\ Append(name, x)[n + 1] = x
  BY <1>2, <1>3, AppendProperties
<1>5. ASSUME NEW k \in 1..n + 1 PROVE Append(name, x)[k] = JoinedAt(base, ext, k)
  <2>1. k \in 1..n \/ k = n + 1
    OBVIOUS
  <2> QED
    BY <1>3, <1>4, <2>1, Zenon
<1> QED
  BY <1>4, <1>5 DEF Begins

InARow(name, base, point, ext) ==
    /\ Len(name) = Len(base) + 1 + Len(ext)
    /\ \A k \in 1..Len(base) : name[k] = base[k]
    /\ name[Len(base) + 1] = point
    /\ \A k \in 1..Len(ext) : name[Len(base) + 1 + k] = ext[k]

(* A sequence whose elements are those of base, point and ext is these joined. *)
LEMMA JoinedWhole ==
    ASSUME NEW S, NEW base \in Seq(S), NEW ext \in Seq(S), NEW point \in S, NEW name \in Seq(S),
           InARow(name, base, point, ext)
    PROVE  name = base \o (<<point>> \o ext)
<1>1. Len(base) \in Nat /\ Len(ext) \in Nat
  BY LenProperties
<1>2. PICK size \in Nat : size = Len(base) + 1 + Len(ext)
  BY <1>1
<1>3. /\ <<point>> \o ext \in Seq(S) /\ Len(<<point>> \o ext) = 1 + Len(ext)
      /\ (<<point>> \o ext)[1] = point
      /\ \A k \in 1..Len(ext) : (<<point>> \o ext)[k + 1] = ext[k]
  OBVIOUS
<1> DEFINE tail == <<point>> \o ext
<1>4. /\ tail \in Seq(S) /\ Len(tail) = 1 + Len(ext)
      /\ tail[1] = point
      /\ \A k \in 1..Len(ext) : tail[k + 1] = ext[k]
  BY <1>3
<1> HIDE DEF tail
<1>5. /\ base \o tail \in Seq(S) /\ Len(base \o tail) = Len(base) + Len(tail)
      /\ \A k \in 1..Len(base) + Len(tail) :
            (base \o tail)[k] = IF k <= Len(base) THEN base[k] ELSE tail[k - Len(base)]
  <2>1. PICK rest \in Seq(S) : rest = tail
    BY <1>4
  <2>2. /\ base \o rest \in Seq(S) /\ Len(base \o rest) = Len(base) + Len(rest)
        /\ \A k \in 1..Len(base) + Len(rest) :
              (base \o rest)[k] = IF k <= Len(base) THEN base[k] ELSE rest[k - Len(base)]
    BY ConcatProperties
  <2> QED
    BY <2>1, <2>2, Zenon
<1>6. ASSUME NEW k \in 1..size PROVE name[k] = (base \o tail)[k]
  <2>1. k \in 1..Len(base) + Len(tail)
    BY <1>1, <1>2, <1>4
  <2>2. CASE k <= Len(base)
    <3>1. k \in 1..Len(base)
      BY <1>1, <2>2
    <3> QED
      BY <1>5, <2>1, <2>2, <3>1, Zenon DEF InARow
  <2>3. CASE k = Len(base) + 1
    <3>1. ~(k <= Len(base)) /\ k - Len(base) = 1
      BY <1>1, <2>3
    <3> QED
      BY <1>4, <1>5, <2>1, <2>3, <3>1, Zenon DEF InARow
  <2>4. CASE k > Len(base) + 1
    <3>1. PICK j \in 1..Len(ext) : k = Len(base) + 1 + j
      <4>1. k - (Len(base) + 1) \in 1..Len(ext) /\ k = Len(base) + 1 + (k - (Len(base) + 1))
        BY <1>1, <1>2, <2>4
      <4> QED
        BY <4>1
    <3>2. ~(k <= Len(base)) /\ k - Len(base) = j + 1
      BY <1>1, <3>1
    <3>3. name[k] = ext[j]
      BY <3>1, Zenon DEF InARow
    <3>4. tail[j + 1] = ext[j]
      BY <1>4, Zenon
    <3> QED
      BY <1>5, <2>1, <3>2, <3>3, <3>4, Zenon
  <2>5. k <= Len(base) \/ k = Len(base) + 1 \/ k > Len(base) + 1
    BY <1>1
  <2> QED
    BY <2>2, <2>3, <2>4, <2>5, Zenon
<1>7. Len(name) = size /\ Len(base \o tail) = size
  BY <1>1, <1>2, <1>4, <1>5 DEF InARow
<1>8. name = base \o tail
  BY <1>5, <1>6, <1>7, SeqEqual
<1> QED
  BY <1>8 DEF tail

(* What the loop writes at the end: the base, and the point and the extension if there is one. *)
LEMMA NameFinished ==
    ASSUME NEW field, NEW base, NEW ext, IsField(field, base, ext), NEW name,
           Begins(name, base, ext, Len(base) + 1 + Len(ext))
    PROVE  (IF Last(name) = "." THEN Front(name) ELSE name)
              = base \o (IF ext = <<>> THEN <<>> ELSE <<".">> \o ext)
<1>1. /\ base \in Seq(NameChar) /\ Len(base) \in Nat /\ ext \in Seq(NameChar) /\ Len(ext) \in Nat
      /\ ext \in Seq(Letter)
  <2>1. base \in Seq(NameChar) /\ ext \in Seq(Letter)
    BY DEF IsField
  <2>2. Letter \subseteq NameChar
    BY PlainCharacters
  <2>3. ext \in Seq(NameChar)
    BY <2>1, <2>2
  <2> QED
    BY <2>1, <2>3, LenProperties
<1>2. PICK point \in NameChar : point = "." /\ point \notin Letter
  BY PlainCharacters, Zenon
<1>3. PICK size \in Nat : size = Len(base) + 1 + Len(ext)
  BY <1>1
<1>4. /\ name \in Seq(NameChar) /\ Len(name) = size
      /\ \A k \in 1..size : name[k] = JoinedAt(base, ext, k)
  BY <1>3, Zenon DEF Begins
<1>5. ASSUME NEW k \in 1..Len(base) PROVE name[k] = base[k]
  <2>1. k \in 1..size /\ k <= Len(base)
    BY <1>1, <1>3
  <2> QED
    BY <1>4, <2>1, Zenon DEF JoinedAt
<1>6. name[Len(base) + 1] = point
  <2>1. Len(base) + 1 \in 1..size /\ ~(Len(base) + 1 <= Len(base))
    BY <1>1, <1>3
  <2> QED
    BY <1>2, <1>4, <2>1, Zenon DEF JoinedAt
<1>7. ASSUME NEW k \in 1..Len(ext) PROVE name[Len(base) + 1 + k] = ext[k]
  <2>1. PICK m \in Nat : m = Len(base) + 1 + k
    BY <1>1
  <2>2. m \in 1..size /\ ~(m <= Len(base)) /\ m # Len(base) + 1 /\ m - Len(base) - 1 = k
    BY <1>1, <1>3, <2>1
  <2> QED
    BY <1>4, <2>1, <2>2, Zenon DEF JoinedAt
<1>8. Last(name) = name[size]
  BY <1>4 DEF Last
<1>9. CASE ext = <<>>
  <2>1. Len(ext) = 0
    BY <1>9, EmptySeq
  <2>2. size = Len(base) + 1
    BY <1>1, <1>3, <2>1
  <2>3. Last(name) = "."
    BY <1>2, <1>6, <1>8, <2>2, Zenon
  <2>4. Front(name) = SubSeq(name, 1, Len(base))
    BY <1>1, <1>4, <2>2 DEF Front
  <2>5. SubSeq(name, 1, Len(base)) = base
    BY <1>1, <1>4, <1>5, <2>2
  <2>6. base \o <<>> = base
    BY <1>1, ConcatEmptySeq
  <2> QED
    BY <1>9, <2>3, <2>4, <2>5, <2>6, Zenon
<1>10. CASE ext # <<>>
  <2>1. Len(ext) >= 1
    BY <1>1, <1>10, EmptySeq
  <2>2. Last(name) # "."
    <3>1. Len(ext) \in 1..Len(ext) /\ size = Len(base) + 1 + Len(ext)
      BY <1>1, <1>3, <2>1
    <3>2. name[size] = ext[Len(ext)]
      BY <1>7, <3>1, Zenon
    <3>3. ext[Len(ext)] \in Letter
      BY <1>1, <3>1, ElementOfSeq
    <3> QED
      BY <1>2, <1>8, <3>2, <3>3, Zenon
  <2>3. name = base \o (<<point>> \o ext)
    <3>1. InARow(name, base, point, ext)
      BY <1>3, <1>4, <1>5, <1>6, <1>7, Zenon DEF InARow
    <3> QED
      BY <1>1, <1>4, <3>1, JoinedWhole
  <2> QED
    BY <1>2, <1>10, <2>2, <2>3, Zenon
<1> QED
  BY <1>9, <1>10

PartIs(field, a, width, text, space) ==
    /\ Len(text) <= width /\ Len(field) >= a + width
    /\ \A k \in 1..width : field[a + k] = IF k <= Len(text) THEN text[k] ELSE space

(* A part of a text without its spaces, when they are behind another text there. *)
LEMMA PartUnpadded ==
    ASSUME NEW S, NEW space, space \notin S, NEW field \in Seq(S \cup {space}), NEW text \in Seq(S),
           NEW a \in Nat, NEW width \in Nat, PartIs(field, a, width, text, space)
    PROVE  Without(SubSeq(field, a + 1, a + width), {space}) = text
<1> DEFINE part == SubSeq(field, a + 1, a + width)
           kept == {k \in DOMAIN part : part[k] \notin {space}}
           upTo(k) == Cardinality({j \in kept : j <= k})
           size == Len(text)
<1>1. /\ size <= width /\ Len(field) >= a + width
      /\ \A k \in 1..width : field[a + k] = IF k <= size THEN text[k] ELSE space
  BY Zenon DEF PartIs
<1>2. size \in Nat /\ \A k \in 1..size : text[k] \in S
  BY LenProperties, ElementOfSeq
<1>3. DOMAIN part = 1..width /\ \A k \in 1..width : part[k] = field[a + k]
  <2>1. \A k \in a + 1..a + width : field[k] \in S \cup {space}
    BY <1>1, ElementOfSeq
  <2>2. part = [k \in 1..width |-> field[a + k]]
    BY <1>1, <2>1
  <2> HIDE DEF part
  <2> QED
    BY <2>2
<1> HIDE DEF part
<1>4. \A k \in 1..width : k <= size => part[k] = text[k] /\ part[k] # space
  <2> TAKE k \in 1..width
  <2>1. k <= size => k \in 1..size
    BY <1>2
  <2> HIDE DEF size
  <2> QED
    BY <1>1, <1>2, <1>3, <2>1, Zenon
<1>5. \A k \in 1..width : ~(k <= size) => part[k] = space
  BY <1>1, <1>3
<1>6. kept = 1..size
  <2>1. \A k \in 1..width : k \in kept <=> k <= size
    BY <1>3, <1>4, <1>5
  <2>2. kept \subseteq 1..width
    BY <1>3
  <2>3. \A k \in 1..size : k \in 1..width /\ k <= size
    BY <1>1, <1>2
  <2>4. \A k \in 1..width : k <= size => k \in 1..size
    BY <1>2
  <2> HIDE DEF kept, size
  <2>5. \A k \in kept : k \in 1..size
    BY <2>1, <2>2, <2>4, Zenon
  <2>6. \A k \in 1..size : k \in kept
    BY <2>1, <2>3, Zenon
  <2> QED
    BY <2>5, <2>6, Zenon
<1>7. Without(part, {space}) = [n \in 1..Cardinality(kept) |-> part[Min({k \in kept : upTo(k) = n})]]
  BY Zenon DEF Without
<1> HIDE DEF kept
<1>8. \A k \in 1..size : upTo(k) = k
  <2> TAKE k \in 1..size
  <2>1. {j \in kept : j <= k} = 1..k
    BY <1>2, <1>6
  <2>2. k \in Nat
    BY <1>2
  <2> QED
    BY <2>1, <2>2, Counted, Zenon
<1>9. Cardinality(kept) = size
  BY <1>2, <1>6, Counted
<1> HIDE DEF upTo
<1>10. ASSUME NEW n \in 1..size PROVE Min({k \in kept : upTo(k) = n}) = n
  <2>1. {k \in kept : upTo(k) = n} = {n}
    BY <1>6, <1>8
  <2>2. {n} \subseteq Int /\ \A y \in {n} : n <= y
    BY <1>2
  <2>3. Min({n}) = n
    BY <2>2, Zenon DEF Min
  <2> QED
    BY <2>1, <2>3, Zenon
<1>11. ASSUME NEW n \in 1..size PROVE part[Min({k \in kept : upTo(k) = n})] = text[n]
  <2>1. n \in 1..width /\ n <= size
    BY <1>1, <1>2
  <2> QED
    BY <1>4, <1>10, <2>1, Zenon
<1>12. Without(part, {space}) = [n \in 1..size |-> text[n]]
  BY <1>7, <1>9, <1>11
<1>13. [n \in 1..size |-> text[n]] = text
  OBVIOUS
<1> QED
  BY <1>12, <1>13 DEF part

(* The field holds its base and its extension. *)
LEMMA FieldUnpadded ==
    ASSUME NEW field, NEW base, NEW ext, IsField(field, base, ext)
    PROVE  /\ Unpadded(SubSeq(field, 1, Base)) = base
           /\ Unpadded(SubSeq(field, Base + 1, Base + Ext)) = ext
<1>1. /\ base \in Seq(NameChar) /\ Len(base) \in 1..Base
      /\ ext \in Seq(Letter) /\ Len(ext) \in 0..Ext
      /\ Len(field) = Base + Ext
      /\ \A k \in 1..Base + Ext : field[k] = FieldAt(base, ext, k)
  BY Zenon DEF IsField
<1>2. Base \in Nat /\ Ext \in Nat
  BY PlainCharacters
<1>3. ext \in Seq(NameChar)
  <2>1. Letter \subseteq NameChar
    BY PlainCharacters
  <2> QED
    BY <1>1, <2>1
<1>4. PICK space : space = " "
  OBVIOUS
<1>5. field \in Seq(NameChar \cup {space}) /\ space \notin NameChar
  BY <1>4, PlainCharacters, Zenon DEF IsField
<1>6. base \in Seq(NameChar) /\ ext \in Seq(NameChar) /\ field \in Seq(NameChar \cup {space}) /\ space \notin NameChar
  BY <1>1, <1>3, <1>5, Zenon
<1>7. Without(SubSeq(field, 1, Base), {space}) = base
  <2>1. \A k \in 1..Base : field[k] = IF k <= Len(base) THEN base[k] ELSE space
    <3> TAKE k \in 1..Base
    <3>1. k \in 1..Base + Ext /\ k <= Base
      BY <1>2
    <3> QED
      BY <1>1, <1>4, <3>1, Zenon DEF FieldAt
  <2>2. PICK a \in Nat, width \in Nat : a = 0 /\ width = Base
    BY <1>2
  <2>3. \A k \in 1..width : field[a + k] = IF k <= Len(base) THEN base[k] ELSE space
    BY <2>1, <2>2
  <2>4. Len(base) <= width /\ Len(field) >= a + width
    BY <1>1, <1>2, <2>2
  <2>5. PartIs(field, a, width, base, space)
    BY <2>3, <2>4, Zenon DEF PartIs
  <2>6. Without(SubSeq(field, a + 1, a + width), {space}) = base
    BY <1>6, <2>5, PartUnpadded
  <2>7. a + 1 = 1 /\ a + width = Base
    BY <1>2, <2>2
  <2> QED
    BY <2>6, <2>7, Zenon
<1>8. Without(SubSeq(field, Base + 1, Base + Ext), {space}) = ext
  <2>1. \A k \in 1..Ext : field[Base + k] = IF k <= Len(ext) THEN ext[k] ELSE space
    <3> TAKE k \in 1..Ext
    <3>1. PICK n \in Nat : n = Base + k
      BY <1>2
    <3>2. n \in 1..Base + Ext /\ ~(n <= Base) /\ n - Base = k
      BY <1>2, <3>1
    <3> QED
      BY <1>1, <1>4, <3>1, <3>2, Zenon DEF FieldAt
  <2>2. PICK a \in Nat, width \in Nat : a = Base /\ width = Ext
    BY <1>2
  <2>3. \A k \in 1..width : field[a + k] = IF k <= Len(ext) THEN ext[k] ELSE space
    BY <2>1, <2>2, Zenon
  <2>4. Len(ext) <= width /\ Len(field) >= a + width
    BY <1>1, <1>2, <2>2
  <2>5. PartIs(field, a, width, ext, space)
    BY <2>3, <2>4, Zenon DEF PartIs
  <2>6. Without(SubSeq(field, a + 1, a + width), {space}) = ext
    BY <1>6, <2>5, PartUnpadded
  <2> QED
    BY <2>2, <2>6, Zenon
<1> QED
  BY <1>4, <1>7, <1>8, Zenon DEF Unpadded

FieldRead(base, ext, k) ==
    /\ k <= Len(base) => /\ FieldAt(base, ext, k) = JoinedAt(base, ext, k)
                         /\ FieldAt(base, ext, k) # " "
    /\ k > Len(base) /\ k <= Base => FieldAt(base, ext, k) = " "
    /\ k > Base /\ k - Base <= Len(ext) =>
          /\ FieldAt(base, ext, k) = JoinedAt(base, ext, Len(base) + 1 + (k - Base))
          /\ FieldAt(base, ext, k) # " "
    /\ k > Base /\ k - Base > Len(ext) => FieldAt(base, ext, k) = " "

(* Where a field has spaces, and where its other characters come to stand. *)
LEMMA FieldIs ==
    ASSUME NEW field, NEW base, NEW ext, IsField(field, base, ext), NEW k \in 1..Base + Ext
    PROVE  FieldRead(base, ext, k)
<1>1. /\ base \in Seq(NameChar) /\ Len(base) \in 1..Base
      /\ ext \in Seq(Letter) /\ Len(ext) \in 0..Ext
  BY Zenon DEF IsField
<1>2. Base \in Nat /\ Ext \in Nat /\ Len(base) \in Nat /\ Len(ext) \in Nat
  BY <1>1, PlainCharacters, LenProperties
<1>3. ASSUME k <= Len(base)
      PROVE  FieldAt(base, ext, k) = JoinedAt(base, ext, k) /\ FieldAt(base, ext, k) # " "
  <2>1. k <= Base /\ k \in 1..Len(base)
    BY <1>1, <1>2, <1>3
  <2>2. FieldAt(base, ext, k) = base[k] /\ JoinedAt(base, ext, k) = base[k]
    BY <1>3, <2>1, Zenon DEF FieldAt, JoinedAt
  <2>3. base[k] \in NameChar
    BY <1>1, <2>1, ElementOfSeq
  <2>4. " " \notin NameChar
    BY PlainCharacters, Zenon
  <2> QED
    BY <2>2, <2>3, <2>4, Zenon
<1>4. ASSUME k > Len(base), k <= Base
      PROVE  FieldAt(base, ext, k) = " "
  <2>1. ~(k <= Len(base))
    BY <1>2, <1>4
  <2> QED
    BY <1>4, <2>1, Zenon DEF FieldAt
<1>5. ASSUME k > Base, k - Base <= Len(ext)
      PROVE  /\ FieldAt(base, ext, k) = JoinedAt(base, ext, Len(base) + 1 + (k - Base))
             /\ FieldAt(base, ext, k) # " "
  <2>1. PICK n \in Nat : n = Len(base) + 1 + (k - Base)
    BY <1>2, <1>5
  <2>2. ~(n <= Len(base)) /\ n # Len(base) + 1 /\ n - Len(base) - 1 = k - Base /\ ~(k <= Base)
    BY <1>2, <1>5, <2>1
  <2>3. k - Base \in 1..Len(ext)
    BY <1>2, <1>5
  <2>4. FieldAt(base, ext, k) = ext[k - Base]
    BY <1>5, <2>2, Zenon DEF FieldAt
  <2>5. JoinedAt(base, ext, n) = ext[k - Base]
    BY <2>2, Zenon DEF JoinedAt
  <2>6. ext[k - Base] \in Letter
    BY <1>1, <2>3, ElementOfSeq
  <2>7. " " \notin Letter
    BY PlainCharacters, Zenon
  <2> QED
    BY <2>1, <2>4, <2>5, <2>6, <2>7, Zenon
<1>6. ASSUME k > Base, k - Base > Len(ext)
      PROVE  FieldAt(base, ext, k) = " "
  <2>1. ~(k <= Base) /\ ~(k - Base <= Len(ext))
    BY <1>2, <1>6
  <2> QED
    BY <2>1, Zenon DEF FieldAt
<1> QED
  BY <1>3, <1>4, <1>5, <1>6, Zenon DEF FieldRead

(* The character between base and extension. *)
LEMMA PointIs ==
    ASSUME NEW field, NEW base, NEW ext, IsField(field, base, ext)
    PROVE  JoinedAt(base, ext, Len(base) + 1) = "."
<1>1. Len(base) \in Nat
  BY LenProperties DEF IsField
<1>2. ~(Len(base) + 1 <= Len(base))
  BY <1>1
<1> QED
  BY <1>2, Zenon DEF JoinedAt

(* A round of the loop, with the k-th character x. *)
RoundIs(k, m, name, x, mode2, name2) ==
    \/ /\ m = "before"
       /\ IF x = " " THEN mode2 = "spaces" /\ name2 = Append(name, ".")
          ELSE IF k = Base THEN mode2 = "extension in spaces" /\ name2 = name \o <<".", x>>
          ELSE name2 = Append(name, x) /\ mode2 = m
    \/ /\ m \in {"spaces", "extension in spaces"}
       /\ IF x = " " THEN mode2 = m /\ name2 = name
          ELSE mode2 = "extension" /\ name2 = Append(name, x)
    \/ /\ m = "extension"
       /\ IF x = " " THEN mode2 = "last" /\ name2 = name
          ELSE name2 = Append(name, x) /\ mode2 = m

(* Two characters that are appended. *)
LEMMA TwoAppended ==
    ASSUME NEW S, NEW name \in Seq(S), NEW x \in S, NEW y \in S
    PROVE  name \o <<x, y>> = Append(Append(name, x), y)
OBVIOUS

(* A round that reads the base, or what is behind it. *)
LEMMA BaseRound ==
    ASSUME NEW field, NEW base, NEW ext, IsField(field, base, ext), NEW k \in Nat, k < Base + Ext,
           NEW name, NEW x, x = FieldAt(base, ext, k + 1), NEW mode2, NEW name2,
           Joining(base, ext, k, "before", name), RoundIs(k, "before", name, x, mode2, name2)
    PROVE  mode2 \in Modes /\ Joining(base, ext, k + 1, mode2, name2)
<1>1. /\ base \in Seq(NameChar) /\ Len(base) \in 1..Base
      /\ ext \in Seq(Letter) /\ Len(ext) \in 0..Ext
  BY Zenon DEF IsField
<1>2. Base \in Nat /\ Ext \in Nat /\ Len(base) \in Nat /\ Len(ext) \in Nat
  BY <1>1, PlainCharacters, LenProperties
<1>3. k <= Len(base) /\ Begins(name, base, ext, k)
  BY DEF Joining
<1>4. PICK next \in Nat : next = k + 1
  OBVIOUS
<1>4a. PICK space : space = " "
  OBVIOUS
<1>5. next \in 1..Base + Ext
  BY <1>2, <1>4
<1>6. /\ next <= Len(base) => x = JoinedAt(base, ext, next) /\ x # space
      /\ next > Len(base) /\ next <= Base => x = space
      /\ next > Base /\ next - Base <= Len(ext) =>
            x = JoinedAt(base, ext, Len(base) + 1 + (next - Base)) /\ x # space
      /\ next > Base /\ next - Base > Len(ext) => x = space
  <2>1. PICK y : y = FieldAt(base, ext, next)
    OBVIOUS
  <2>2. y = x
    BY <1>4, <2>1, Zenon
  <2>3. FieldRead(base, ext, next)
    BY <1>5, FieldIs
  <2> QED
    BY <1>4a, <2>1, <2>2, <2>3, Zenon DEF FieldRead
<1>7. IF x = space THEN mode2 = "spaces" /\ name2 = Append(name, ".")
      ELSE IF k = Base THEN mode2 = "extension in spaces" /\ name2 = name \o <<".", x>>
      ELSE name2 = Append(name, x) /\ mode2 = "before"
  BY <1>4a, Zenon DEF RoundIs
<1>8. JoinedAt(base, ext, Len(base) + 1) = "."
  BY PointIs
<1>9. PICK point \in NameChar : point = "."
  BY PlainCharacters, Zenon
<1>10. CASE x = space
  <2>1. k = Len(base) /\ (next <= Base \/ Len(ext) = 0)
    <3>1. ~(next <= Len(base))
      BY <1>6, <1>10
    <3>2. ~(next > Base /\ next - Base <= Len(ext))
      BY <1>6, <1>10
    <3> QED
      BY <1>1, <1>2, <1>3, <1>4, <3>1, <3>2
  <2>2. Begins(Append(name, point), base, ext, k + 1)
    <3>1. point = JoinedAt(base, ext, k + 1)
      BY <1>8, <1>9, <2>1, Zenon
    <3>2. k < Len(base) + 1 + Len(ext)
      BY <1>2, <2>1
    <3> QED
      BY <1>3, <3>1, <3>2, NameGrows
  <2>3. Begins(name2, base, ext, Len(base) + 1)
    BY <1>7, <1>9, <1>10, <2>1, <2>2, Zenon
  <2>4. next > Len(base)
    BY <1>2, <1>4, <2>1
  <2>5. mode2 = "spaces"
    BY <1>7, <1>10
  <2> QED
    BY <1>4, <2>1, <2>3, <2>4, <2>5 DEF Joining, Modes
<1>11. CASE x # space /\ k = Base
  <2>1. next > Base /\ next - Base <= Len(ext) /\ Len(base) = Base /\ next - Base = 1 /\ Len(ext) > 0
    <3>1. ~(next > Base /\ next - Base > Len(ext))
      BY <1>6, <1>11
    <3> QED
      BY <1>1, <1>2, <1>3, <1>4, <1>11, <3>1
  <2>2. Begins(Append(name, point), base, ext, k + 1)
    <3>1. point = JoinedAt(base, ext, k + 1)
      BY <1>8, <1>9, <1>11, <2>1, Zenon
    <3>2. k < Len(base) + 1 + Len(ext)
      BY <1>2, <1>11, <2>1
    <3> QED
      BY <1>3, <3>1, <3>2, NameGrows
  <2>3. x = JoinedAt(base, ext, next + 1)
    <3>1. Len(base) + 1 + (next - Base) = next + 1
      BY <1>2, <2>1
    <3> QED
      BY <1>6, <2>1, <3>1, Zenon
  <2>4. next + 1 \in 1..Len(base) + 1 + Len(ext) /\ next < Len(base) + 1 + Len(ext)
    BY <1>2, <1>4, <2>1
  <2>5. x \in NameChar
    <3>1. PICK n \in Nat : n = next + 1
      OBVIOUS
    <3>2. JoinedAt(base, ext, n) \in NameChar
      BY <2>4, <3>1, JoinedIs
    <3> QED
      BY <2>3, <3>1, <3>2, Zenon
  <2>6. PICK longer \in Seq(NameChar) : longer = Append(name, point) /\ Begins(longer, base, ext, next)
    <3>1. Append(name, point) \in Seq(NameChar)
      BY <2>2, Zenon DEF Begins
    <3> QED
      BY <1>4, <2>2, <3>1, Zenon
  <2>7. Begins(Append(longer, x), base, ext, next + 1)
    BY <2>3, <2>4, <2>6, NameGrows
  <2>8. name2 = Append(longer, x)
    <3>1. name \in Seq(NameChar)
      BY <1>3, Zenon DEF Begins
    <3>2. name \o <<point, x>> = Append(Append(name, point), x)
      BY <2>5, <3>1, TwoAppended
    <3> QED
      BY <1>7, <1>9, <1>11, <2>6, <3>2, Zenon
  <2>9. next + 1 = Len(base) + 2
    BY <1>2, <1>4, <1>11, <2>1
  <2>10. Begins(name2, base, ext, Len(base) + 2)
    BY <2>7, <2>8, <2>9, Zenon
  <2>11. mode2 = "extension in spaces"
    BY <1>7, <1>11
  <2>12. k + 1 = Base + 1 /\ k + 1 > Base
    BY <1>2, <1>11
  <2> QED
    BY <2>1, <2>10, <2>11, <2>12 DEF Joining, Modes
<1>12. CASE x # space /\ k # Base
  <2>1. next <= Len(base)
    <3>1. ~(next > Len(base) /\ next <= Base)
      BY <1>6, <1>12
    <3> QED
      BY <1>1, <1>2, <1>3, <1>4, <1>12, <3>1
  <2>2. k < Len(base) + 1 + Len(ext)
    BY <1>2, <1>3
  <2>3. x = JoinedAt(base, ext, k + 1)
    BY <1>4, <1>6, <2>1, Zenon
  <2>4. Begins(Append(name, x), base, ext, k + 1)
    BY <1>3, <2>2, <2>3, NameGrows
  <2>5. mode2 = "before" /\ name2 = Append(name, x)
    BY <1>7, <1>12
  <2>6. k + 1 <= Len(base) /\ Begins(name2, base, ext, k + 1)
    BY <1>4, <2>1, <2>4, <2>5
  <2> QED
    BY <2>5, <2>6 DEF Joining, Modes
<1> QED
  BY <1>10, <1>11, <1>12

(* The widths of the two parts. *)
LEMMA FieldWidths ==
    ASSUME NEW field, NEW base, NEW ext, IsField(field, base, ext)
    PROVE  /\ Base \in Nat /\ Ext \in Nat /\ Ext >= 1 /\ Len(base) \in Nat /\ Len(ext) \in Nat
           /\ 1 <= Len(base) /\ Len(base) <= Base /\ Len(ext) <= Ext
<1>1. Len(base) \in 1..Base /\ Len(ext) \in 0..Ext
  BY Zenon DEF IsField
<1>2. Base \in Nat /\ Ext \in Nat /\ Ext >= 1
  BY PlainCharacters, Zenon
<1> QED
  BY <1>1, <1>2

(* Where the extension begins when the base fills its part. *)
LEMMA FullBase ==
    ASSUME NEW k \in Nat, NEW size \in Nat, NEW width \in Nat, k > width, size > 0, k = width + 1 \/ size = 1
    PROVE  /\ ~(k + 1 > width /\ k + 1 - width <= size) => k + 1 > width /\ size = 1
           /\ ~(k + 1 > width /\ k + 1 - width > size) =>
                 k = width + 1 /\ k + 1 > width /\ k + 1 - width = 2 /\ k + 1 - width <= size
OBVIOUS

ExtensionModes == {"spaces", "extension in spaces", "extension"}

(* A round that reads the spaces behind the base, or the extension. *)
LEMMA ExtensionRound ==
    ASSUME NEW field, NEW base, NEW ext, IsField(field, base, ext), NEW k \in Nat, k < Base + Ext,
           NEW m, m \in ExtensionModes,
           NEW name, NEW x, x = FieldAt(base, ext, k + 1), NEW mode2, NEW name2,
           Joining(base, ext, k, m, name), RoundIs(k, m, name, x, mode2, name2)
    PROVE  mode2 \in Modes /\ Joining(base, ext, k + 1, mode2, name2)
<1>1. 1 <= Len(base) /\ Len(base) <= Base /\ Len(ext) <= Ext
  BY FieldWidths, Zenon
<1>2. Base \in Nat /\ Ext \in Nat /\ Len(base) \in Nat /\ Len(ext) \in Nat
  BY FieldWidths, Zenon
<1>3. PICK next \in Nat : next = k + 1
  OBVIOUS
<1>4. PICK space : space = " "
  OBVIOUS
<1>5. next \in 1..Base + Ext
  BY <1>2, <1>3
<1>6. /\ next <= Len(base) => x = JoinedAt(base, ext, next) /\ x # space
      /\ next > Len(base) /\ next <= Base => x = space
      /\ next > Base /\ next - Base <= Len(ext) =>
            x = JoinedAt(base, ext, Len(base) + 1 + (next - Base)) /\ x # space
      /\ next > Base /\ next - Base > Len(ext) => x = space
  <2>1. PICK y : y = FieldAt(base, ext, next)
    OBVIOUS
  <2>2. y = x
    BY <1>3, <2>1, Zenon
  <2>3. FieldRead(base, ext, next)
    BY <1>5, FieldIs
  <2> QED
    BY <1>4, <2>1, <2>2, <2>3, Zenon DEF FieldRead
(* The next character of the extension is put behind the n characters there are. *)
<1>7. ASSUME NEW n \in Nat, next > Base, next - Base <= Len(ext),
             n + 1 = Len(base) + 1 + (next - Base), Begins(name, base, ext, n)
      PROVE  Joining(base, ext, next, "extension", Append(name, x))
  <2>1. n < Len(base) + 1 + Len(ext)
    BY <1>2, <1>7
  <2>2. x = JoinedAt(base, ext, n + 1)
    BY <1>6, <1>7, Zenon
  <2>3. Begins(Append(name, x), base, ext, n + 1)
    BY <1>7, <2>1, <2>2, NameGrows
  <2>4. Begins(Append(name, x), base, ext, Len(base) + 1 + (next - Base))
    BY <1>7, <2>3, Zenon
  <2> QED
    BY <1>7, <2>4 DEF Joining
<1>8. CASE m = "spaces"
  <2>1. k > Len(base) /\ (k <= Base \/ Len(ext) = 0) /\ Begins(name, base, ext, Len(base) + 1)
    BY <1>8 DEF Joining
  <2>2. IF x = space THEN mode2 = "spaces" /\ name2 = name
        ELSE mode2 = "extension" /\ name2 = Append(name, x)
    BY <1>4, <1>8, Zenon DEF RoundIs
  <2>3. CASE x = space
    <3>1. ~(next > Base /\ next - Base <= Len(ext))
      BY <1>6, <2>3
    <3>2. next > Len(base) /\ (next <= Base \/ Len(ext) = 0)
      BY <1>2, <1>3, <2>1, <3>1
    <3>3. mode2 = "spaces" /\ name2 = name
      BY <2>2, <2>3
    <3>4. Begins(name2, base, ext, Len(base) + 1)
      BY <2>1, <3>3
    <3> QED
      BY <1>3, <3>2, <3>3, <3>4 DEF Joining, Modes
  <2>4. CASE x # space
    <3>1. ~(next > Len(base) /\ next <= Base) /\ ~(next > Base /\ next - Base > Len(ext))
      BY <1>6, <2>4
    <3>2. k = Base /\ next > Base /\ next - Base = 1 /\ next - Base <= Len(ext)
      BY <1>1, <1>2, <1>3, <2>1, <3>1
    <3>3. PICK n \in Nat : n = Len(base) + 1
      BY <1>2
    <3>4. n + 1 = Len(base) + 1 + (next - Base)
      BY <1>2, <3>2, <3>3
    <3>5. Begins(name, base, ext, n)
      BY <2>1, <3>3, Zenon
    <3>6. Joining(base, ext, next, "extension", Append(name, x))
      BY <1>7, <3>2, <3>4, <3>5
    <3>7. mode2 = "extension" /\ name2 = Append(name, x)
      BY <2>2, <2>4
    <3> QED
      BY <1>3, <3>6, <3>7 DEF Modes
  <2> QED
    BY <2>3, <2>4
<1>9. CASE m = "extension in spaces"
  <2>1. /\ k > Base /\ Len(base) = Base /\ Len(ext) > 0 /\ (k = Base + 1 \/ Len(ext) = 1)
        /\ Begins(name, base, ext, Len(base) + 2)
    BY <1>9 DEF Joining
  <2>2. IF x = space THEN mode2 = "extension in spaces" /\ name2 = name
        ELSE mode2 = "extension" /\ name2 = Append(name, x)
    BY <1>4, <1>9, Zenon DEF RoundIs
  <2>3. CASE x = space
    <3>1. ~(next > Base /\ next - Base <= Len(ext))
      BY <1>6, <2>3
    <3>2. next > Base /\ Len(ext) = 1
      <4>1. k > Base /\ Len(ext) > 0 /\ (k = Base + 1 \/ Len(ext) = 1)
        BY <2>1, Zenon
      <4>2. PICK size \in Nat : size = Len(ext)
        BY <1>2, Zenon
      <4>3. k > Base /\ size > 0 /\ (k = Base + 1 \/ size = 1)
        BY <4>1, <4>2, Zenon
      <4>4. Base \in Nat
        BY <1>2, Zenon
      <4>5. PICK width \in Nat : width = Base
        BY <4>4, Zenon
      <4>6. k > width /\ size > 0 /\ (k = width + 1 \/ size = 1)
        BY <4>3, <4>5, Zenon
      <4>7. /\ ~(k + 1 > width /\ k + 1 - width <= size) => k + 1 > width /\ size = 1
            /\ ~(k + 1 > width /\ k + 1 - width > size) =>
                  k = width + 1 /\ k + 1 > width /\ k + 1 - width = 2 /\ k + 1 - width <= size
        BY <4>6, FullBase
      <4>8. ~(next > width /\ next - width <= size)
        BY <3>1, <4>2, <4>5, Zenon
      <4>9. next > width /\ size = 1
        BY <1>3, <4>7, <4>8
      <4> QED
        BY <4>2, <4>5, <4>9, Zenon
    <3>3. mode2 = "extension in spaces" /\ name2 = name
      BY <2>2, <2>3
    <3>4. Begins(name2, base, ext, Len(base) + 2)
      BY <2>1, <3>3
    <3> QED
      BY <1>3, <2>1, <3>2, <3>3, <3>4 DEF Joining, Modes
  <2>4. CASE x # space
    <3>1. ~(next > Base /\ next - Base > Len(ext))
      BY <1>6, <2>4
    <3>2. k = Base + 1 /\ next > Base /\ next - Base = 2 /\ next - Base <= Len(ext)
      <4>1. k > Base /\ Len(ext) > 0 /\ (k = Base + 1 \/ Len(ext) = 1)
        BY <2>1, Zenon
      <4>2. PICK size \in Nat : size = Len(ext)
        BY <1>2, Zenon
      <4>3. k > Base /\ size > 0 /\ (k = Base + 1 \/ size = 1)
        BY <4>1, <4>2, Zenon
      <4>4. Base \in Nat
        BY <1>2, Zenon
      <4>5. PICK width \in Nat : width = Base
        BY <4>4, Zenon
      <4>6. k > width /\ size > 0 /\ (k = width + 1 \/ size = 1)
        BY <4>3, <4>5, Zenon
      <4>7. /\ ~(k + 1 > width /\ k + 1 - width <= size) => k + 1 > width /\ size = 1
            /\ ~(k + 1 > width /\ k + 1 - width > size) =>
                  k = width + 1 /\ k + 1 > width /\ k + 1 - width = 2 /\ k + 1 - width <= size
        BY <4>6, FullBase
      <4>8. ~(next > width /\ next - width > size)
        BY <3>1, <4>2, <4>5, Zenon
      <4>9. k = width + 1 /\ next > width /\ next - width = 2 /\ next - width <= size
        BY <1>3, <4>7, <4>8
      <4> QED
        BY <4>2, <4>5, <4>9, Zenon
    <3>3. PICK n \in Nat : n = Len(base) + 2
      BY <1>2
    <3>4. n + 1 = Len(base) + 1 + (next - Base)
      BY <1>2, <3>2, <3>3
    <3>5. Begins(name, base, ext, n)
      BY <2>1, <3>3, Zenon
    <3>6. Joining(base, ext, next, "extension", Append(name, x))
      BY <1>7, <3>2, <3>4, <3>5
    <3>7. mode2 = "extension" /\ name2 = Append(name, x)
      BY <2>2, <2>4
    <3> QED
      BY <1>3, <3>6, <3>7 DEF Modes
  <2> QED
    BY <2>3, <2>4
<1>10. CASE m = "extension"
  <2>1. k > Base /\ k - Base <= Len(ext) /\ Begins(name, base, ext, Len(base) + 1 + (k - Base))
    BY <1>10 DEF Joining
  <2>2. IF x = space THEN mode2 = "last" /\ name2 = name
        ELSE mode2 = "extension" /\ name2 = Append(name, x)
    BY <1>4, <1>10, Zenon DEF RoundIs
  <2>3. CASE x = space
    <3>1. ~(next > Base /\ next - Base <= Len(ext))
      BY <1>6, <2>3
    <3>2. k - Base = Len(ext)
      BY <1>2, <1>3, <2>1, <3>1
    <3>3. mode2 = "last" /\ name2 = name
      BY <2>2, <2>3
    <3>4. Begins(name2, base, ext, Len(base) + 1 + Len(ext))
      BY <2>1, <3>2, <3>3
    <3> QED
      BY <3>3, <3>4 DEF Joining, Modes
  <2>4. CASE x # space
    <3>1. ~(next > Base /\ next - Base > Len(ext))
      BY <1>6, <2>4
    <3>2. next > Base /\ next - Base <= Len(ext)
      BY <1>2, <1>3, <2>1, <3>1
    <3>3. PICK n \in Nat : n = Len(base) + 1 + (k - Base)
      BY <1>2, <2>1
    <3>4. n + 1 = Len(base) + 1 + (next - Base)
      BY <1>2, <1>3, <3>3
    <3>5. Begins(name, base, ext, n)
      BY <2>1, <3>3, Zenon
    <3>6. Joining(base, ext, next, "extension", Append(name, x))
      BY <1>7, <3>2, <3>4, <3>5
    <3>7. mode2 = "extension" /\ name2 = Append(name, x)
      BY <2>2, <2>4
    <3> QED
      BY <1>3, <3>6, <3>7 DEF Modes
  <2> QED
    BY <2>3, <2>4
<1> QED
  BY <1>8, <1>9, <1>10, Zenon DEF ExtensionModes

(* At the end of the field, or of the extension, the whole name is there but for its end. *)
LEMMA NameWhole ==
    ASSUME NEW field, NEW base, NEW ext, IsField(field, base, ext), NEW k \in Nat, NEW m \in Modes, NEW name,
           Joining(base, ext, k, m, name), m # "end", k = Base + Ext \/ m = "last", k <= Base + Ext
    PROVE  Begins(name, base, ext, Len(base) + 1 + Len(ext))
<1>1. 1 <= Len(base) /\ Len(base) <= Base /\ Len(ext) <= Ext
  BY FieldWidths, Zenon
<1>2. Base \in Nat /\ Ext \in Nat /\ Ext >= 1 /\ Len(base) \in Nat /\ Len(ext) \in Nat
  BY FieldWidths, Zenon
<1>3. CASE m = "before" /\ k = Base + Ext
  <2>1. k <= Len(base)
    BY <1>3 DEF Joining
  <2> QED
    BY <1>1, <1>2, <1>3, <2>1
<1>4. CASE m = "spaces" /\ k = Base + Ext
  <2>1. (k <= Base \/ Len(ext) = 0) /\ Begins(name, base, ext, Len(base) + 1)
    BY <1>4 DEF Joining
  <2>2. Len(base) + 1 = Len(base) + 1 + Len(ext)
    BY <1>2, <1>4, <2>1
  <2> QED
    BY <2>1, <2>2, Zenon
<1>5. CASE m = "extension in spaces" /\ k = Base + Ext
  <2>1. Len(ext) > 0 /\ (k = Base + 1 \/ Len(ext) = 1) /\ Begins(name, base, ext, Len(base) + 2)
    BY <1>5 DEF Joining
  <2>2. Len(base) + 2 = Len(base) + 1 + Len(ext)
    <3>1. PICK size \in Nat : size = Len(ext)
      BY <1>2, Zenon
    <3>2. size > 0 /\ (k = Base + 1 \/ size = 1) /\ k = Base + Ext /\ size <= Ext
      BY <1>1, <1>5, <2>1, <3>1, Zenon
    <3>3. size = 1
      BY <1>2, <3>2
    <3> QED
      BY <1>2, <3>1, <3>3
  <2> QED
    BY <2>1, <2>2, Zenon
<1>6. CASE m = "extension" /\ k = Base + Ext
  <2>1. k - Base <= Len(ext) /\ Begins(name, base, ext, Len(base) + 1 + (k - Base))
    BY <1>6 DEF Joining
  <2>2. k - Base = Len(ext)
    BY <1>1, <1>2, <1>6, <2>1
  <2> QED
    BY <2>1, <2>2, Zenon
<1>7. CASE m = "last"
  BY <1>7 DEF Joining
<1> QED
  BY <1>3, <1>4, <1>5, <1>6, <1>7 DEF Modes

(* Every field the function is given is a base and an extension, padded. *)
LEMMA FieldsAre ==
    ASSUME NameInit
    PROVE  NameInv
<1>1. Base \in Nat /\ Base >= 2 /\ Ext \in Nat /\ Letter \subseteq NameChar
  BY PlainCharacters
<1>2. index = 0 /\ mode = "before" /\ filename = <<>>
  BY DEF NameInit
<1>3. \E base \in Seq(NameChar), ext \in Seq(Letter) : IsField(nameext, base, ext)
  <2>1. ASSUME NEW base \in PlainNames(Base) \ {<<>>}, NEW ext \in PlainNames(Ext),
               nameext = Padded(base, Base) \o Padded(ext, Ext)
        PROVE  \E b \in Seq(NameChar), e \in Seq(Letter) : IsField(nameext, b, e)
    <3>1. PICK n \in 0..Base : base \in [1..n -> Letter]
      BY DEF PlainNames
    <3>2. PICK n2 \in 0..Ext : ext \in [1..n2 -> Letter]
      BY DEF PlainNames
    <3>3. base \in Seq(Letter) /\ Len(base) = n
      BY <1>1, <3>1
    <3>4. ext \in Seq(Letter) /\ Len(ext) = n2
      BY <1>1, <3>2
    <3>5. Len(base) \in 1..Base /\ Len(ext) \in 0..Ext
      <4>1. base # <<>>
        OBVIOUS
      <4>2. Len(base) # 0
        BY <3>3, <4>1, EmptySeq
      <4> QED
        BY <1>1, <3>3, <3>4, <4>2
    <3>6. base \in Seq(NameChar)
      BY <1>1, <3>3
    <3>7. IsField(Padded(base, Base) \o Padded(ext, Ext), base, ext)
      BY <3>4, <3>5, <3>6, FieldOfName
    <3> QED
      BY <2>1, <3>4, <3>6, <3>7, Zenon
  <2>2. ASSUME NEW base \in Seq(NameChar), Len(base) \in 1..Base, nameext = Padded(base, Base + Ext)
        PROVE  \E b \in Seq(NameChar), e \in Seq(Letter) : IsField(nameext, b, e)
    <3>1. IsField(Padded(base, Base + Ext), base, <<>>)
      BY <2>2, FieldOfDots
    <3>2. <<>> \in Seq(Letter)
      BY EmptySeq
    <3> QED
      BY <2>2, <3>1, <3>2, Zenon
  <2>3. PICK point \in NameChar : point = "."
    BY PlainCharacters, Zenon
  <2>4. <<point>> \in Seq(NameChar) /\ Len(<<point>>) \in 1..Base
    BY <1>1
  <2>5. <<point, point>> \in Seq(NameChar) /\ Len(<<point, point>>) \in 1..Base
    BY <1>1
  <2>6. \/ \E base \in PlainNames(Base) \ {<<>>}, ext \in PlainNames(Ext) :
              nameext = Padded(base, Base) \o Padded(ext, Ext)
        \/ nameext = Padded(<<point>>, Base + Ext)
        \/ nameext = Padded(<<point, point>>, Base + Ext)
    BY <2>3, Zenon DEF NameInit
  <2> QED
    BY <2>1, <2>2, <2>4, <2>5, <2>6, Zenon
<1>4. PICK base \in Seq(NameChar), ext \in Seq(Letter) : IsField(nameext, base, ext)
  BY <1>3
<1>5. Begins(<<>>, base, ext, 0)
  <2>1. <<>> \in Seq(NameChar) /\ Len(<<>>) = 0
    BY EmptySeq
  <2> QED
    BY <2>1 DEF Begins
<1>6. Joining(base, ext, 0, "before", <<>>)
  <2>1. Len(base) \in Nat
    BY LenProperties
  <2>2. 0 <= Len(base)
    BY <2>1
  <2> QED
    BY <1>5, <2>2 DEF Joining
<1>7. 0 \in 0..Base + Ext /\ "before" \in Modes
  BY <1>1 DEF Modes
<1> QED
  BY <1>2, <1>4, <1>6, <1>7, Zenon DEF NameInv

(* A round keeps the invariant. *)
LEMMA RoundKeeps ==
    ASSUME NameInv, Round
    PROVE  NameInv'
<1>1. PICK base \in Seq(NameChar), ext \in Seq(Letter) :
         /\ IsField(nameext, base, ext)
         /\ index \in 0..Base + Ext /\ mode \in Modes
         /\ Joining(base, ext, index, mode, filename)
  BY DEF NameInv
<1>2. /\ index < Base + Ext /\ mode \notin {"last", "end"}
      /\ index' = index + 1 /\ nameext' = nameext
  BY DEF Round
<1>3. RoundIs(index, mode, filename, ch, mode', filename')
  <2>1. BeforeExtension \/ InSpaces \/ InExtension
    BY DEF Round
  <2> QED
    BY <2>1, Zenon DEF BeforeExtension, InSpaces, InExtension, RoundIs
<1>4. Base \in Nat /\ Ext \in Nat
  BY PlainCharacters
<1>5. index \in Nat /\ index + 1 \in 1..Base + Ext /\ index + 1 \in 0..Base + Ext
  BY <1>1, <1>2, <1>4
<1>6. ch = FieldAt(base, ext, index + 1)
  BY <1>1, <1>5, Zenon DEF ch, IsField
<1>7. PICK field \in {nameext}, k \in Nat, m \in Modes, name \in {filename}, x \in {ch},
           mode2 \in {mode'}, name2 \in {filename'} :
         field = nameext /\ k = index /\ m = mode /\ name = filename /\ x = ch /\ mode2 = mode' /\ name2 = filename'
  BY <1>1, <1>5, Zenon
<1>8. /\ IsField(field, base, ext) /\ k < Base + Ext /\ x = FieldAt(base, ext, k + 1)
      /\ Joining(base, ext, k, m, name) /\ RoundIs(k, m, name, x, mode2, name2)
  BY <1>1, <1>2, <1>3, <1>6, <1>7, Zenon
<1>9. mode2 \in Modes /\ Joining(base, ext, k + 1, mode2, name2)
  <2>1. CASE m = "before"
    <3>1. Joining(base, ext, k, "before", name) /\ RoundIs(k, "before", name, x, mode2, name2)
      BY <1>8, <2>1, Zenon
    <3> QED
      BY <1>8, <3>1, BaseRound
  <2>2. CASE m # "before"
    <3>1. m \in ExtensionModes
      BY <1>2, <1>7, <2>2 DEF Modes, ExtensionModes
    <3> QED
      BY <1>8, <3>1, ExtensionRound
  <2> QED
    BY <2>1, <2>2
<1>10. IsField(nameext', base, ext) /\ index' \in 0..Base + Ext /\ mode' \in Modes
       /\ Joining(base, ext, index', mode', filename')
  BY <1>1, <1>2, <1>5, <1>7, <1>9, Zenon
<1> QED
  BY <1>10, Zenon DEF NameInv

(* The end of the name. *)
LEMMA FinishKeeps ==
    ASSUME NameInv, Finish, mode # "end"
    PROVE  NameInv'
<1>1. PICK base \in Seq(NameChar), ext \in Seq(Letter) :
         /\ IsField(nameext, base, ext)
         /\ index \in 0..Base + Ext /\ mode \in Modes
         /\ Joining(base, ext, index, mode, filename)
  BY DEF NameInv
<1>2. /\ index = Base + Ext \/ mode = "last"
      /\ mode' = "end" /\ index' = index /\ nameext' = nameext
      /\ filename' = IF Last(filename) = "." THEN Front(filename) ELSE filename
  BY Zenon DEF Finish
<1>3. PICK field \in {nameext}, k \in {index}, m \in Modes, name \in {filename} :
         field = nameext /\ k = index /\ m = mode /\ name = filename
  BY <1>1, Zenon
<1>4. Begins(name, base, ext, Len(base) + 1 + Len(ext))
  <2>1. Base \in Nat /\ Ext \in Nat
    BY PlainCharacters
  <2>2. k \in Nat /\ k <= Base + Ext
    BY <1>1, <1>3, <2>1
  <2>3. /\ IsField(field, base, ext) /\ Joining(base, ext, k, m, name)
        /\ m # "end" /\ (k = Base + Ext \/ m = "last")
    BY <1>1, <1>2, <1>3, Zenon
  <2> QED
    BY <2>2, <2>3, NameWhole
<1>5. (IF Last(name) = "." THEN Front(name) ELSE name)
         = base \o (IF ext = <<>> THEN <<>> ELSE <<".">> \o ext)
  <2>1. IsField(field, base, ext)
    BY <1>1, <1>3, Zenon
  <2> QED
    BY <1>4, <2>1, NameFinished, Zenon
<1>6. filename' = base \o (IF ext = <<>> THEN <<>> ELSE <<".">> \o ext)
  BY <1>2, <1>3, <1>5, Zenon
<1>7. Joining(base, ext, index, "end", filename')
  <2>1. PICK k2 \in {index}, name2 \in {filename'} : k2 = index /\ name2 = filename'
    OBVIOUS
  <2>2. name2 = base \o (IF ext = <<>> THEN <<>> ELSE <<".">> \o ext)
    BY <1>6, <2>1, Zenon
  <2>3. /\ "end" # "before" /\ "end" # "spaces" /\ "end" # "extension in spaces"
        /\ "end" # "extension" /\ "end" # "last"
    OBVIOUS
  <2>4. Joining(base, ext, k2, "end", name2)
    BY <2>2, <2>3, Zenon DEF Joining
  <2> QED
    BY <2>1, <2>4, Zenon
<1>8. "end" \in Modes
  BY DEF Modes
<1>9. IsField(nameext', base, ext) /\ index' \in 0..Base + Ext /\ mode' \in Modes
      /\ Joining(base, ext, index', mode', filename')
  BY <1>1, <1>2, <1>7, <1>8, Zenon
<1> QED
  BY <1>9, Zenon DEF NameInv

(* The loop of fat32_nameext_to_name: in each of its modes it has written as much of
   base, point and extension as it has read of the field. *)
THEOREM NameInvariant == NameSpec => []NameInv
<1>1. NameInit => NameInv
  BY FieldsAre
<1>2. NameInv /\ [NameNext]_nameVars => NameInv'
  <2> SUFFICES ASSUME NameInv, [NameNext]_nameVars PROVE NameInv'
    OBVIOUS
  <2>1. CASE Round
    BY <2>1, RoundKeeps
  <2>2. CASE Finish /\ mode # "end"
    BY <2>2, FinishKeeps
  <2>3. CASE NameDone \/ UNCHANGED nameVars
    <3>1. nameext' = nameext /\ index' = index /\ mode' = mode /\ filename' = filename
      BY <2>3 DEF NameDone, nameVars
    <3> QED
      BY <3>1, Zenon DEF NameInv
  <2> QED
    BY <2>1, <2>2, <2>3 DEF NameNext
<1> QED
  BY <1>1, <1>2, PTL DEF NameSpec

(* The file name is the base of the field, and a point and its extension if it has one,
   whatever their widths; a base of full width is the case the code treats apart. *)
THEOREM NameJoined == NameSpec => []NameIsJoined
<1>1. NameInv => NameIsJoined
  <2> SUFFICES ASSUME NameInv, mode = "end"
               PROVE  LET base == Unpadded(SubSeq(nameext, 1, Base))
                          ext == Unpadded(SubSeq(nameext, Base + 1, Base + Ext))
                      IN  filename = base \o (IF ext = <<>> THEN <<>> ELSE <<".">> \o ext)
    BY Zenon DEF NameIsJoined
  <2>1. PICK base \in Seq(NameChar), ext \in Seq(Letter) :
           IsField(nameext, base, ext) /\ Joining(base, ext, index, "end", filename)
    BY Zenon DEF NameInv
  <2>2. PICK field \in {nameext} : field = nameext
    OBVIOUS
  <2>3. IsField(field, base, ext)
    BY <2>1, <2>2, Zenon
  <2>4. Unpadded(SubSeq(field, 1, Base)) = base /\ Unpadded(SubSeq(field, Base + 1, Base + Ext)) = ext
    BY <2>3, FieldUnpadded
  <2>5. filename = base \o (IF ext = <<>> THEN <<>> ELSE <<".">> \o ext)
    BY <2>1, Zenon DEF Joining
  <2> QED
    BY <2>2, <2>4, <2>5, Zenon
<1> QED
  BY <1>1, NameInvariant, PTL
=============================================================================
