# A verification project for LuhOS32

LuhOS32 is a small 32-bit x86 kernel in C and assembly. It boots through
multiboot2, sets up a page allocator, paging and a heap, finds a disk, mounts a
FAT32 partition, loads one flat binary into an address space of its own and
enters it in user mode. It also contains a kernel shell on a keyboard and a text
terminal, which in this version of `kernel_main` comes after the call that never
returns.

The directory holds TLA+ modules that model parts of that kernel, TLC
configurations that check them on small instances, and proofs that TLAPS checks.
Names of actions and variables follow the C code (`page_alloc` is `PageAlloc`,
`last_index` is `last_index`); `PROJECT.json` maps every definition to the lines
it models.

## 1. Inventory

The kernel is single-threaded: there is one processor, no preemption of kernel
code, and interrupts are off from `kernel_main`'s first line (`kernel.c:39`)
until `task_return` sets the interrupt flag for user mode; `enable_interrupts`
is never called. What is hard in it is therefore mostly *sequences* of legal
calls, failures half-way, arithmetic at boundaries and state that several parts
share, and only at the edge (interrupts against user mode, keyboard handler
against reader) interleaving.

| Part | Code | State | Operations |
|---|---|---|---|
| heap | `sys/heap.c` | doubly linked list of chunk headers in 256 KiB of virtual memory | `heap_init`, `kmalloc`, `kmalloc_aligned`, `krealloc`, `kcalloc`, `kfree` |
| page allocator | `mem/page_allocator.c` | bitmap, page count, search cursor | `page_alloc_init`, `page_alloc`, `page_free`, `page_reserve` |
| paging | `arch/i686/paging.c`, `paging.asm` | directories and tables in RAM, the loaded directory | create, free, switch, map, translate |
| tasks | `sys/task.c`, `arch/i686/task.asm` | task list, head, tail, current task, saved registers | `task_new`, `task_free`, `task_get_next`, `task_switch`, `task_run_first_task` |
| processes | `sys/process.c` | 128 slots | `process_load` and its steps |
| boot | `sys/kernel.c`, `multiboot2.S` | the order of initialisation | `kernel_main` |
| interrupts | `isr.c`, `idt.c`, `interrupts.asm` | gate table, handler table, masks of the controller | `isr_handler`, `irq_handler`, `register_interrupt_handler` |
| segmentation, ports | `gdt.c`, `gdt.S`, `tss.asm`, `ports.c` | constant tables | `segmentation_init`, port accesses |
| keyboard, input devices | `keyboard.c`, `input_device.c` | queue of 255 scan codes, device table | `keyboard_irq`, `get_event`, registration |
| shell | `sys/shell.c` | input line, parsed command | line editing, `parse_command`, `process_command` |
| terminal | `sys/tty.c`, `char_device.c`, `ega_driver.c` | cursor, colour, escape state, screen | `kput_char`, `scroll_screen`, `kprintf` |
| FAT32 | `fs/fat32.c` | boot sector, nodes, disk contents (read only) | `open`, `close`, `read`, `readdir`, `finddir` |
| virtual file system | `fs/vfs.c` | root node, function pointers of a node | dispatch |
| initial ram disk | `fs/initrd.c`, `tools/initrd_gen` | header table | read, readdir, finddir; the generator |
| block devices, partitions | `block_device.c`, `fs/mbr.c` | two device tables | registration, request submission, MBR scan |
| IDE | `ide.c` | none beside the controller's registers | identify, read a block, write a block |
| PCI | `pci.c` | none | enumeration, printing |
| library | `string.c`, `cast.c`, `ascii.c` | `strtok`'s position | string, number and key conversions |

How they interact:

- `page_alloc` is called by `page_directory_create`, by `heap_init` (one page of
  RAM per heap page) and by a shell command. `page_reserve` is called by
  `kernel_main` only, before anything is allocated.
- Page tables are written through pointers that hold physical addresses. That
  works because the kernel's directory maps all of RAM onto itself.
- The binary of a process is read from the file system into a page-aligned heap
  block. `process_map_binary` translates the first page of the block and maps
  the following pages of RAM at `0x400000` of the task's directory.
- `task_free` is called in one place, when `process_load_for_slot` fails after
  the task was made.
- `irq_handler` loads the kernel's directory on every interrupt.
- `kmalloc` panics instead of returning NULL; all NULL checks on it are dead.

What makes each part correct, and what is hard about it, in short (the full list
with lines is `hazards` in `PROJECT.json`):

- *heap*: the headers tile the heap and are linked both ways after any sequence
  of calls; neighbours are never both free; a caller's bytes are its own; a
  panic means there was no room. Hard: two-sided merges, splits that leave a
  chunk of one byte, the moved pointer of `kmalloc_aligned`, `krealloc` holding
  two blocks.
- *page allocator*: a page has one owner and the bitmap says so; the bitmap
  itself lies on nobody's page; a panic means no page is left. Hard: entries of
  the memory map that are not page aligned, the cursor.
- *paging*: a physical address is a valid pointer at all times; no page is both a
  table and something else; a task reaches its binary and can write nothing else;
  what is freed can be used again. Hard: building a directory while another one
  is loaded, the order of frees, running out of pages in the middle.
- *tasks, processes*: the list holds the tasks of the processes, a turn goes to a
  task that exists, a process in a slot is whole whatever failed in between.
- *interrupts*: user code goes on in its own address space.
- *keyboard*: the array is a queue whatever the handler does between two loads of
  the reader; every code taken is delivered.
- *shell*: the line in memory is the line on the screen, in every order of typing
  and erasing; a command gets all its words; every early return gives back what
  was taken.
- *terminal*: the screen is a window on the page that was printed, in every order
  of wrapping, scrolling and rubbing out; a broken escape sequence in a file does
  not colour the prompt.
- *file system*: a lookup, a listing and a read agree with the volume whatever the
  chains look like, and end. Hard: names in several slots, removed entries,
  boundaries of clusters, chains that are followed byte by byte.
- *disks*: the driver follows the controller's protocol at any speed of the
  controller, failures reach the caller, every partition is found once.
- *initial ram disk*: generator and reader agree on where the bytes of a file are.
- *library*: overlapping copies, comparisons that are cut off, numbers at the ends
  of their range.

## 2. Plan

Modules, in the order they are written. "x" marks what exists.

| | Module | Models | Built on |
|---|---|---|---|
| x | `BlockPool` | what a heap promises (abstract) | |
| x | `Heap`, `HeapProofs` | `heap.c` | refines `BlockPool` |
| x | `PageAllocator` | bitmap operations; proofs in `PagingProofs` | |
| x | `BasicLemmas` | facts on numbers and finite sets the proofs share | |
| x | `MemoryMap`, `MCMemoryMap` | `page_alloc_init`; proofs in `PagingProofs` | |
| x | `Paging`, `MCPaging`, `PagingProofs` | `paging.c`, boot, address spaces | extends `PageAllocator` |
| x | `TaskQueue` | what the task list promises (abstract) | |
| x | `TaskList` | `task.c` | refines `TaskQueue` |
| x | `Process`, `ProcessProofs` | `process.c`, with the list | extends `TaskList` |
| x | `Page` | what a terminal promises (abstract) | |
| x | `Terminal`, `MCTerminal` | `tty.c`, `ega_driver.c`; proofs in `ConsoleProofs` | refines `Page` |
| x | `Words` | the words of a text, and a text without some of its characters (reference) | |
| x | `Strings` | `string.c`; proofs in `ShellProofs` | checked against `Words` |
| x | `Numbers` | `cast.c`, `int_to_ascii` | |
| x | `KeyQueue` | what the keyboard promises (abstract) | |
| x | `Keyboard` | `keyboard.c`, handler and reader interleaved; proofs in `ConsoleProofs` | refines `KeyQueue` |
| x | `KeyMap` | `key_code_to_ascii` | |
| x | `Shell`, `MCShell`, `ShellProofs` | `shell.c` | extends `KeyMap`, `Words` |
| x | `ShortName` | `fat32_nameext_to_name`; proofs in `DiskProofs` | extends `Words` |
| x | `MCText` | what is done to texts, in one run | extends `Strings`, `ShortName`, instances `Numbers` |
| x | `Fat32`, `MCFat32`, `FileSystemProofs` | `fat32.c` behind `vfs.c` | |
| x | `Disk`, `MCDisk`, `DiskProofs` | `ide.c`, `block_device.c`, `mbr.c`, an external controller | |
| x | `Initrd`, `MCInitrd` | `initrd_gen.c`, `initrd.c`; proofs in `FileSystemProofs` | |

The proofs of components that share facts are in one module: `PagingProofs` has page
allocator, memory map and paging, `FileSystemProofs` FAT32 and the ram disk,
`ConsoleProofs` keyboard and terminal, `ShellProofs` shell and strings, `DiskProofs`
the driver and the names on a volume. What has no theorem is in section 5, with the
reason: the digits of `Numbers`, liveness.

## 3. The modules

### Heap and BlockPool

`chunks` maps the address of each header on the list to its four fields, so a
split adds an address and a merge removes one. `live` is what callers hold and
is not stored by the code; it records where a block lies and how many bytes were
asked for. `failed` is the size `allocate` panicked on. There is one action per
entry point; `Allocate` and `FreeChunk` are the whole of `allocate` and `kfree`
on a chunk map, with the second merge working on the result of the first. The
search takes the *lowest* fitting chunk, where the code takes the first one the
list leads to: `WellFormed` shows the list is in address order. The contents of
blocks and the copying of `krealloc` are left out. Sizes are cut to a word where
the code adds or multiplies them: the product of `kcalloc`, and the sum of
`kmalloc_aligned` (`AlignedSize`). When that sum wraps, the block handed out is
smaller than what `memset` then clears; with the first such call (`Overrun`) the
model stops, and the properties speak of the heap up to there (`Intact`). Pointers given to `kfree` and
`krealloc` are ones `kmalloc` returned: nothing in the kernel frees a block of
`kmalloc_aligned`.

`BlockPool` is a pool of bytes from which disjoint extents are claimed. It has
no list, header or policy; it bounds the waste of an extent and says when giving
up is allowed. `Heap` implements it with its allocated chunks as the extents.

### PageAllocator and MemoryMap

`marked` is the bitmap, `last_index` the cursor; `held` and `pinned` say who a
marked page belongs to. `PageReserve` is possible until the first allocation, as
in `kernel_main`. `MemoryMap` is `page_alloc_init`, one action per pass over the
firmware's map, which it changes in place like the code. The map's own numbers have
64 bits, what the code computes from them is cut to a word. `MapAssumption` says what
multiboot promises of a map: entries do not overlap. `Addressable` is the condition
of both properties: no available entry ends at or above the last address. A map that
is not addressable is checked and proved about too, it only promises nothing.

### Paging

RAM is a function from pages to tables of words, and every access of the code
through a physical address goes through `Reach`, the translation by the loaded
directory. `job` is what the kernel is in the middle of (reserving, building a
directory, backing the heap, freeing a directory, idle, user mode); a panic of
`page_alloc` can hit each of them. Pages replace addresses; `NumTables` and
`TableSize` replace the 1024s. Two assumptions: the heap's virtual pages lie
above RAM, which is the collision `paging.c:11` warns of; and a binary begins on a
page of the heap and shares none with another one (`Placeable`): `kmalloc_aligned`
aligns the start and always takes a page more than the binary is long, so that the
next block that begins on a page begins behind the last page of this one. That last
page is not the binary's alone. What the heap has behind it there, headers of
chunks, a stack or a `task_t`, is mapped with it, and the task can write it
(`process.c:73`); `TaskSeesItsBinary` therefore speaks of whole pages (`PagesFor`).
`PagingAssumption` is the layout of `paging.c`: RAM below
the heap, heap and load address (and what of a binary fits the heap) within what a
directory reaches.

### TaskList and TaskQueue

`next` and `prev` are kept for freed tasks too, whose address can come back.
`TaskFree` is `task_list_remove` in the order of its ifs. The operations have no
specification of their own: `Process` calls them as the kernel does. `TaskQueue`
is a sequence of tasks and a turn; the list implements it, its queue being what
one meets following `next` (`Walk`, for as many steps as there are addresses). That the tasks on the list are the ones that have a
process is `FailuresGiveBack` of `Process`.

### Process

`process_load` is cut at each call that can fail. Four objects per load take an
address of one common set, which is also where tasks come from, so a freed
process can come back as a task or a stack. Allocation takes the first freed or
the first unused address. `MapFails` is modelled because the code handles it,
although with page-aligned addresses `paging_map_to` does not fail; `ReadFails`
needs a file system whose read can fail, which FAT32's does not.

### Terminal and Page

`kprintf` and `kprint` are run one character per step: `fmt` and `str` are what
each has still to read. A cell is a character; the colour characters are drawn in
is modelled as the three variables of the code, the colour of a cell is not. A text
is a sequence of glyphs and control characters; a format may hold conversions too,
each of which is an element of its own (`Conversion`). An ESC that is the argument
of `%c` is drawn and not parsed (`tty.c:521`), so that there it is a glyph. `Resetting` are the formats
that end in `\033[0m`, which all messages of the shell's prompt do.
`StopsAt`, `Understood` and `ResumesAt` are the loops over an escape sequence,
which differ between `kprint` and `kprintf` in what is read next; when a text ends
inside a sequence `kprint` passes over its terminator, and some other text
follows. `Page` knows no scrolling: lines are added below, and the cursor can go
back as far as the window reaches. `Terminal` implements it, with the lines that
scrolled away (`gone`, history) in front of the screen. Assumed: the screen is
80 wide, as `scroll_line` takes for granted; nobody prints `\b` by `kprintf` in the
first cell (the shell does it behind characters only); a format does not end in
`%`. `kprint_at_color` and `kprint_color` have no caller.

### Strings, Words and Numbers

A memory of cells and one call on it, with the caller's part of the contract as
guard. A copy is a function of the number of its rounds, so that a round reads what
an earlier one wrote. `Words`
is the reference for `strtok` and stands for it in `Shell`. `Numbers` computes
digits with the divisor wrapped to the type's width, as the code does, and is
checked against the value the digits denote.

### Keyboard and KeyQueue

One load or store of `keycache` and `key_loc` per step, so that the handler can
come between any two of them. `masked` is chosen at the start and then stays: with
it the reader keeps interrupts off while it takes an event and opens them between
two events, without it the handler comes in everywhere. The
driver masks nothing itself: `kernel_main` leaves interrupts off for all of the
kernel's code, and a shell that is to receive keys has to open them somewhere, so
that both readers are ones the driver has to live with. The
controller is external: one code, one interrupt for it; a handler that returns
early leaves the code there and the controller silent ("deaf"). `Waiting` reads
the queue out of the array in the middle of the shift. Only for a reader that
masks is it a queue; for the other a code can be lost or come twice, and
`NoMoreThanSent` is what is left.

### Shell and KeyMap

`run_kernel_shell` is one action per key event, `process_command` one per branch
and one per round of `ls`. `held` is what has to be given back; `shown` is what
stands behind the prompt. Files and directories are a table, in which no name is a
comma or the mark of a directory, `(d)`. `sysinfo` and
`dumpdisks` are messages like `help`. A line of one letter gives room for no
argument and stores one: the model stops there ("heap overrun"). A full line takes
no key, not even Enter or Backspace, so that the shell is stuck for good; that is
visible in the model as `ReadKey` changing nothing and no property contradicts it.

### ShortName and Fat32

`Fat32` takes one cluster per step. What the code computes (`ReadCluster`,
`FatSector`, one byte of an entry) is kept apart from where things are
(`SectorOf`, `Clusters`, `Content`, `Lookup`, used in properties and for the files and
directories callers may name), so that the two can be compared. `Places` are the
entries on a path, by the whole of its names; a directory is read as all the slots
of all its clusters (`AllSlots`). `vfs.c` is the guards of the calls. A name is a sequence of parts of
which the comparison sees the first eleven characters; `ShortName` is the part of
the file that works on characters, one step per round of its loop: a mode is which
of `before_extension`, `in_spaces` and `in_extension` are set. Its fields are a base
and an extension without a space inside, or the dots of a directory for itself and
its parent. `write_fat32` does nothing and the volume does
not change. Where the code's arithmetic leaves the volume (see section 4) nothing is claimed:
`PlainVolume` says what a volume has to be like. One sector to a cluster, and the
FAT entries in the first sector of the table, because `read_cluster` does not multiply
and `read_fat_entry` does not divide; clusters numbered by a byte, because a byte is
what is read of an entry; long names that begin in the cluster of their entry, since a
cluster is all that is looked at, and no removed part of another name in front of them
or of a short name, since only the attributes of a slot are looked at there; names that
differ in eleven characters, as many as are compared. A directory ends by a terminator
or by the end mark of its chain. The driver does not see that mark, it takes its low
byte for a cluster and searches that one too: so the byte names no cluster of a
directory or file, and what is there reads as the end of a directory (`Ends`, `other`).

`Leads` is what is asked of a path. `find_entry_by_name` is called with whatever first
cluster the entry found before has. In an entry "`..`" of a directory of the root that
is 0, and so it is for an empty file; the driver then takes the sector in front of the
first ones of the data, a part of the FAT, for a directory (`fat32.c:511`). Directories
with such entries are plain, and are listed and searched, and the entries are found;
a path that goes on behind one is not. Whether an entry is a directory is not looked at
either (`fat32.c:505`): a path that goes on behind a file is searched for in the file's
text, which must end as a directory does and not hold the name (`Found`). `MCFat32`
has both, text in files and paths through them, and has TLC evaluate that its volumes
are plain.

### Disk

`pc` walks through the driver, one step from one poll of the status register to
the next, data words one by one. `DeviceWorks` is the controller, external, with one
disjunct for each answer (`AnswersIdentify`, `AnswersRead`, `AnswersWrite`, `Stores`,
`EmptiesCache`): it ends what it was told when it likes; a command given while a
drive is busy or in the middle of a transfer is ignored. The scan (`ide_device_identify`, then the MBR
of every disk) and the requests of the file system are one behaviour, as at boot.
A poll that finds the
controller not ready is a step of its own (`Poll`), so that waiting for ever is a
behaviour. `ata_select` in the scan is given a port that already has the register's offset in
it, so that it selects nothing; the drive is the one selected before. `Write` has
no caller in the kernel; `write_fat_device` is its body. Device ids, names and the
flags of a partition that is not bootable (never set) are read by nobody else than
`dumpdisks`. At most two disks of four partitions are registered, which the tables
hold.

### Initrd

`Pack` is one round of the generator, the reader's calls come after
`InitialiseInitrd`. A byte of the image is a pair, of which file and where in it it
is. `Read` says which entries match a name, which of them are too short for what is
asked, and what the last one copied leaves in the buffer, as the loop of the code
does one entry after the other. A file has `BlocksOf` blocks and is given `NumBlocks`
of them, their number cut to the 16 bits of its field; what a read then finds behind
the end of the image is a byte nobody packed (`Behind`). Nothing in the kernel calls that function: `kernel_main` pins
the image's pages only.

## 4. The runs

| Run | Bounds | Shows |
|---|---|---|
| `heap` | 14 bytes, 2-byte headers, sizes 0, 1, 3 and 29, alignment 4, sums and products modulo 32 (29 + 4 wraps to 1) | every property of the heap, and that it implements `BlockPool`. Up to five chunks fit, enough for a free between two free neighbours, for chunks too small to split and for splits that leave one byte |
| `page_allocator_panic` | 4 pages | **violation**: the search starts at the cursor, which `page_reserve` leaves behind the last image, so "out of free pages" is raised while pages below are free |
| `memory_map` | 2-byte pages, addresses below 38; maps of up to 3 entries of any kind with ends in {0, 2, 4, 6, 16, 18, 20, 32, 34, 36, 38} or in {0, 1, 2, 3, 5, 8, 15, 17, 18, 19, 20} | the bitmap is carved out of one entry; every free page begins in spare RAM, and on page-aligned maps the free pages are exactly the spare ones. A bitmap takes 1 to 3 bytes, so it may fill an entry exactly or be too long for it. Entries that end at 38 are cut, as those at 4 GiB are |
| `paging` | 18 pages of RAM, 2 tables of 12 entries, heap of 4 pages, pages of 2 bytes and binaries of 0, 1 and 3 (up to a page and a half), 2 spaces; four memory maps, two orders of boot images | owners and bitmap agree, no page leaks or serves twice, physical addresses stay pointers, a task reaches its binary and writes no page of anything else but the rest of its last one. The binary crosses from one table into the next; one map makes the heap discontiguous; two run out of pages, one during boot |
| `process` | 8 addresses, 2 slots | loads that succeed or fail anywhere, with the list of tasks refining `TaskQueue`. Two whole processes fit exactly, so memory also runs out at every step, and the addresses of a failed load come back as something else |
| `terminal` | 3 by 2 cells, one line scrolled away, sequences of up to 3 digits, 7 formats, 6 texts | the screen is a window on the page that was printed. Every message can end in the last cell, wrap, scroll, and be rubbed out over the edge of a line; texts with wrong, unfinished and overflowing (256) codes |
| `text` | memories of 5 cells and 2 characters; all numbers of 8 bits, of 16 bits those around the powers of 2 and 10; names of 3 and 3 characters | every call the contract of `string.c` allows, on every memory; digits denote the number; name and extension are joined |
| `keyboard` | 4 cells, 5 codes of a pressed and a released key, both readers | for the masked reader a queue with a limit, refusal when it is full, and delivery of the rest; for the other the count stays in step |
| `shell` | 7 cells, 8 keys | lines with up to three words, leading spaces, erased characters, a full line; each command with and without arguments |
| `fat32` | 3 volumes, one on a disk that ends early; clusters of 32 bytes, 4 slots, entries of 1024 values read as 16, 15 paths of up to four names, 10 offsets | reads that begin, end and cross at, before and behind both boundaries; listings over two clusters with removed and long entries; directories whose entries fill their last cluster, with dots, removed slots and names behind each other; paths through `..` and through the text of a file; the byte 15 of an end mark leads searches, listings and reads to a cluster that exists, or to the end of the disk |
| `disk` | 7 machines: 0 to 2 disks, a packet device, a bad block, a channel without controller; blocks of 2 words, requests of 2 blocks | scan and requests at every speed of the controllers |
| `initrd` | 3 files of 0, 2, 3 and 7 bytes in blocks of 2, numbers of blocks modulo 4, names around a field of 3 | generator and reader agree, at every offset and size, beside files of four blocks, of which nothing is written |

Why the bounds are enough is in each case that the smallest sizes at which every
branch of the code is taken, both ways round each boundary, are exceeded by one:
a heap with three neighbours, a screen with two lines, a chain of three clusters, a
queue that is full. What lies beyond is the same branches again.

Deadlock is checked in every run: where the kernel stops (a panic, user mode)
the modules say so with an explicit stuttering step.

The violation of `page_allocator_panic` is a disagreement between the code and its
own message; `findings` in `PROJECT.json` quotes it. It is met in normal use only on
machines whose free pages lie below the boot images.

`TaskSeesItsBinary` is stated for a heap on consecutive pages of RAM. `heap_init`
does not make sure of that; on a memory map with a hole where the heap comes to lie
it fails. The exact part of `FreePagesAreSpare` likewise is for page-aligned maps:
on others the last page of an entry can reach out of it.

Fairness is stated in four modules. In `Keyboard` the reader goes on (the shell
reads in an endless loop) and an interrupt that waits is taken when the processor
can; the keyboard need not send. In `Shell` a command runs by itself, but no key
need be pressed. In `Fat32` the driver runs a call to its end, but nobody need
call. In `Disk` the driver does too, and a controller that is busy with a command
ends it some time; a channel without controller never does. Under these,
`AcceptedArrives`, `EnterIsAnswered` and `CallsEnd` say that what was begun ends.

### Where the code does less than one would expect

The properties above are true of the code as it is. Each leaves out something the
code does not do; a reader who relies on a property should know what.

| Line | What the code does | Where it is left out |
|---|---|---|
| `heap.c:53` | a free chunk of exactly the requested size is not used, so that the message at `heap.c:61` may come when there was room | `BlockPool`'s `GiveUp` wants a byte to spare |
| `heap.c:99` | the sum of size and alignment wraps for a size within a page of 4 GiB, which `process.c:39` passes if a directory entry says so; the block is too small and `memset` runs over what lies behind | `Intact` in the properties of the heap |
| `heap.c:126` | the product of `kcalloc` wraps | `BlocksSafe` speaks of the wrapped size |
| `page_allocator.c:70` | an entry above 4 GiB has its end cut to 32 bits, so that the bitmap is too short for what is cleared | `Addressable` in `FreePagesAreSpare` and `BitmapCarvedOut` |
| `isr.c:182` | an interrupt leaves the kernel's directory loaded, which no return to user mode undoes | modelled (`Interrupt`), no property |
| `process.c:73` | the last page of a binary is mapped whole, with what the heap has behind the binary | `TaskSeesItsBinary` speaks of whole pages |
| `task.c:58` | the task behind a freed one keeps its `prev` | `Process` frees the last one |
| `keyboard.c:48` | codes from 128 on, of released keys, become sign-extended events | `event` is modelled; delivery is about the byte |
| `shell.c:227` | a full line takes no key any more, Enter and Backspace included | `LineIsShown` holds, the shell is stuck |
| `shell.c:247` | a character erased at the end of the line stays behind it and is parsed | `Erased` in `ArgumentsAreWords` |
| `cast.c:257` | the least negative number is printed as a sign | `TextIsNumber` |
| `fat32.c:134` | two messages of the boot sector's checks are exchanged | the checks are not modelled |
| `fat32.c:326`, `fat32.c:335` | sectors of clusters and of FAT entries are computed without sectors per cluster and without dividing by the sector's size | `PlainVolume` |
| `fat32.c:340` | no end of a chain is recognised; a directory whose entries fill its clusters is searched on where the low byte of the end mark leads, and if that reads as no end, the loops at `fat32.c:351` and 425 can go on for ever | `Ends` and `other` in `PlainVolume`, also for `CallsEnd` |
| `fat32.c:374`, `fat32.c:451` | a removed slot of a long name in front of a live entry is a part of its name | `PlainVolume` |
| `fat32.c:403` | long names are compared by eleven characters | `PlainVolume` |
| `fat32.c:505` | a path that goes on behind a file is searched for in the file's bytes | `Leads` in `PlainVolume` |
| `fat32.c:511` | an entry of cluster 0 (`..` in a directory of the root, an empty file) is followed to cluster 0: the FAT is searched as a directory | `Leads` in `PlainVolume` |
| `fat32.c:612` | directory entries found for a path are not freed | the kernel's heap is not part of `Fat32` |
| `ide.c:174` | the drive the firmware selected is asked, not the first | `FirstDrivesAnswer` in `ScanFindsDisks` |
| `ide.c:187` | a channel without controller is waited for | `CallsEnd` |
| `ide.c:275` | errors of a write are not looked at | `ReadIsBlocks` speaks of what is on the disk |
| `ide.c:288` | the number of a block is cut to 28 bits | `LbaLimit` in `ReadIsBlocks` |
| `initrd_gen.c:74` | the number of blocks is kept in 16 bits: of a file of 65536 blocks (8 MiB) nothing is written, of a longer one its beginning, and `fread` runs over the buffer | `BlocksOf` in `PackedIsRead`, for that file |
| `initrd.c:80` | the 28th file is not listed; names of ten characters lose their last one | `ListedIsFound` |

## 5. What is proved

Every theorem holds for all values of the constants that satisfy the named
assumptions, which are what the code fixes by its numbers and layout:

| Assumption | Says |
|---|---|
| `HeapAssumption` | a header has a size, the heap is larger than one |
| `PagesAssumption` | the bitmaps boot can leave are sets of pages |
| `MapAssumption` | pages and words have a size; the entries of a memory map do not overlap |
| `PagingAssumption` | heap above RAM; RAM, heap and load address within a directory's reach |
| `TaskAssumption`, `ProcessAssumption` | finitely many addresses, NULL is none of them; there is a slot |
| `KeyboardAssumption` | codes are bytes, the array has two cells or more |
| `TerminalAssumption` | the screen has cells, one of which is a space; glyphs, control characters and conversions are apart; texts and formats are made of them, no format is empty, and those of `Resetting` end in `\033[0m` |
| `ShellAssumption` | the five commands, told apart by their words, none shorter than two characters; no file is a directory, no name a comma or the mark of a directory |
| `StringsAssumption` | memory has a cell, a character is not 0, delimiters are characters |
| `MachineAssumption`, `PortAssumption` | two buses of two drives, blocks of words, a partition table in the first block of a disk; what a port gives when nothing is there is a word |
| `InitrdAssumption` | names, blocks and the numbers of blocks have sizes, the generator packs no more files than the table has entries; no file is called `dev`, none has an empty name |
| `VolumeAssumption` | sectors, directory entries and bytes have sizes, no end mark is a byte; the beginning of a path is a path; entries of a FAT lead to clusters or end a chain |
| `ShortNameAssumption` | a base has two characters or more (the parent's entry is two dots), an extension one; neither a space nor a point is a letter |

Of the properties of the runs these are theorems:

| Run | Theorems | Left to TLC |
|---|---|---|
| `heap` | all six, the refinement of `BlockPool` included | |
| `memory_map` | `BitmapCarvedOut`, `FreePagesAreSpare` | |
| `paging` | `Accounted`, `PagesBalanced`, `KernelSeesRam`, `TaskSeesItsBinary`, `FreedSpaceIsReusable` | |
| `process` | `LoadedIsWhole`, `FailuresGiveBack`, the refinement of `TaskQueue` | |
| `terminal` | `PromptIsPlain`, the refinement of `Page` | |
| `text` | `CopyArrives`, `CompareAgrees`, `TokensAreWords`, `NameIsJoined` | `TextIsNumber` |
| `keyboard` | `NoMoreThanSent`, the refinement of `KeyQueue` | `AcceptedArrives` (liveness) |
| `shell` | `LineIsShown`, `ArgumentsAreWords`, `CommandsGiveBack`, `ListsDirectory` | `EnterIsAnswered` (liveness) |
| `disk` | `ReadIsBlocks`, `ScanFindsDisks` | `CallsEnd` (liveness) |
| `initrd` | `PackedIsRead`, `ListedIsFound` | |
| `fat32` | `ReadIsContent`, `LookupIsRight`, `ListingComplete` on plain volumes | `CallsEnd` (liveness) |

`MCText` and the theorems on strings and names speak of the same actions: the run's
behaviours are those of `StringsSpec`, of `Numbers` or of `NameSpec`, side by side.
Where a property is conditional, so is its theorem: `FirstDrivesAnswer` (ports without
a drive read 0, drive 0 is selected) in the first half of `ScanFindsDisks`,
`Addressable` and `HeapContiguous` as in section 4, `PlainVolume` as in section 3.
The run's volumes are plain, so that there the properties are checked without it.

### Heap

The inductive invariant `IInv` joins the type invariant, tiling, linking, merging
and the agreement with callers; none of these is inductive alone: that a merge
keeps the tiling needs the links to lead to neighbours in memory, that a block
survives needs the tiling, that the pool's "give up" is justified needs that
neighbours are not both free. The proof goes operation by operation: lemmas state
what `Split`, `Mark` and `Absorb` do to a sound chunk map, `Allocate` and
`FreeChunk` follow, and each action is one of these. Refinement maps the allocating
actions to `Grab`, `krealloc` to `Move`, `kfree` to `Release` and the panic to
`GiveUp`.

### Page allocator and memory map

The first theorems of `PagingProofs` are `Accounted` and the type invariant for the
operations of the bitmap alone. It needs that nothing has been handed out while `page_reserve`
may still pin pages.

`MapScanned` says what each pass has done: after the first,
`max_addr` bounds every entry; after the second, one entry (`Carved`) begins behind
the bitmap and the others are the firmware's. The rest is arithmetic. Under
`Addressable` nothing was cut, so the bitmap lies in that entry (`Placed`); a page
rounded up from an entry's begin is in the entry if the entry is long enough for it;
and that the pages are *all* the spare ones needs that entries are disjoint, since a
page-aligned page meets one entry only. Multiplication and division by a page size
that is not a number are kept away from the provers by lemmas (`RoundUpIs`,
`DivMod`, `ProductsAgree`).

### Paging

`IInv` is `Accounted` (bitmap and owners), `Phase` (how far boot, a building, a
freeing has come), `Spaces` (no two spaces have one directory), `Owned` and
`Contents`. `Owned` is what makes it inductive: every page handed out has exactly
one *role*: a directory, the table in slot `i` of a directory that is finished, or
built or freed as far as that has come, or the page behind a heap page. A write into
one table then cannot change another, and the reader of a physical address is
looking at the page it means. `Contents` is what the tables say, and needs `Owned`
for each of its writes; `Owned` needs `Contents`, because a table is written through
the directory that is loaded. Of the results,

- `KernelSeesRam` and `Accounted` are parts of the invariant;
- `PagesBalanced` counts: roles and held pages correspond one to one (`OneToOne`),
  and the roles of different kinds are disjoint sets of known size;
- `TaskSeesItsBinary` needs that the rounds of `paging_map_range`, a recursive
  function, write the entries of the binary and leave the others (`Mapped`); that is
  proved by the least round where it fails, which the provers can follow since it
  needs no induction theorem. As in the run, it is stated for a heap on consecutive
  pages (`HeapContiguous`);
- `FreedSpaceIsReusable` needs one invariant more, `Ordered`: a directory lies below
  its tables, since `page_alloc` searches on from the page it found last. Because
  `page_directory_free` gives the directory back last, the search is left in front of
  all of its pages.

### Tasks and processes

The invariant of `ProcessProofs` relates the four structures `process_load` works
on: the slots, the load in progress (`LoadInStep`, `OwnApart`), the list
(`TasksListed`: a sequence of tasks read from `next`, and the same one backwards from
`prev`; the task of the load is the last) and the heap (`HeapAccounted`). No part is
inductive alone: that `task_free` is sound needs that it is the last task that is
freed, which only the load in progress knows; that a loaded process is untouched
needs that the addresses of the load are its own, and that freed addresses may come
back is harmless for the same reason. Following `next` is a recursive function; that
it meets the sequence is proved by its least counterexample (`MetIs`). The refinement
takes `task_new` to `Join`, the failing load to `Leave` and everything else to a
stutter or a turn.

### Keyboard

For the reader that is interrupted anywhere the invariant (`KeyboardInv`) needs what it may rely on
between two of its loads and stores: `ReaderInStep`, that codes are only ever added,
so that a count it has loaded is at most the count there is. `ReaderAlone` adds
what holds only with interrupts masked, and the refinement is proved from it: in the
middle of the shift the queue is the code taken, then the cells in front of the one
that is moving, then those behind it (`Moving`).

### Shell

`LineIsShown` is inductive together with the line being text (`LineIsText`); what is
held depends on the place in the command (`HeldInStep`). `ArgumentsAreWords` is where
counting comes in: the array has half as many elements as the line has characters. A
word begins behind a separator, so two words begin two characters apart and a text of
`n` characters has at most half of `n + 1`, rounded down; a line whose first word is
a command begins with two characters of one word, because no command is a letter,
which saves the one that could be missing (`Starts`, `WordsAreFew`).

For `ls` the invariant is `PrintedInStep`: at each round what is printed lists the
names read so far that are not dots (`Listed`), and the limit counts the dots among
them. That a comma is printed iff there is a name in front of it is then arithmetic:
`i > limit` says that fewer dots than names were read. Its lemmas say how the three
things `ListsDirectory` asks of a screen grow by one name: the screen without commas
and marks (`Without` of something appended), the number of commas, the first name.

### Terminal

`TerminalInv` is the screen being one (`DisplayOK`), the rests of format and message
being texts (`TextsOK`), and `ResetPending`: as long as a message that resets the
colours has not been printed, what is left of it ends in `\033[0m`. The last is
inductive because an escape sequence, whatever it is and wherever it breaks off, ends
at the latest in front of the next escape character, so that the parser cannot run
past the reset of the *next* message; `PromptIsPlain` is its last disjunct.
Refinement is proved per character: putting one, wrapping, scrolling and rubbing out
are `Page`'s steps once the lines that scrolled away are in front of the screen. The
lemmas say what the page, a sequence of `Len(gone) + Height` lines, is at each line.

### Strings

`StringsInv` joins the types, `Fresh`, `CopyArrives` itself and `Splitting`. What a
copy does is known by its rounds (`Rounds`): two functions that satisfy the same
rounds have one outcome (`OneOutcome`, by the least round where they differ), and the
function that has the cells of the source at the destination (`Brought`) satisfies
them if no round reads a cell an earlier one has written. That is where the direction
of `memmove` and the lengths of source and destination come in. The comparisons stop at
a cell that is characterised by being the first that differs. For `strtok` the
invariant says how far the text is split (`Parsed`): the memory behind its position is
as it was, the position is at a border of words, and what has been handed out are the
words that begin in front of it. The proof has to show that the position the code
keeps is a border although the code wrote a terminator there.

### Names on a volume

`NameInv` says that a field is a base and an extension, padded (`IsField`), and for
each mode of the loop how many characters of base, point and extension in a row have
been written (`Joining`). The modes differ in how the number of characters follows from
the number of rounds: in the base they are equal, in the spaces the former stands still
behind the point, in the extension it is the latter less the spaces. "extension in
spaces" is reached only by a base of full width and an extension that is not empty; if
a space is then read, the extension had one character, which is why passing over it
does no harm. Where there is no extension the point is the last character written and
is the one `Finish` takes away; no letter is a point, so it takes away nothing else.

### FAT32

`FatInv` has a part for each place in the driver, and what makes it inductive is how
the part speaks of the volume. `Walks`, `Scans` and `Resolves`: the words of the path
that were found lead to the entry the driver has, which differs from the one the path
names (`Places`) at most in its name, because `find_entry_by_name` copies the short
entry only. In a search, and in a listing (`Counts`), the current cluster is number `j` of
the directory's chain, and no slot of the clusters in front of it is the last entry, nor
the one looked for (`PassedOver`); in a listing `number` counts the live entries among
those slots, which is how `find_entry_by_index`, whose own counts include removed and
long entries, comes out at the right one (`LiveOfCluster`). `Reads`: the cluster is
number `n` of the file's chain, and what has been copied are the file's bytes from the
offset to the end of cluster `n - 1` (`Reading`), in each of the four cases of
`read_fat32`. `Answers` is the three properties.

The rest is about the volume. What an entry of the table holds is read back although
only a byte of it is looked at (`FatRead`), because its cluster is in the first sector
and numbered by a byte; a directory goes on as long as it has not ended, and where it
ends without a terminator the search is one cluster further, in one that is no
directory's and reads as the end (`DirectoryGoesOn`, `Astray`); a file goes on as long
as it has bytes (`FileGoesOn`). Chains and paths are recursive functions, known by
a least counterexample (`ClustersFollow`, `PlacesFollow`). A long name is put together
from the slots in front of an entry, and that these are in its cluster makes the name
in the cluster the name in the directory (`NameOfSlot`). A word that is searched in a
file goes through the file's clusters as through a directory's, and finds nothing since
they do not hold it (`Found`, `SearchFinds`).

### Disk

`IInv` relates the place in the driver to the state of the controller it will meet, for
a controller that may answer at any time: `Waited` (only the bus in use is at work),
`Asked` (how an IDENTIFY can stand), `Reading` and `Writing` (what the controller is
doing with which block, and how many of its words have been moved), `Progress` (how far
the request is). A read that returns has brought all its blocks (`Brought`), because a
block is only left when all of its words have come, and a panic in a read meets a block
that is not `Readable`. `BusScan` and `TableScan` are the two scans: after each disk the
registered partitions are those of the tables so far, once each and in order
(`RegisteredUpTo`). The controller is external, so that the theorem is about the driver
with every controller that keeps to what `DeviceWorks` says.

### Initial ram disk

`InitrdInv` says that the table lists the packed files in order (`TableListsFiles`),
that the bytes of each file whose blocks can be counted in their field lie in whole
blocks from a block on whose number, cut to the width of the table's field, is the one in
the entry (`BlocksHoldFiles`), and that the
latest answer is what would be answered now (`AnswerStands`), since an image does not
change once it is mounted. `Sound` (the names differ in what the table keeps, no file
begins behind the last block that can be numbered) then makes a file's entry the only one that matches.

### What is not proved

- Liveness under fairness (`AcceptedArrives`, `EnterIsAnswered`, `CallsEnd`) is out of
  the prover's reach.
- The properties of `Fat32` on volumes that are not plain: the code reads other
  sectors there or never ends, and they need not hold.
- `TextIsNumber`: the digits of a number are powers of the base and remainders by them,
  nonlinear arithmetic for which the provers know no facts, and their value is a fold.
- `page_allocator_panic` is a violation and has no theorem.

## 6. Not modelled, and why

- Segmentation, gate tables and the interrupt controller are filled with constants
  once; ports are single instructions. No state is left to go wrong over time.
- The walk over the multiboot tags keeps pointers and prints. Exceptions print and
  stop.
- PCI enumeration prints and keeps nothing, and lies behind the call that never
  returns.
- `memchr`, `rawmemchr`, `strchr` and `strtoupper` are loops of three lines that no
  property here depends on beyond what `Strpbrk` and `Strtok` say.
- `task_page` and the saved registers of a task: nothing calls the one, and the
  others are moved by assembly one by one.
- The checks of a FAT boot sector compare constants; the volumes of `Fat32` have
  passed them.
- The wording and layout of messages, times and masks of nodes, colours of cells.
