------------------------------- MODULE Paging -------------------------------
(***************************************************************************)
(* Address spaces: kernel/src/arch/i686/paging.c on top of PageAllocator,  *)
(* driven the way the kernel drives it.  kernel_main pins the boot images, *)
(* builds the kernel's directory, switches to it and backs the heap with   *)
(* pages (heap_init); task_init and process_map_binary then build one      *)
(* directory per task, task_free takes it apart, task_switch leaves for    *)
(* user mode for good, and irq_handler comes back to the kernel's          *)
(* directory.                                                              *)
(*                                                                         *)
(* Page tables live in physical memory (mem) and every access to them goes *)
(* through a pointer that holds a physical address: what it reaches is     *)
(* what the loaded directory translates that address to.                   *)
(*                                                                         *)
(* A word of a table is [frame, write, user]: every entry the kernel       *)
(* writes is present.                                                      *)
(***************************************************************************)
EXTENDS PageAllocator, Sequences

CONSTANTS
    NumTables,     \* tables of a directory (1024 in the code)
    TableSize,     \* entries of a table (1024 in the code)
    HeapVirtual,   \* first virtual page of the heap: KERNEL_ALLOCATOR_VADDR
    HeapPages,     \* KERNEL_ALLOCATOR_SIZE / PageSize
    TaskVirtual,   \* virtual page a binary is mapped at: KERNEL_TASK_VADDR
    PageSize,      \* bytes of a page
    BinarySizes,   \* sizes of a binary, in bytes
    BootImages,    \* the pages kernel_main reserves, in the order it does
    MaxSpaces      \* bound on the number of address spaces alive at a time

(* The heap lies above every page of RAM: the collision paging.c:11 warns of
   does not happen.  A binary no larger than the heap fits behind TaskVirtual. *)
ASSUME PagingAssumption ==
    /\ TableSize \in Nat /\ NumTables \in 1..TableSize
    /\ HeapVirtual \in Nat /\ HeapPages \in Nat /\ TaskVirtual \in Nat
    /\ PageSize \in Nat \ {0}
    /\ BinarySizes \subseteq Nat
    /\ NumPages <= HeapVirtual
    /\ HeapVirtual + HeapPages <= NumTables * TableSize
    /\ TaskVirtual + HeapPages <= NumTables * TableSize

VARIABLES
    mem,       \* what each page of RAM holds, read as a table
    cr3,       \* the loaded directory, or Off
    kernel,    \* kernel_page_directory
    spaces,    \* live address spaces: [dir, data, pages]
    job        \* what the kernel is in the middle of

pagingVars == <<mem, cr3, kernel, spaces, job>>
vars == <<allocVars, pagingVars>>

Off     == -1
VPages  == 0..(NumTables * TableSize - 1)
Slots   == 0..(TableSize - 1)
Words   == [frame : VPages, write : BOOLEAN, user : BOOLEAN]
PTE(frame, write, user) == [frame |-> frame, write |-> write, user |-> user]

-----------------------------------------------------------------------------
(* Translation *)

(* paging_get_indices and the two lookups behind every translation. *)
Walk(m, dir, v) ==
    LET table == m[dir][v \div TableSize].frame
    IN  m[table][v % TableSize]

(* The page of RAM that a pointer to physical page p reaches. *)
Reach(m, p) == IF cr3 = Off THEN p ELSE Walk(m, cr3, p).frame

Read(m, p) == m[Reach(m, p)]

WriteTable(m, p, words) == [m EXCEPT ![Reach(m, p)] = words]

WriteWord(m, p, slot, word) == [m EXCEPT ![Reach(m, p)][slot] = word]

(* Fault: the table is found through the directory that is loaded. *)
PagingSetLoaded(m, dir, v, word) ==
    WriteWord(m, Read(m, cr3)[v \div TableSize].frame, v % TableSize, word)

(* paging_set: the table is found through the directory given. *)
PagingSet(m, dir, v, word) ==
    WriteWord(m, Read(m, dir)[v \div TableSize].frame, v % TableSize, word)

(* paging_get_phys_address, for a directory all of whose entries are present. *)
PagingGetPhysAddress(m, dir, v) ==
    Read(m, Read(m, dir)[v \div TableSize].frame)[v % TableSize].frame

(* paging_map_range: consecutive virtual pages onto consecutive pages of RAM. *)
PagingMapRange(m, dir, v, frame, count, write, user) ==
    LET after[i \in 0..count] ==
            IF i = 0 THEN m
            ELSE PagingSet(after[i - 1], dir, v + i - 1, PTE(frame + i - 1, write, user))
    IN  after[count]

-----------------------------------------------------------------------------
(* What the kernel is in the middle of *)

Idle == [doing |-> "idle"]
Reserving(images) == [doing |-> "reserve", images |-> images]
Building(dir, write, data, pages, next) ==
    [doing |-> "build", dir |-> dir, write |-> write,
     data |-> data, pages |-> pages, next |-> next]
Backing(next) == [doing |-> "heap", next |-> next]
Freeing(dir, next) == [doing |-> "free", dir |-> dir, next |-> next]
InUser(dir) == [doing |-> "user", dir |-> dir]

(* What RAM holds before anything is written to it. *)
Blank == [slot \in Slots |-> PTE(0, FALSE, FALSE)]

Init ==
    /\ AllocInit
    /\ mem = [p \in Pages |-> Blank]
    /\ cr3 = Off /\ kernel = Off
    /\ spaces = {}
    /\ \E images \in BootImages : job = Reserving(images)

(* kernel_main's three loops of page_reserve: kernel, initrd, boot information. *)
ReserveImage ==
    /\ job.doing = "reserve"
    /\ job.images # <<>>
    /\ PageReserve(Head(job.images))
    /\ job' = Reserving(Tail(job.images))
    /\ UNCHANGED <<mem, cr3, kernel, spaces>>

(* The kernel's directory is writeable, a task's is not; the kernel has no
   binary to map. *)
StartDirectory(write, data, pages) ==
    \E dir \in Searched :
        /\ PageAlloc(dir)
        /\ job' = Building(dir, write, data, pages, 0)
        /\ UNCHANGED <<mem, cr3, kernel, spaces>>

CreateKernelDirectory ==
    /\ job.doing = "reserve"
    /\ job.images = <<>>
    /\ StartDirectory(TRUE, HeapVirtual, 0)

(* Fault: the flags asked for are not used. *)
IdentityTableWriteable(i, write) ==
    [slot \in Slots |-> PTE(i * TableSize + slot, TRUE, TRUE)]

(* The identity mapping of the i-th table. *)
IdentityTable(i, write) ==
    [slot \in Slots |-> PTE(i * TableSize + slot, write, TRUE)]

(* One turn of the loop of page_directory_create. *)
FillTable ==
    /\ job.doing = "build"
    /\ job.next < NumTables
    /\ \E table \in Searched :
          /\ PageAlloc(table)
          /\ mem' = WriteWord(WriteTable(mem, table, IdentityTable(job.next, job.write)),
                              job.dir, job.next, PTE(table, TRUE, TRUE))
    /\ job' = [job EXCEPT !.next = @ + 1]
    /\ UNCHANGED <<cr3, kernel, spaces>>

Built == job.doing = "build" /\ job.next = NumTables

(* paging_switch_directory and paging_enable; heap_init comes next. *)
EnablePaging ==
    /\ Built
    /\ kernel = Off
    /\ kernel' = job.dir
    /\ cr3' = job.dir
    /\ job' = Backing(0)
    /\ UNCHANGED <<allocVars, mem, spaces>>

(* One turn of the loop of heap_init. *)
BackHeapPage ==
    /\ job.doing = "heap"
    /\ job.next < HeapPages
    /\ \E frame \in Searched :
          /\ PageAlloc(frame)
          /\ mem' = PagingSet(mem, kernel, HeapVirtual + job.next, PTE(frame, TRUE, FALSE))
    /\ job' = Backing(job.next + 1)
    /\ UNCHANGED <<cr3, kernel, spaces>>

HeapReady ==
    /\ job = Backing(HeapPages)
    /\ job' = Idle
    /\ UNCHANGED <<allocVars, mem, cr3, kernel, spaces>>

-----------------------------------------------------------------------------
(* Tasks *)

DataPages(s) == s.data..(s.data + s.pages - 1)

(* The pages a binary of this size begins, paging_align_address rounding up the
   address behind its last byte.  What that leaves of the last page is the
   heap's: the headers and blocks behind the binary lie on it. *)
PagesFor(size) == (size + PageSize - 1) \div PageSize

(* Where kmalloc_aligned may place a binary that begins `pages` pages: at the
   start of a page behind its chunk's header, and so not on the heap's first
   page, which holds the first header, nor on a page that an earlier or a later
   binary begins on or reaches: the later one starts on the next page at the
   earliest. *)
Placeable(data, pages) ==
    /\ HeapVirtual < data
    /\ data + pages <= HeapVirtual + HeapPages
    /\ \A s \in spaces : DataPages(s) \cap (data..(data + pages - 1)) = {}

(* task_init for the binary at the heap page `data`. *)
CreateSpace(data, size) ==
    /\ job = Idle
    /\ Cardinality(spaces) < MaxSpaces
    /\ Placeable(data, PagesFor(size))
    /\ StartDirectory(FALSE, data, PagesFor(size))

(* process_map_binary: the binary is taken to lie in consecutive pages of RAM
   from where its first byte lies. *)
MapBinary ==
    /\ Built
    /\ kernel # Off
    /\ LET frame == PagingGetPhysAddress(mem, kernel, job.data)
       IN  mem' = PagingMapRange(mem, job.dir, TaskVirtual, frame, job.pages, TRUE, TRUE)
    /\ spaces' = spaces \cup {[dir |-> job.dir, data |-> job.data, pages |-> job.pages]}
    /\ job' = Idle
    /\ UNCHANGED <<allocVars, cr3, kernel>>

(* task_free; the binary's memory is not given back with it. *)
FreeSpace(s) ==
    /\ job = Idle
    /\ spaces' = spaces \ {s}
    /\ job' = Freeing(s.dir, 0)
    /\ UNCHANGED <<allocVars, mem, cr3, kernel>>

(* Fault: the directory is given back before its tables. *)
FreedPageDirectoryFirst(dir, i) ==
    IF i = 0 THEN dir ELSE Read(mem, dir)[i - 1].frame

(* Fault: the directory itself is never given back. *)
FreedPageTablesOnly(dir, i) ==
    IF i < NumTables THEN Read(mem, dir)[i].frame ELSE Read(mem, dir)[0].frame

(* The order page_directory_free gives pages back in. *)
FreedPage(dir, i) == IF i < NumTables THEN Read(mem, dir)[i].frame ELSE dir

(* One page_free of page_directory_free. *)
FreeNextPage ==
    /\ job.doing = "free"
    /\ PageFree(FreedPage(job.dir, job.next))
    /\ job' = IF job.next = NumTables THEN Idle ELSE Freeing(job.dir, job.next + 1)
    /\ UNCHANGED <<mem, cr3, kernel, spaces>>

(* task_switch and task_return: kernel_main is never returned to. *)
EnterUser(s) ==
    /\ job = Idle
    /\ cr3' = s.dir
    /\ job' = InUser(s.dir)
    /\ UNCHANGED <<allocVars, mem, kernel, spaces>>

(* irq_handler loads the kernel's directory; nothing loads the task's again. *)
Interrupt ==
    /\ job.doing = "user"
    /\ cr3' = kernel
    /\ UNCHANGED <<allocVars, mem, kernel, spaces, job>>

(* page_alloc panics in the middle of whatever needs a page. *)
NeedsPage ==
    \/ job.doing = "reserve" /\ job.images = <<>>
    \/ job.doing = "build" /\ job.next < NumTables
    \/ job.doing = "heap" /\ job.next < HeapPages
    \/ job = Idle /\ Cardinality(spaces) < MaxSpaces

Panic ==
    /\ NeedsPage
    /\ OutOfPages
    /\ UNCHANGED pagingVars

Boot == ReserveImage \/ CreateKernelDirectory \/ EnablePaging \/ BackHeapPage \/ HeapReady

Tasks ==
    \/ \E data \in VPages, size \in BinarySizes : CreateSpace(data, size)
    \/ MapBinary
    \/ \E s \in spaces : FreeSpace(s) \/ EnterUser(s)
    \/ FreeNextPage

Next ==
    \/ ~panicked /\ (Boot \/ FillTable \/ Tasks \/ Interrupt \/ Panic)
    \/ panicked /\ UNCHANGED vars

Spec == Init /\ [][Next]_vars

-----------------------------------------------------------------------------
(* Properties *)

(* The pages of RAM behind heap pages. *)
Behind(vpages) == {Walk(mem, kernel, v).frame : v \in vpages}

BackedHeapPages ==
    IF kernel = Off THEN {}
    ELSE HeapVirtual..(HeapVirtual - 1 + IF job.doing = "heap" THEN job.next ELSE HeapPages)

(* What page_alloc gave to a directory and the tables in these slots. *)
Directory(dir, slots) == {dir} \cup {mem[dir][i].frame : i \in slots}

(* The slots of the directory being built or freed that hold a table of its. *)
JobSlots ==
    IF job.doing = "build" THEN 0..(job.next - 1) ELSE job.next..(NumTables - 1)

InJob == IF job.doing \in {"build", "free"} THEN Directory(job.dir, JobSlots) ELSE {}

Complete == (IF kernel = Off THEN {} ELSE {kernel}) \cup {s.dir : s \in spaces}

(* Every page handed out is a directory, a table or a page of the heap, and
   only one of these: building, mapping and freeing address spaces in any
   order neither leaks a page nor lets two tables share one. *)
PagesBalanced ==
    LET whole == {Directory(d, 0..(NumTables - 1)) : d \in Complete}
    IN  /\ held = InJob \cup Behind(BackedHeapPages) \cup UNION whole
        /\ Cardinality(held) =
               Cardinality(InJob) + Cardinality(BackedHeapPages)
               + (Cardinality(spaces) + IF kernel = Off THEN 0 ELSE 1) * (NumTables + 1)

(* A physical address is a pointer to the page it names, at all times and not
   only before paging: the kernel's directory maps every page of RAM onto
   itself, whatever was mapped for tasks or for the heap.  page_alloc's
   callers write through such pointers. *)
KernelSeesRam ==
    kernel # Off => \A p \in Pages : Walk(mem, kernel, p).frame = p

HeapContiguous ==
    \A v \in BackedHeapPages :
        Walk(mem, kernel, v).frame = Walk(mem, kernel, HeapVirtual).frame + (v - HeapVirtual)

WriteableFrom(dir) ==
    {Walk(mem, dir, v).frame : v \in {u \in VPages : Walk(mem, dir, u).write /\ Walk(mem, dir, u).user}}

(* Under its own directory a task finds at TaskVirtual, page by page, the memory
   its binary was read into, and can write the pages its binary lies on and no
   others: no page of another binary and no page table, its own included.  Of
   its last page that is all of it, the rest of the heap behind the binary
   included (process.c:73 maps whole pages).  This needs a heap on consecutive
   pages of RAM, since process_map_binary translates the address of the first
   page only. *)
TaskSeesItsBinary ==
    HeapContiguous =>
        \A s \in spaces :
            /\ \A i \in 0..(s.pages - 1) :
                  Walk(mem, s.dir, TaskVirtual + i)
                      = PTE(Walk(mem, kernel, s.data + i).frame, TRUE, TRUE)
            /\ WriteableFrom(s.dir) = Behind(DataPages(s))
            /\ \A t \in spaces \ {s} : WriteableFrom(s.dir) \cap Behind(DataPages(t)) = {}
            /\ \A d \in Complete :
                  WriteableFrom(s.dir) \cap Directory(d, 0..(NumTables - 1)) = {}

(* A directory can be built again from what freeing one gave back: the order
   of page_directory_free leaves the search where the directory was. *)
FreedSpaceIsReusable ==
    [][job.doing = "free" /\ job' = Idle => Cardinality(Searched') > NumTables]_vars
=============================================================================
