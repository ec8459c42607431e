---------------------------- MODULE PagingProofs ----------------------------
(***************************************************************************)
(* Proofs about pages and address spaces, for every amount of RAM, every   *)
(* size of directories, tables, heap and binaries, every memory map and    *)
(* every order of building, mapping and freeing; and about                 *)
(* page_alloc_init, for every firmware map whose entries do not overlap    *)
(* and every size of a page.                                               *)
(***************************************************************************)
EXTENDS Paging, MemoryMap, BasicLemmas, SequenceTheorems, TLAPS

-----------------------------------------------------------------------------
(* The page allocator by itself: the page bitmap agrees with the owners of the
   pages, for every number of pages and every memory map. *)

(* AllocTypeOK is needed for the range of a reserved page only; Accounted
   needs that nothing is pinned once a page has been handed out. *)
AllocInv ==
    /\ AllocTypeOK
    /\ Accounted
    /\ booting => held = {}

(* page_alloc_init leaves marked pages that nobody holds. *)
LEMMA AllocInitInv == AllocInit => AllocInv
<1> SUFFICES ASSUME AllocInit PROVE AllocInv
  OBVIOUS
<1>1. marked \subseteq Pages /\ pinned = marked /\ held = {}
  BY PagesAssumption DEF AllocInit, Pages
<1>2. last_index \in Nat /\ booting \in BOOLEAN /\ panicked \in BOOLEAN
  BY DEF AllocInit
<1> QED
  BY <1>1, <1>2 DEF AllocInv, AllocTypeOK, Accounted

(* page_reserve, page_alloc and page_free keep owners and bitmap together. *)
LEMMA AllocNextInv == AllocInv /\ [AllocNext]_allocVars => AllocInv'
<1> SUFFICES ASSUME AllocInv, [AllocNext]_allocVars PROVE AllocInv'
  OBVIOUS
<1> USE DEF AllocInv, AllocTypeOK, Accounted
<1>1. Pages \subseteq Nat
  BY PagesAssumption DEF Pages
<1>2. ASSUME NEW i \in Pages, PageReserve(i) PROVE AllocInv'
  BY <1>1, <1>2 DEF PageReserve
<1>3. ASSUME NEW i \in Searched, PageAlloc(i) PROVE AllocInv'
  BY <1>1, <1>3 DEF PageAlloc, Searched, Free
<1>4. ASSUME NEW i \in held, PageFree(i) PROVE AllocInv'
  BY <1>1, <1>4 DEF PageFree
<1>5. CASE OutOfPages
  BY <1>5 DEF OutOfPages
<1>6. CASE UNCHANGED allocVars
  BY <1>6 DEF allocVars
<1> QED
  BY <1>2, <1>3, <1>4, <1>5, <1>6 DEF AllocNext, Halted

(* No page is ever lost, shared, or handed out while it is pinned. *)
THEOREM PagesAccounted == AllocSpec => []Accounted
<1>1. AllocInv => Accounted
  BY DEF AllocInv
<1> QED
  BY <1>1, AllocInitInv, AllocNextInv, PTL DEF AllocSpec

(* The type invariant of the page allocator. *)
THEOREM PagesTypeOK == AllocSpec => []AllocTypeOK
<1>1. AllocInv => AllocTypeOK
  BY DEF AllocInv
<1> QED
  BY <1>1, AllocInitInv, AllocNextInv, PTL DEF AllocSpec

-----------------------------------------------------------------------------
(* Address spaces *)

Tables == 0..NumTables - 1

(* What pages are handed out for: <<d, -1>> is a directory, <<d, i>> the table in
   its slot i, <<Off, v>> the page behind the heap's virtual page v. *)
WholeRoles == Complete \X (-1..NumTables - 1)

JobRoles == IF job.doing \in {"build", "free"} THEN {job.dir} \X ({-1} \cup JobSlots) ELSE {}

HeapRoles == {Off} \X BackedHeapPages

Roles == WholeRoles \cup JobRoles \cup HeapRoles

PageAt(m, top, r) ==
    IF r[1] = Off THEN Walk(m, top, r[2]).frame
    ELSE IF r[2] = -1 THEN r[1]
    ELSE m[r[1]][r[2]].frame

(* Every page handed out has a role, and only one. *)
Owned ==
    /\ held \subseteq Pages
    /\ held = {PageAt(mem, kernel, r) : r \in Roles}
    /\ \A q, r \in Roles : PageAt(mem, kernel, q) = PageAt(mem, kernel, r) => q = r

(* How far the kernel is. *)
Phase ==
    /\ job.doing \in {"reserve", "build", "heap", "free", "user", "idle"}
    /\ job.doing # "user" => cr3 = kernel
    /\ kernel = Off => job.doing \in {"reserve", "build"} /\ spaces = {}
    /\ job.doing = "reserve" => kernel = Off /\ held = {}
    /\ job.doing = "build" =>
          /\ DOMAIN job = {"doing", "dir", "write", "data", "pages", "next"}
          /\ job.dir \in Pages /\ job.dir \notin Complete
          /\ job.next \in 0..NumTables
          /\ job.write \in BOOLEAN
          /\ kernel # Off =>
                /\ ~job.write /\ job.data \in Nat /\ job.pages \in Nat
                /\ HeapVirtual < job.data /\ job.data + job.pages <= HeapVirtual + HeapPages
    /\ job.doing = "heap" => job.next \in 0..HeapPages /\ spaces = {}
    /\ job.doing = "free" => job.next \in 0..NumTables /\ job.dir \in Pages /\ job.dir \notin Complete

Spaces ==
    /\ kernel = Off \/ kernel \in Pages
    /\ \A s \in spaces :
          /\ s.dir \in Pages /\ s.dir # kernel
          /\ s.data \in Nat /\ s.pages \in Nat
          /\ HeapVirtual < s.data /\ s.data + s.pages <= HeapVirtual + HeapPages
    /\ \A s, t \in spaces : s.dir = t.dir => s = t

InBinary(v, pages) == TaskVirtual <= v /\ v < TaskVirtual + pages

(* What the tables say: the kernel's map RAM onto itself, one that is being built
   does as far as it is built, a task's do but for its binary. *)
Contents ==
    /\ mem \in [Pages -> [Slots -> Words]]
    /\ kernel # Off =>
          \A v \in VPages \ BackedHeapPages : Walk(mem, kernel, v).frame = v
    /\ job.doing = "build" =>
          \A v \in VPages : v \div TableSize < job.next =>
              Walk(mem, job.dir, v) = PTE(v, job.write, TRUE)
    /\ \A s \in spaces : \A v \in VPages :
          Walk(mem, s.dir, v) =
              IF InBinary(v, s.pages)
              THEN PTE(Walk(mem, kernel, s.data).frame + (v - TaskVirtual), TRUE, TRUE)
              ELSE PTE(v, FALSE, TRUE)

IInv == Accounted /\ Phase /\ Spaces /\ Owned /\ Contents
-----------------------------------------------------------------------------
(* The numbers of pages and tables. *)
LEMMA Sizes ==
    /\ NumPages \in Nat /\ TableSize \in Nat \ {0} /\ NumTables \in Nat \ {0} /\ NumTables <= TableSize
    /\ HeapVirtual \in Nat /\ HeapPages \in Nat /\ TaskVirtual \in Nat
    /\ NumTables * TableSize \in Nat
    /\ NumPages <= HeapVirtual /\ HeapVirtual + HeapPages <= NumTables * TableSize
    /\ TaskVirtual + HeapPages <= NumTables * TableSize
<1>1. TableSize \in Nat \ {0} /\ NumTables \in Nat \ {0} /\ NumTables <= TableSize
  BY PagingAssumption
<1>2. NumTables * TableSize \in Nat
  BY <1>1
<1> QED
  BY <1>1, <1>2, PagesAssumption, PagingAssumption

(* RAM is no larger than what a directory reaches. *)
LEMMA PagesAreVirtual == Pages \subseteq VPages /\ Pages \subseteq Nat /\ VPages \subseteq Nat
<1>1. PICK n \in Nat : n = NumTables * TableSize
  BY Sizes
<1>2. NumPages <= n /\ NumPages \in Nat
  BY <1>1, Sizes
<1> QED
  BY <1>1, <1>2 DEF Pages, VPages

(* The entries a directory uses are slots of a page; -1 stands for the directory itself. *)
LEMMA TablesAreSlots == Tables \subseteq Slots /\ Tables \subseteq Nat /\ Slots \subseteq Nat /\ -1 \notin Tables
  BY Sizes DEF Tables, Slots

(* Every virtual page is one slot of one table. *)
LEMMA Indices ==
    ASSUME NEW v \in VPages
    PROVE  /\ v \in Nat /\ v \div TableSize \in Tables /\ v % TableSize \in Slots
           /\ v = (v \div TableSize) * TableSize + (v % TableSize)
<1>1. v \in Nat /\ v < NumTables * TableSize
  BY Sizes DEF VPages
<1>2. PICK q \in Nat, r \in 0..TableSize - 1 :
         q = v \div TableSize /\ r = v % TableSize /\ v = q * TableSize + r
  BY <1>1, Sizes, DivMod
<1>3. q * TableSize < NumTables * TableSize
  <2>1. PICK a \in Nat : a = q * TableSize
    BY Sizes
  <2>2. PICK b \in Nat : b = NumTables * TableSize
    BY Sizes
  <2>3. v = a + r
    BY <1>2, <2>1
  <2>4. v < b
    BY <1>1, <2>2
  <2>5. r \in Nat
    BY Sizes
  <2>6. a < b
    BY <1>1, <2>3, <2>4, <2>5
  <2> QED
    BY <2>1, <2>2, <2>6
<1>4. q < NumTables
  BY <1>3, Sizes, ProductsAgree
<1> QED
  BY <1>1, <1>2, <1>4, Sizes DEF Tables, Slots

(* Table and slot determine the virtual page. *)
LEMMA SameIndices ==
    ASSUME NEW v \in VPages, NEW w \in VPages,
           v \div TableSize = w \div TableSize, v % TableSize = w % TableSize
    PROVE  v = w
<1>1. /\ v = (v \div TableSize) * TableSize + (v % TableSize)
      /\ w = (w \div TableSize) * TableSize + (w % TableSize)
  BY Indices
<1> QED
  BY <1>1

-----------------------------------------------------------------------------
(* A translation depends on a directory and one of its tables only. *)
LEMMA WalkKept ==
    ASSUME NEW m, NEW n, NEW dir, NEW v,
           n[dir][v \div TableSize].frame = m[dir][v \div TableSize].frame,
           n[m[dir][v \div TableSize].frame] = m[m[dir][v \div TableSize].frame]
    PROVE  Walk(n, dir, v) = Walk(m, dir, v)
  BY DEF Walk

(* A physical address reaches its page while the kernel runs. *)
LEMMA ReachIs ==
    ASSUME NEW m, NEW p \in Pages, cr3 = kernel, kernel # Off => Walk(m, kernel, p).frame = p
    PROVE  Reach(m, p) = p
  BY DEF Reach

(* The kernel's directory translates every page of RAM to itself. *)
LEMMA KernelReaches ==
    ASSUME Phase, Contents, NEW p \in Pages
    PROVE  kernel # Off => Walk(mem, kernel, p).frame = p
<1>1. p \in VPages
  BY PagesAreVirtual
<1>2. p \notin BackedHeapPages
  <2>1. p \in Nat /\ p < HeapVirtual
    BY Sizes DEF Pages
  <2>2. \A v \in BackedHeapPages : v \in Int /\ HeapVirtual <= v
    BY Sizes DEF BackedHeapPages
  <2> QED
    BY <2>1, <2>2, Sizes
<1> QED
  BY <1>1, <1>2 DEF Contents

-----------------------------------------------------------------------------
(* Roles come and go one by one. *)
LEMMA OwnedSame ==
    ASSUME Owned, Roles' = Roles, held' = held,
           \A q \in Roles : PageAt(mem', kernel', q) = PageAt(mem, kernel, q)
    PROVE  Owned'
  BY DEF Owned

(* A page that page_alloc gives out for one new role leaves every held page with one role. *)
LEMMA OwnedAdd ==
    ASSUME Owned, NEW r, Roles' = Roles \cup {r}, NEW p \in Pages, p \notin held, held' = held \cup {p},
           PageAt(mem', kernel', r) = p,
           \A q \in Roles : PageAt(mem', kernel', q) = PageAt(mem, kernel, q)
    PROVE  Owned'
<1>1. \A q \in Roles : PageAt(mem, kernel, q) \in held
  BY DEF Owned
<1>2. held' = {PageAt(mem', kernel', q) : q \in Roles'}
  BY DEF Owned
<1>3. \A q, s \in Roles' : PageAt(mem', kernel', q) = PageAt(mem', kernel', s) => q = s
  BY <1>1 DEF Owned
<1> QED
  BY <1>2, <1>3 DEF Owned

(* A page that is given back along with its role leaves the others theirs. *)
LEMMA OwnedDrop ==
    ASSUME Owned, NEW r \in Roles, Roles' = Roles \ {r}, held' = held \ {PageAt(mem, kernel, r)},
           \A q \in Roles : PageAt(mem', kernel', q) = PageAt(mem, kernel, q)
    PROVE  Owned'
<1>1. held' = {PageAt(mem', kernel', q) : q \in Roles'}
  BY DEF Owned
<1>2. \A q, s \in Roles' : PageAt(mem', kernel', q) = PageAt(mem', kernel', s) => q = s
  BY DEF Owned
<1> QED
  BY <1>1, <1>2 DEF Owned
-----------------------------------------------------------------------------
(* The directories there are, and the slots in which they have a table. *)
Dirs == Complete \cup (IF job.doing \in {"build", "free"} THEN {job.dir} ELSE {})

SlotsOf(d) == IF d \in Complete THEN Tables ELSE JobSlots

(* A page has no role but its own: directories and tables are distinct pages. *)
LEMMA Parts ==
    ASSUME Owned, Phase, Spaces
    PROVE  /\ \A d \in Dirs : d \in held /\ \A i \in SlotsOf(d) : mem[d][i].frame \in held
           /\ \A d, e \in Dirs : \A i \in SlotsOf(d) :
                 /\ mem[d][i].frame # e
                 /\ \A j \in SlotsOf(e) : mem[d][i].frame = mem[e][j].frame => d = e /\ i = j
<1>1. /\ Complete \subseteq Pages /\ Off \notin Complete
      /\ job.doing \in {"build", "free"} => job.dir \in Pages /\ job.dir # Off /\ job.dir \notin Complete
      /\ -1 \notin Tables /\ Tables \subseteq Nat
  BY PagesAreVirtual, TablesAreSlots DEF Complete, Spaces, Phase, Off
<1>2. ASSUME job.doing \in {"build", "free"} PROVE JobSlots \subseteq Tables
  <2>1. job.next \in 0..NumTables /\ NumTables \in Nat
    BY <1>2, Sizes DEF Phase
  <2> QED
    BY <2>1 DEF JobSlots, Tables
<1>3. \A d \in Dirs : d # Off /\ SlotsOf(d) \subseteq Tables
  BY <1>1, <1>2 DEF Dirs, SlotsOf
<1>4. \A d \in Dirs : /\ <<d, -1>> \in Roles /\ PageAt(mem, kernel, <<d, -1>>) = d
                      /\ \A i \in SlotsOf(d) : /\ <<d, i>> \in Roles
                                               /\ PageAt(mem, kernel, <<d, i>>) = mem[d][i].frame
  <2> SUFFICES ASSUME NEW d \in Dirs
               PROVE  /\ <<d, -1>> \in Roles /\ PageAt(mem, kernel, <<d, -1>>) = d
                      /\ \A i \in SlotsOf(d) : /\ <<d, i>> \in Roles
                                               /\ PageAt(mem, kernel, <<d, i>>) = mem[d][i].frame
    OBVIOUS
  <2>1. -1 \in -1..NumTables - 1 /\ Tables \subseteq -1..NumTables - 1
    BY Sizes DEF Tables
  <2>2. <<d, -1>> \in Roles /\ \A i \in SlotsOf(d) : <<d, i>> \in Roles
    BY <2>1, <1>1 DEF Roles, WholeRoles, JobRoles, Dirs, SlotsOf
  <2>3. PageAt(mem, kernel, <<d, -1>>) = d
    BY <1>3 DEF PageAt
  <2>4. \A i \in SlotsOf(d) : PageAt(mem, kernel, <<d, i>>) = mem[d][i].frame
    BY <1>1, <1>3 DEF PageAt
  <2> QED
    BY <2>2, <2>3, <2>4
<1>5. \A r \in Roles : PageAt(mem, kernel, r) \in held
  BY DEF Owned
<1>6. \A q, r \in Roles : PageAt(mem, kernel, q) = PageAt(mem, kernel, r) => q = r
  BY DEF Owned
<1>7. ASSUME NEW d \in Dirs, NEW e \in Dirs, NEW i \in SlotsOf(d)
      PROVE  /\ mem[d][i].frame # e
             /\ \A j \in SlotsOf(e) : mem[d][i].frame = mem[e][j].frame => d = e /\ i = j
  <2> DEFINE q == <<d, i>>
             r(j) == <<e, j>>
  <2>1. q \in Roles /\ PageAt(mem, kernel, q) = mem[d][i].frame
    BY <1>4, Zenon
  <2>2. \A j \in SlotsOf(e) : r(j) \in Roles /\ PageAt(mem, kernel, r(j)) = mem[e][j].frame
    BY <1>4, Zenon
  <2>3. r(-1) \in Roles /\ PageAt(mem, kernel, r(-1)) = e
    BY <1>4, Zenon
  <2>4. q # r(-1)
    BY <1>1, <1>3
  <2>5. \A j : q = r(j) => d = e /\ i = j
    OBVIOUS
  <2> HIDE DEF q, r
  <2>6. mem[d][i].frame # e
    BY <2>1, <2>3, <2>4, <1>6, Zenon
  <2>7. \A j \in SlotsOf(e) : mem[d][i].frame = mem[e][j].frame => q = r(j)
    BY <2>1, <2>2, <1>6, Zenon
  <2> QED
    BY <2>5, <2>6, <2>7, Zenon
<1>8. \A d \in Dirs : d \in held /\ \A i \in SlotsOf(d) : mem[d][i].frame \in held
  BY <1>4, <1>5, Zenon
<1> QED
  BY <1>7, <1>8

(* What is written to other pages does not change what a directory translates. *)
LEMMA Untouched ==
    ASSUME Owned, Phase, Spaces, NEW d \in Complete, NEW n, NEW P,
           \A x \in Pages : x \notin P => n[x] = mem[x],
           d \notin P, \A i \in Tables : mem[d][i].frame \notin P
    PROVE  n[d] = mem[d] /\ \A v \in VPages : Walk(n, d, v) = Walk(mem, d, v)
<1>1. d \in Pages /\ \A i \in Tables : mem[d][i].frame \in Pages
  BY Parts DEF Dirs, SlotsOf, Owned
<1>2. n[d] = mem[d] /\ \A i \in Tables : n[mem[d][i].frame] = mem[mem[d][i].frame]
  BY <1>1
<1>3. ASSUME NEW v \in VPages PROVE Walk(n, d, v) = Walk(mem, d, v)
  <2>1. v \div TableSize \in Tables
    BY Indices
  <2> QED
    BY <2>1, <1>2 DEF Walk
<1> QED
  BY <1>2, <1>3

(* While the kernel runs, and as long as it is mapped as it was, a physical address
   reaches its page. *)
LEMMA Reaches ==
    ASSUME Phase, Contents, cr3 = kernel, NEW n,
           kernel # Off => \A v \in VPages : Walk(n, kernel, v) = Walk(mem, kernel, v)
    PROVE  \A p \in Pages : Reach(n, p) = p
  BY KernelReaches, PagesAreVirtual DEF Reach

(* paging_set changes the word of one virtual page. *)
IsSet(n, m, d, v, word) ==
    /\ n \in [Pages -> [Slots -> Words]]
    /\ \A x \in Pages : x # m[d][v \div TableSize].frame => n[x] = m[x]
    /\ Walk(n, d, v) = word
    /\ \A u \in VPages : u # v => Walk(n, d, u) = Walk(m, d, u)

(* paging_set writes one entry, in a table of the directory, if physical addresses are pointers. *)
LEMMA SetIs ==
    ASSUME NEW m \in [Pages -> [Slots -> Words]], NEW d \in Pages,
           \A i \in Tables : m[d][i].frame \in Pages /\ m[d][i].frame # d,
           \A i, j \in Tables : m[d][i].frame = m[d][j].frame => i = j,
           \A p \in Pages : Reach(m, p) = p,
           NEW v \in VPages, NEW word \in Words
    PROVE  IsSet(PagingSet(m, d, v, word), m, d, v, word)
<1>1. PICK i \in Tables, s \in Slots : i = v \div TableSize /\ s = v % TableSize
  BY Indices
<1>2. PICK t \in Pages : t = m[d][i].frame /\ t # d
  OBVIOUS
<1>3. PICK n : n = PagingSet(m, d, v, word)
  OBVIOUS
<1>4. n = [m EXCEPT ![t][s] = word]
  BY <1>1, <1>2, <1>3 DEF PagingSet, WriteWord, Read
<1>5. n \in [Pages -> [Slots -> Words]] /\ n[t][s] = word
      /\ (\A x \in Pages : x # t => n[x] = m[x]) /\ \A r \in Slots : r # s => n[t][r] = m[t][r]
  BY <1>4
<1>6. n[d] = m[d]
  BY <1>2, <1>5
<1>7. Walk(n, d, v) = word
  BY <1>1, <1>2, <1>5, <1>6 DEF Walk
<1>8. ASSUME NEW u \in VPages, u # v PROVE Walk(n, d, u) = Walk(m, d, u)
  <2>1. u \div TableSize \in Tables /\ u % TableSize \in Slots
    BY Indices
  <2>2. CASE u \div TableSize = i
    <3>1. u % TableSize # s
      BY <2>2, <1>1, <1>8, SameIndices
    <3> QED
      BY <3>1, <2>1, <2>2, <1>2, <1>5, <1>6 DEF Walk
  <2>3. CASE u \div TableSize # i
    <3>1. m[d][u \div TableSize].frame # t /\ m[d][u \div TableSize].frame \in Pages
      BY <2>1, <2>3, <1>2
    <3> QED
      BY <3>1, <1>5, <1>6 DEF Walk
  <2> QED
    BY <2>2, <2>3
<1>9. IsSet(n, m, d, v, word)
  BY <1>1, <1>2, <1>5, <1>7, <1>8 DEF IsSet
<1> QED
  BY <1>3, <1>9

-----------------------------------------------------------------------------
(* What the two operations of the page allocator do to the pages handed out. *)
LEMMA Allocated ==
    ASSUME Accounted, NEW p, PageAlloc(p)
    PROVE  Accounted' /\ p \in Pages /\ p \notin held /\ held' = held \cup {p}
  BY DEF Accounted, PageAlloc, Searched, Free

(* page_free of a page that is held keeps bitmap and owners together. *)
LEMMA GivenBack ==
    ASSUME Accounted, NEW p \in held, PageFree(p)
    PROVE  Accounted' /\ held' = held \ {p}
  BY DEF Accounted, PageFree

(* The pages behind the heap are virtual pages. *)
LEMMA BackedAreVirtual ==
    ASSUME Phase
    PROVE  /\ BackedHeapPages \subseteq VPages
           /\ \A v \in BackedHeapPages : v \in Nat /\ HeapVirtual <= v /\ v < HeapVirtual + HeapPages
<1>1. job.doing = "heap" => job.next \in Int /\ job.next <= HeapPages
  BY Sizes DEF Phase
<1>2. \A v \in BackedHeapPages : v \in Nat /\ HeapVirtual <= v /\ v < HeapVirtual + HeapPages
  BY <1>1, Sizes DEF BackedHeapPages
<1>3. \A v \in Nat : v < HeapVirtual + HeapPages => v \in VPages
  BY Sizes DEF VPages
<1> QED
  BY <1>2, <1>3

(* The boot images. *)
LEMMA InitInv == Init => IInv
<1> SUFFICES ASSUME Init PROVE IInv
  OBVIOUS
<1>1. Accounted
  BY DEF Init, AllocInit, Accounted
<1>2. job.doing = "reserve" /\ kernel = Off /\ cr3 = Off /\ spaces = {} /\ held = {}
  BY DEF Init, AllocInit, Reserving
<1>3. Phase /\ Spaces
  BY <1>2 DEF Phase, Spaces
<1>4. Roles = {}
  BY <1>2 DEF Roles, WholeRoles, JobRoles, HeapRoles, Complete, BackedHeapPages
<1>5. Owned
  BY <1>2, <1>4 DEF Owned
<1>6. mem \in [Pages -> [Slots -> Words]]
  <2>1. 0 \in VPages
    <3>1. NumTables * TableSize > 0
      BY Sizes
    <3> QED
      BY <3>1, Sizes DEF VPages
  <2>2. PTE(0, FALSE, FALSE) \in Words
    BY <2>1 DEF PTE, Words
  <2> QED
    BY <2>2 DEF Init, Blank
<1>7. Contents
  BY <1>2, <1>6 DEF Contents
<1> QED
  BY <1>1, <1>3, <1>5, <1>7 DEF IInv

(* Reserving a boot image hands out nothing. *)
LEMMA ReserveInv == IInv /\ ReserveImage => IInv'
<1> SUFFICES ASSUME IInv, ReserveImage PROVE IInv'
  OBVIOUS
<1>1. /\ job.doing = "reserve" /\ job'.doing = "reserve" /\ kernel = Off /\ held = {} /\ held' = {}
      /\ spaces = {} /\ UNCHANGED <<mem, cr3, kernel, spaces>> /\ cr3 = kernel
  BY DEF IInv, Phase, ReserveImage, PageReserve, Reserving
<1>2. Accounted'
  BY <1>1 DEF IInv, Accounted, ReserveImage, PageReserve
<1>3. Phase' /\ Spaces'
  BY <1>1 DEF Phase, Spaces
<1>4. Roles' = {}
  BY <1>1 DEF Roles, WholeRoles, JobRoles, HeapRoles, Complete, BackedHeapPages
<1>5. Owned'
  BY <1>1, <1>4 DEF Owned
<1>6. Contents'
  BY <1>1 DEF IInv, Contents
<1> QED
  BY <1>2, <1>3, <1>5, <1>6 DEF IInv

(* page_directory_create takes its first page. *)
LEMMA StartInv ==
    ASSUME IInv, job.doing \in {"reserve", "idle"}, NEW write \in BOOLEAN, NEW data, NEW pages,
           kernel # Off => /\ ~write /\ data \in Nat /\ pages \in Nat
                           /\ HeapVirtual < data /\ data + pages <= HeapVirtual + HeapPages,
           StartDirectory(write, data, pages)
    PROVE  IInv'
<1>1. PICK dir : PageAlloc(dir) /\ job' = Building(dir, write, data, pages, 0)
  BY DEF StartDirectory
<1>2. UNCHANGED <<mem, cr3, kernel, spaces>> /\ cr3 = kernel
  BY DEF StartDirectory, IInv, Phase
<1>3. Accounted' /\ dir \in Pages /\ dir \notin held /\ held' = held \cup {dir}
  BY <1>1, Allocated DEF IInv
<1>4. /\ job'.doing = "build" /\ job'.dir = dir /\ job'.write = write /\ job'.data = data
      /\ job'.pages = pages /\ job'.next = 0
      /\ DOMAIN job' = {"doing", "dir", "write", "data", "pages", "next"}
  BY <1>1 DEF Building
<1>5. dir \notin Complete /\ Complete' = Complete
  BY <1>2, <1>3, Parts DEF IInv, Dirs, Complete
<1>6. Phase'
  <2>1. 0 \in 0..NumTables
    BY Sizes
  <2> QED
    BY <2>1, <1>2, <1>3, <1>4, <1>5 DEF IInv, Phase
<1>7. Spaces'
  BY <1>2 DEF IInv, Spaces
<1>8. Owned'
  <2>1. JobRoles = {} /\ JobRoles' = {<<dir, -1>>}
    BY <1>4 DEF JobRoles, JobSlots
  <2>2. BackedHeapPages' = BackedHeapPages
    BY <1>2, <1>4 DEF BackedHeapPages
  <2>3. Roles' = Roles \cup {<<dir, -1>>}
    BY <2>1, <2>2, <1>5 DEF Roles, WholeRoles, HeapRoles
  <2>4. PageAt(mem', kernel', <<dir, -1>>) = dir
    BY <1>3, PagesAreVirtual DEF PageAt, Off
  <2>5. \A q \in Roles : PageAt(mem', kernel', q) = PageAt(mem, kernel, q)
    BY <1>2
  <2> QED
    BY <2>3, <2>4, <2>5, <1>3, OwnedAdd DEF IInv
<1>9. Contents'
  <2>1. BackedHeapPages' = BackedHeapPages
    BY <1>2, <1>4 DEF BackedHeapPages
  <2>2. \A v \in VPages : ~(v \div TableSize < 0)
    <3>1. \A v \in VPages : v \div TableSize \in Nat
      BY Indices, TablesAreSlots
    <3>2. \A q \in Nat : ~(q < 0)
      OBVIOUS
    <3> QED
      BY <3>1, <3>2, Zenon
  <2> QED
    BY <2>1, <2>2, <1>2, <1>4 DEF IInv, Contents
<1> QED
  BY <1>3, <1>6, <1>7, <1>8, <1>9 DEF IInv

(* A binary begins a number of pages. *)
LEMMA PagesForIsNatural == \A size \in BinarySizes : PagesFor(size) \in Nat
<1>1. SUFFICES ASSUME NEW size \in BinarySizes PROVE PagesFor(size) \in Nat
  OBVIOUS
<1>2. PICK n \in Nat : n = size + PageSize - 1
  BY PagingAssumption
<1>3. n \div PageSize \in Nat
  BY PagingAssumption, Z3
<1> QED
  BY <1>2, <1>3 DEF PagesFor

(* Starting a directory, the kernel's or a task's, takes one page for it. *)
LEMMA CreateInv ==
    /\ IInv /\ CreateKernelDirectory => IInv'
    /\ \A data \in VPages, size \in BinarySizes : IInv /\ CreateSpace(data, size) => IInv'
<1>1. ASSUME IInv, CreateKernelDirectory PROVE IInv'
  <2>1. job.doing = "reserve" /\ kernel = Off /\ StartDirectory(TRUE, HeapVirtual, 0)
    BY <1>1 DEF IInv, Phase, CreateKernelDirectory
  <2> QED
    BY <2>1, <1>1, StartInv
<1>2. ASSUME NEW data \in VPages, NEW size \in BinarySizes, IInv, CreateSpace(data, size) PROVE IInv'
  <2>1. /\ job.doing = "idle" /\ StartDirectory(FALSE, data, PagesFor(size))
        /\ HeapVirtual < data /\ data + PagesFor(size) <= HeapVirtual + HeapPages
    BY <1>2 DEF CreateSpace, Placeable, Idle
  <2>2. data \in Nat /\ PagesFor(size) \in Nat
    BY PagesAreVirtual, PagesForIsNatural
  <2> QED
    BY <2>1, <2>2, <1>2, StartInv
<1> QED
  BY <1>1, <1>2
-----------------------------------------------------------------------------
(* A slot of a table is a virtual page. *)
LEMMA VirtualPage ==
    ASSUME NEW i \in Tables, NEW slot \in Slots
    PROVE  i * TableSize + slot \in VPages
<1>1. i \in Nat /\ slot \in Nat /\ i + 1 <= NumTables /\ slot < TableSize
  BY Sizes DEF Tables, Slots
<1>2. PICK a \in Nat : a = i * TableSize
  BY <1>1, Sizes
<1>3. PICK b \in Nat : b = NumTables * TableSize
  BY Sizes
<1>4. (i + 1) * TableSize <= NumTables * TableSize /\ (i + 1) * TableSize = i * TableSize + TableSize
  BY <1>1, Sizes, ProductsAgree
<1>5. a + TableSize <= b
  BY <1>2, <1>3, <1>4
<1>6. a + slot \in 0..b - 1
  BY <1>1, <1>5, Sizes
<1> QED
  BY <1>2, <1>3, <1>6 DEF VPages

(* A table's identity mapping. *)
LEMMA IdentityTableIs ==
    ASSUME NEW i \in Tables, NEW write \in BOOLEAN
    PROVE  /\ IdentityTable(i, write) \in [Slots -> Words]
           /\ \A v \in VPages : v \div TableSize = i =>
                 IdentityTable(i, write)[v % TableSize] = PTE(v, write, TRUE)
<1>1. IdentityTable(i, write) \in [Slots -> Words]
  BY VirtualPage DEF IdentityTable, PTE, Words
<1>2. ASSUME NEW v \in VPages, v \div TableSize = i
      PROVE  IdentityTable(i, write)[v % TableSize] = PTE(v, write, TRUE)
  <2>1. v % TableSize \in Slots /\ v = i * TableSize + (v % TableSize)
    BY <1>2, Indices
  <2>2. PICK r \in Slots : r = v % TableSize
    BY <2>1
  <2>3. IdentityTable(i, write)[r] = PTE(i * TableSize + r, write, TRUE)
    BY DEF IdentityTable
  <2> QED
    BY <2>1, <2>2, <2>3
<1> QED
  BY <1>1, <1>2

(* A turn of the loop of page_directory_create: what it leaves in memory. *)
LEMMA TableFilled ==
    ASSUME IInv, FillTable
    PROVE  \E table \in Pages, k \in Tables :
              /\ k = job.next /\ table \notin held /\ held' = held \cup {table} /\ Accounted'
              /\ mem' \in [Pages -> [Slots -> Words]]
              /\ mem'[table] = IdentityTable(k, job.write)
              /\ mem'[job.dir] = [mem[job.dir] EXCEPT ![k] = PTE(table, TRUE, TRUE)]
              /\ \A x \in Pages : x \notin {table, job.dir} => mem'[x] = mem[x]
<1>1. PICK table : /\ PageAlloc(table)
                   /\ mem' = WriteWord(WriteTable(mem, table, IdentityTable(job.next, job.write)),
                                       job.dir, job.next, PTE(table, TRUE, TRUE))
  BY DEF FillTable
<1>2. Accounted' /\ table \in Pages /\ table \notin held /\ held' = held \cup {table}
  BY <1>1, Allocated DEF IInv
<1>3. job.doing = "build" /\ job.next < NumTables /\ job.next \in 0..NumTables
      /\ job.dir \in Pages /\ job.write \in BOOLEAN /\ cr3 = kernel
  BY DEF FillTable, IInv, Phase
<1>4. PICK k \in Tables : k = job.next
  BY <1>3, Sizes DEF Tables
<1>5. job.dir \in held
  BY <1>3, Parts DEF IInv, Dirs
<1>6. table # job.dir
  BY <1>2, <1>5
<1>7. Reach(mem, table) = table
  BY <1>2, <1>3, Reaches DEF IInv
<1>8. PICK n : n = [mem EXCEPT ![table] = IdentityTable(k, job.write)]
  OBVIOUS
<1>9. n \in [Pages -> [Slots -> Words]] /\ n[table] = IdentityTable(k, job.write)
      /\ \A x \in Pages : x # table => n[x] = mem[x]
  BY <1>2, <1>3, <1>8, IdentityTableIs DEF IInv, Contents
<1>10. Reach(n, job.dir) = job.dir
  <2>1. ASSUME kernel # Off PROVE \A v \in VPages : Walk(n, kernel, v) = Walk(mem, kernel, v)
    <3>1. kernel \in Complete
      BY <2>1 DEF Complete
    <3>2. kernel \notin {table} /\ \A i \in Tables : mem[kernel][i].frame \notin {table}
      BY <3>1, <1>2, Parts DEF IInv, Dirs, SlotsOf
    <3>3. \A x \in Pages : x \notin {table} => n[x] = mem[x]
      BY <1>9
    <3> QED
      BY <3>1, <3>2, <3>3, Untouched DEF IInv
  <2> QED
    BY <2>1, <1>3, Reaches DEF IInv
<1>11. mem' = [n EXCEPT ![job.dir][k] = PTE(table, TRUE, TRUE)]
  BY <1>1, <1>4, <1>7, <1>8, <1>10 DEF WriteWord, WriteTable
<1>12. PTE(table, TRUE, TRUE) \in Words /\ k \in Slots
  BY <1>2, <1>4, PagesAreVirtual, TablesAreSlots DEF PTE, Words
<1>13. mem' \in [Pages -> [Slots -> Words]] /\ mem'[job.dir] = [n[job.dir] EXCEPT ![k] = PTE(table, TRUE, TRUE)]
       /\ \A x \in Pages : x # job.dir => mem'[x] = n[x]
  BY <1>3, <1>9, <1>11, <1>12
<1>14. /\ mem'[table] = IdentityTable(k, job.write)
       /\ mem'[job.dir] = [mem[job.dir] EXCEPT ![k] = PTE(table, TRUE, TRUE)]
       /\ \A x \in Pages : x \notin {table, job.dir} => mem'[x] = mem[x]
  BY <1>2, <1>3, <1>6, <1>9, <1>13
<1> QED
  BY <1>2, <1>4, <1>13, <1>14

(* A round of page_directory_create takes a page for a table and fills it with the identity. *)
LEMMA FillInv == IInv /\ FillTable => IInv'
<1> SUFFICES ASSUME IInv, FillTable PROVE IInv'
  OBVIOUS
<1>1. PICK table \in Pages, k \in Tables :
              /\ k = job.next /\ table \notin held /\ held' = held \cup {table} /\ Accounted'
              /\ mem' \in [Pages -> [Slots -> Words]]
              /\ mem'[table] = IdentityTable(k, job.write)
              /\ mem'[job.dir] = [mem[job.dir] EXCEPT ![k] = PTE(table, TRUE, TRUE)]
              /\ \A x \in Pages : x \notin {table, job.dir} => mem'[x] = mem[x]
  BY TableFilled
<1>2. /\ job.doing = "build" /\ job.dir \in Pages /\ job.dir \notin Complete /\ job.write \in BOOLEAN
      /\ UNCHANGED <<cr3, kernel, spaces>>
      /\ Phase /\ Spaces /\ Owned /\ Contents
  BY DEF FillTable, IInv, Phase
<1>3. /\ job'.doing = "build" /\ job'.dir = job.dir /\ job'.write = job.write /\ job'.data = job.data
      /\ job'.pages = job.pages /\ job'.next = k + 1
      /\ DOMAIN job' = {"doing", "dir", "write", "data", "pages", "next"}
  BY <1>1, <1>2 DEF FillTable, Phase
<1>4. k + 1 \in 0..NumTables /\ k \in Nat
  BY Sizes DEF Tables
<1>5. Complete' = Complete /\ BackedHeapPages' = BackedHeapPages
  BY <1>2, <1>3 DEF Complete, BackedHeapPages
<1>6. Phase'
  BY <1>2, <1>3, <1>4, <1>5 DEF Phase
<1>7. Spaces'
  BY <1>2 DEF Spaces
<1>8. ASSUME NEW d \in Complete
      PROVE  mem'[d] = mem[d] /\ \A v \in VPages : Walk(mem', d, v) = Walk(mem, d, v)
  <2>1. /\ d \in held /\ \A i \in Tables : mem[d][i].frame \in held
        /\ \A i \in Tables : mem[d][i].frame # job.dir
    BY <1>2, Parts DEF Dirs, SlotsOf
  <2> DEFINE P == {table, job.dir}
  <2>2. d \notin P /\ \A i \in Tables : mem[d][i].frame \notin P
    BY <2>1, <1>1, <1>2
  <2>3. \A x \in Pages : x \notin P => mem'[x] = mem[x]
    BY <1>1
  <2> HIDE DEF P
  <2> QED
    BY <2>2, <2>3, <1>2, Untouched
<1>9. kernel # Off => \A v \in VPages : Walk(mem', kernel, v) = Walk(mem, kernel, v)
  BY <1>8 DEF Complete
<1>10. Owned'
  <2>1. JobRoles' = JobRoles \cup {<<job.dir, k>>}
    <3>1. JobSlots' = JobSlots \cup {k}
      BY <1>1, <1>2, <1>3, <1>4 DEF JobSlots
    <3> QED
      BY <3>1, <1>2, <1>3 DEF JobRoles
  <2>2. Roles' = Roles \cup {<<job.dir, k>>}
    BY <2>1, <1>5 DEF Roles, WholeRoles, HeapRoles
  <2>3. PageAt(mem', kernel', <<job.dir, k>>) = table
    <3>1. mem'[job.dir][k] = PTE(table, TRUE, TRUE)
      BY <1>1, <1>2, TablesAreSlots DEF Contents
    <3>2. job.dir # Off /\ k # -1
      BY <1>2, PagesAreVirtual, TablesAreSlots DEF Off
    <3> QED
      BY <3>1, <3>2 DEF PageAt, PTE
  <2>4. ASSUME NEW q \in Roles PROVE PageAt(mem', kernel', q) = PageAt(mem, kernel, q)
    <3>1. CASE q \in WholeRoles
      <4>1. q[1] \in Complete /\ q[1] # Off
        BY <3>1, <1>2, PagesAreVirtual DEF WholeRoles, Complete, Spaces, Off
      <4> QED
        BY <4>1, <1>8 DEF PageAt
    <3>2. CASE q \in JobRoles
      <4>1. q[1] = job.dir /\ q[1] # Off
        BY <3>2, <1>2, PagesAreVirtual DEF JobRoles, Off
      <4>2. q[2] = -1 \/ q[2] \in 0..k - 1
        BY <3>2, <1>1, <1>2 DEF JobRoles, JobSlots
      <4>3. q[2] # -1 => mem'[job.dir][q[2]] = mem[job.dir][q[2]]
        <5>1. q[2] # -1 => q[2] \in Slots /\ q[2] # k
          BY <4>2, <1>4, Sizes DEF Slots
        <5> QED
          BY <5>1, <1>1, <1>2 DEF Contents
      <4> QED
        BY <4>1, <4>2, <4>3 DEF PageAt
    <3>3. CASE q \in HeapRoles
      <4>1. q[1] = Off /\ q[2] \in VPages /\ kernel # Off
        BY <3>3, <1>2, BackedAreVirtual DEF HeapRoles, BackedHeapPages
      <4> QED
        BY <4>1, <1>2, <1>9 DEF PageAt
    <3> QED
      BY <3>1, <3>2, <3>3 DEF Roles
  <2> QED
    BY <2>2, <2>3, <2>4, <1>1, <1>2, OwnedAdd
<1>11. ASSUME NEW v \in VPages, v \div TableSize < k + 1
       PROVE  Walk(mem', job.dir, v) = PTE(v, job.write, TRUE)
  <2>1. PICK i \in Tables, r \in Slots : i = v \div TableSize /\ r = v % TableSize
    BY Indices
  <2>2. i \in Nat /\ i < k + 1
    BY <2>1, <1>11, TablesAreSlots
  <2>3. CASE i = k
    <3>1. mem'[job.dir][k].frame = table
      BY <1>1, <1>2, TablesAreSlots DEF Contents, PTE
    <3>2. IdentityTable(k, job.write)[v % TableSize] = PTE(v, job.write, TRUE)
      BY <1>2, <2>1, <2>3, IdentityTableIs
    <3>3. mem'[table][r] = PTE(v, job.write, TRUE)
      BY <3>2, <1>1, <2>1
    <3>4. Walk(mem', job.dir, v) = mem'[mem'[job.dir][k].frame][r]
      BY <2>1, <2>3 DEF Walk
    <3> QED
      BY <3>1, <3>3, <3>4
  <2>4. CASE i < k
    <3>1. i \in JobSlots
      BY <2>2, <2>4, <1>1, <1>2, <1>4 DEF JobSlots
    <3>2. mem[job.dir][i].frame \in held /\ mem[job.dir][i].frame # job.dir
      BY <3>1, <1>2, Parts DEF Dirs, SlotsOf
    <3>3. mem'[mem[job.dir][i].frame] = mem[mem[job.dir][i].frame]
      BY <3>2, <1>1, <1>2 DEF Owned
    <3>4. mem'[job.dir][i] = mem[job.dir][i]
      <4>1. i \in Slots /\ i # k /\ mem[job.dir] \in [Slots -> Words]
        BY <2>2, <2>4, <1>2, <1>4, TablesAreSlots DEF Contents
      <4> QED
        BY <4>1, <1>1
    <3>5. Walk(mem, job.dir, v) = PTE(v, job.write, TRUE)
      BY <2>1, <2>4, <1>1, <1>2 DEF Contents
    <3>6. /\ Walk(mem', job.dir, v) = mem'[mem'[job.dir][i].frame][r]
          /\ Walk(mem, job.dir, v) = mem[mem[job.dir][i].frame][r]
      BY <2>1 DEF Walk
    <3> QED
      BY <3>3, <3>4, <3>5, <3>6
  <2> QED
    <3>1. i = k \/ i < k
      BY <2>2, <1>4
    <3> QED
      BY <3>1, <2>3, <2>4, Zenon
<1>12. Contents'
  <2>1. kernel' # Off => \A v \in VPages \ BackedHeapPages' : Walk(mem', kernel', v).frame = v
    BY <1>2, <1>5, <1>9 DEF Contents
  <2>2. ASSUME NEW s \in spaces', NEW v \in VPages
        PROVE  Walk(mem', s.dir, v) =
                 IF InBinary(v, s.pages)
                 THEN PTE(Walk(mem', kernel', s.data).frame + (v - TaskVirtual), TRUE, TRUE)
                 ELSE PTE(v, FALSE, TRUE)
    <3>1. s.dir \in Complete /\ kernel # Off /\ s \in spaces
      BY <2>2, <1>2 DEF Complete, Phase
    <3>2. InBinary(v, s.pages) => s.data \in VPages
      <4>1. s.pages \in Nat /\ s.data \in Nat /\ s.data + s.pages <= HeapVirtual + HeapPages
        BY <3>1, <1>2 DEF Spaces
      <4>2. InBinary(v, s.pages) => s.pages > 0
        BY <4>1, PagesAreVirtual, Sizes DEF InBinary
      <4> QED
        BY <4>1, <4>2, Sizes DEF VPages
    <3>3. Walk(mem', s.dir, v) = Walk(mem, s.dir, v)
      BY <3>1, <1>8
    <3>4. InBinary(v, s.pages) => Walk(mem', kernel', s.data) = Walk(mem, kernel, s.data)
      BY <3>1, <3>2, <1>2, <1>9
    <3> QED
      BY <3>1, <3>3, <3>4, <1>2 DEF Contents
  <2> QED
    BY <2>1, <2>2, <1>1, <1>3, <1>11 DEF Contents
<1> QED
  BY <1>1, <1>6, <1>7, <1>10, <1>12 DEF IInv
(* The kernel's directory is complete and takes over. *)
LEMMA EnableInv == IInv /\ EnablePaging => IInv'
<1> SUFFICES ASSUME IInv, EnablePaging PROVE IInv'
  OBVIOUS
<1>1. /\ job.doing = "build" /\ job.next = NumTables /\ kernel = Off /\ spaces = {} /\ job.dir \in Pages
      /\ Phase /\ Spaces /\ Owned /\ Contents /\ Accounted
  BY DEF EnablePaging, Built, IInv, Phase
<1>2. /\ kernel' = job.dir /\ cr3' = job.dir /\ job'.doing = "heap" /\ job'.next = 0
      /\ UNCHANGED <<marked, held, pinned, mem, spaces>>
  BY DEF EnablePaging, Backing, allocVars
<1>3. job.dir # Off /\ kernel' # Off
  BY <1>1, <1>2, PagesAreVirtual DEF Off
<1>4. Accounted' /\ Spaces'
  BY <1>1, <1>2 DEF Accounted, Spaces
<1>5. Phase'
  <2>1. 0 \in 0..HeapPages
    BY Sizes
  <2> QED
    BY <2>1, <1>1, <1>2, <1>3 DEF Phase
<1>6. BackedHeapPages' = {} /\ BackedHeapPages = {}
  BY <1>1, <1>2, <1>3, Sizes DEF BackedHeapPages
<1>7. Roles' = Roles
  <2>1. Complete = {} /\ Complete' = {job.dir}
    BY <1>1, <1>2, <1>3 DEF Complete
  <2>2. JobSlots = 0..NumTables - 1 /\ {-1} \cup (0..NumTables - 1) = -1..NumTables - 1
    BY <1>1, Sizes DEF JobSlots
  <2>3. JobRoles = {job.dir} \X (-1..NumTables - 1) /\ JobRoles' = {}
    BY <1>1, <1>2, <2>2 DEF JobRoles
  <2>4. WholeRoles = {} /\ WholeRoles' = {job.dir} \X (-1..NumTables - 1)
    BY <2>1 DEF WholeRoles
  <2>5. HeapRoles = {} /\ HeapRoles' = {}
    BY <1>6 DEF HeapRoles
  <2> QED
    BY <2>3, <2>4, <2>5 DEF Roles
<1>8. ASSUME NEW q \in Roles PROVE PageAt(mem', kernel', q) = PageAt(mem, kernel, q)
  <2>1. q \in JobRoles
    BY <1>1, <1>6 DEF Roles, WholeRoles, HeapRoles, Complete
  <2>2. q[1] # Off
    BY <2>1, <1>3 DEF JobRoles
  <2> QED
    BY <2>2, <1>2 DEF PageAt
<1>9. Owned'
  BY <1>1, <1>2, <1>7, <1>8, OwnedSame
<1>10. \A v \in VPages : Walk(mem', kernel', v).frame = v
  <2> SUFFICES ASSUME NEW v \in VPages PROVE Walk(mem', kernel', v).frame = v
    OBVIOUS
  <2>1. v \div TableSize \in Tables
    BY Indices
  <2>2. v \div TableSize < NumTables
    BY <2>1, Sizes DEF Tables
  <2>3. Walk(mem, job.dir, v) = PTE(v, job.write, TRUE)
    BY <2>2, <1>1 DEF Contents
  <2> QED
    BY <2>3, <1>2 DEF PTE
<1>11. Contents'
  BY <1>1, <1>2, <1>10 DEF Contents
<1> QED
  BY <1>4, <1>5, <1>9, <1>11 DEF IInv

(* A turn of the loop of heap_init. *)
LEMMA BackInv == IInv /\ BackHeapPage => IInv' /\ mem'[kernel] = mem[kernel]
<1> SUFFICES ASSUME IInv, BackHeapPage PROVE IInv' /\ mem'[kernel] = mem[kernel]
  OBVIOUS
<1>1. PICK frame : /\ PageAlloc(frame)
                   /\ mem' = PagingSet(mem, kernel, HeapVirtual + job.next, PTE(frame, TRUE, FALSE))
  BY DEF BackHeapPage
<1>2. /\ job.doing = "heap" /\ job.next \in Nat /\ job.next < HeapPages
      /\ kernel # Off /\ spaces = {} /\ cr3 = kernel /\ kernel \in Pages
      /\ UNCHANGED <<cr3, kernel, spaces>>
      /\ Phase /\ Spaces /\ Owned /\ Contents /\ Accounted
  BY Sizes DEF BackHeapPage, IInv, Phase, Spaces
<1>3. job'.doing = "heap" /\ job'.next = job.next + 1
  BY DEF BackHeapPage, Backing
<1>4. Accounted' /\ frame \in Pages /\ frame \notin held /\ held' = held \cup {frame}
  BY <1>1, <1>2, Allocated
<1>5. PICK new \in VPages : new = HeapVirtual + job.next
  <2>1. HeapVirtual + job.next \in 0..NumTables * TableSize - 1
    BY <1>2, Sizes
  <2> QED
    BY <2>1 DEF VPages
<1>6. Phase'
  <2>1. job.next + 1 \in 0..HeapPages
    BY <1>2, Sizes
  <2> QED
    BY <2>1, <1>2, <1>3 DEF Phase
<1>7. Spaces'
  BY <1>2 DEF Spaces
<1>8. Complete = {kernel} /\ Complete' = {kernel} /\ kernel \in Dirs /\ SlotsOf(kernel) = Tables
  BY <1>2 DEF Complete, Dirs, SlotsOf
<1>9. /\ \A i \in Tables : mem[kernel][i].frame \in Pages /\ mem[kernel][i].frame # kernel
      /\ \A i, j \in Tables : mem[kernel][i].frame = mem[kernel][j].frame => i = j
  BY <1>2, <1>8, Parts DEF Owned
<1>10. \A p \in Pages : Reach(mem, p) = p
  BY <1>2, Reaches
<1>11. PTE(frame, TRUE, FALSE) \in Words
  BY <1>4, PagesAreVirtual DEF PTE, Words
<1>12. /\ mem' \in [Pages -> [Slots -> Words]]
       /\ \A x \in Pages : x # mem[kernel][new \div TableSize].frame => mem'[x] = mem[x]
       /\ Walk(mem', kernel, new) = PTE(frame, TRUE, FALSE)
       /\ \A u \in VPages : u # new => Walk(mem', kernel, u) = Walk(mem, kernel, u)
  <2>1. mem \in [Pages -> [Slots -> Words]]
    BY <1>2 DEF Contents
  <2>2. PICK word \in Words : word = PTE(frame, TRUE, FALSE)
    BY <1>11
  <2>3. mem' = PagingSet(mem, kernel, new, word)
    BY <2>2, <1>1, <1>5
  <2>4. kernel \in Pages
    BY <1>2
  <2>5. IsSet(PagingSet(mem, kernel, new, word), mem, kernel, new, word)
    BY <2>1, <2>4, <1>9, <1>10, SetIs
  <2> QED
    BY <2>2, <2>3, <2>5, Zenon DEF IsSet
<1>13. mem'[kernel] = mem[kernel]
  <2>1. new \div TableSize \in Tables
    BY Indices
  <2> QED
    BY <2>1, <1>2, <1>9, <1>12
<1>14. BackedHeapPages' = BackedHeapPages \cup {new} /\ new \notin BackedHeapPages
  BY <1>2, <1>3, <1>5, Sizes DEF BackedHeapPages
<1>15. Owned'
  <2>1. Roles' = Roles \cup {<<Off, new>>}
    <3>1. JobRoles = {} /\ JobRoles' = {}
      BY <1>2, <1>3 DEF JobRoles
    <3>2. WholeRoles' = WholeRoles
      BY <1>8 DEF WholeRoles
    <3>3. HeapRoles' = HeapRoles \cup {<<Off, new>>}
      BY <1>14 DEF HeapRoles
    <3> QED
      BY <3>1, <3>2, <3>3 DEF Roles
  <2>2. PageAt(mem', kernel', <<Off, new>>) = frame
    BY <1>2, <1>12 DEF PageAt, PTE
  <2>3. ASSUME NEW q \in Roles PROVE PageAt(mem', kernel', q) = PageAt(mem, kernel, q)
    <3>1. CASE q \in WholeRoles
      <4>1. q[1] = kernel /\ q[1] # Off
        BY <3>1, <1>2, <1>8 DEF WholeRoles
      <4> QED
        BY <4>1, <1>13 DEF PageAt
    <3>2. CASE q \in HeapRoles
      <4>1. q[1] = Off /\ q[2] \in VPages /\ q[2] # new
        BY <3>2, <1>2, <1>14, BackedAreVirtual DEF HeapRoles
      <4> QED
        BY <4>1, <1>2, <1>12 DEF PageAt
    <3> QED
      BY <3>1, <3>2, <1>2 DEF Roles, JobRoles
  <2> QED
    BY <2>1, <2>2, <2>3, <1>2, <1>4, OwnedAdd
<1>16. Contents'
  BY <1>2, <1>3, <1>12, <1>14 DEF Contents
<1> QED
  BY <1>4, <1>6, <1>7, <1>13, <1>15, <1>16 DEF IInv
(* The heap is backed; a task is entered; an interrupt is taken: nothing changes hands. *)
LEMMA QuietInv ==
    ASSUME IInv,
           UNCHANGED <<marked, held, pinned, mem, kernel, spaces>>,
           kernel # Off, job'.doing \in {"idle", "user"}, job'.doing # "user" => cr3' = kernel,
           \/ job.doing \in {"idle", "user"}
           \/ job.doing = "heap" /\ job.next = HeapPages
    PROVE  IInv'
<1> USE DEF IInv
<1>1. Accounted' /\ Spaces'
  BY DEF Accounted, Spaces
<1>2. Phase'
  BY DEF Phase
<1>3. BackedHeapPages' = BackedHeapPages /\ Complete' = Complete
  BY DEF BackedHeapPages, Complete
<1>4. Roles' = Roles
  BY <1>3 DEF Roles, WholeRoles, JobRoles, HeapRoles
<1>5. Owned'
  <2>1. \A q \in Roles : PageAt(mem', kernel', q) = PageAt(mem, kernel, q)
    OBVIOUS
  <2> QED
    BY <2>1, <1>4, OwnedSame
<1>6. Contents'
  BY <1>3 DEF Contents
<1> QED
  BY <1>1, <1>2, <1>5, <1>6

(* Steps that change neither tables nor owners. *)
LEMMA EasyInv ==
    /\ IInv /\ HeapReady => IInv'
    /\ \A s \in spaces : IInv /\ EnterUser(s) => IInv'
    /\ IInv /\ Interrupt => IInv'
    /\ IInv /\ Panic => IInv'
    /\ IInv /\ UNCHANGED vars => IInv'
<1>1. ASSUME IInv, HeapReady PROVE IInv'
  <2>1. /\ UNCHANGED <<marked, held, pinned, mem, kernel, spaces, cr3>>
        /\ job.doing = "heap" /\ job.next = HeapPages /\ job'.doing = "idle"
    BY <1>1 DEF HeapReady, allocVars, Backing, Idle
  <2>2. kernel # Off /\ cr3' = kernel
    BY <1>1, <2>1 DEF IInv, Phase
  <2> QED
    BY <1>1, <2>1, <2>2, QuietInv
<1>2. ASSUME NEW s \in spaces, IInv, EnterUser(s) PROVE IInv'
  <2>1. /\ UNCHANGED <<marked, held, pinned, mem, kernel, spaces>>
        /\ job.doing = "idle" /\ job'.doing = "user"
    BY <1>2 DEF EnterUser, allocVars, Idle, InUser
  <2>2. kernel # Off
    BY <1>2, <2>1 DEF IInv, Phase
  <2> QED
    BY <1>2, <2>1, <2>2, QuietInv
<1>3. ASSUME IInv, Interrupt PROVE IInv'
  <2>1. /\ UNCHANGED <<marked, held, pinned, mem, kernel, spaces>>
        /\ job.doing = "user" /\ job'.doing = "user"
    BY <1>3 DEF Interrupt, allocVars
  <2>2. kernel # Off
    BY <1>3, <2>1 DEF IInv, Phase
  <2> QED
    BY <1>3, <2>1, <2>2, QuietInv
<1>4. ASSUME IInv, UNCHANGED <<marked, held, pinned>>, UNCHANGED pagingVars PROVE IInv'
  <2>1. UNCHANGED <<mem, cr3, kernel, spaces, job>>
    BY <1>4 DEF pagingVars
  <2>2. Accounted' /\ Phase' /\ Spaces'
    BY <1>4, <2>1 DEF IInv, Accounted, Phase, Spaces, Complete
  <2>3. BackedHeapPages' = BackedHeapPages /\ Complete' = Complete
    BY <2>1 DEF BackedHeapPages, Complete
  <2>4. Roles' = Roles
    BY <2>1, <2>3 DEF Roles, WholeRoles, JobRoles, JobSlots, HeapRoles
  <2>5. \A q \in Roles : PageAt(mem', kernel', q) = PageAt(mem, kernel, q)
    BY <2>1
  <2>6. Owned'
    BY <2>4, <2>5, <1>4, OwnedSame DEF IInv
  <2>7. Contents'
    BY <2>1, <2>3, <1>4 DEF IInv, Contents
  <2> QED
    BY <2>2, <2>6, <2>7 DEF IInv
<1>5. IInv /\ Panic => IInv'
  BY <1>4 DEF Panic, OutOfPages
<1>6. IInv /\ UNCHANGED vars => IInv'
  BY <1>4 DEF vars, allocVars
<1> QED
  BY <1>1, <1>2, <1>3, <1>5, <1>6

(* A task's directory is taken out of use before its pages are given back. *)
LEMMA FreeInv == \A s \in spaces : IInv /\ FreeSpace(s) => IInv'
<1> SUFFICES ASSUME NEW s \in spaces, IInv, FreeSpace(s) PROVE IInv'
  OBVIOUS
<1>1. /\ job.doing = "idle" /\ spaces' = spaces \ {s} /\ UNCHANGED <<marked, held, pinned, mem, cr3, kernel>>
      /\ job'.doing = "free" /\ job'.dir = s.dir /\ job'.next = 0
      /\ Phase /\ Spaces /\ Owned /\ Contents /\ Accounted /\ kernel # Off /\ cr3 = kernel
  BY DEF FreeSpace, Freeing, Idle, IInv, Phase, allocVars
<1>2. Accounted' /\ Spaces'
  BY <1>1 DEF Accounted, Spaces
<1>3. Complete = Complete' \cup {s.dir} /\ s.dir \notin Complete' /\ s.dir \in Pages
  BY <1>1 DEF Complete, Spaces
<1>4. Phase'
  <2>1. 0 \in 0..NumTables
    BY Sizes
  <2> QED
    BY <2>1, <1>1, <1>3 DEF Phase
<1>5. BackedHeapPages' = BackedHeapPages
  BY <1>1 DEF BackedHeapPages
<1>6. Roles' = Roles
  <2>1. JobRoles = {}
    BY <1>1 DEF JobRoles
  <2>2. JobRoles' = {s.dir} \X (-1..NumTables - 1)
    <3>1. JobSlots' = 0..NumTables - 1 /\ {-1} \cup (0..NumTables - 1) = -1..NumTables - 1
      BY <1>1, Sizes DEF JobSlots
    <3> QED
      BY <3>1, <1>1 DEF JobRoles
  <2>3. WholeRoles = WholeRoles' \cup ({s.dir} \X (-1..NumTables - 1))
    BY <1>3 DEF WholeRoles
  <2>4. HeapRoles' = HeapRoles
    BY <1>5 DEF HeapRoles
  <2> QED
    BY <2>1, <2>2, <2>3, <2>4 DEF Roles
<1>7. Owned'
  <2>1. \A q \in Roles : PageAt(mem', kernel', q) = PageAt(mem, kernel, q)
    BY <1>1
  <2> QED
    BY <2>1, <1>1, <1>6, OwnedSame
<1>8. Contents'
  BY <1>1, <1>5 DEF Contents
<1> QED
  BY <1>2, <1>4, <1>7, <1>8 DEF IInv

(* One page_free of page_directory_free: the page given back is one that was handed out. *)
LEMMA FreeNextInv == IInv /\ FreeNextPage => IInv'
<1> SUFFICES ASSUME IInv, FreeNextPage PROVE IInv'
  OBVIOUS
<1>1. /\ job.doing = "free" /\ UNCHANGED <<mem, cr3, kernel, spaces>>
      /\ PageFree(FreedPage(job.dir, job.next))
      /\ job' = IF job.next = NumTables THEN Idle ELSE Freeing(job.dir, job.next + 1)
      /\ Phase /\ Spaces /\ Owned /\ Contents /\ Accounted /\ kernel # Off /\ cr3 = kernel
      /\ job.dir \in Pages /\ job.dir \notin Complete /\ job.next \in 0..NumTables
  BY DEF FreeNextPage, IInv, Phase
<1>2. PICK d \in Pages, k \in 0..NumTables : d = job.dir /\ k = job.next
  BY <1>1
<1>3. k \in Nat /\ k <= NumTables
  BY Sizes
<1>4. Reach(mem, d) = d
  BY <1>1, Reaches
<1>5. Complete' = Complete
  BY <1>1 DEF Complete
<1>6. job'.doing \in {"idle", "free"}
  BY <1>1 DEF Idle, Freeing
<1>7. BackedHeapPages' = BackedHeapPages
  BY <1>1, <1>6 DEF BackedHeapPages
<1>8. PICK r \in Roles : /\ PageAt(mem, kernel, r) = FreedPage(d, k)
                         /\ Roles' = Roles \ {r}
  <2> HIDE DEF Roles
  <2>1. WholeRoles' = WholeRoles /\ HeapRoles' = HeapRoles
    BY <1>5, <1>7 DEF WholeRoles, HeapRoles
  <2>2. \A q \in WholeRoles \cup HeapRoles : q[1] # d
    BY <1>1, <1>2, PagesAreVirtual DEF WholeRoles, HeapRoles, Off
  <2>3. d # Off
    BY PagesAreVirtual DEF Off
  <2>4. CASE k = NumTables
    <3>1. JobSlots = {} /\ JobRoles = {<<d, -1>>}
      BY <2>4, <1>1, <1>2, Sizes DEF JobRoles, JobSlots
    <3>2. JobRoles' = {}
      BY <2>4, <1>1, <1>2 DEF JobRoles, Idle
    <3>3. PageAt(mem, kernel, <<d, -1>>) = FreedPage(d, k)
      BY <2>3, <2>4, Sizes DEF PageAt, FreedPage
    <3>4. <<d, -1>> \notin WholeRoles \cup HeapRoles
      BY <2>2
    <3>5. <<d, -1>> \in Roles /\ Roles' = Roles \ {<<d, -1>>}
      BY <2>1, <3>1, <3>2, <3>4 DEF Roles
    <3> QED
      BY <3>3, <3>5
  <2>5. CASE k # NumTables
    <3>1. /\ JobSlots = k..NumTables - 1
          /\ job' = Freeing(d, k + 1)
          /\ JobRoles = {d} \X ({-1} \cup (k..NumTables - 1))
      BY <2>5, <1>1, <1>2 DEF JobRoles, JobSlots
    <3>2. JobRoles' = {d} \X ({-1} \cup (k + 1..NumTables - 1))
      BY <3>1 DEF JobRoles, JobSlots, Freeing
    <3>3. k < NumTables /\ k # -1 /\ k \in k..NumTables - 1
          /\ k + 1..NumTables - 1 = (k..NumTables - 1) \ {k}
      BY <1>3, <2>5, Sizes
    <3>4. JobRoles' = JobRoles \ {<<d, k>>} /\ <<d, k>> \in JobRoles
      BY <3>1, <3>2, <3>3
    <3>5. PageAt(mem, kernel, <<d, k>>) = FreedPage(d, k)
      BY <2>3, <3>3, <1>4 DEF PageAt, FreedPage, Read
    <3>6. <<d, k>> \notin WholeRoles \cup HeapRoles
      BY <2>2
    <3>7. <<d, k>> \in Roles /\ Roles' = Roles \ {<<d, k>>}
      BY <2>1, <3>4, <3>6 DEF Roles
    <3> QED
      BY <3>5, <3>7
  <2> QED
    BY <2>4, <2>5
<1>9. Accounted' /\ held' = held \ {PageAt(mem, kernel, r)}
  <2>1. PageAt(mem, kernel, r) \in held
    BY <1>1 DEF Owned
  <2>2. PageFree(PageAt(mem, kernel, r))
    BY <1>1, <1>2, <1>8
  <2> QED
    BY <2>1, <2>2, <1>1, GivenBack
<1>10. Owned'
  <2>1. \A q \in Roles : PageAt(mem', kernel', q) = PageAt(mem, kernel, q)
    BY <1>1
  <2> QED
    BY <2>1, <1>1, <1>8, <1>9, OwnedDrop
<1>11. Phase'
  <2>1. CASE k = NumTables
    BY <2>1, <1>1, <1>2 DEF Phase, Idle
  <2>2. CASE k # NumTables
    <3>1. job'.doing = "free" /\ job'.dir = d /\ job'.next = k + 1 /\ k + 1 \in 0..NumTables
      BY <2>2, <1>1, <1>2, <1>3, Sizes DEF Freeing
    <3> QED
      BY <3>1, <1>1, <1>2, <1>5 DEF Phase
  <2> QED
    BY <2>1, <2>2
<1>12. Spaces'
  BY <1>1 DEF Spaces
<1>13. Contents'
  BY <1>1, <1>6, <1>7 DEF Contents
<1> QED
  BY <1>9, <1>10, <1>11, <1>12, <1>13 DEF IInv
-----------------------------------------------------------------------------
(* process_map_binary.  The memory after i words have been set is the only one that
   differs from `mem` in those words alone. *)
MapStep(f, m, d, v, frame, i) ==
    IF i = 0 THEN m ELSE PagingSet(f[i - 1], d, v + i - 1, PTE(frame + i - 1, TRUE, TRUE))

MapRange(m, d, v, frame, count) == PagingMapRange(m, d, v, frame, count, TRUE, TRUE)

(* paging_map_range is the one function that takes every step. *)
LEMMA MapRangeIs ==
    ASSUME NEW m, NEW d, NEW v, NEW frame, NEW count \in Nat,
           NEW g, g = [i \in 0..count |-> g[i]],
           \A i \in 0..count : g[i] = MapStep(g, m, d, v, frame, i)
    PROVE  MapRange(m, d, v, frame, count) = g[count]
<1> DEFINE Maps(f) == f = [i \in 0..count |-> MapStep(f, m, d, v, frame, i)]
<1>1. MapRange(m, d, v, frame, count) = (CHOOSE f : Maps(f))[count]
  BY DEF MapRange, PagingMapRange, MapStep
<1>2. ASSUME NEW f, Maps(f) PROVE f = g
  <2> DEFINE Differing == {i \in 0..count : f[i] # g[i]}
  <2>1. Differing = {}
    <3> SUFFICES ASSUME Differing # {} PROVE FALSE
      OBVIOUS
    <3>1. PICK i \in Differing : \A j \in Differing : i <= j
      <4>1. Differing \subseteq Nat
        OBVIOUS
      <4> HIDE DEF Differing
      <4> QED
        BY <4>1, LeastExists
    <3>2. i = 0 \/ (i - 1 \in 0..count /\ f[i - 1] = g[i - 1])
      BY <3>1
    <3> QED
      BY <3>1, <3>2, <1>2 DEF MapStep
  <2>2. f = [i \in 0..count |-> f[i]] /\ g = [i \in 0..count |-> g[i]]
    BY <1>2
  <2> QED
    BY <2>1, <2>2
<1>3. Maps(g)
  OBVIOUS
<1>4. Maps(CHOOSE f : Maps(f))
  <2> HIDE DEF Maps
  <2> QED
    BY <1>3
<1> QED
  BY <1>1, <1>2, <1>4

BinaryBuilt == IInv /\ job.doing = "build" /\ job.next = NumTables /\ kernel # Off

Frame == Walk(mem, kernel, job.data).frame

Mapped(n, i) ==
    /\ n \in [Pages -> [Slots -> Words]]
    /\ \A x \in Pages : (\A j \in Tables : x # mem[job.dir][j].frame) => n[x] = mem[x]
    /\ \A u \in VPages :
          Walk(n, job.dir, u) = IF InBinary(u, i) THEN PTE(Frame + (u - TaskVirtual), TRUE, TRUE)
                                ELSE Walk(mem, job.dir, u)

(* The tables of the new directory belong to nothing else. *)
LEMMA JobParts ==
    ASSUME BinaryBuilt
    PROVE  /\ job.dir \in Pages /\ job.dir \notin Complete
           /\ job.pages \in Nat /\ job.data \in Nat /\ job.pages <= HeapPages
           /\ HeapVirtual < job.data /\ job.data + job.pages <= HeapVirtual + HeapPages
           /\ \A i \in Tables : mem[job.dir][i].frame \in Pages /\ mem[job.dir][i].frame # job.dir
           /\ \A i, j \in Tables : mem[job.dir][i].frame = mem[job.dir][j].frame => i = j
           /\ \A d \in Complete : \A i, j \in Tables :
                 /\ mem[job.dir][j].frame # d
                 /\ mem[d][i].frame # mem[job.dir][j].frame
<1>1. /\ Owned /\ Phase /\ Spaces /\ job.doing = "build" /\ job.dir \in Pages /\ job.dir \notin Complete
      /\ job.pages \in Nat /\ job.data \in Nat
      /\ HeapVirtual < job.data /\ job.data + job.pages <= HeapVirtual + HeapPages
  BY DEF BinaryBuilt, IInv, Phase
<1>2. job.pages <= HeapPages
  BY <1>1, Sizes
<1>3. JobSlots = Tables
  BY DEF BinaryBuilt, JobSlots, Tables
<1>4. /\ job.dir \in Dirs /\ SlotsOf(job.dir) = Tables
      /\ \A d \in Complete : d \in Dirs /\ SlotsOf(d) = Tables
  BY <1>1, <1>3 DEF Dirs, SlotsOf
<1>5. /\ \A i \in Tables : mem[job.dir][i].frame \in held /\ mem[job.dir][i].frame # job.dir
      /\ \A i, j \in Tables : mem[job.dir][i].frame = mem[job.dir][j].frame => i = j
  BY <1>1, <1>4, Parts
<1>6. ASSUME NEW d \in Complete, NEW i \in Tables, NEW j \in Tables
      PROVE  mem[job.dir][j].frame # d /\ mem[d][i].frame # mem[job.dir][j].frame
  BY <1>1, <1>4, Parts
<1> QED
  BY <1>1, <1>2, <1>5, <1>6 DEF Owned

(* A binary that has pages starts at a page behind the heap. *)
LEMMA FrameIs ==
    ASSUME BinaryBuilt, job.pages > 0
    PROVE  job.data \in VPages /\ Frame \in Pages
<1>1. job.data \in BackedHeapPages
  BY JobParts, Sizes DEF BackedHeapPages, BinaryBuilt
<1>2. job.data \in VPages
  BY <1>1, BackedAreVirtual DEF BinaryBuilt, IInv
<1>3. <<Off, job.data>> \in Roles /\ PageAt(mem, kernel, <<Off, job.data>>) = Frame
  BY <1>1 DEF Roles, HeapRoles, PageAt, Frame
<1>4. PageAt(mem, kernel, <<Off, job.data>>) \in held /\ held \subseteq Pages
  BY <1>3, Zenon DEF Owned, BinaryBuilt, IInv
<1> QED
  BY <1>2, <1>3, <1>4

(* Other directories stay as they are. *)
LEMMA MappedKeeps ==
    ASSUME BinaryBuilt, NEW n, NEW i, Mapped(n, i)
    PROVE  /\ n[job.dir] = mem[job.dir]
           /\ \A d \in Complete : n[d] = mem[d] /\ \A v \in VPages : Walk(n, d, v) = Walk(mem, d, v)
<1> DEFINE P == {mem[job.dir][j].frame : j \in Tables}
<1>1. \A x \in Pages : x \notin P => n[x] = mem[x]
  BY DEF Mapped
<1>2. job.dir \notin P
  BY JobParts
<1>3. \A d \in Complete : d \notin P /\ \A j \in Tables : mem[d][j].frame \notin P
  <2>1. ASSUME NEW d \in Complete, NEW j \in Tables PROVE mem[d][j].frame \notin P
    BY JobParts
  <2>2. ASSUME NEW d \in Complete PROVE d \notin P
    <3>1. ASSUME NEW j \in Tables PROVE mem[job.dir][j].frame # d
      BY JobParts
    <3> QED
      BY <3>1
  <2> QED
    BY <2>1, <2>2
<1>4. Owned /\ Phase /\ Spaces /\ job.dir \in Pages
  BY JobParts DEF BinaryBuilt, IInv
<1> HIDE DEF P
<1> QED
  BY <1>1, <1>2, <1>3, <1>4, Untouched
(* Before the first round of paging_map_range nothing of the binary is mapped. *)
LEMMA MappedFirst ==
    ASSUME BinaryBuilt
    PROVE  Mapped(mem, 0)
<1>1. mem \in [Pages -> [Slots -> Words]]
  BY DEF BinaryBuilt, IInv, Contents
<1>2. \A u \in VPages : ~InBinary(u, 0)
  BY PagesAreVirtual, Sizes DEF InBinary
<1> QED
  BY <1>1, <1>2 DEF Mapped

(* A round of paging_map_range maps one page more. *)
LEMMA MappedNext ==
    ASSUME BinaryBuilt, NEW n, NEW i \in Nat, Mapped(n, i), i < job.pages
    PROVE  Mapped(PagingSet(n, job.dir, TaskVirtual + i, PTE(Frame + i, TRUE, TRUE)), i + 1)
<1>1. PICK v \in VPages : v = TaskVirtual + i /\ v \in Nat
  <2>1. TaskVirtual + i \in 0..NumTables * TableSize - 1
    BY JobParts, Sizes
  <2> QED
    BY <2>1 DEF VPages
<1>2. PICK word \in Words : word = PTE(Frame + i, TRUE, TRUE)
  <2>1. Frame \in Pages
    BY FrameIs, JobParts
  <2>2. Frame + i \in 0..NumTables * TableSize - 1
    BY <2>1, JobParts, Sizes DEF Pages
  <2>3. Frame + i \in VPages
    BY <2>2 DEF VPages
  <2> QED
    BY <2>3 DEF PTE, Words
<1>3. PICK d \in Pages : d = job.dir
  BY JobParts
<1>4. n[d] = mem[d] /\ \A e \in Complete : \A u \in VPages : Walk(n, e, u) = Walk(mem, e, u)
  BY <1>3, MappedKeeps
<1>5. /\ \A j \in Tables : n[d][j].frame \in Pages /\ n[d][j].frame # d
      /\ \A j, k \in Tables : n[d][j].frame = n[d][k].frame => j = k
  BY <1>3, <1>4, JobParts
<1>6. \A p \in Pages : Reach(n, p) = p
  <2>1. cr3 = kernel /\ Phase /\ Contents /\ kernel \in Complete
    BY DEF BinaryBuilt, IInv, Phase, Complete
  <2> QED
    BY <2>1, <1>4, Reaches
<1>7. IsSet(PagingSet(n, d, v, word), n, d, v, word)
  <2>1. n \in [Pages -> [Slots -> Words]]
    BY DEF Mapped
  <2> QED
    BY <2>1, <1>5, <1>6, SetIs
<1>8. PICK o : o = PagingSet(n, d, v, word)
  OBVIOUS
<1>9. ASSUME NEW x \in Pages, \A j \in Tables : x # mem[d][j].frame PROVE o[x] = mem[x]
  <2>1. x # n[d][v \div TableSize].frame
    BY <1>4, <1>9, Indices
  <2>2. n[x] = mem[x]
    BY <1>3, <1>9 DEF Mapped
  <2> QED
    BY <2>1, <2>2, <1>7, <1>8 DEF IsSet
<1>10. ASSUME NEW u \in VPages
       PROVE  Walk(o, d, u) = IF InBinary(u, i + 1) THEN PTE(Frame + (u - TaskVirtual), TRUE, TRUE)
                              ELSE Walk(mem, d, u)
  <2>1. u \in Nat
    BY PagesAreVirtual
  <2>2. CASE u = v
    <3>1. InBinary(u, i + 1) /\ u - TaskVirtual = i
      BY <2>2, <1>1, Sizes DEF InBinary
    <3>2. Walk(o, d, u) = word
      BY <2>2, <1>7, <1>8 DEF IsSet
    <3> QED
      BY <3>1, <3>2, <1>2
  <2>3. CASE u # v
    <3>1. InBinary(u, i + 1) <=> InBinary(u, i)
      BY <2>1, <2>3, <1>1, Sizes DEF InBinary
    <3>2. Walk(o, d, u) = Walk(n, d, u)
      BY <2>3, <1>7, <1>8 DEF IsSet
    <3> QED
      BY <3>1, <3>2, <1>3 DEF Mapped
  <2> QED
    BY <2>2, <2>3
<1>11. o \in [Pages -> [Slots -> Words]]
  BY <1>7, <1>8 DEF IsSet
<1>12. Mapped(o, i + 1)
  BY <1>3, <1>9, <1>10, <1>11 DEF Mapped
<1> QED
  BY <1>1, <1>2, <1>3, <1>8, <1>12

(* What memory is after so many rounds is determined. *)
LEMMA MappedSame ==
    ASSUME BinaryBuilt, NEW n, NEW o, NEW i, Mapped(n, i), Mapped(o, i)
    PROVE  n = o
<1>1. PICK d \in Pages : d = job.dir
  BY JobParts
<1>2. n[d] = mem[d] /\ o[d] = mem[d]
  BY <1>1, MappedKeeps
<1>3. n \in [Pages -> [Slots -> Words]] /\ o \in [Pages -> [Slots -> Words]]
  BY DEF Mapped
<1>4. \A u \in VPages : Walk(n, d, u) = Walk(o, d, u)
  BY <1>1 DEF Mapped
<1>5. ASSUME NEW x \in Pages PROVE n[x] = o[x]
  <2>1. CASE \A j \in Tables : x # mem[d][j].frame
    BY <2>1, <1>1 DEF Mapped
  <2>2. CASE \E j \in Tables : x = mem[d][j].frame
    <3>1. PICK j \in Tables : x = mem[d][j].frame
      BY <2>2
    <3>2. ASSUME NEW slot \in Slots PROVE n[x][slot] = o[x][slot]
      <4>1. PICK u \in VPages : u = j * TableSize + slot
        BY VirtualPage
      <4>2. j \in Nat /\ slot \in Nat /\ slot < TableSize /\ u \in Nat
        BY TablesAreSlots, PagesAreVirtual, Sizes DEF Slots
      <4>3. u \div TableSize = j
        BY <4>1, <4>2, Sizes, DivIs
      <4>4. u % TableSize \in Slots /\ u = j * TableSize + (u % TableSize)
        BY <4>3, Indices
      <4>5. u % TableSize = slot
        <5>1. PICK a \in Nat : a = j * TableSize
          BY <4>2, Sizes
        <5>2. PICK r \in Slots : r = u % TableSize
          BY <4>4
        <5>3. u = a + slot /\ u = a + r
          BY <5>1, <5>2, <4>1, <4>4
        <5>4. r \in Nat
          BY TablesAreSlots
        <5> QED
          BY <5>2, <5>3, <5>4, <4>2
      <4>6. Walk(n, d, u) = n[x][slot] /\ Walk(o, d, u) = o[x][slot]
        BY <3>1, <4>3, <4>5, <1>2 DEF Walk
      <4> QED
        BY <4>6, <1>4
    <3> QED
      BY <3>2, <1>3
  <2> QED
    BY <2>1, <2>2
<1> QED
  BY <1>3, <1>5

(* The recursion of paging_map_range maps the binary, page by page. *)
LEMMA BinaryMapped ==
    ASSUME BinaryBuilt
    PROVE  Mapped(MapRange(mem, job.dir, TaskVirtual, Frame, job.pages), job.pages)
<1>1. PICK count \in Nat : count = job.pages
  BY JobParts
<1> DEFINE g == [i \in 0..count |-> CHOOSE n : Mapped(n, i)]
<1>2. \A i \in 0..count : \E n : Mapped(n, i)
  <2> DEFINE Bad == {i \in 0..count : ~\E n : Mapped(n, i)}
  <2> SUFFICES ASSUME Bad # {} PROVE FALSE
    OBVIOUS
  <2>1. PICK i \in Bad : \A j \in Bad : i <= j
    <3>1. Bad \subseteq Nat
      OBVIOUS
    <3> HIDE DEF Bad
    <3> QED
      BY <3>1, LeastExists
  <2>2. i # 0
    BY MappedFirst
  <2>3. i - 1 \in 0..count /\ i - 1 \notin Bad /\ i - 1 \in Nat /\ i - 1 < count /\ (i - 1) + 1 = i
    BY <2>1, <2>2
  <2>4. PICK n : Mapped(n, i - 1)
    BY <2>3
  <2>5. \E o : Mapped(o, (i - 1) + 1)
    BY <2>3, <2>4, <1>1, MappedNext
  <2> QED
    BY <2>3, <2>5
<1>3. \A i \in 0..count : Mapped(g[i], i)
  BY <1>2
<1> HIDE DEF g
<1>4. ASSUME NEW i \in 0..count
      PROVE  g[i] = MapStep(g, mem, job.dir, TaskVirtual, Frame, i)
  <2>1. CASE i = 0
    <3>1. g[i] = mem
      BY <2>1, <1>3, MappedFirst, MappedSame
    <3> QED
      BY <3>1, <2>1 DEF MapStep
  <2>2. CASE i # 0
    <3>1. PICK k \in 0..count : k = i - 1 /\ k \in Nat /\ k < count /\ i = k + 1
      BY <2>2
    <3>2. Mapped(PagingSet(g[k], job.dir, TaskVirtual + k, PTE(Frame + k, TRUE, TRUE)), k + 1)
      BY <3>1, <1>1, <1>3, MappedNext
    <3>3. g[i] = PagingSet(g[k], job.dir, TaskVirtual + k, PTE(Frame + k, TRUE, TRUE))
      BY <3>1, <3>2, <1>3, MappedSame
    <3>4. Frame \in Nat /\ TaskVirtual \in Nat
      <4>1. job.pages > 0
        BY <3>1, <1>1
      <4> QED
        BY <4>1, FrameIs, PagesAreVirtual, Sizes
    <3>5. TaskVirtual + i - 1 = TaskVirtual + k /\ Frame + i - 1 = Frame + k /\ i - 1 = k
      BY <3>1, <3>4
    <3> QED
      BY <3>3, <3>5, <2>2 DEF MapStep
  <2> QED
    BY <2>1, <2>2
<1>5. g = [i \in 0..count |-> g[i]]
  BY DEF g
<1>6. MapRange(mem, job.dir, TaskVirtual, Frame, count) = g[count]
  BY <1>4, <1>5, MapRangeIs
<1>7. Mapped(g[count], count)
  BY <1>3
<1> QED
  BY <1>1, <1>6, <1>7, Zenon
(* A binary without pages changes nothing, wherever it is said to lie. *)
LEMMA NothingMapped == \A frame : MapRange(mem, job.dir, TaskVirtual, frame, 0) = mem
<1> SUFFICES ASSUME NEW frame PROVE MapRange(mem, job.dir, TaskVirtual, frame, 0) = mem
  OBVIOUS
<1>1. PICK none \in Nat : none = 0
  OBVIOUS
<1> DEFINE g == [i \in 0..none |-> mem]
<1>2. g = [i \in 0..none |-> g[i]] /\ g[none] = mem
  OBVIOUS
<1>3. \A i \in 0..none : g[i] = MapStep(g, mem, job.dir, TaskVirtual, frame, i)
  BY <1>1 DEF MapStep
<1> HIDE DEF g
<1>4. MapRange(mem, job.dir, TaskVirtual, frame, none) = g[none]
  BY <1>2, <1>3, MapRangeIs
<1> QED
  BY <1>1, <1>2, <1>4

(* What process_map_binary leaves in memory. *)
LEMMA MapBinaryMaps == IInv /\ MapBinary => BinaryBuilt /\ Mapped(mem', job.pages)
<1> SUFFICES ASSUME IInv, MapBinary PROVE BinaryBuilt /\ Mapped(mem', job.pages)
  OBVIOUS
<1>1. BinaryBuilt
  BY DEF MapBinary, Built, BinaryBuilt
<1>2. PICK frame : /\ frame = PagingGetPhysAddress(mem, kernel, job.data)
                   /\ mem' = MapRange(mem, job.dir, TaskVirtual, frame, job.pages)
  BY DEF MapBinary, MapRange
<1>3. Mapped(MapRange(mem, job.dir, TaskVirtual, Frame, job.pages), job.pages)
  BY <1>1, BinaryMapped
<1>4. CASE job.pages = 0
  BY <1>1, <1>2, <1>3, <1>4, NothingMapped
<1>5. CASE job.pages # 0
  <2>1. job.pages > 0
    BY <1>1, <1>5, JobParts
  <2>2. job.data \div TableSize \in Tables
    BY <1>1, <2>1, FrameIs, Indices
  <2>3. PICK k \in Complete, t \in Pages :
          k = kernel /\ k \in Pages /\ t = mem[k][job.data \div TableSize].frame
    <3>1. kernel \in Complete /\ kernel \in Pages
      BY <1>1 DEF BinaryBuilt, Complete, IInv, Spaces
    <3>2. kernel \in Dirs /\ SlotsOf(kernel) = Tables
      BY <3>1 DEF Dirs, SlotsOf
    <3>3. mem[kernel][job.data \div TableSize].frame \in Pages
      BY <3>2, <2>2, <1>1, Parts DEF BinaryBuilt, IInv, Owned
    <3> QED
      BY <3>1, <3>3
  <2>4. \A p \in Pages : Reach(mem, p) = p
    <3>1. cr3 = kernel /\ Phase /\ Contents
      BY <1>1 DEF BinaryBuilt, IInv, Phase
    <3> QED
      BY <3>1, Reaches
  <2>5. frame = Frame
    BY <1>2, <2>3, <2>4 DEF PagingGetPhysAddress, Read, Frame, Walk
  <2> QED
    BY <1>1, <1>2, <1>3, <2>5
<1> QED
  BY <1>4, <1>5

(* Mapping the whole binary finishes the new space. *)
LEMMA MapInv == IInv /\ MapBinary => IInv'
<1> SUFFICES ASSUME IInv, MapBinary PROVE IInv'
  OBVIOUS
<1>1. BinaryBuilt /\ Mapped(mem', job.pages)
  BY MapBinaryMaps
<1> DEFINE new == [dir |-> job.dir, data |-> job.data, pages |-> job.pages]
<1>2. /\ job.doing = "build" /\ job.next = NumTables /\ kernel # Off /\ cr3 = kernel
      /\ Phase /\ Spaces /\ Owned /\ Contents /\ Accounted
      /\ UNCHANGED <<marked, held, pinned, cr3, kernel>>
      /\ job'.doing = "idle" /\ spaces' = spaces \cup {new}
      /\ job.write = FALSE
  BY <1>1 DEF BinaryBuilt, IInv, Phase, MapBinary, allocVars, Idle
<1>3. /\ mem'[job.dir] = mem[job.dir]
      /\ \A d \in Complete : mem'[d] = mem[d] /\ \A v \in VPages : Walk(mem', d, v) = Walk(mem, d, v)
  BY <1>1, MappedKeeps
<1>4. new.dir = job.dir /\ new.data = job.data /\ new.pages = job.pages
  OBVIOUS
<1> HIDE DEF new
<1>5. Accounted' /\ Phase'
  BY <1>2 DEF Accounted, Phase
<1>6. Spaces'
  <2>1. \A s \in spaces : s.dir # new.dir
    BY <1>1, <1>4, JobParts DEF Complete
  <2>2. /\ new.dir \in Pages /\ new.dir # kernel /\ new.data \in Nat /\ new.pages \in Nat
        /\ HeapVirtual < new.data /\ new.data + new.pages <= HeapVirtual + HeapPages
    BY <1>1, <1>2, <1>4, JobParts DEF Complete
  <2> QED
    BY <2>1, <2>2, <1>2 DEF Spaces
<1>7. BackedHeapPages' = BackedHeapPages
  BY <1>2 DEF BackedHeapPages
<1>8. Complete' = Complete \cup {job.dir}
  BY <1>2, <1>4 DEF Complete
<1>9. Roles' = Roles
  <2>1. JobRoles' = {} /\ JobRoles = {job.dir} \X (-1..NumTables - 1)
    <3>1. JobSlots = 0..NumTables - 1 /\ {-1} \cup (0..NumTables - 1) = -1..NumTables - 1
      BY <1>2, Sizes DEF JobSlots
    <3> QED
      BY <3>1, <1>2 DEF JobRoles
  <2>2. WholeRoles' = WholeRoles \cup ({job.dir} \X (-1..NumTables - 1))
    BY <1>8 DEF WholeRoles
  <2>3. HeapRoles' = HeapRoles
    BY <1>7 DEF HeapRoles
  <2> QED
    BY <2>1, <2>2, <2>3 DEF Roles
<1>10. kernel \in Complete /\ \A v \in VPages : Walk(mem', kernel, v) = Walk(mem, kernel, v)
  BY <1>2, <1>3 DEF Complete
<1>11. Owned'
  <2>1. ASSUME NEW q \in Roles PROVE PageAt(mem', kernel', q) = PageAt(mem, kernel, q)
    <3>1. CASE q \in WholeRoles \cup JobRoles
      <4>1. q[1] \in Complete \cup {job.dir} /\ q[1] # Off
        BY <3>1, <1>1, <1>2, JobParts, PagesAreVirtual DEF WholeRoles, JobRoles, Complete, Spaces, Off
      <4>2. mem'[q[1]] = mem[q[1]]
        BY <4>1, <1>3
      <4> QED
        BY <4>1, <4>2 DEF PageAt
    <3>2. CASE q \in HeapRoles
      <4>1. q[1] = Off /\ q[2] \in VPages
        BY <3>2, <1>2, BackedAreVirtual DEF HeapRoles
      <4> QED
        BY <4>1, <1>2, <1>10 DEF PageAt
    <3> QED
      BY <3>1, <3>2 DEF Roles
  <2> QED
    BY <2>1, <1>2, <1>9, OwnedSame
<1>12. ASSUME NEW s \in spaces', NEW v \in VPages
       PROVE  Walk(mem', s.dir, v) =
                 IF InBinary(v, s.pages)
                 THEN PTE(Walk(mem', kernel', s.data).frame + (v - TaskVirtual), TRUE, TRUE)
                 ELSE PTE(v, FALSE, TRUE)
  <2>1. InBinary(v, s.pages) => s.data \in VPages
    <3>1. s.pages \in Nat /\ s.data \in Nat /\ s.data + s.pages <= HeapVirtual + HeapPages
      BY <1>6 DEF Spaces
    <3>2. InBinary(v, s.pages) => s.pages > 0
      BY <3>1, PagesAreVirtual, Sizes DEF InBinary
    <3> QED
      BY <3>1, <3>2, Sizes DEF VPages
  <2>2. InBinary(v, s.pages) => Walk(mem', kernel', s.data) = Walk(mem, kernel, s.data)
    BY <2>1, <1>2, <1>10
  <2>3. CASE s \in spaces
    <3>1. Walk(mem', s.dir, v) = Walk(mem, s.dir, v)
      BY <2>3, <1>3 DEF Complete
    <3> QED
      BY <3>1, <2>2, <2>3, <1>2 DEF Contents
  <2>4. CASE s = new
    <3>1. v \div TableSize < NumTables
      <4>1. v \div TableSize \in Tables
        BY Indices
      <4> QED
        BY <4>1, Sizes DEF Tables
    <3>2. Walk(mem, job.dir, v) = PTE(v, FALSE, TRUE)
      BY <3>1, <1>2 DEF Contents
    <3>3. Walk(mem', job.dir, v) = IF InBinary(v, job.pages)
                                  THEN PTE(Frame + (v - TaskVirtual), TRUE, TRUE)
                                  ELSE PTE(v, FALSE, TRUE)
      BY <3>2, <1>1 DEF Mapped
    <3>4. InBinary(v, s.pages) => Walk(mem', kernel', s.data).frame = Frame
      BY <2>2, <2>4, <1>4 DEF Frame
    <3>5. s.dir = job.dir /\ s.pages = job.pages
      BY <2>4, <1>4
    <3>6. CASE InBinary(v, job.pages)
      BY <3>3, <3>4, <3>5, <3>6
    <3>7. CASE ~InBinary(v, job.pages)
      BY <3>3, <3>5, <3>7
    <3> QED
      BY <3>6, <3>7
  <2> QED
    BY <2>3, <2>4, <1>2
<1>13. Contents'
  <2>1. mem' \in [Pages -> [Slots -> Words]]
    BY <1>1 DEF Mapped
  <2>2. \A v \in VPages \ BackedHeapPages' : Walk(mem', kernel', v).frame = v
    BY <1>2, <1>7, <1>10 DEF Contents
  <2> QED
    BY <2>1, <2>2, <1>2, <1>12 DEF Contents
<1> QED
  BY <1>5, <1>6, <1>11, <1>13 DEF IInv

-----------------------------------------------------------------------------
(* Every step of boot, of the kernel's calls and of a panic keeps the invariant. *)
LEMMA NextInv == IInv /\ [Next]_vars => IInv'
<1> SUFFICES ASSUME IInv, [Next]_vars PROVE IInv'
  OBVIOUS
<1>1. CASE Boot
  BY <1>1, ReserveInv, CreateInv, EnableInv, BackInv, EasyInv DEF Boot
<1>2. CASE FillTable
  BY <1>2, FillInv
<1>3. CASE Tasks
  BY <1>3, CreateInv, MapInv, FreeInv, FreeNextInv, EasyInv DEF Tasks
<1>4. CASE Interrupt \/ Panic \/ UNCHANGED vars
  BY <1>4, EasyInv
<1> QED
  BY <1>1, <1>2, <1>3, <1>4 DEF Next

(* Every page that page_alloc handed out is one directory, one table or one page of the
   heap, the directories are as complete as their building or freeing has come, and the
   kernel's and the tasks' translate what they should. *)
THEOREM PagingInvariant == Spec => []IInv
  BY InitInv, NextInv, PTL DEF Spec

(* The bitmap is the owners' view of it, whatever directories are built, mapped and
   freed: page_directory_free gives back nothing that was not handed out. *)
THEOREM PagingAccounted == Spec => []Accounted
<1>1. IInv => Accounted
  BY DEF IInv
<1> QED
  BY <1>1, PagingInvariant, PTL

(* The kernel's directory maps every page of RAM onto itself, whatever was mapped for
   tasks or for the heap. *)
THEOREM PagingKernelSeesRam == Spec => []KernelSeesRam
<1>1. IInv => KernelSeesRam
  BY KernelReaches DEF IInv, KernelSeesRam
<1> QED
  BY <1>1, PagingInvariant, PTL
-----------------------------------------------------------------------------
(* As many pages as roles. *)
LEMMA CountedByRole ==
    ASSUME Owned, NEW R, R \subseteq Roles
    PROVE  /\ IsFiniteSet(R)
           /\ Cardinality(R) = Cardinality({PageAt(mem, kernel, r) : r \in R})
<1> DEFINE T == {PageAt(mem, kernel, r) : r \in R}
           f == [r \in R |-> PageAt(mem, kernel, r)]
<1>1. IsFiniteSet(T)
  <2>1. IsFiniteSet(Pages)
    BY Sizes, FS_Interval DEF Pages
  <2>2. T \subseteq Pages
    BY DEF Owned
  <2> QED
    BY <2>1, <2>2, FS_Subset
<1>2. f \in [R -> T] /\ \A a \in R : f[a] = PageAt(mem, kernel, a)
  OBVIOUS
<1>3. \A a, b \in R : f[a] = f[b] => a = b
  BY DEF Owned
<1>4. \A t \in T : \E a \in R : f[a] = t
  OBVIOUS
<1> HIDE DEF T, f
<1>5. IsFiniteSet(R) /\ Cardinality(R) = Cardinality(T)
  BY <1>1, <1>2, <1>3, <1>4, OneToOne
<1> QED
  BY <1>5 DEF T

(* Every role is one of a complete directory, of the one in work, or of the heap. *)
LEMMA RolesCounted ==
    ASSUME Owned, Phase, Spaces
    PROVE  /\ Cardinality(Roles) = Cardinality(WholeRoles) + Cardinality(JobRoles) + Cardinality(HeapRoles)
           /\ Cardinality(WholeRoles) \in Nat /\ Cardinality(JobRoles) \in Nat /\ Cardinality(HeapRoles) \in Nat
<1>1. IsFiniteSet(WholeRoles) /\ IsFiniteSet(JobRoles) /\ IsFiniteSet(HeapRoles)
  BY CountedByRole DEF Roles
<1>2. WholeRoles \cap JobRoles = {}
  BY DEF WholeRoles, JobRoles, Phase
<1>3. (WholeRoles \cup JobRoles) \cap HeapRoles = {}
  BY PagesAreVirtual DEF WholeRoles, JobRoles, HeapRoles, Phase, Spaces, Complete, Off
<1>4. /\ IsFiniteSet(WholeRoles \cup JobRoles)
      /\ Cardinality(WholeRoles \cup JobRoles) = Cardinality(WholeRoles) + Cardinality(JobRoles)
  BY <1>1, <1>2, DisjointUnion
<1>5. Cardinality(Roles) = Cardinality(WholeRoles \cup JobRoles) + Cardinality(HeapRoles)
  BY <1>1, <1>3, <1>4, DisjointUnion DEF Roles
<1> QED
  BY <1>1, <1>4, <1>5, FS_CardinalityType

(* The finished directories are those of the spaces and the kernel's. *)
LEMMA CompleteCounted ==
    ASSUME Spaces, kernel = Off => spaces = {}
    PROVE  /\ IsFiniteSet(Complete) /\ IsFiniteSet(spaces) /\ Cardinality(spaces) \in Nat
           /\ Cardinality(Complete) = Cardinality(spaces) + IF kernel = Off THEN 0 ELSE 1
<1> DEFINE T == {s.dir : s \in spaces}
           f == [s \in spaces |-> s.dir]
<1>1. IsFiniteSet(T)
  <2>1. IsFiniteSet(Pages)
    BY Sizes, FS_Interval DEF Pages
  <2>2. T \subseteq Pages
    BY DEF Spaces
  <2> QED
    BY <2>1, <2>2, FS_Subset
<1>2. f \in [spaces -> T] /\ (\A a, b \in spaces : f[a] = f[b] => a = b) /\ \A t \in T : \E a \in spaces : f[a] = t
  BY DEF Spaces
<1>3. kernel \notin T /\ Complete = IF kernel = Off THEN T ELSE T \cup {kernel}
  BY DEF Complete, Spaces
<1> HIDE DEF T, f
<1>4. IsFiniteSet(spaces) /\ Cardinality(spaces) = Cardinality(T) /\ Cardinality(T) \in Nat
  BY <1>1, <1>2, OneToOne, FS_CardinalityType
<1>5. CASE kernel = Off
  BY <1>1, <1>3, <1>4, <1>5
<1>6. CASE kernel # Off
  <2>1. IsFiniteSet(T \cup {kernel}) /\ Cardinality(T \cup {kernel}) = Cardinality(T) + 1
    BY <1>1, <1>3, FS_AddElement
  <2> QED
    BY <2>1, <1>3, <1>4, <1>6
<1> QED
  BY <1>5, <1>6

(* A finished directory has one page of its own and one for every table. *)
LEMMA WholeCounted ==
    ASSUME Spaces, kernel = Off => spaces = {}
    PROVE  Cardinality(WholeRoles)
               = (Cardinality(spaces) + IF kernel = Off THEN 0 ELSE 1) * (NumTables + 1)
<1>1. IsFiniteSet(-1..NumTables - 1) /\ Cardinality(-1..NumTables - 1) = NumTables + 1
  BY Sizes, FS_Interval
<1>2. Cardinality(WholeRoles) = Cardinality(Complete) * Cardinality(-1..NumTables - 1)
  BY <1>1, CompleteCounted, FS_Product DEF WholeRoles
<1> QED
  BY <1>1, <1>2, CompleteCounted

(* The heap has a page of RAM for every backed page. *)
LEMMA HeapCounted ==
    ASSUME Phase
    PROVE  Cardinality(HeapRoles) = Cardinality(BackedHeapPages) /\ IsFiniteSet(BackedHeapPages)
<1>1. IsFiniteSet(BackedHeapPages)
  <2>1. BackedHeapPages \subseteq Nat
    BY BackedAreVirtual
  <2>2. PICK n \in Nat : n = HeapVirtual + HeapPages
    BY Sizes
  <2>3. \A v \in BackedHeapPages : v <= n
    BY <2>2, BackedAreVirtual, Sizes
  <2> QED
    BY <2>1, <2>2, <2>3, FS_BoundedSetOfNaturals
<1>2. Cardinality({Off} \X BackedHeapPages) = Cardinality({Off}) * Cardinality(BackedHeapPages)
  BY <1>1, FS_Singleton, FS_Product
<1>3. Cardinality({Off}) = 1 /\ Cardinality(BackedHeapPages) \in Nat
  BY <1>1, FS_Singleton, FS_CardinalityType
<1> QED
  BY <1>1, <1>2, <1>3 DEF HeapRoles

(* The pages behind each kind of role, as the property names them. *)
LEMMA RolesNamed ==
    ASSUME Owned, Phase, Spaces
    PROVE  /\ InJob = {PageAt(mem, kernel, r) : r \in JobRoles}
           /\ Behind(BackedHeapPages) = {PageAt(mem, kernel, r) : r \in HeapRoles}
           /\ UNION {Directory(d, 0..(NumTables - 1)) : d \in Complete} = {PageAt(mem, kernel, r) : r \in WholeRoles}
<1>1. /\ Complete \subseteq Pages /\ Off \notin Complete
      /\ job.doing \in {"build", "free"} => job.dir \in Pages /\ job.dir # Off
  BY PagesAreVirtual DEF Complete, Spaces, Phase, Off
<1>2. ASSUME job.doing \in {"build", "free"} PROVE JobSlots \subseteq Nat
  <2>1. job.next \in Nat
    BY <1>2, Sizes DEF Phase
  <2> QED
    BY <2>1, Sizes DEF JobSlots
<1>3. InJob = {PageAt(mem, kernel, r) : r \in JobRoles}
  <2>1. CASE job.doing \in {"build", "free"}
    <3>1. PageAt(mem, kernel, <<job.dir, -1>>) = job.dir /\ <<job.dir, -1>> \in JobRoles
      BY <2>1, <1>1 DEF PageAt, JobRoles
    <3>2. \A i \in JobSlots : PageAt(mem, kernel, <<job.dir, i>>) = mem[job.dir][i].frame /\ <<job.dir, i>> \in JobRoles
      BY <2>1, <1>1, <1>2 DEF PageAt, JobRoles
    <3>3. \A r \in JobRoles : r = <<job.dir, -1>> \/ \E i \in JobSlots : r = <<job.dir, i>>
      BY <2>1 DEF JobRoles
    <3>4. ASSUME NEW p \in InJob PROVE \E r \in JobRoles : p = PageAt(mem, kernel, r)
      <4>1. p = job.dir \/ \E i \in JobSlots : p = mem[job.dir][i].frame
        BY <2>1 DEF InJob, Directory
      <4> QED
        BY <4>1, <3>1, <3>2, Zenon
    <3>5. ASSUME NEW r \in JobRoles PROVE PageAt(mem, kernel, r) \in InJob
      <4>1. PageAt(mem, kernel, r) = job.dir \/ \E i \in JobSlots : PageAt(mem, kernel, r) = mem[job.dir][i].frame
        BY <3>1, <3>2, <3>3, Zenon
      <4> QED
        BY <4>1, <2>1 DEF InJob, Directory
    <3> QED
      BY <3>4, <3>5
  <2>2. CASE job.doing \notin {"build", "free"}
    BY <2>2 DEF InJob, JobRoles
  <2> QED
    BY <2>1, <2>2
<1>4. Behind(BackedHeapPages) = {PageAt(mem, kernel, r) : r \in HeapRoles}
  <2>1. \A v \in BackedHeapPages : PageAt(mem, kernel, <<Off, v>>) = Walk(mem, kernel, v).frame /\ <<Off, v>> \in HeapRoles
    BY DEF PageAt, HeapRoles
  <2>2. \A r \in HeapRoles : \E v \in BackedHeapPages : r = <<Off, v>>
    BY DEF HeapRoles
  <2> QED
    BY <2>1, <2>2 DEF Behind
<1>5. UNION {Directory(d, 0..(NumTables - 1)) : d \in Complete} = {PageAt(mem, kernel, r) : r \in WholeRoles}
  <2>1. \A d \in Complete : PageAt(mem, kernel, <<d, -1>>) = d /\ <<d, -1>> \in WholeRoles
    BY <1>1, Sizes DEF PageAt, WholeRoles
  <2>2. \A d \in Complete, i \in 0..NumTables - 1 :
           PageAt(mem, kernel, <<d, i>>) = mem[d][i].frame /\ <<d, i>> \in WholeRoles
    BY <1>1, Sizes DEF PageAt, WholeRoles
  <2>3. \A r \in WholeRoles : \E d \in Complete : r = <<d, -1>> \/ \E i \in 0..NumTables - 1 : r = <<d, i>>
    BY Sizes DEF WholeRoles
  <2>4. ASSUME NEW d \in Complete, NEW p \in Directory(d, 0..(NumTables - 1))
        PROVE  \E r \in WholeRoles : p = PageAt(mem, kernel, r)
    <3>1. p = d \/ \E i \in 0..NumTables - 1 : p = mem[d][i].frame
      BY DEF Directory
    <3> QED
      BY <3>1, <2>1, <2>2, Zenon
  <2>5. ASSUME NEW r \in WholeRoles
        PROVE  \E d \in Complete : PageAt(mem, kernel, r) \in Directory(d, 0..(NumTables - 1))
    <3>1. PICK d \in Complete : r = <<d, -1>> \/ \E i \in 0..NumTables - 1 : r = <<d, i>>
      BY <2>3
    <3>2. PageAt(mem, kernel, r) = d \/ \E i \in 0..NumTables - 1 : PageAt(mem, kernel, r) = mem[d][i].frame
      BY <3>1, <2>1, <2>2
    <3> QED
      BY <3>2 DEF Directory
  <2> QED
    BY <2>4, <2>5
<1> QED
  BY <1>3, <1>4, <1>5

(* The pages handed out are as many as the roles there are for them. *)
LEMMA Balanced == IInv => PagesBalanced
<1> SUFFICES ASSUME IInv PROVE PagesBalanced
  OBVIOUS
<1>1. Owned /\ Phase /\ Spaces /\ (kernel = Off => spaces = {})
  BY DEF IInv, Phase
<1>2. held = InJob \cup Behind(BackedHeapPages) \cup UNION {Directory(d, 0..(NumTables - 1)) : d \in Complete}
  <2>1. held = {PageAt(mem, kernel, r) : r \in JobRoles} \cup {PageAt(mem, kernel, r) : r \in HeapRoles}
               \cup {PageAt(mem, kernel, r) : r \in WholeRoles}
    BY <1>1 DEF Owned, Roles
  <2> QED
    BY <2>1, <1>1, RolesNamed
<1>3. Cardinality(held) = Cardinality(Roles)
  BY <1>1, CountedByRole DEF Owned
<1>4. Cardinality(InJob) = Cardinality(JobRoles)
  <2>1. JobRoles \subseteq Roles
    BY DEF Roles
  <2> QED
    BY <2>1, <1>1, CountedByRole, RolesNamed
<1>5. Cardinality(HeapRoles) = Cardinality(BackedHeapPages)
  BY <1>1, HeapCounted
<1>6. Cardinality(WholeRoles) = (Cardinality(spaces) + IF kernel = Off THEN 0 ELSE 1) * (NumTables + 1)
  BY <1>1, WholeCounted
<1>7. /\ Cardinality(Roles) = Cardinality(WholeRoles) + Cardinality(JobRoles) + Cardinality(HeapRoles)
      /\ Cardinality(WholeRoles) \in Nat /\ Cardinality(JobRoles) \in Nat /\ Cardinality(HeapRoles) \in Nat
  BY <1>1, RolesCounted
<1>8. Cardinality(held) = Cardinality(JobRoles) + Cardinality(HeapRoles) + Cardinality(WholeRoles)
  BY <1>3, <1>7
<1>9. Cardinality(held) = Cardinality(InJob) + Cardinality(BackedHeapPages)
          + (Cardinality(spaces) + IF kernel = Off THEN 0 ELSE 1) * (NumTables + 1)
  BY <1>4, <1>5, <1>6, <1>8, Zenon
<1> QED
  BY <1>2, <1>9, Zenon DEF PagesBalanced

(* Every page handed out is a directory, a table or a page of the heap, and only one of
   these: building, mapping and freeing address spaces in any order neither leaks a page
   nor lets two tables share one. *)
THEOREM PagingPagesBalanced == Spec => []PagesBalanced
  BY Balanced, PagingInvariant, PTL
-----------------------------------------------------------------------------
(* What a task translates its binary's addresses to, on a heap of consecutive pages. *)
LEMMA BinaryWord ==
    ASSUME IInv, HeapContiguous, NEW s \in spaces, NEW v \in VPages, InBinary(v, s.pages)
    PROVE  /\ s.data + (v - TaskVirtual) \in DataPages(s)
           /\ Walk(mem, s.dir, v) = PTE(Walk(mem, kernel, s.data + (v - TaskVirtual)).frame, TRUE, TRUE)
<1>1. PICK data \in Nat, pages \in Nat, i \in Nat :
         /\ data = s.data /\ pages = s.pages /\ i = v - TaskVirtual /\ i < pages
         /\ HeapVirtual < data /\ data + pages <= HeapVirtual + HeapPages
  BY PagesAreVirtual, Sizes DEF IInv, Spaces, InBinary
<1>2. kernel # Off /\ job.doing # "heap" /\ BackedHeapPages = HeapVirtual..HeapVirtual - 1 + HeapPages
  BY DEF IInv, Phase, BackedHeapPages
<1>3. data \in BackedHeapPages /\ data + i \in BackedHeapPages /\ HeapVirtual \in BackedHeapPages
  BY <1>1, <1>2, Sizes
<1>4. PICK f \in Pages : f = Walk(mem, kernel, HeapVirtual).frame
  <2>1. <<Off, HeapVirtual>> \in Roles /\ PageAt(mem, kernel, <<Off, HeapVirtual>>) = Walk(mem, kernel, HeapVirtual).frame
    BY <1>3 DEF Roles, HeapRoles, PageAt
  <2>2. PageAt(mem, kernel, <<Off, HeapVirtual>>) \in held /\ held \subseteq Pages
    BY <2>1, Zenon DEF IInv, Owned
  <2> QED
    BY <2>1, <2>2
<1>5. /\ Walk(mem, kernel, data).frame = f + (data - HeapVirtual)
      /\ Walk(mem, kernel, data + i).frame = f + (data + i - HeapVirtual)
  BY <1>3, <1>4 DEF HeapContiguous
<1>6. Walk(mem, kernel, data).frame + i = Walk(mem, kernel, data + i).frame
  BY <1>1, <1>4, <1>5, PagesAreVirtual, Sizes
<1>7. Walk(mem, s.dir, v) = PTE(Walk(mem, kernel, data).frame + i, TRUE, TRUE)
  BY <1>1 DEF IInv, Contents
<1>8. data + i \in DataPages(s)
  BY <1>1 DEF DataPages
<1> QED
  BY <1>1, <1>6, <1>7, <1>8

(* No two binaries lie on one page, those that are being mapped included. *)
BinariesApart ==
    /\ \A s, t \in spaces : s # t => DataPages(s) \cap DataPages(t) = {}
    /\ job.doing = "build" /\ kernel # Off =>
          \A s \in spaces : DataPages(s) \cap (job.data..job.data + job.pages - 1) = {}

(* Apart stays apart while no binary is added. *)
LEMMA ApartKept ==
    ASSUME BinariesApart, spaces' \subseteq spaces, job'.doing # "build"
    PROVE  BinariesApart'
  BY DEF BinariesApart, DataPages

(* A binary is placed on pages no other lies on, and stays there. *)
LEMMA ApartNext == IInv /\ BinariesApart /\ [Next]_vars => BinariesApart'
<1> SUFFICES ASSUME IInv, BinariesApart, [Next]_vars PROVE BinariesApart'
  OBVIOUS
<1>1. CASE ReserveImage \/ EnablePaging \/ BackHeapPage \/ HeapReady \/ FreeNextPage
  <2>1. spaces' = spaces /\ job'.doing # "build"
    <3>1. CASE ReserveImage
      BY <3>1 DEF ReserveImage, Reserving
    <3>2. CASE EnablePaging
      BY <3>2 DEF EnablePaging, Backing
    <3>3. CASE BackHeapPage
      BY <3>3 DEF BackHeapPage, Backing
    <3>4. CASE HeapReady \/ FreeNextPage
      BY <3>4 DEF HeapReady, FreeNextPage, Idle, Freeing
    <3> QED
      BY <1>1, <3>1, <3>2, <3>3, <3>4
  <2> QED
    BY <2>1, ApartKept
<1>2. CASE CreateKernelDirectory
  <2>1. kernel' = Off /\ spaces' = {}
    BY <1>2 DEF IInv, Phase, CreateKernelDirectory, StartDirectory
  <2> QED
    BY <2>1 DEF BinariesApart
<1>3. CASE FillTable
  <2>1. /\ job.doing = "build" /\ job'.doing = job.doing /\ kernel' = kernel /\ spaces' = spaces
        /\ job'.data = job.data /\ job'.pages = job.pages
    <3>1. job.doing = "build" /\ DOMAIN job = {"doing", "dir", "write", "data", "pages", "next"}
      BY <1>3 DEF FillTable, IInv, Phase
    <3>2. job' = [job EXCEPT !.next = @ + 1] /\ UNCHANGED <<kernel, spaces>>
      BY <1>3 DEF FillTable
    <3> QED
      BY <3>1, <3>2
  <2> QED
    BY <2>1 DEF BinariesApart, DataPages
<1>4. ASSUME NEW data \in VPages, NEW size \in BinarySizes, CreateSpace(data, size) PROVE BinariesApart'
  <2>1. job'.data = data /\ job'.pages = PagesFor(size) /\ spaces' = spaces
    BY <1>4 DEF CreateSpace, StartDirectory, Building
  <2>2. \A s \in spaces : DataPages(s) \cap (data..data + PagesFor(size) - 1) = {}
    BY <1>4 DEF CreateSpace, Placeable
  <2> QED
    BY <2>1, <2>2 DEF BinariesApart, DataPages
<1>5. CASE MapBinary
  <2> DEFINE new == [dir |-> job.dir, data |-> job.data, pages |-> job.pages]
  <2>1. /\ job.doing = "build" /\ kernel # Off /\ job'.doing = "idle"
        /\ spaces' = spaces \cup {new}
    BY <1>5 DEF MapBinary, Built, Idle
  <2>2. DataPages(new) = job.data..job.data + job.pages - 1
    BY DEF DataPages
  <2>3. \A s \in spaces : DataPages(s) \cap DataPages(new) = {}
    BY <2>1, <2>2 DEF BinariesApart
  <2> HIDE DEF new
  <2>4. \A s, t \in spaces \cup {new} : s # t => DataPages(s) \cap DataPages(t) = {}
    BY <2>3 DEF BinariesApart
  <2> QED
    BY <2>1, <2>4 DEF BinariesApart, DataPages
<1>6. ASSUME NEW s \in spaces, FreeSpace(s) \/ EnterUser(s) PROVE BinariesApart'
  <2>1. spaces' \subseteq spaces /\ job'.doing # "build"
    BY <1>6 DEF FreeSpace, EnterUser, Freeing, InUser
  <2> QED
    BY <2>1, ApartKept
<1>7. CASE Interrupt \/ Panic \/ UNCHANGED vars
  <2>1. UNCHANGED <<job, kernel, spaces>>
    BY <1>7 DEF Interrupt, Panic, vars, pagingVars
  <2> QED
    BY <2>1 DEF BinariesApart, DataPages
<1> QED
  BY <1>1, <1>2, <1>3, <1>4, <1>5, <1>6, <1>7 DEF Next, Boot, Tasks

(* At the start there are no binaries. *)
LEMMA ApartInit == Init => BinariesApart
  BY DEF Init, BinariesApart, Reserving

(* The page behind a page of the heap is that one's only, and no directory's. *)
LEMMA HeapFrames ==
    ASSUME IInv, kernel # Off, NEW v \in BackedHeapPages
    PROVE  /\ \A u \in BackedHeapPages :
                 Walk(mem, kernel, u).frame = Walk(mem, kernel, v).frame => u = v
           /\ \A d \in Complete : Walk(mem, kernel, v).frame \notin Directory(d, Tables)
<1>1. \A u \in BackedHeapPages :
         /\ <<Off, u>> \in Roles
         /\ PageAt(mem, kernel, <<Off, u>>) = Walk(mem, kernel, u).frame
  BY DEF Roles, HeapRoles, PageAt
<1>2. \A q, r \in Roles : PageAt(mem, kernel, q) = PageAt(mem, kernel, r) => q = r
  BY DEF IInv, Owned
<1>3. ASSUME NEW u \in BackedHeapPages, Walk(mem, kernel, u).frame = Walk(mem, kernel, v).frame
      PROVE  u = v
  <2>1. <<Off, u>> = <<Off, v>>
    BY <1>1, <1>2, <1>3, Zenon
  <2> QED
    BY <2>1
<1>4. ASSUME NEW d \in Complete, Walk(mem, kernel, v).frame \in Directory(d, Tables) PROVE FALSE
  <2>1. d \in Pages /\ d # Off
    BY PagesAreVirtual DEF IInv, Spaces, Complete, Off
  <2>2. PICK i \in {-1} \cup Tables : Walk(mem, kernel, v).frame = PageAt(mem, kernel, <<d, i>>)
    <3>1. CASE Walk(mem, kernel, v).frame = d
      <4>1. PageAt(mem, kernel, <<d, -1>>) = d
        BY <2>1 DEF PageAt
      <4> QED
        BY <3>1, <4>1
    <3>2. ASSUME NEW i \in Tables, Walk(mem, kernel, v).frame = mem[d][i].frame
          PROVE  \E j \in {-1} \cup Tables : Walk(mem, kernel, v).frame = PageAt(mem, kernel, <<d, j>>)
      <4>1. PageAt(mem, kernel, <<d, i>>) = mem[d][i].frame
        BY <2>1, TablesAreSlots DEF PageAt
      <4> QED
        BY <3>2, <4>1
    <3> QED
      BY <1>4, <3>1, <3>2 DEF Directory
  <2>3. <<d, i>> \in Roles
    <3>1. i \in -1..NumTables - 1
      BY Sizes DEF Tables
    <3> QED
      BY <3>1 DEF Roles, WholeRoles
  <2>4. <<d, i>> = <<Off, v>>
    BY <1>1, <1>2, <2>2, <2>3, Zenon
  <2> QED
    BY <2>1, <2>4
<1> QED
  BY <1>3, <1>4

(* The invariant says what a task's directory translates to. *)
LEMMA SeesItsBinary == IInv /\ BinariesApart => TaskSeesItsBinary
<1> SUFFICES ASSUME IInv, BinariesApart, HeapContiguous, NEW s \in spaces
             PROVE  /\ \A i \in 0..(s.pages - 1) :
                          Walk(mem, s.dir, TaskVirtual + i) = PTE(Walk(mem, kernel, s.data + i).frame, TRUE, TRUE)
                    /\ WriteableFrom(s.dir) = Behind(DataPages(s))
                    /\ \A t \in spaces \ {s} : WriteableFrom(s.dir) \cap Behind(DataPages(t)) = {}
                    /\ \A d \in Complete :
                          WriteableFrom(s.dir) \cap Directory(d, 0..(NumTables - 1)) = {}
  BY DEF TaskSeesItsBinary
<1>1. s.pages \in Nat /\ s.data \in Nat /\ s.pages <= HeapPages
  BY Sizes DEF IInv, Spaces
<1>2. \A i \in 0..s.pages - 1 : \E v \in VPages :
         v = TaskVirtual + i /\ InBinary(v, s.pages) /\ v - TaskVirtual = i
  <2> SUFFICES ASSUME NEW i \in 0..s.pages - 1
               PROVE  \E v \in VPages : v = TaskVirtual + i /\ InBinary(v, s.pages) /\ v - TaskVirtual = i
    OBVIOUS
  <2>1. i \in Nat /\ i < s.pages
    BY <1>1
  <2>2. PICK v \in Nat : v = TaskVirtual + i
    BY <2>1, Sizes
  <2>3. InBinary(v, s.pages) /\ v - TaskVirtual = i
    BY <2>1, <2>2, <1>1, Sizes DEF InBinary
  <2>4. v \in VPages
    BY <2>1, <2>2, <1>1, Sizes DEF VPages
  <2> QED
    BY <2>2, <2>3, <2>4
<1>3. ASSUME NEW i \in 0..s.pages - 1
      PROVE  Walk(mem, s.dir, TaskVirtual + i) = PTE(Walk(mem, kernel, s.data + i).frame, TRUE, TRUE)
  <2>1. PICK v \in VPages : v = TaskVirtual + i /\ InBinary(v, s.pages) /\ v - TaskVirtual = i
    BY <1>2
  <2>2. Walk(mem, s.dir, v) = PTE(Walk(mem, kernel, s.data + (v - TaskVirtual)).frame, TRUE, TRUE)
    BY <2>1, BinaryWord
  <2> QED
    BY <2>1, <2>2
<1>4. ASSUME NEW v \in VPages, ~InBinary(v, s.pages) PROVE ~Walk(mem, s.dir, v).write
  <2>1. Walk(mem, s.dir, v) = PTE(v, FALSE, TRUE)
    BY <1>4 DEF IInv, Contents
  <2> QED
    BY <2>1 DEF PTE
<1>5. ASSUME NEW p \in WriteableFrom(s.dir) PROVE p \in Behind(DataPages(s))
  <2>1. PICK v \in VPages : p = Walk(mem, s.dir, v).frame /\ Walk(mem, s.dir, v).write
    BY DEF WriteableFrom
  <2>2. InBinary(v, s.pages)
    BY <2>1, <1>4
  <2>3. /\ s.data + (v - TaskVirtual) \in DataPages(s)
        /\ Walk(mem, s.dir, v) = PTE(Walk(mem, kernel, s.data + (v - TaskVirtual)).frame, TRUE, TRUE)
    BY <2>2, BinaryWord
  <2> QED
    BY <2>1, <2>3 DEF Behind, PTE
<1>6. ASSUME NEW p \in Behind(DataPages(s)) PROVE p \in WriteableFrom(s.dir)
  <2>1. PICK u \in DataPages(s) : p = Walk(mem, kernel, u).frame
    BY DEF Behind
  <2>2. PICK i \in 0..s.pages - 1 : u = s.data + i
    <3>1. u - s.data \in 0..s.pages - 1 /\ u = s.data + (u - s.data)
      BY <1>1 DEF DataPages
    <3> QED
      BY <3>1
  <2>3. PICK v \in VPages : v = TaskVirtual + i
    BY <1>2
  <2>4. Walk(mem, s.dir, v) = PTE(p, TRUE, TRUE)
    BY <2>1, <2>2, <2>3, <1>3
  <2>5. Walk(mem, s.dir, v).write /\ Walk(mem, s.dir, v).user /\ Walk(mem, s.dir, v).frame = p
    BY <2>4 DEF PTE
  <2> QED
    BY <2>5 DEF WriteableFrom
<1>7. WriteableFrom(s.dir) = Behind(DataPages(s))
  BY <1>5, <1>6
<1>8. \A t \in spaces : DataPages(t) \subseteq BackedHeapPages
  <2>1. TAKE t \in spaces
  <2>2. kernel # Off /\ job.doing # "heap" /\ BackedHeapPages = HeapVirtual..HeapVirtual - 1 + HeapPages
    BY DEF IInv, Phase, BackedHeapPages
  <2>3. /\ t.data \in Nat /\ t.pages \in Nat
        /\ HeapVirtual < t.data /\ t.data + t.pages <= HeapVirtual + HeapPages
    BY DEF IInv, Spaces
  <2> QED
    BY <2>2, <2>3, Sizes DEF DataPages
<1>9. kernel # Off
  BY DEF IInv, Phase
<1>10. ASSUME NEW t \in spaces \ {s}, NEW p \in WriteableFrom(s.dir) \cap Behind(DataPages(t)) PROVE FALSE
  <2>1. PICK u \in DataPages(s), v \in DataPages(t) :
           p = Walk(mem, kernel, u).frame /\ p = Walk(mem, kernel, v).frame
    BY <1>7, <1>10 DEF Behind
  <2>2. u = v
    BY <1>8, <1>9, <2>1, HeapFrames
  <2> QED
    BY <1>10, <2>1, <2>2 DEF BinariesApart
<1>11. ASSUME NEW d \in Complete, NEW p \in WriteableFrom(s.dir) \cap Directory(d, 0..NumTables - 1)
       PROVE  FALSE
  <2>1. PICK u \in DataPages(s) : p = Walk(mem, kernel, u).frame
    BY <1>7, <1>11 DEF Behind
  <2> QED
    BY <1>8, <1>9, <1>11, <2>1, HeapFrames DEF Tables
<1> QED
  BY <1>3, <1>7, <1>10, <1>11

(* If the heap lies on consecutive pages of RAM, a task finds at TaskVirtual the memory
   its binary was read into, page by page, and can write the whole pages that lies on,
   but no page of another binary and no page table. *)
THEOREM PagingTaskSeesItsBinary == Spec => []TaskSeesItsBinary
<1>1. Spec => []BinariesApart
  BY ApartInit, ApartNext, PagingInvariant, PTL DEF Spec
<1> QED
  BY <1>1, SeesItsBinary, PagingInvariant, PTL

-----------------------------------------------------------------------------
(* The order pages are found and given back in: a directory lies below its tables, and
   the tables given back so far are free. *)
Ordered ==
    /\ \A d \in Complete : \A i \in Tables : d < mem[d][i].frame
    /\ job.doing = "build" =>
          /\ last_index \in Nat /\ job.dir <= last_index
          /\ \A i \in JobSlots : job.dir < mem[job.dir][i].frame
    /\ job.doing = "free" =>
          /\ \A i \in Tables : mem[job.dir][i].frame \in Pages /\ job.dir < mem[job.dir][i].frame
          /\ \A i, j \in Tables : mem[job.dir][i].frame = mem[job.dir][j].frame => i = j
          /\ \A i \in 0..job.next - 1 : mem[job.dir][i].frame \in Free

(* Nothing is built or freed at the start. *)
LEMMA OrderedInit == Init => Ordered
  BY DEF Init, Reserving, Ordered, Complete

(* Nothing is built or freed, and complete directories stay as they are. *)
LEMMA OrderedKept ==
    ASSUME Ordered, Complete' \subseteq Complete, \A d \in Complete : mem'[d] = mem[d],
           job'.doing \notin {"build", "free"}
    PROVE  Ordered'
  BY DEF Ordered

(* The cursor stands at a new directory, which has no table yet. *)
LEMMA OrderedStart ==
    ASSUME IInv, Ordered, NEW write, NEW data, NEW pages, StartDirectory(write, data, pages)
    PROVE  Ordered'
<1>1. PICK dir \in Pages : /\ PageAlloc(dir) /\ job' = Building(dir, write, data, pages, 0)
                           /\ UNCHANGED <<mem, kernel, spaces>>
  BY DEF StartDirectory, Searched, Free
<1>2. last_index' = dir /\ job'.doing = "build" /\ job'.dir = dir /\ job'.next = 0
  BY <1>1 DEF PageAlloc, Building
<1>3. JobSlots' = {}
  BY <1>2 DEF JobSlots
<1>4. Complete' = Complete /\ dir \in Nat
  BY <1>1, PagesAreVirtual DEF Complete
<1> QED
  BY <1>1, <1>2, <1>3, <1>4 DEF Ordered

(* A new table lies above its directory: page_alloc searches on from its last page. *)
LEMMA OrderedFill == IInv /\ Ordered /\ FillTable => Ordered'
<1> SUFFICES ASSUME IInv, Ordered, FillTable PROVE Ordered'
  OBVIOUS
<1>1. PICK table \in Pages, k \in Tables :
              /\ k = job.next /\ table \notin held /\ held' = held \cup {table}
              /\ mem' \in [Pages -> [Slots -> Words]]
              /\ mem'[job.dir] = [mem[job.dir] EXCEPT ![k] = PTE(table, TRUE, TRUE)]
              /\ \A x \in Pages : x \notin {table, job.dir} => mem'[x] = mem[x]
  BY TableFilled
<1>2. /\ job.doing = "build" /\ job.dir \in Pages /\ job.dir \in Nat /\ job.dir \notin Complete
      /\ job.dir \in held /\ Complete' = Complete
      /\ mem \in [Pages -> [Slots -> Words]] /\ Complete \subseteq Pages /\ Complete \subseteq held
  BY Parts, PagesAreVirtual DEF FillTable, IInv, Phase, Dirs, Complete, Contents, Owned
<1>3. job'.doing = "build" /\ job'.dir = job.dir /\ job'.next = k + 1 /\ JobSlots' = JobSlots \cup {k}
      /\ JobSlots = 0..k - 1 /\ k \in Nat
  <2>1. job'.doing = "build" /\ job'.dir = job.dir /\ job'.next = k + 1 /\ k \in Nat
    BY <1>1, <1>2, TablesAreSlots DEF FillTable, IInv, Phase
  <2>2. 0..(k + 1) - 1 = (0..k - 1) \cup {k}
    BY <2>1
  <2>3. JobSlots = 0..k - 1 /\ JobSlots' = 0..(k + 1) - 1
    BY <2>1, <1>1, <1>2 DEF JobSlots
  <2> QED
    BY <2>1, <2>2, <2>3
<1>4. last_index' = table /\ last_index <= table
  <2>1. PICK t : PageAlloc(t)
    BY DEF FillTable
  <2>2. t = table
    <3>1. held' = held \cup {t} /\ t \notin held
      BY <2>1, Allocated DEF IInv
    <3> QED
      BY <3>1, <1>1
  <2> QED
    BY <2>1, <2>2 DEF PageAlloc, Searched
<1>5. table \in Nat /\ job.dir < table
  <2>1. table \in Nat /\ last_index \in Nat /\ job.dir <= last_index /\ table # job.dir
    BY <1>1, <1>2, PagesAreVirtual DEF Ordered
  <2> QED
    BY <2>1, <1>2, <1>4
<1>6. \A d \in Complete : mem'[d] = mem[d]
  BY <1>1, <1>2
<1>7. mem'[job.dir][k].frame = table /\ \A i \in JobSlots : mem'[job.dir][i] = mem[job.dir][i]
  <2>1. mem[job.dir] \in [Slots -> Words] /\ k \in Slots
    BY <1>2, TablesAreSlots
  <2>2. \A i \in JobSlots : i \in Slots /\ i # k
    BY <2>1, <1>3, Sizes DEF Slots
  <2> QED
    BY <2>1, <2>2, <1>1 DEF PTE
<1>8. \A d \in Complete' : \A i \in Tables : d < mem'[d][i].frame
  BY <1>2, <1>6 DEF Ordered
<1>9. \A i \in JobSlots' : job'.dir < mem'[job.dir][i].frame
  BY <1>2, <1>3, <1>5, <1>7 DEF Ordered
<1>10. last_index' \in Nat /\ job'.dir <= last_index'
  BY <1>2, <1>3, <1>4, <1>5
<1> QED
  BY <1>3, <1>8, <1>9, <1>10 DEF Ordered
(* page_directory_free has given nothing back yet. *)
LEMMA OrderedFree == \A s \in spaces : IInv /\ Ordered /\ FreeSpace(s) => Ordered'
<1> SUFFICES ASSUME NEW s \in spaces, IInv, Ordered, FreeSpace(s) PROVE Ordered'
  OBVIOUS
<1>1. /\ UNCHANGED <<mem, kernel>> /\ spaces' = spaces \ {s}
      /\ job'.doing = "free" /\ job'.dir = s.dir /\ job'.next = 0
  BY DEF FreeSpace, Freeing
<1>2. s.dir \in Complete /\ Complete' \subseteq Complete
  BY <1>1 DEF Complete
<1>3. /\ \A i \in Tables : mem[s.dir][i].frame \in held
      /\ \A i, j \in Tables : mem[s.dir][i].frame = mem[s.dir][j].frame => i = j
  BY <1>2, Parts DEF IInv, Dirs, SlotsOf
<1>4. \A i \in Tables : mem[s.dir][i].frame \in Pages /\ s.dir < mem[s.dir][i].frame
  BY <1>2, <1>3 DEF Ordered, IInv, Owned
<1> QED
  BY <1>1, <1>2, <1>3, <1>4 DEF Ordered

(* What a page_free of page_directory_free does to the bitmap. *)
LEMMA PageFreed ==
    ASSUME IInv, FreeNextPage
    PROVE  /\ FreedPage(job.dir, job.next) \in Pages /\ last_index' = FreedPage(job.dir, job.next)
           /\ FreedPage(job.dir, job.next) = IF job.next < NumTables THEN mem[job.dir][job.next].frame ELSE job.dir
           /\ Free' = Free \cup {FreedPage(job.dir, job.next)}
<1>1. /\ job.doing = "free" /\ PageFree(FreedPage(job.dir, job.next))
      /\ Phase /\ Spaces /\ Owned /\ Contents /\ cr3 = kernel
      /\ job.dir \in Pages /\ job.next \in 0..NumTables
  BY DEF FreeNextPage, IInv, Phase
<1>2. Reach(mem, job.dir) = job.dir
  BY <1>1, Reaches
<1>3. FreedPage(job.dir, job.next) = IF job.next < NumTables THEN mem[job.dir][job.next].frame ELSE job.dir
  BY <1>2 DEF FreedPage, Read
<1>4. FreedPage(job.dir, job.next) \in Pages
  <2>1. ASSUME job.next < NumTables PROVE mem[job.dir][job.next].frame \in Pages
    <3>1. job.next \in JobSlots
      BY <1>1, <2>1, Sizes DEF JobSlots
    <3>2. job.dir \in Dirs /\ SlotsOf(job.dir) = JobSlots
      BY <1>1 DEF Dirs, SlotsOf, Phase
    <3>3. mem[job.dir][job.next].frame \in held
      BY <1>1, <3>1, <3>2, Parts
    <3> QED
      BY <3>3, <1>1 DEF Owned
  <2> QED
    BY <2>1, <1>1, <1>3
<1>5. last_index' = FreedPage(job.dir, job.next) /\ Free' = Free \cup {FreedPage(job.dir, job.next)}
  BY <1>1, <1>4 DEF PageFree, Free
<1> QED
  BY <1>3, <1>4, <1>5

(* A round of page_directory_free: one table more is free, the directory last. *)
LEMMA OrderedFreeNext == IInv /\ Ordered /\ FreeNextPage => Ordered'
<1> SUFFICES ASSUME IInv, Ordered, FreeNextPage PROVE Ordered'
  OBVIOUS
<1>1. /\ job.doing = "free" /\ UNCHANGED <<mem, kernel, spaces>> /\ job.next \in Nat /\ job.next <= NumTables
      /\ job' = IF job.next = NumTables THEN Idle ELSE Freeing(job.dir, job.next + 1)
  BY Sizes DEF FreeNextPage, IInv, Phase
<1>2. Complete' = Complete
  BY <1>1 DEF Complete
<1>3. CASE job.next = NumTables
  <2>1. job'.doing = "idle"
    BY <1>1, <1>3 DEF Idle
  <2> QED
    BY <2>1, <1>1, <1>2, OrderedKept
<1>4. CASE job.next # NumTables
  <2>1. job'.doing = "free" /\ job'.dir = job.dir /\ job'.next = job.next + 1
    BY <1>1, <1>4 DEF Freeing
  <2>2. mem[job.dir][job.next].frame \in Free' /\ Free \subseteq Free'
    <3>1. job.next < NumTables
      BY <1>1, <1>4, Sizes
    <3> QED
      BY <3>1, PageFreed
  <2>3. ASSUME NEW i \in 0..job'.next - 1 PROVE mem[job.dir][i].frame \in Free'
    <3>1. i = job.next \/ i \in 0..job.next - 1
      BY <2>1, <1>1
    <3> QED
      BY <3>1, <2>2, <1>1 DEF Ordered
  <2> QED
    BY <2>1, <2>3, <1>1, <1>2 DEF Ordered
<1> QED
  BY <1>3, <1>4

(* Every step keeps the order. *)
LEMMA OrderedNext == IInv /\ Ordered /\ [Next]_vars => Ordered'
<1> SUFFICES ASSUME IInv, Ordered, [Next]_vars PROVE Ordered'
  OBVIOUS
<1>1. CASE ReserveImage
  BY <1>1, OrderedKept DEF ReserveImage, Reserving, Complete
<1>2. CASE CreateKernelDirectory
  BY <1>2, OrderedStart DEF CreateKernelDirectory
<1>3. CASE EnablePaging
  <2>1. /\ job.doing = "build" /\ JobSlots = Tables /\ kernel' = job.dir /\ job'.doing = "heap"
        /\ UNCHANGED <<mem, spaces>>
    BY <1>3 DEF EnablePaging, Built, JobSlots, Tables, Backing
  <2>2. Complete' \subseteq Complete \cup {job.dir}
    BY <2>1 DEF Complete
  <2> QED
    BY <2>1, <2>2 DEF Ordered
<1>4. CASE BackHeapPage
  <2>1. mem'[kernel] = mem[kernel]
    BY <1>4, BackInv
  <2>2. Complete' = Complete /\ Complete \subseteq {kernel} /\ job'.doing = "heap"
    BY <1>4 DEF BackHeapPage, Complete, Backing, IInv, Phase
  <2> QED
    BY <2>1, <2>2, OrderedKept
<1>5. CASE HeapReady
  BY <1>5, OrderedKept DEF HeapReady, Idle, Complete
<1>6. CASE FillTable
  BY <1>6, OrderedFill
<1>7. ASSUME NEW data \in VPages, NEW size \in BinarySizes, CreateSpace(data, size) PROVE Ordered'
  BY <1>7, OrderedStart DEF CreateSpace
<1>8. CASE MapBinary
  <2>1. BinaryBuilt /\ Mapped(mem', job.pages)
    BY <1>8, MapBinaryMaps
  <2>2. mem'[job.dir] = mem[job.dir] /\ \A d \in Complete : mem'[d] = mem[d]
    BY <2>1, MappedKeeps
  <2>3. JobSlots = Tables /\ job.doing = "build"
    BY <2>1 DEF BinaryBuilt, JobSlots, Tables
  <2>4. Complete' = Complete \cup {job.dir} /\ job'.doing = "idle"
    <3> DEFINE new == [dir |-> job.dir, data |-> job.data, pages |-> job.pages]
    <3>1. spaces' = spaces \cup {new} /\ kernel' = kernel /\ job'.doing = "idle"
      BY <1>8 DEF MapBinary, Idle
    <3>2. new.dir = job.dir
      OBVIOUS
    <3> HIDE DEF new
    <3> QED
      BY <3>1, <3>2 DEF Complete
  <2> QED
    BY <2>2, <2>3, <2>4 DEF Ordered
<1>9. ASSUME NEW s \in spaces, FreeSpace(s) PROVE Ordered'
  BY <1>9, OrderedFree
<1>10. ASSUME NEW s \in spaces, EnterUser(s) PROVE Ordered'
  BY <1>10, OrderedKept DEF EnterUser, InUser, Complete
<1>11. CASE FreeNextPage
  BY <1>11, OrderedFreeNext
<1>12. CASE Interrupt
  BY <1>12, OrderedKept DEF Interrupt, Complete
<1>13. ASSUME UNCHANGED <<marked, last_index>>, UNCHANGED pagingVars PROVE Ordered'
  BY <1>13 DEF pagingVars, Ordered, Complete, JobSlots, Free
<1>14. CASE Panic \/ UNCHANGED vars
  BY <1>13, <1>14 DEF Panic, OutOfPages, vars, allocVars
<1> QED
  BY <1>1, <1>2, <1>3, <1>4, <1>5, <1>6, <1>7, <1>8, <1>9, <1>10, <1>11, <1>12, <1>14
     DEF Next, Boot, Tasks

(* The last page given back is the directory; the search starts there, and all its
   tables lie above it. *)
LEMMA LastFreed ==
    ASSUME IInv, Ordered, [Next]_vars, job.doing = "free", job' = Idle
    PROVE  Cardinality(Searched') > NumTables
<1>1. FreeNextPage
  <2>1. job # Idle /\ job' # job
    BY DEF Idle
  <2>2. ~Boot /\ ~FillTable
    BY DEF Boot, ReserveImage, CreateKernelDirectory, EnablePaging, Built, BackHeapPage, HeapReady, Backing, FillTable
  <2>3. ~Interrupt /\ ~Panic /\ ~UNCHANGED vars
    BY <2>1 DEF Interrupt, Panic, pagingVars, vars
  <2>4. Tasks => FreeNextPage
    BY <2>1 DEF Tasks, CreateSpace, MapBinary, Built, FreeSpace, EnterUser
  <2> QED
    BY <2>2, <2>3, <2>4 DEF Next
<1>2. job.next = NumTables /\ job.dir \in Pages
  <2>1. job.next # NumTables => job'.doing = "free"
    BY <1>1 DEF FreeNextPage, Freeing
  <2> QED
    BY <2>1 DEF Idle, IInv, Phase
<1>3. last_index' = job.dir /\ Free' = Free \cup {job.dir}
  BY <1>1, <1>2, PageFreed, Sizes
<1> DEFINE slots == -1..NumTables - 1
           f == [i \in slots |-> IF i = -1 THEN job.dir ELSE mem[job.dir][i].frame]
           T == {f[i] : i \in slots}
<1>4. \A i \in slots : i # -1 => i \in Tables
  BY Sizes DEF Tables
<1>5. \A i \in slots : f[i] \in Searched'
  <2>1. ASSUME NEW i \in Tables
        PROVE  mem[job.dir][i].frame \in Free /\ mem[job.dir][i].frame \in Pages /\ job.dir < mem[job.dir][i].frame
    BY <1>2 DEF Ordered, Tables
  <2>2. job.dir \in Nat /\ \A p \in Pages : p \in Nat
    BY <1>2, PagesAreVirtual
  <2>3. job.dir \in Searched'
    BY <1>3, <2>2 DEF Searched
  <2>4. ASSUME NEW i \in Tables PROVE mem[job.dir][i].frame \in Searched'
    BY <1>3, <2>1, <2>2 DEF Searched
  <2> QED
    BY <1>4, <2>3, <2>4
<1>6. \A i, j \in slots : f[i] = f[j] => i = j
  <2>1. \A i \in Tables : mem[job.dir][i].frame # job.dir
    <3>1. \A i \in Tables : mem[job.dir][i].frame \in Nat /\ job.dir < mem[job.dir][i].frame
      BY PagesAreVirtual DEF Ordered
    <3> QED
      BY <3>1, <1>2, PagesAreVirtual
  <2>2. \A i, j \in Tables : mem[job.dir][i].frame = mem[job.dir][j].frame => i = j
    BY DEF Ordered
  <2> QED
    BY <2>1, <2>2, <1>4
<1>7. IsFiniteSet(Searched')
  <2>1. IsFiniteSet(Pages)
    BY Sizes, FS_Interval DEF Pages
  <2>2. Searched' \subseteq Pages
    BY DEF Searched, Free
  <2> QED
    BY <2>1, <2>2, FS_Subset
<1>8. f \in [slots -> T] /\ T \subseteq Searched' /\ \A t \in T : \E i \in slots : f[i] = t
  BY <1>5
<1>9. IsFiniteSet(T) /\ Cardinality(T) <= Cardinality(Searched')
  BY <1>7, <1>8, FS_Subset
<1>10. Cardinality(slots) = Cardinality(T)
  <2> HIDE DEF slots, f, T
  <2> QED
    BY <1>6, <1>8, <1>9, OneToOne
<1>11. Cardinality(slots) = NumTables + 1
  BY Sizes, FS_Interval
<1>12. Cardinality(T) \in Nat /\ Cardinality(Searched') \in Nat
  BY <1>7, <1>9, FS_CardinalityType
<1> HIDE DEF slots, f, T
<1> QED
  BY <1>9, <1>10, <1>11, <1>12, Sizes

(* A directory can be built again from what freeing one gave back. *)
THEOREM PagingFreedSpaceIsReusable == Spec => FreedSpaceIsReusable
<1>1. Spec => [](IInv /\ Ordered)
  <2>1. Init => IInv /\ Ordered
    BY InitInv, OrderedInit
  <2>2. IInv /\ Ordered /\ [Next]_vars => IInv' /\ Ordered'
    BY NextInv, OrderedNext
  <2> QED
    BY <2>1, <2>2, PTL DEF Spec
<1>2. IInv /\ Ordered /\ [Next]_vars =>
          [job.doing = "free" /\ job' = Idle => Cardinality(Searched') > NumTables]_vars
  BY LastFreed
<1> QED
  BY <1>1, <1>2, PTL DEF Spec, FreedSpaceIsReusable

-----------------------------------------------------------------------------
(* The memory map *)

(* What the first pass has found. *)
Top ==
    /\ max_addr \in Nat /\ num_pages = max_addr \div PAGE_SIZE
    /\ \A j \in DOMAIN firmware :
          firmware[j].kind = "available" => EndOf(firmware[j]) % Word <= max_addr

(* What the second has done: the i-th entry gave the bitmap its first bytes. *)
Carved(i) ==
    /\ i \in DOMAIN firmware /\ firmware[i].kind = "available" /\ firmware[i].len >= BitmapSize
    /\ bitmap = firmware[i].addr % Word
    /\ DOMAIN entries = DOMAIN firmware
    /\ \A j \in DOMAIN firmware :
          /\ entries[j].kind = firmware[j].kind
          /\ entries[j].addr = IF j = i THEN firmware[j].addr + BitmapSize ELSE firmware[j].addr
          /\ entries[j].len = IF j = i THEN firmware[j].len - BitmapSize ELSE firmware[j].len

MapScanned ==
    /\ firmware \in FirmwareMaps
    /\ pass \in {"scan", "place", "clear", "done", "nomem", "panic"}
    /\ pass \in {"scan", "place"} => entries = firmware
    /\ pass \in {"place", "clear", "done"} => Top
    /\ pass \in {"clear", "done"} => \E i \in DOMAIN firmware : Carved(i)
    /\ cleared = IF pass = "done" THEN UNION {PagesOf(e) : e \in Available(entries)} ELSE {}

(* Pages and words have a size. *)
LEMMA MapSizes == PAGE_SIZE \in Nat \ {0} /\ Word \in Nat \ {0}
  BY MapAssumption

(* What is known of an entry, in the words the provers need. *)
LEMMA EntriesAre ==
    ASSUME NEW map \in FirmwareMaps, NEW j \in DOMAIN map
    PROVE  /\ DOMAIN map[j] = {"addr", "len", "kind"}
           /\ map[j].addr \in Nat /\ map[j].len \in Nat /\ EndOf(map[j]) \in Nat
           /\ DOMAIN map = 1..Len(map) /\ map = [k \in DOMAIN map |-> map[k]]
<1> DEFINE Entry == [addr : Nat, len : Nat, kind : STRING]
<1>1. map \in Seq(Entry)
  BY MapAssumption
<1>2. map[j] \in Entry /\ DOMAIN map = 1..Len(map) /\ map = [k \in DOMAIN map |-> map[k]]
  <2> HIDE DEF Entry
  <2> QED
    BY <1>1
<1> QED
  BY <1>2 DEF EndOf

(* RoundUp is the least number of units that holds n. *)
LEMMA RoundUpIs ==
    ASSUME NEW n \in Nat, NEW unit \in Nat \ {0}
    PROVE  /\ RoundUp(n, unit) \in Nat
           /\ n <= RoundUp(n, unit) * unit /\ RoundUp(n, unit) * unit < n + unit
<1> DEFINE m == n + unit - 1
<1>1. m \in Nat
  OBVIOUS
<1>2. m \div unit \in Nat /\ m % unit \in 0..unit - 1 /\ m = (m \div unit) * unit + (m % unit)
  <2> HIDE DEF m
  <2> QED
    BY <1>1, DivMod
<1>3. PICK q \in Nat, r \in 0..unit - 1 : q = m \div unit /\ m = q * unit + r
  BY <1>2
<1>4. PICK qu \in Int : qu = q * unit
  OBVIOUS
<1>5. n <= qu /\ qu < n + unit
  BY <1>3, <1>4
<1>6. RoundUp(n, unit) = q
  BY <1>3 DEF RoundUp
<1> QED
  BY <1>4, <1>5, <1>6

(* The first pass finds the top of memory. *)
LEMMA TopIsMax ==
    ASSUME NEW S, S \subseteq Nat, S # {}, NEW bound \in Nat, \A x \in S : x <= bound
    PROVE  Max(S) \in S /\ \A x \in S : x <= Max(S)
<1>1. \E x \in S : \A y \in S : x >= y
  BY GreatestExists
<1>2. Max(S) \in S /\ \A y \in S : Max(S) >= y
  BY <1>1, Zenon DEF Max
<1>3. Max(S) \in Nat
  BY <1>2
<1> QED
  BY <1>2, <1>3

(* page_alloc_init, pass by pass: the entries are the firmware's, with the bitmap
   cut out of one that is large enough, and the pages of what is then available are
   cleared by the last pass only. The other theorems of this module follow. *)
THEOREM MemoryMapInvariant == MapSpec => []MapScanned
<1> USE MapSizes
<1>1. MapInit => MapScanned
  BY DEF MapInit, MapScanned
<1>2. MapScanned /\ [MapNext]_mapVars => MapScanned'
  <2> SUFFICES ASSUME MapScanned, [MapNext]_mapVars PROVE MapScanned'
    OBVIOUS
  <2>1. CASE ScanMap
    <3>1. /\ pass = "scan" /\ entries = firmware /\ firmware \in FirmwareMaps /\ cleared = {}
          /\ UNCHANGED <<firmware, entries, cleared>> /\ pass' = "place"
          /\ num_pages' = max_addr' \div PAGE_SIZE
      BY <2>1 DEF ScanMap, MapScanned
    <3> DEFINE S == {EndOf(e) % Word : e \in Available(firmware)} \cup {0}
    <3>2. max_addr' = Max(S)
      BY <2>1, <3>1 DEF ScanMap
    <3>3. \A j \in DOMAIN firmware : EndOf(firmware[j]) \in Nat
      BY <3>1, EntriesAre
    <3>4. \A e \in Available(firmware) : EndOf(e) \in Nat
      BY <3>3 DEF Available, Range
    <3>5. \A e \in Available(firmware) : EndOf(e) % Word \in Nat /\ EndOf(e) % Word <= Word
      BY <3>4
    <3>6. S \subseteq Nat /\ S # {} /\ \A x \in S : x <= Word
      BY <3>5
    <3>7. Max(S) \in S /\ \A x \in S : x <= Max(S)
      <4> HIDE DEF S
      <4> QED
        BY <3>6, TopIsMax
    <3>8. max_addr' \in Nat
      BY <3>2, <3>6, <3>7
    <3>9. \A j \in DOMAIN firmware :
             firmware[j].kind = "available" => EndOf(firmware[j]) % Word \in S
      BY DEF Available, Range
    <3>10. Top'
      <4> HIDE DEF S
      <4> QED
        BY <3>1, <3>2, <3>7, <3>8, <3>9 DEF Top
    <3> QED
      BY <3>1, <3>10 DEF MapScanned
  <2>2. CASE UnknownKind
    BY <2>2 DEF UnknownKind, MapScanned
  <2>3. CASE PlaceBitmap
    <3>1. PICK i \in DOMAIN entries :
             /\ Holds(i) /\ bitmap' = entries[i].addr % Word
             /\ entries' = [entries EXCEPT ![i].addr = @ + BitmapSize, ![i].len = @ - BitmapSize]
      BY <2>3 DEF PlaceBitmap
    <3>2. /\ pass = "place" /\ entries = firmware /\ firmware \in FirmwareMaps /\ cleared = {} /\ Top
          /\ UNCHANGED <<firmware, max_addr, num_pages, cleared>> /\ pass' \in {"clear", "nomem"}
      BY <2>3 DEF PlaceBitmap, MapScanned
    <3>3. \A j \in DOMAIN firmware : DOMAIN firmware[j] = {"addr", "len", "kind"}
      BY <3>2, EntriesAre
    <3>4. DOMAIN entries' = DOMAIN firmware
      BY <3>1, <3>2
    <3>5. \A j \in DOMAIN firmware :
             /\ entries'[j].kind = firmware[j].kind
             /\ entries'[j].addr = IF j = i THEN firmware[j].addr + BitmapSize ELSE firmware[j].addr
             /\ entries'[j].len = IF j = i THEN firmware[j].len - BitmapSize ELSE firmware[j].len
      BY <3>1, <3>2, <3>3
    <3>6. BitmapSize' = BitmapSize
      BY <3>2 DEF BitmapSize
    <3>7. Carved(i)'
      BY <3>1, <3>2, <3>4, <3>5, <3>6 DEF Carved, Holds
    <3>8. Top'
      BY <3>2 DEF Top
    <3> QED
      BY <3>1, <3>2, <3>7, <3>8 DEF MapScanned
  <2>4. CASE NoRoomForBitmap
    BY <2>4 DEF NoRoomForBitmap, MapScanned
  <2>5. CASE ClearPages
    <3>1. /\ pass = "clear" /\ pass' = "done"
          /\ cleared' = UNION {PagesOf(e) : e \in Available(entries)}
          /\ UNCHANGED <<firmware, entries, max_addr, num_pages, bitmap>>
      BY <2>5 DEF ClearPages
    <3>2. Top' /\ \E i \in DOMAIN firmware' : Carved(i)'
      BY <3>1 DEF MapScanned, Top, Carved, BitmapSize
    <3> QED
      BY <3>1, <3>2 DEF MapScanned
  <2>6. CASE Finished \/ UNCHANGED mapVars
    <3>1. UNCHANGED <<firmware, entries, max_addr, num_pages, bitmap, cleared, pass>>
      BY <2>6 DEF Finished, mapVars
    <3>2. Top => Top'
      BY <3>1 DEF Top
    <3>3. \A i : Carved(i) => Carved(i)'
      BY <3>1 DEF Carved, BitmapSize
    <3> QED
      BY <3>1, <3>2, <3>3 DEF MapScanned
  <2> QED
    BY <2>1, <2>2, <2>3, <2>4, <2>5, <2>6 DEF MapNext
<1> QED
  BY <1>1, <1>2, PTL DEF MapSpec

-----------------------------------------------------------------------------
(* The pages of an entry begin inside it. *)
LEMMA PageBeginsInside ==
    ASSUME NEW e, e.addr \in Nat, e.len \in Nat, NEW p \in PagesOf(e)
    PROVE  p \in Nat /\ e.addr <= p * PAGE_SIZE /\ p * PAGE_SIZE < EndOf(e)
<1> USE MapSizes
<1>1. PICK first \in Nat, count \in Nat, r \in 0..PAGE_SIZE - 1 :
         /\ first = RoundUp(e.addr, PAGE_SIZE) /\ count = e.len \div PAGE_SIZE
         /\ e.addr <= first * PAGE_SIZE /\ first * PAGE_SIZE < e.addr + PAGE_SIZE
         /\ e.len = count * PAGE_SIZE + r
  <2>1. /\ RoundUp(e.addr, PAGE_SIZE) \in Nat /\ e.addr <= RoundUp(e.addr, PAGE_SIZE) * PAGE_SIZE
        /\ RoundUp(e.addr, PAGE_SIZE) * PAGE_SIZE < e.addr + PAGE_SIZE
    BY RoundUpIs
  <2>2. /\ e.len \div PAGE_SIZE \in Nat /\ e.len % PAGE_SIZE \in 0..PAGE_SIZE - 1
        /\ e.len = (e.len \div PAGE_SIZE) * PAGE_SIZE + (e.len % PAGE_SIZE)
    BY DivMod
  <2> QED
    BY <2>1, <2>2
<1>2. PICK j \in 0..(count - 1) : p = first + j
  BY <1>1 DEF PagesOf
<1>3. /\ p * PAGE_SIZE = first * PAGE_SIZE + j * PAGE_SIZE
      /\ (j + 1) * PAGE_SIZE = j * PAGE_SIZE + PAGE_SIZE
      /\ (j + 1) * PAGE_SIZE <= count * PAGE_SIZE
  BY <1>2, ProductsAgree
<1>4. /\ first * PAGE_SIZE \in Nat /\ j * PAGE_SIZE \in Nat /\ count * PAGE_SIZE \in Nat
      /\ (j + 1) * PAGE_SIZE \in Nat
  OBVIOUS
<1>5. PICK f \in Nat, g \in Nat, h \in Nat :
         f = first * PAGE_SIZE /\ g = j * PAGE_SIZE /\ h = count * PAGE_SIZE
  BY <1>4
<1>6. p * PAGE_SIZE = f + g /\ g + PAGE_SIZE <= h /\ e.addr <= f /\ f < e.addr + PAGE_SIZE /\ e.len = h + r
  BY <1>1, <1>3, <1>5
<1>7. e.addr <= f + g /\ f + g < e.addr + e.len
  BY <1>6
<1> QED
  BY <1>2, <1>6, <1>7 DEF EndOf

(* When an entry ends with a page, every page from its first byte on is one of its. *)
LEMMA PageInsideIsOne ==
    ASSUME NEW e, e.addr \in Nat, e.len \in Nat, NEW b \in Nat, EndOf(e) = b * PAGE_SIZE,
           NEW p \in Nat, e.addr <= p * PAGE_SIZE, p < b
    PROVE  p \in PagesOf(e)
<1> USE MapSizes
<1>1. PICK first \in Nat : /\ first = RoundUp(e.addr, PAGE_SIZE)
                           /\ e.addr <= first * PAGE_SIZE /\ first * PAGE_SIZE < e.addr + PAGE_SIZE
  BY RoundUpIs
<1>2. first <= p
  <2>1. (p + 1) * PAGE_SIZE = p * PAGE_SIZE + PAGE_SIZE
    BY ProductsAgree
  <2>2. PICK f \in Nat, g \in Nat, h \in Nat :
           f = first * PAGE_SIZE /\ g = p * PAGE_SIZE /\ h = (p + 1) * PAGE_SIZE
    OBVIOUS
  <2>3. f < h
    BY <1>1, <2>1, <2>2
  <2>4. first < p + 1
    BY <2>2, <2>3, ProductsAgree
  <2> QED
    BY <2>4
<1>3. e.len \div PAGE_SIZE = b - first
  <2>1. PICK f \in Nat, g \in Nat : f = first * PAGE_SIZE /\ g = b * PAGE_SIZE
    OBVIOUS
  <2>2. (b - first) * PAGE_SIZE = g - f
    BY <2>1, ProductsAgree
  <2>3. PICK a \in Nat, l \in Nat : a = e.addr /\ l = e.len
    OBVIOUS
  <2>4. a + l = g
    BY <2>1, <2>3 DEF EndOf
  <2>5. a <= f /\ f < a + PAGE_SIZE
    BY <1>1, <2>1, <2>3
  <2>6. PICK q \in Nat, r \in Nat : q = b - first /\ r = f - a
    <3>1. b - first \in Nat
      BY <1>2
    <3>2. f - a \in Nat
      BY <2>5
    <3> QED
      BY <3>1, <3>2
  <2>7. l = q * PAGE_SIZE + r /\ r < PAGE_SIZE
    BY <2>2, <2>4, <2>5, <2>6
  <2>8. l \div PAGE_SIZE = q
    BY <2>7, DivIs
  <2> QED
    BY <2>3, <2>6, <2>8
<1>4. p - first \in 0..((e.len \div PAGE_SIZE) - 1) /\ p = first + (p - first)
  BY <1>2, <1>3
<1> QED
  BY <1>1, <1>4 DEF PagesOf

(* Where the bitmap is and what the entries have become, in numbers that did not wrap. *)
Placed(i) ==
    /\ Carved(i) /\ BitmapSize \in Nat /\ num_pages \in Nat /\ num_pages <= 8 * BitmapSize
    /\ bitmap = firmware[i].addr /\ bitmap \in Nat
    /\ bitmap + BitmapSize <= EndOf(firmware[i])
    /\ DOMAIN entries = DOMAIN firmware
    /\ \A j \in DOMAIN firmware :
          /\ firmware[j].addr \in Nat /\ firmware[j].len \in Nat
          /\ entries[j].addr \in Nat /\ entries[j].len \in Nat
          /\ firmware[j].addr <= entries[j].addr /\ EndOf(entries[j]) = EndOf(firmware[j])
          /\ EndOf(entries[j]) <= bitmap \/ bitmap + BitmapSize <= entries[j].addr

(* Once an entry was found for the bitmap, it lies in what that entry was, clear of every entry as it is now. *)
LEMMA BitmapIsPlaced ==
    ASSUME MapScanned, pass \in {"clear", "done"}, Addressable
    PROVE  \E i \in DOMAIN firmware : Placed(i)
<1> USE MapSizes
<1>1. PICK i \in DOMAIN firmware : Carved(i)
  BY DEF MapScanned
<1>2. Top /\ firmware \in FirmwareMaps
  BY DEF MapScanned
<1>3. num_pages \in Nat
  BY <1>2, DivMod DEF Top
<1>4. BitmapSize \in Nat /\ num_pages <= 8 * BitmapSize
  <2>1. RoundUp(num_pages, 8) \in Nat /\ num_pages <= RoundUp(num_pages, 8) * 8
    BY <1>3, RoundUpIs
  <2> QED
    BY <2>1 DEF BitmapSize
<1>5. \A j \in DOMAIN firmware : firmware[j].addr \in Nat /\ firmware[j].len \in Nat
  BY <1>2, EntriesAre
<1>6. firmware[i] \in Available(firmware)
  BY <1>1 DEF Carved, Available, Range
<1>7. bitmap = firmware[i].addr
  <2>1. firmware[i].addr < Word
    BY <1>5, <1>6 DEF Addressable, EndOf
  <2>2. firmware[i].addr % Word = firmware[i].addr
    BY <1>5, <2>1, ModSmall
  <2> QED
    BY <1>1, <2>2 DEF Carved
<1>8. bitmap + BitmapSize <= EndOf(firmware[i])
  <2>1. PICK a \in Nat, l \in Nat, size \in Nat :
           a = firmware[i].addr /\ l = firmware[i].len /\ size = BitmapSize
    BY <1>4, <1>5
  <2>2. l >= size
    BY <1>1, <2>1 DEF Carved
  <2>3. a + size <= a + l
    BY <2>2
  <2> QED
    BY <1>7, <2>1, <2>3 DEF EndOf
<1>9. ASSUME NEW j \in DOMAIN firmware
      PROVE  /\ entries[j].addr \in Nat /\ entries[j].len \in Nat
             /\ firmware[j].addr <= entries[j].addr /\ EndOf(entries[j]) = EndOf(firmware[j])
             /\ EndOf(entries[j]) <= bitmap \/ bitmap + BitmapSize <= entries[j].addr
  <2>1. CASE j = i
    <3>1. PICK a \in Nat, l \in Nat, size \in Nat :
             a = firmware[i].addr /\ l = firmware[i].len /\ size = BitmapSize
      BY <1>4, <1>5
    <3>2. l >= size
      BY <1>1, <3>1 DEF Carved
    <3>3. entries[j].addr = a + size /\ entries[j].len = l - size
      BY <1>1, <2>1, <3>1 DEF Carved
    <3>4. a + size \in Nat /\ l - size \in Nat /\ a <= a + size /\ (a + size) + (l - size) = a + l
      BY <3>2
    <3> QED
      BY <1>7, <2>1, <3>1, <3>3, <3>4 DEF EndOf
  <2>2. CASE j # i
    <3>1. entries[j].addr = firmware[j].addr /\ entries[j].len = firmware[j].len
      BY <1>1, <2>2 DEF Carved
    <3>2. EndOf(firmware[j]) <= firmware[i].addr \/ EndOf(firmware[i]) <= firmware[j].addr
      BY <1>2, <2>2, MapAssumption DEF EndOf
    <3>3. EndOf(firmware[i]) \in Nat
      BY <1>5 DEF EndOf
    <3> QED
      BY <1>4, <1>5, <1>7, <1>8, <3>1, <3>2, <3>3 DEF EndOf
  <2> QED
    BY <2>1, <2>2
<1>10. DOMAIN entries = DOMAIN firmware /\ bitmap \in Nat
  BY <1>1, <1>5, <1>7 DEF Carved
<1> QED
  BY <1>1, <1>3, <1>4, <1>5, <1>7, <1>8, <1>9, <1>10 DEF Placed

(* A page that is cleared begins in what the bitmap has left of an available entry. *)
LEMMA ClearedIsInside ==
    ASSUME MapScanned, NEW i \in DOMAIN firmware, Placed(i), NEW p \in cleared
    PROVE  \E j \in DOMAIN firmware :
              /\ firmware[j].kind = "available" /\ p \in Nat /\ entries[j].addr <= p * PAGE_SIZE
              /\ p * PAGE_SIZE < EndOf(firmware[j])
<1>1. cleared = UNION {PagesOf(e) : e \in Available(entries)}
  BY DEF MapScanned
<1>2. PICK j \in DOMAIN entries : entries[j].kind = "available" /\ p \in PagesOf(entries[j])
  BY <1>1 DEF Available, Range
<1>3. /\ j \in DOMAIN firmware /\ firmware[j].kind = "available"
      /\ entries[j].addr \in Nat /\ entries[j].len \in Nat /\ EndOf(entries[j]) = EndOf(firmware[j])
  BY <1>2 DEF Placed, Carved
<1>4. p \in Nat /\ entries[j].addr <= p * PAGE_SIZE /\ p * PAGE_SIZE < EndOf(entries[j])
  BY <1>2, <1>3, PageBeginsInside
<1> QED
  BY <1>3, <1>4

(* What lies in the rest of an available entry is spare. *)
LEMMA SpareInside ==
    ASSUME NEW i \in DOMAIN firmware, Placed(i), NEW j \in DOMAIN firmware,
           firmware[j].kind = "available", NEW q \in Int, NEW x \in Nat,
           entries[j].addr <= q, q <= x, x < EndOf(firmware[j])
    PROVE  Spare(x)
<1>1. firmware[j] \in Available(firmware)
  BY DEF Available, Range
<1>2. PICK low \in Nat, rest \in Nat, ending \in Nat, at \in Nat, size \in Nat :
         /\ low = firmware[j].addr /\ rest = entries[j].addr /\ ending = EndOf(firmware[j])
         /\ at = bitmap /\ size = BitmapSize /\ low <= rest
         /\ ending <= at \/ at + size <= rest
  BY DEF Placed, EndOf
<1>3. low <= x /\ x < ending /\ ~(at <= x /\ x < at + size)
  BY <1>2
<1> QED
  BY <1>1, <1>2, <1>3 DEF Spare

(* What lies in an available entry and not in the bitmap lies in its rest. *)
LEMMA BeyondTheBitmap ==
    ASSUME NEW i \in DOMAIN firmware, Placed(i), NEW j \in DOMAIN firmware,
           NEW x \in Nat, firmware[j].addr <= x, ~(bitmap <= x /\ x < bitmap + BitmapSize)
    PROVE  entries[j].addr <= x
<1>1. CASE j = i
  <2>1. PICK a \in Nat, size \in Nat :
           /\ a = firmware[j].addr /\ size = BitmapSize /\ bitmap = a
           /\ entries[j].addr = a + size
    BY <1>1 DEF Placed, Carved
  <2>2. a <= x /\ ~(a <= x /\ x < a + size)
    BY <2>1
  <2>3. a + size <= x
    BY <2>2
  <2> QED
    BY <2>1, <2>3
<1>2. CASE j # i
  BY <1>2 DEF Placed, Carved
<1> QED
  BY <1>1, <1>2

(* An entry of page-aligned bounds ends with a page, below the top of memory. *)
LEMMA AlignedEnds ==
    ASSUME MapScanned, pass \in {"clear", "done"}, Addressable, PageAligned,
           NEW j \in DOMAIN firmware, firmware[j].kind = "available"
    PROVE  \E b \in Nat : EndOf(firmware[j]) = b * PAGE_SIZE /\ b <= num_pages
<1> USE MapSizes
<1>1. firmware[j].addr \in Nat /\ firmware[j].len \in Nat /\ EndOf(firmware[j]) \in Nat
  BY EntriesAre DEF MapScanned
<1>2. firmware[j].addr % PAGE_SIZE = 0 /\ firmware[j].len % PAGE_SIZE = 0
  BY DEF PageAligned, Range
<1>3. PICK a \in Nat, l \in Nat : firmware[j].addr = a * PAGE_SIZE /\ firmware[j].len = l * PAGE_SIZE
  <2>1. /\ firmware[j].addr \div PAGE_SIZE \in Nat /\ firmware[j].len \div PAGE_SIZE \in Nat
        /\ firmware[j].addr = (firmware[j].addr \div PAGE_SIZE) * PAGE_SIZE + (firmware[j].addr % PAGE_SIZE)
        /\ firmware[j].len = (firmware[j].len \div PAGE_SIZE) * PAGE_SIZE + (firmware[j].len % PAGE_SIZE)
    BY <1>1, DivMod
  <2>2. /\ firmware[j].addr = (firmware[j].addr \div PAGE_SIZE) * PAGE_SIZE
        /\ firmware[j].len = (firmware[j].len \div PAGE_SIZE) * PAGE_SIZE
    BY <1>2, <2>1
  <2> QED
    BY <2>1, <2>2
<1>4. EndOf(firmware[j]) = (a + l) * PAGE_SIZE
  <2>1. (a + l) * PAGE_SIZE = a * PAGE_SIZE + l * PAGE_SIZE
    BY ProductsAgree
  <2> QED
    BY <1>3, <2>1 DEF EndOf
<1>5. EndOf(firmware[j]) <= max_addr
  <2>1. firmware[j] \in Available(firmware)
    BY DEF Available, Range
  <2>2. EndOf(firmware[j]) < Word
    BY <2>1 DEF Addressable
  <2>3. EndOf(firmware[j]) % Word = EndOf(firmware[j])
    BY <1>1, <2>2, ModSmall
  <2> QED
    BY <2>3 DEF MapScanned, Top
<1>6. a + l <= num_pages
  <2>1. max_addr \in Nat /\ num_pages = max_addr \div PAGE_SIZE
    BY DEF MapScanned, Top
  <2>2. PICK n \in Nat, r \in 0..PAGE_SIZE - 1 : n = num_pages /\ max_addr = n * PAGE_SIZE + r
    BY <2>1, DivMod
  <2>3. PICK f \in Nat, g \in Nat : f = (a + l) * PAGE_SIZE /\ g = n * PAGE_SIZE
    OBVIOUS
  <2>4. (n + 1) * PAGE_SIZE = g + PAGE_SIZE
    BY <2>3, ProductsAgree
  <2>5. f < g + PAGE_SIZE
    <3>1. f <= max_addr /\ max_addr = g + r
      BY <1>4, <1>5, <2>2, <2>3
    <3> QED
      BY <2>1, <2>2, <2>3, <3>1
  <2>6. (a + l) * PAGE_SIZE < (n + 1) * PAGE_SIZE
    BY <2>3, <2>4, <2>5
  <2>7. a + l < n + 1
    BY <2>6, ProductsAgree
  <2> QED
    BY <2>2, <2>7
<1>7. a + l \in Nat
  OBVIOUS
<1> QED
  BY <1>4, <1>6, <1>7

-----------------------------------------------------------------------------
(* The bitmap lies in RAM and inside one entry, no entry is left with a byte of
   it, and on page-aligned maps every bit page_alloc_init clears is one of its bits. *)
THEOREM MemoryMapBitmapCarvedOut == MapSpec => []BitmapCarvedOut
<1> USE MapSizes
<1>1. MapScanned => BitmapCarvedOut
  <2> SUFFICES ASSUME MapScanned, pass \in {"clear", "done"}, Addressable
               PROVE  /\ \E e \in Available(firmware) : e.addr <= bitmap /\ bitmap + BitmapSize <= EndOf(e)
                      /\ \A e \in Available(entries) : EndOf(e) <= bitmap \/ bitmap + BitmapSize <= e.addr
                      /\ PageAligned => \A p \in cleared : p < 8 * BitmapSize
    BY DEF BitmapCarvedOut
  <2>1. PICK i \in DOMAIN firmware : Placed(i)
    BY BitmapIsPlaced
  <2>2. firmware[i] \in Available(firmware)
    BY <2>1 DEF Placed, Carved, Available, Range
  <2>3. firmware[i].addr <= bitmap /\ bitmap + BitmapSize <= EndOf(firmware[i])
    BY <2>1 DEF Placed
  <2>4. \A e \in Available(entries) : EndOf(e) <= bitmap \/ bitmap + BitmapSize <= e.addr
    BY <2>1 DEF Placed, Available, Range
  <2>5. ASSUME PageAligned, NEW p \in cleared PROVE p < 8 * BitmapSize
    <3>1. PICK j \in DOMAIN firmware :
             /\ firmware[j].kind = "available" /\ p \in Nat /\ p * PAGE_SIZE < EndOf(firmware[j])
      BY <2>1, ClearedIsInside
    <3>2. PICK b \in Nat : EndOf(firmware[j]) = b * PAGE_SIZE /\ b <= num_pages
      BY <2>5, <3>1, AlignedEnds
    <3>3. p < b
      <4>1. p \in Nat /\ p * PAGE_SIZE < b * PAGE_SIZE
        BY <3>1, <3>2
      <4> QED
        BY <4>1, ProductsAgree
    <3>4. num_pages \in Nat /\ BitmapSize \in Nat /\ num_pages <= 8 * BitmapSize
      BY <2>1 DEF Placed
    <3> QED
      BY <3>1, <3>2, <3>3, <3>4
  <2> QED
    BY <2>2, <2>3, <2>4, <2>5
<1> QED
  BY <1>1, MemoryMapInvariant, PTL

(* Every page page_alloc_init marks free begins in spare RAM, and on page-aligned
   maps the free pages are exactly the pages of spare RAM. *)
THEOREM MemoryMapFreePagesAreSpare == MapSpec => []FreePagesAreSpare
<1> USE MapSizes
<1>1. MapScanned => FreePagesAreSpare
  <2> SUFFICES ASSUME MapScanned, pass = "done", Addressable
               PROVE  /\ \A p \in cleared : Spare(p * PAGE_SIZE)
                      /\ PageAligned =>
                            cleared = {p \in 0..(num_pages - 1) : \A x \in BytesOf(p) : Spare(x)}
    BY DEF FreePagesAreSpare
  <2>1. PICK i \in DOMAIN firmware : Placed(i)
    BY BitmapIsPlaced
  <2>2. num_pages \in Nat
    BY <2>1 DEF Placed
  <2>3. ASSUME NEW p \in cleared PROVE Spare(p * PAGE_SIZE)
    <3>1. PICK j \in DOMAIN firmware :
             /\ firmware[j].kind = "available" /\ p \in Nat /\ entries[j].addr <= p * PAGE_SIZE
             /\ p * PAGE_SIZE < EndOf(firmware[j])
      BY <2>1, ClearedIsInside
    <3>2. p * PAGE_SIZE \in Nat /\ p * PAGE_SIZE <= p * PAGE_SIZE
      BY <3>1
    <3>3. PICK x \in Nat : x = p * PAGE_SIZE
      BY <3>2
    <3>4. entries[j].addr <= x /\ x < EndOf(firmware[j]) /\ x <= x
      BY <3>1, <3>3
    <3>5. Spare(x)
      BY <2>1, <3>1, <3>4, SpareInside
    <3> QED
      BY <3>3, <3>5
  <2>4. ASSUME PageAligned, NEW p \in cleared
        PROVE  p \in 0..(num_pages - 1) /\ \A x \in BytesOf(p) : Spare(x)
    <3>1. PICK j \in DOMAIN firmware :
             /\ firmware[j].kind = "available" /\ p \in Nat /\ entries[j].addr <= p * PAGE_SIZE
             /\ p * PAGE_SIZE < EndOf(firmware[j])
      BY <2>1, ClearedIsInside
    <3>2. PICK b \in Nat : EndOf(firmware[j]) = b * PAGE_SIZE /\ b <= num_pages
      BY <2>4, <3>1, AlignedEnds
    <3>3. p < b
      <4>1. p \in Nat /\ p * PAGE_SIZE < b * PAGE_SIZE
        BY <3>1, <3>2
      <4> QED
        BY <4>1, ProductsAgree
    <3>4. PICK f \in Nat, g \in Nat : f = p * PAGE_SIZE /\ g = b * PAGE_SIZE
      <4>1. p \in Nat
        BY <3>1
      <4>2. p * PAGE_SIZE \in Nat /\ b * PAGE_SIZE \in Nat
        BY <4>1
      <4> QED
        BY <4>2
    <3>5. f + PAGE_SIZE <= g
      <4>1. (p + 1) * PAGE_SIZE <= b * PAGE_SIZE
        BY <3>1, <3>3, ProductsAgree
      <4>2. (p + 1) * PAGE_SIZE = p * PAGE_SIZE + PAGE_SIZE
        BY <3>1, ProductsAgree
      <4> QED
        BY <3>4, <4>1, <4>2
    <3>6. ASSUME NEW x \in BytesOf(p) PROVE Spare(x)
      <4>1. x \in Nat /\ f <= x /\ x < f + PAGE_SIZE
        BY <3>4 DEF BytesOf
      <4>2. x < EndOf(firmware[j])
        BY <3>2, <3>4, <3>5, <4>1
      <4>3. entries[j].addr <= f /\ f \in Int
        BY <3>1, <3>4
      <4> QED
        BY <2>1, <3>1, <4>1, <4>2, <4>3, SpareInside
    <3> QED
      BY <2>2, <3>1, <3>2, <3>3, <3>6
  <2>5. ASSUME PageAligned, NEW p \in 0..(num_pages - 1), \A x \in BytesOf(p) : Spare(x)
        PROVE  p \in cleared
    <3>1. Spare(p * PAGE_SIZE) /\ p \in Nat /\ p * PAGE_SIZE \in Nat
      <4>1. p \in Nat /\ p * PAGE_SIZE \in Nat
        BY <2>2
      <4>2. p * PAGE_SIZE \in BytesOf(p)
        BY <4>1 DEF BytesOf
      <4> QED
        BY <2>5, <4>1, <4>2
    <3>2. PICK j \in DOMAIN firmware :
             /\ firmware[j].kind = "available"
             /\ firmware[j].addr <= p * PAGE_SIZE /\ p * PAGE_SIZE < EndOf(firmware[j])
      BY <3>1 DEF Spare, Available, Range
    <3>3. ~(bitmap <= p * PAGE_SIZE /\ p * PAGE_SIZE < bitmap + BitmapSize)
      BY <3>1 DEF Spare
    <3>4. entries[j].addr <= p * PAGE_SIZE
      BY <2>1, <3>1, <3>2, <3>3, BeyondTheBitmap
    <3>5. PICK b \in Nat : EndOf(firmware[j]) = b * PAGE_SIZE /\ b <= num_pages
      BY <2>5, <3>2, AlignedEnds
    <3>6. p < b
      BY <3>1, <3>2, <3>5, ProductsAgree
    <3>7. entries[j].addr \in Nat /\ entries[j].len \in Nat /\ EndOf(entries[j]) = b * PAGE_SIZE
      BY <2>1, <3>5 DEF Placed
    <3>8. p \in PagesOf(entries[j])
      BY <3>1, <3>4, <3>6, <3>7, PageInsideIsOne
    <3>9. entries[j] \in Available(entries)
      BY <2>1, <3>2 DEF Placed, Carved, Available, Range
    <3>10. cleared = UNION {PagesOf(e) : e \in Available(entries)}
      BY DEF MapScanned
    <3> QED
      BY <3>8, <3>9, <3>10
  <2> QED
    BY <2>3, <2>4, <2>5
<1> QED
  BY <1>1, MemoryMapInvariant, PTL
=============================================================================
