--------------------------- MODULE PageAllocator ---------------------------
(***************************************************************************)
(* The physical page allocator of kernel/src/mem/page_allocator.c: one bit *)
(* per page and a cursor, last_index, below which page_alloc never looks.  *)
(*                                                                         *)
(* The bitmap is the set of marked pages.  A page is marked because the    *)
(* memory map does not offer it or page_reserve pinned it (pinned), or     *)
(* because page_alloc handed it out (held); pinned and held are what the   *)
(* rest of the kernel believes and are not stored by the code.             *)
(***************************************************************************)
EXTENDS Integers, FiniteSets

CONSTANTS
    NumPages,     \* page_allocator.num_pages
    MemoryMaps    \* the sets of pages page_alloc_init may leave marked

ASSUME PagesAssumption ==
    /\ NumPages \in Nat
    /\ MemoryMaps \subseteq SUBSET (0..(NumPages - 1))

VARIABLES
    marked,       \* pages whose bit is set
    last_index,   \* where the next search starts
    held,         \* pages handed out by page_alloc and not given back
    pinned,       \* pages nobody may be handed
    booting,      \* TRUE until the first page_alloc: the time of page_reserve
    panicked      \* "out of free pages"

allocVars == <<marked, last_index, held, pinned, booting, panicked>>

Pages == 0..(NumPages - 1)

Free == Pages \ marked

(* The pages page_alloc's loop may stop at. *)
Searched == {i \in Free : last_index <= i}

(* The bitmap as page_alloc_init leaves it (MemoryMap says how). *)
AllocInit ==
    /\ marked \in MemoryMaps
    /\ last_index = 0
    /\ held = {}
    /\ pinned = marked
    /\ booting = TRUE
    /\ panicked = FALSE

(* kernel_main pins the pages of the kernel, the initrd and the multiboot
   information before anything is allocated. *)
PageReserve(i) ==
    /\ booting
    /\ ~panicked
    /\ marked' = marked \cup {i}
    /\ pinned' = pinned \cup {i}
    /\ last_index' = i
    /\ UNCHANGED <<held, booting, panicked>>

(* Fault: the page found is not marked. *)
PageAllocNoMark(i) ==
    /\ ~panicked
    /\ i \in Searched
    /\ \A j \in Searched : i <= j
    /\ last_index' = i
    /\ held' = held \cup {i}
    /\ booting' = FALSE
    /\ UNCHANGED <<marked, pinned, panicked>>

(* page_alloc hands out page i, the first clear one from last_index on. *)
PageAlloc(i) ==
    /\ ~panicked
    /\ i \in Searched
    /\ \A j \in Searched : i <= j
    /\ marked' = marked \cup {i}
    /\ last_index' = i
    /\ held' = held \cup {i}
    /\ booting' = FALSE
    /\ UNCHANGED <<pinned, panicked>>

OutOfPages ==
    /\ ~panicked
    /\ Searched = {}
    /\ panicked' = TRUE
    /\ UNCHANGED <<marked, last_index, held, pinned, booting>>

(* The cursor moves to the freed page, up as well as down. *)
PageFree(i) ==
    /\ ~panicked
    /\ marked' = marked \ {i}
    /\ last_index' = i
    /\ held' = held \ {i}
    /\ UNCHANGED <<pinned, booting, panicked>>

(* PANIC_PRINT ends in an endless loop. *)
Halted == panicked /\ UNCHANGED allocVars

AllocNext ==
    \/ \E i \in Pages : PageReserve(i)
    \/ \E i \in Searched : PageAlloc(i)
    \/ \E i \in held : PageFree(i)
    \/ OutOfPages
    \/ Halted

AllocSpec == AllocInit /\ [][AllocNext]_allocVars

-----------------------------------------------------------------------------
(* Properties *)

AllocTypeOK ==
    /\ marked \subseteq Pages
    /\ last_index \in Nat
    /\ held \subseteq Pages
    /\ pinned \subseteq Pages
    /\ booting \in BOOLEAN
    /\ panicked \in BOOLEAN

(* The bitmap is the owners' view: a marked page has exactly one owner, and an
   owner's page is marked.  So page_alloc never hands out a page that the
   kernel image, the initrd, the multiboot information or another caller of
   page_alloc is using, and page_free never leaks one. *)
Accounted ==
    /\ marked = held \cup pinned
    /\ held \cap pinned = {}

(* "out of free pages" (page_allocator.c:140) should mean that every page is
   in use; the search never looks below last_index, which page_reserve leaves
   behind the last page it pinned. *)
PanicMeansNoPages == panicked => Free = {}
=============================================================================
