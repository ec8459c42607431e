-------------------------------- MODULE Heap --------------------------------
(***************************************************************************)
(* The kernel heap of kernel/src/sys/heap.c: a doubly linked list of       *)
(* chunks, each a header of HDR bytes followed by its payload, that tile   *)
(* the heap's address range.  The chunk map h takes the address of every   *)
(* header on the list to the header's fields; a header that was merged     *)
(* away is no longer in the map (its bytes are payload of another chunk).  *)
(*                                                                         *)
(* The operators on a chunk map are kept apart from the state so that      *)
(* properties can speak of what an operation would do.                     *)
(***************************************************************************)
EXTENDS Integers, FiniteSets

CONSTANTS
    HeapBase,     \* virtual address of the first header
    HeapSize,     \* num_pages * PAGE_SIZE
    HDR,          \* sizeof(memory_chunk_t)
    Sizes,        \* byte counts callers ask for
    Alignments,   \* alignments passed to kmalloc_aligned
    Word          \* 2^32: addresses and sizes are below, sums and products wrap here

ASSUME HeapAssumption ==
    /\ HeapBase \in Nat \ {0}
    /\ HDR \in Nat \ {0}
    /\ HeapSize \in Nat
    /\ HeapSize > HDR
    /\ Word \in Nat \ {0}
    /\ HeapBase + HeapSize <= Word
    /\ Sizes \subseteq 0..(Word - 1)
    /\ Alignments \subseteq 1..(Word - 1)

VARIABLES
    chunks,   \* the chunk list, as a map from header address to header
    live,     \* what callers hold: [ptr, size, chunk], one per kmalloc not yet kfree'd
    failed    \* the size allocate() panicked on, Overrun, or Running

vars == <<chunks, live, failed>>

NULL    == 0
Running == -1
Overrun == -2   \* memset went past the block it was to clear
HeapEnd == HeapBase + HeapSize

(* A header with these fields. *)
Hdr(next, prev, size, allocated) ==
    [next |-> next, prev |-> prev, size |-> size, allocated |-> allocated]

Header == [next : Nat, prev : Nat, size : Nat, allocated : BOOLEAN]
Block  == [ptr : Nat, size : Nat, chunk : Nat]

(* What kmalloc_aligned asks of allocate(): a sum of two uint32_t. *)
AlignedSize(al, size) == (size + al) % Word

(* Every size that reaches allocate() from the five entry points. *)
AllocSizes ==
    Sizes \cup {AlignedSize(a, s) : s \in Sizes, a \in Alignments}
          \cup {(n * e) % Word : n \in Sizes, e \in Sizes}

-----------------------------------------------------------------------------
(* allocate() *)

(* Fault: the search also wants room for a header behind the block. *)
FitsWithHeader(h, size) ==
    {c \in DOMAIN h : h[c].size > size + HDR /\ ~h[c].allocated}

(* The chunks the search loop accepts: strictly larger than the request. *)
Fits(h, size) == {c \in DOMAIN h : h[c].size > size /\ ~h[c].allocated}

(* The one the loop stops at.  The list is kept in address order (WellFormed),
   so that the first chunk it meets is the lowest one. *)
FirstFit(h, size) == {c \in Fits(h, size) : \A d \in Fits(h, size) : c <= d}

(* Fault: the new header's own bytes are forgotten. *)
SplitsWithoutHeader(h, c, size) == h[c].size >= size + 1

Splits(h, c, size) == h[c].size >= size + HDR + 1

(* Fault: the chunk behind the new one keeps its old prev. *)
SplitNoBackLink(h, c, size) ==
    LET new == c + HDR + size
    IN  [a \in DOMAIN h \cup {new} |->
           IF a = new THEN Hdr(h[c].next, c, h[c].size - size - HDR, FALSE)
           ELSE IF a = c THEN Hdr(new, h[c].prev, size, h[c].allocated)
           ELSE h[a]]

(* The tail of c becomes a free chunk of its own. *)
Split(h, c, size) ==
    LET new == c + HDR + size
        nxt == h[c].next
    IN  [a \in DOMAIN h \cup {new} |->
           IF a = new THEN Hdr(nxt, c, h[c].size - size - HDR, FALSE)
           ELSE IF a = c THEN Hdr(new, h[c].prev, size, h[c].allocated)
           ELSE IF a = nxt THEN Hdr(h[a].next, new, h[a].size, h[a].allocated)
           ELSE h[a]]

Mark(h, c, flag) ==
    [h EXCEPT ![c] = Hdr(h[c].next, h[c].prev, h[c].size, flag)]

Allocate(h, c, size) ==
    Mark(IF Splits(h, c, size) THEN Split(h, c, size) ELSE h, c, TRUE)

-----------------------------------------------------------------------------
(* kfree() *)

(* Chunk n, the successor of c, is merged into c. *)
Absorb(h, c, n) ==
    [a \in DOMAIN h \ {n} |->
        IF a = c THEN Hdr(h[n].next, h[c].prev, h[c].size + h[n].size + HDR, h[c].allocated)
        ELSE IF a = h[n].next THEN Hdr(h[a].next, c, h[a].size, h[a].allocated)
        ELSE h[a]]

IsFree(h, a) == a # NULL /\ ~h[a].allocated

MergePrev(h, c) == IF IsFree(h, h[c].prev) THEN Absorb(h, h[c].prev, c) ELSE h

(* Fault: kfree looks behind it only. *)
NoMergeNext(h, c) == h

MergeNext(h, c) == IF IsFree(h, h[c].next) THEN Absorb(h, c, h[c].next) ELSE h

FreeChunk(h, c) ==
    LET g   == Mark(h, c, FALSE)
        top == IF IsFree(g, g[c].prev) THEN g[c].prev ELSE c
    IN  MergeNext(MergePrev(g, c), top)

-----------------------------------------------------------------------------
(* kmalloc_aligned always moves the pointer by at least one byte. *)
AlignUp(p, al) == p + (al - (p % al))

FirstHeader == Hdr(NULL, NULL, HeapSize - HDR, FALSE)

(* heap_init *)
Init ==
    /\ chunks = [a \in {HeapBase} |-> FirstHeader]
    /\ live = {}
    /\ failed = Running

Plain(c, size) == [ptr |-> c + HDR, size |-> size, chunk |-> c]

KMalloc(size) ==
    /\ failed = Running
    /\ \E c \in FirstFit(chunks, size) :
          /\ chunks' = Allocate(chunks, c, size)
          /\ live' = live \cup {Plain(c, size)}
    /\ UNCHANGED failed

(* Fault: no room is asked for the bytes the pointer moves by. *)
KMallocAlignedTight(al, size) ==
    /\ failed = Running
    /\ \E c \in FirstFit(chunks, size) :
          /\ chunks' = Allocate(chunks, c, size)
          /\ live' = live \cup {[ptr |-> AlignUp(c + HDR, al), size |-> size, chunk |-> c]}
    /\ UNCHANGED failed

(* When the sum wraps, the chunk that is marked holds less than al bytes, and
   memset clears `size` of them: more than there is between the chunk and the
   end of the heap.  What the list and the blocks are after that is not
   modelled: chunks and live are what they were before memset. *)
KMallocAligned(al, size) ==
    /\ failed = Running
    /\ \E c \in FirstFit(chunks, AlignedSize(al, size)) :
          /\ chunks' = Allocate(chunks, c, AlignedSize(al, size))
          /\ live' = live \cup {[ptr |-> AlignUp(c + HDR, al), size |-> size, chunk |-> c]}
    /\ failed' = IF size + al < Word THEN Running ELSE Overrun

KCalloc(num, element_size) == KMalloc((num * element_size) % Word)

(* Fault: the old block is forgotten but not freed. *)
KReallocLeak(b, size) ==
    /\ failed = Running
    /\ \E c \in FirstFit(chunks, size) :
          /\ chunks' = Allocate(chunks, c, size)
          /\ live' = (live \cup {Plain(c, size)}) \ {b}
    /\ UNCHANGED failed

(* The new block is allocated while the old one is still held. *)
KRealloc(b, size) ==
    /\ failed = Running
    /\ \E c \in FirstFit(chunks, size) :
          /\ chunks' = FreeChunk(Allocate(chunks, c, size), b.ptr - HDR)
          /\ live' = (live \cup {Plain(c, size)}) \ {b}
    /\ UNCHANGED failed

KFree(b) ==
    /\ failed = Running
    /\ chunks' = FreeChunk(chunks, b.ptr - HDR)
    /\ live' = live \ {b}
    /\ UNCHANGED failed

(* allocate() finds no chunk: "out of kernel heap memory". *)
OutOfMemory(size) ==
    /\ failed = Running
    /\ Fits(chunks, size) = {}
    /\ failed' = size
    /\ UNCHANGED <<chunks, live>>

(* PANIC_PRINT ends in an endless loop, and a kernel whose memory was overrun
   is not followed. *)
Stopped ==
    /\ failed # Running
    /\ UNCHANGED vars

(* Only pointers kmalloc returned may be passed to kfree and krealloc: no
   caller frees the result of kmalloc_aligned. *)
Freeable == {b \in live : b.ptr = b.chunk + HDR}

Next ==
    \/ \E size \in Sizes : KMalloc(size)
    \/ \E al \in Alignments, size \in Sizes : KMallocAligned(al, size)
    \/ \E num, element_size \in Sizes : KCalloc(num, element_size)
    \/ \E b \in Freeable, size \in Sizes : KRealloc(b, size)
    \/ \E b \in Freeable : KFree(b)
    \/ \E size \in AllocSizes : OutOfMemory(size)
    \/ Stopped

Spec == Init /\ [][Next]_vars

-----------------------------------------------------------------------------
(* Properties *)

ChunkEnd(h, c) == c + HDR + h[c].size    \* first byte after chunk c

TypeOK ==
    /\ DOMAIN chunks \subseteq Nat
    /\ chunks \in [DOMAIN chunks -> Header]
    /\ live \subseteq Block
    /\ failed \in AllocSizes \cup {Running, Overrun}

(* No aligned block was asked for whose size wraps when the alignment is
   added. *)
Intact == failed # Overrun

(* The chunks tile the heap: each starts inside it, none overlaps another,
   and no byte is lost between them. *)
Tiled(h) ==
    /\ HeapBase \in DOMAIN h
    /\ \A c \in DOMAIN h : HeapBase <= c /\ ChunkEnd(h, c) <= HeapEnd
    /\ \A c, d \in DOMAIN h : c < d => ChunkEnd(h, c) <= d
    /\ \A x \in HeapBase..(HeapEnd - 1) : \E c \in DOMAIN h : c <= x /\ x < ChunkEnd(h, c)

(* next and prev are inverse, and lead from a chunk to its neighbour in
   memory. *)
Linked(h) ==
    \A c \in DOMAIN h :
        /\ IF h[c].next = NULL THEN ChunkEnd(h, c) = HeapEnd
         ELSE /\ h[c].next \in DOMAIN h
                /\ h[c].next = ChunkEnd(h, c)
                /\ h[h[c].next].prev = c
        /\ IF h[c].prev = NULL THEN c = HeapBase
         ELSE /\ h[c].prev \in DOMAIN h
                /\ h[h[c].prev].next = c

Merged(h) ==
    \A c \in DOMAIN h :
        h[c].next # NULL => h[c].allocated \/ h[h[c].next].allocated

(* No sequence of kmalloc, krealloc and kfree, in any order, tears the list
   while the heap is intact: the headers reached through next and prev tile
   the heap exactly, so that neither a split nor a two-sided merge ever loses
   or doubles a byte. *)
WellFormed == Intact => Tiled(chunks) /\ Linked(chunks)

(* kfree merges eagerly on both sides, so two neighbours are never both free:
   a request never fails because free memory is cut into adjacent pieces. *)
Coalesced == Intact => Merged(chunks)

Safe(h, blocks) ==
    /\ \A b \in blocks :
          /\ b.chunk \in DOMAIN h
          /\ h[b.chunk].allocated
          /\ b.chunk + HDR <= b.ptr
          /\ b.ptr + b.size <= ChunkEnd(h, b.chunk)
    /\ \A b, d \in blocks : b.chunk = d.chunk => b = d
    /\ \A c \in DOMAIN h : h[c].allocated => \E b \in blocks : b.chunk = c

(* What callers hold and what the list says agree, as long as no sum of
   kmalloc_aligned has wrapped: every block a caller holds lies, with all the
   bytes that were asked for (of kcalloc, the bytes of the product in 32
   bits), in the payload of an allocated chunk; no two share a chunk; and an
   allocated chunk has an owner (krealloc and kfree leave nothing behind).
   heap.c:99 does not look for the wrap, and process.c:39 passes the size a
   directory entry states: with a size within a page of 2^32 the block is too
   small, and this is the last state of the heap. *)
BlocksSafe == Intact => Safe(chunks, live)

(* When callers have returned everything the heap is the single free chunk
   heap_init made: fragmentation does not outlive the blocks that caused it. *)
QuietHeapIsWhole ==
    Intact /\ live = {} => chunks = [a \in {HeapBase} |-> FirstHeader]

(* The chunks handed out, as the extents of a pool of bytes. *)
ExtentAt(h, c) == [lo |-> c, hi |-> ChunkEnd(h, c)]

ExtentsOf(h) == {ExtentAt(h, c) : c \in {d \in DOMAIN h : h[d].allocated}}

Extents == ExtentsOf(chunks)

GaveUpOn == IF Intact THEN failed ELSE Running

Pool == INSTANCE BlockPool WITH
    Low <- HeapBase, High <- HeapEnd, Overhead <- HDR, Needs <- AllocSizes,
    extents <- Extents, gaveUpOn <- GaveUpOn

(* The heap implements the pool, the needs being what reaches allocate(), with
   sums and products wrapped: in particular a panic is never spurious, it
   is only raised when no run of bytes between two allocated chunks could
   hold the request and its header with a byte to spare. *)
ImplementsPool == Pool!Spec
=============================================================================
