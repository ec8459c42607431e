----------------------------- MODULE MemoryMap -----------------------------
(***************************************************************************)
(* page_alloc_init (kernel/src/mem/page_allocator.c): from the memory map  *)
(* the boot loader hands over to the bitmap of free pages.  Three passes   *)
(* over the map, one action each: find the top of memory, carve the bitmap *)
(* out of the first available entry that can hold it, clear the bit of     *)
(* every available page.                                                   *)
(*                                                                         *)
(* A map entry is [addr, len, kind]; the kinds the multiboot specification *)
(* lists besides "available" are all "reserved" here, as the code does not *)
(* tell them apart.  Any other kind stops the kernel.                      *)
(***************************************************************************)
EXTENDS Integers, Sequences, FiniteSetsExt, Functions

CONSTANTS
    PAGE_SIZE,
    Word,          \* 2^32: addresses the code computes wrap here
    FirmwareMaps   \* the maps a boot loader may hand over: disjoint entries

ASSUME MapAssumption ==
    /\ PAGE_SIZE \in Nat \ {0} /\ Word \in Nat \ {0}
    /\ \A map \in FirmwareMaps :
          /\ map \in Seq([addr : Nat, len : Nat, kind : STRING])
          /\ \A i, j \in DOMAIN map :
                i # j => \/ map[i].addr + map[i].len <= map[j].addr
                         \/ map[j].addr + map[j].len <= map[i].addr

VARIABLES
    firmware,    \* the map as handed over
    entries,     \* the map as page_alloc_init changes it in place
    max_addr,
    num_pages,
    bitmap,      \* address of the bitmap
    cleared,     \* indices bit_clear was called with
    pass         \* "scan", "place", "clear", or how it ended

mapVars == <<firmware, entries, max_addr, num_pages, bitmap, cleared, pass>>

EndOf(e) == e.addr + e.len

Available(map) == {e \in Range(map) : e.kind = "available"}

RoundUp(n, unit) == (n + unit - 1) \div unit

BitmapSize == RoundUp(num_pages, 8)

MapInit ==
    /\ firmware \in FirmwareMaps
    /\ entries = firmware
    /\ max_addr = 0 /\ num_pages = 0 /\ bitmap = 0
    /\ cleared = {}
    /\ pass = "scan"

Known(e) == e.kind \in {"available", "reserved"}

ScanMap ==
    /\ pass = "scan"
    /\ \A e \in Range(entries) : Known(e)
    /\ max_addr' = Max({EndOf(e) % Word : e \in Available(entries)} \cup {0})
    /\ num_pages' = max_addr' \div PAGE_SIZE
    /\ bitmap' = max_addr'
    /\ pass' = "place"
    /\ UNCHANGED <<firmware, entries, cleared>>

(* "invalid type value in mmap entry": the scan's panic. *)
UnknownKind ==
    /\ pass = "scan"
    /\ \E e \in Range(entries) : ~Known(e)
    /\ pass' = "panic"
    /\ UNCHANGED <<firmware, entries, max_addr, num_pages, bitmap, cleared>>

(* Fault: the first available entry is taken, whatever its length. *)
HoldsAnything(i) == entries[i].kind = "available"

Holds(i) == entries[i].kind = "available" /\ entries[i].len >= BitmapSize

PlaceBitmap ==
    /\ pass = "place"
    /\ \E i \in DOMAIN entries :
          /\ Holds(i)
          /\ \A j \in DOMAIN entries : j < i => ~Holds(j)
          /\ bitmap' = entries[i].addr % Word
          /\ entries' = [entries EXCEPT ![i].addr = @ + BitmapSize, ![i].len = @ - BitmapSize]
          /\ pass' = IF bitmap' = max_addr THEN "nomem" ELSE "clear"
    /\ UNCHANGED <<firmware, max_addr, num_pages, cleared>>

(* The bitmap pointer still is max_addr: ENOMEM. *)
NoRoomForBitmap ==
    /\ pass = "place"
    /\ \A i \in DOMAIN entries : ~Holds(i)
    /\ pass' = "nomem"
    /\ UNCHANGED <<firmware, entries, max_addr, num_pages, bitmap, cleared>>

(* Fault: the first page of an entry is found by rounding down. *)
PagesOfRoundingDown(e) ==
    {(e.addr \div PAGE_SIZE) + j : j \in 0..((e.len \div PAGE_SIZE) - 1)}

(* The pages whose bits are cleared for an entry. *)
PagesOf(e) ==
    {RoundUp(e.addr, PAGE_SIZE) + j : j \in 0..((e.len \div PAGE_SIZE) - 1)}

ClearPages ==
    /\ pass = "clear"
    /\ cleared' = UNION {PagesOf(e) : e \in Available(entries)}
    /\ pass' = "done"
    /\ UNCHANGED <<firmware, entries, max_addr, num_pages, bitmap>>

Finished ==
    /\ pass \in {"done", "nomem", "panic"}
    /\ UNCHANGED mapVars

MapNext == ScanMap \/ UnknownKind \/ PlaceBitmap \/ NoRoomForBitmap \/ ClearPages \/ Finished

MapSpec == MapInit /\ [][MapNext]_mapVars

-----------------------------------------------------------------------------
(* Properties *)

(* A byte of RAM that belongs to nobody: the firmware offers it and the
   bitmap does not lie on it. *)
Spare(x) ==
    /\ \E e \in Available(firmware) : e.addr <= x /\ x < EndOf(e)
    /\ ~(bitmap <= x /\ x < bitmap + BitmapSize)

BytesOf(page) == (page * PAGE_SIZE)..(page * PAGE_SIZE + PAGE_SIZE - 1)

PageAligned ==
    \A e \in Range(firmware) : e.addr % PAGE_SIZE = 0 /\ e.len % PAGE_SIZE = 0

(* All RAM lies where the processor can address it.  What lies above gets a number
   the code cuts to 32 bits, and nothing below holds then. *)
Addressable == \A e \in Available(firmware) : EndOf(e) < Word

(* Whatever the map, a page the allocator may hand out begins in spare RAM: an
   entry whose bounds are not page aligned can make a page free that reaches
   out of it at the end, but none that begins outside it.  When the entries are
   page aligned, the free pages are exactly the pages of spare RAM: none is
   lost, none overlaps the bitmap, none reaches into a reserved region. *)
FreePagesAreSpare ==
    pass = "done" /\ Addressable =>
        /\ \A p \in cleared : Spare(p * PAGE_SIZE)
        /\ PageAligned =>
               cleared = {p \in 0..(num_pages - 1) : \A x \in BytesOf(p) : Spare(x)}

(* The bitmap lies in RAM and inside one entry, no entry is left with a byte of
   it, and on page-aligned maps every bit that is cleared is one of its bits. *)
BitmapCarvedOut ==
    pass \in {"clear", "done"} /\ Addressable =>
        /\ \E e \in Available(firmware) : e.addr <= bitmap /\ bitmap + BitmapSize <= EndOf(e)
        /\ \A e \in Available(entries) : EndOf(e) <= bitmap \/ bitmap + BitmapSize <= e.addr
        /\ PageAligned => \A p \in cleared : p < 8 * BitmapSize
=============================================================================
