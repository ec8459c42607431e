---------------------------- MODULE MCMemoryMap ----------------------------
(***************************************************************************)
(* Memory maps of up to three entries whose ends are taken from Bounds:    *)
(* every entry available, reserved, of a kind unknown to the kernel, or    *)
(* left out.  In half of the maps all ends are page aligned.               *)
(***************************************************************************)
EXTENDS MemoryMap

CONSTANTS AlignedBounds, AnyBounds

Entry(from, to, kind) ==
    [addr |-> from, len |-> to - from, kind |-> kind]

Kinds == {"available", "reserved", "unknown", "hole"}

MapOf(a, b, c, d, kinds) ==
    LET all == <<Entry(a, b, kinds[1]), Entry(b, c, kinds[2]), Entry(c, d, kinds[3])>>
    IN  SelectSeq(all, LAMBDA e : e.kind # "hole")

Above(n, bounds) == {m \in bounds : n < m}

(* Three adjacent ranges, of every kind, between four bounds. *)
MapsBetween(bounds) ==
    UNION {UNION {UNION {{MapOf(a, b, c, d, kinds) : d \in Above(c, bounds), kinds \in [1..3 -> Kinds]}
        : c \in Above(b, bounds)} : b \in Above(a, bounds)} : a \in bounds}

MCFirmwareMaps == MapsBetween(AlignedBounds) \cup MapsBetween(AnyBounds)
=============================================================================
