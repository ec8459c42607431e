----------------------------- MODULE BlockPool -----------------------------
(***************************************************************************)
(* What a first-fit heap promises its callers, without lists, headers or a *)
(* placement policy: a pool of bytes out of which disjoint extents are     *)
(* handed out and taken back.  An extent is at most Overhead bytes larger  *)
(* than needed, and the pool may give up on a request only when no run of  *)
(* unclaimed bytes is long enough to hold the request and its overhead     *)
(* with a byte to spare.  Heap is shown to implement this module.          *)
(***************************************************************************)
EXTENDS Integers

CONSTANTS
    Low,        \* first byte of the arena
    High,       \* first byte after the arena
    Overhead,   \* bytes the pool may keep for itself in an extent
    Needs       \* the sizes a caller may ask for

VARIABLES
    extents,    \* the extents handed out, records [lo, hi]
    gaveUpOn    \* the request that could not be met, or Nothing

vars == <<extents, gaveUpOn>>

Nothing == -1

Extent == {e \in [lo : Low..High, hi : Low..High] : e.lo <= e.hi}

Apart(e, f) == e.hi <= f.lo \/ f.hi <= e.lo

Unclaimed(e) == \A f \in extents : Apart(e, f)

Init ==
    /\ extents = {}
    /\ gaveUpOn = Nothing

(* A fresh extent for `need` bytes, with bounded waste. *)
Claim(need) ==
    \E e \in Extent :
        /\ Unclaimed(e)
        /\ e.hi - e.lo \in (need + Overhead)..(need + 2 * Overhead)
        /\ extents' = extents \cup {e}

Grab ==
    /\ gaveUpOn = Nothing
    /\ \E need \in Needs : Claim(need)
    /\ UNCHANGED gaveUpOn

Release ==
    /\ gaveUpOn = Nothing
    /\ \E e \in extents : extents' = extents \ {e}
    /\ UNCHANGED gaveUpOn

(* A block is moved: the new extent is claimed while the old one is held. *)
Move ==
    /\ gaveUpOn = Nothing
    /\ \E need \in Needs, old \in extents, e \in Extent :
          /\ Unclaimed(e)
          /\ e.hi - e.lo \in (need + Overhead)..(need + 2 * Overhead)
          /\ extents' = (extents \cup {e}) \ {old}
    /\ UNCHANGED gaveUpOn

GiveUp ==
    /\ gaveUpOn = Nothing
    /\ \E need \in Needs :
          /\ \A e \in Extent : Unclaimed(e) => e.hi - e.lo <= need + Overhead
          /\ gaveUpOn' = need
    /\ UNCHANGED extents

Next == Grab \/ Release \/ Move \/ GiveUp

Spec == Init /\ [][Next]_vars

(* No byte belongs to two extents. *)
Disjoint == \A e, f \in extents : e # f => Apart(e, f)
=============================================================================
