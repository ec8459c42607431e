------------------------------ MODULE MCPaging ------------------------------
(***************************************************************************)
(* Eighteen pages of RAM, of which a map may leave out some: none but page *)
(* 0, where the allocator's bitmap lies; one that the heap would come to   *)
(* lie on, so that its pages are not consecutive; or so many that there is *)
(* room for one task only, or not even for the kernel.                     *)
(***************************************************************************)
EXTENDS Paging

MCMemoryMaps == {{0}, {0, 7}, {0} \cup 13..17, {0} \cup 5..17}

(* The kernel lies below the initrd, and the boot information above or below
   them both. *)
MCBootImages == {<<1, 2, 3>>, <<2, 3, 1>>}
=============================================================================
