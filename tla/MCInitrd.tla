------------------------------ MODULE MCInitrd ------------------------------
(***************************************************************************)
(* Names of one to four characters in a field of three, of which two agree *)
(* in the field, and sizes at and above a block of two bytes, the last of  *)
(* them of one block more than the field for their number holds.           *)
(***************************************************************************)
EXTENDS Initrd

MCNames == {<<"a">>, <<"a", "b", "c">>, <<"a", "b", "c", "d">>, <<"b">>}
=============================================================================
