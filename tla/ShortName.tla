------------------------------ MODULE ShortName ------------------------------
(***************************************************************************)
(* fat32_nameext_to_name of kernel/src/fs/fat32.c: the name field of a     *)
(* directory entry, base and extension padded with spaces, to a file name. *)
(* One step is one round of the loop.                                      *)
(***************************************************************************)
EXTENDS Integers, Sequences, SequencesExt, FiniteSetsExt, Words

CONSTANTS
    Letter,         \* characters of a name, " " and "." apart
    Base, Ext       \* widths, 8 and 3 in the code

ASSUME ShortNameAssumption ==
    /\ Base \in Nat \ {0, 1} /\ Ext \in Nat \ {0} /\ Letter \cap {" ", "."} = {}

VARIABLES nameext, index, mode, filename

nameVars == <<nameext, index, mode, filename>>

Padded(text, width) == [k \in 1..width |-> IF k <= Len(text) THEN text[k] ELSE " "]

(* Names without a space inside, and the entries of a directory for itself and
   its parent. *)
PlainNames(width) == UNION {[1..n -> Letter] : n \in 0..width}

NameInit ==
    /\ \/ \E base \in PlainNames(Base) \ {<<>>}, ext \in PlainNames(Ext) :
             nameext = Padded(base, Base) \o Padded(ext, Ext)
       \/ nameext \in {Padded(<<".">>, Base + Ext), Padded(<<".", ".">>, Base + Ext)}
    /\ index = 0 /\ mode = "before" /\ filename = <<>>

ch == nameext[index + 1]

(* The base ends at a space, or where the extension begins. *)
BeforeExtension ==
    /\ mode = "before"
    /\ IF ch = " " THEN mode' = "spaces" /\ filename' = Append(filename, ".")
       ELSE IF index = Base THEN mode' = "extension in spaces" /\ filename' = filename \o <<".", ch>>
       ELSE filename' = Append(filename, ch) /\ UNCHANGED mode

(* in_spaces is looked at before in_extension: after a base of full width both
   are set, and a space there is passed over rather than taken for the end. *)
InSpaces ==
    /\ mode \in {"spaces", "extension in spaces"}
    /\ IF ch = " " THEN UNCHANGED <<mode, filename>>
       ELSE mode' = "extension" /\ filename' = Append(filename, ch)

InExtension ==
    /\ mode = "extension"
    /\ IF ch = " " THEN mode' = "last" /\ UNCHANGED filename
       ELSE filename' = Append(filename, ch) /\ UNCHANGED mode

Round ==
    /\ index < Base + Ext /\ mode \notin {"last", "end"}
    /\ BeforeExtension \/ InSpaces \/ InExtension
    /\ index' = index + 1 /\ UNCHANGED nameext

(* Fault: the point stays. *)
FinishWithPoint ==
    /\ index = Base + Ext \/ mode = "last"
    /\ mode' = "end" /\ UNCHANGED <<nameext, index, filename>>

(* The pointer goes back by one, so that the terminator is put over a point at
   the end; the returned pointer itself is not used. *)
Finish ==
    /\ index = Base + Ext \/ mode = "last"
    /\ mode' = "end"
    /\ filename' = IF Last(filename) = "." THEN Front(filename) ELSE filename
    /\ UNCHANGED <<nameext, index>>

NameDone == mode = "end" /\ UNCHANGED nameVars

NameNext == (mode # "end" /\ (Round \/ Finish)) \/ NameDone

NameSpec == NameInit /\ [][NameNext]_nameVars

-----------------------------------------------------------------------------
Unpadded(text) == Without(text, {" "})

(* The file name is the base, and a point and the extension if there is one. *)
NameIsJoined ==
    mode = "end" =>
        LET base == Unpadded(SubSeq(nameext, 1, Base))
            ext == Unpadded(SubSeq(nameext, Base + 1, Base + Ext))
        IN  filename = base \o (IF ext = <<>> THEN <<>> ELSE <<".">> \o ext)
=============================================================================
