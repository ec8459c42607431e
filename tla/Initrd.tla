------------------------------- MODULE Initrd -------------------------------
(***************************************************************************)
(* The initial ram disk: tools/initrd_gen/initrd_gen.c lays files out in   *)
(* an image, kernel/src/fs/initrd.c looks them up there.  A byte of a file *)
(* is <<file, offset>>; names are sequences of characters, "nul" being the *)
(* terminator.                                                             *)
(***************************************************************************)
EXTENDS Integers, Sequences, SequencesExt, FiniteSetsExt

CONSTANTS
    FileNames,          \* names of files: sequences of characters
    FileSizes,          \* sizes of files, in bytes
    NameSize,       \* characters of a name in the table, 10 in the code
    TableSize,      \* entries of the table, 28 in the code
    BlockSize,      \* 128 in the code
    BlockLimit,     \* 2^16: numbers and counts of blocks are an uint16_t
    MaxFiles        \* bound: files packed

ASSUME InitrdAssumption ==
    /\ NameSize \in Nat \ {0} /\ BlockSize \in Nat \ {0} /\ BlockLimit \in Nat \ {0}
    /\ TableSize \in Nat /\ MaxFiles \in 0..TableSize
    /\ FileSizes \subseteq Nat
    /\ \A name \in FileNames : name \in Seq(STRING) /\ name # <<>> /\ name # <<"d", "e", "v">>

VARIABLES
    file_table,     \* the entries that are used
    blocks,         \* the bytes behind the header
    current_block,
    files,          \* history: names and sizes of the files packed
    mounted,
    asked,          \* the latest call of the reader
    answer          \* what it returned

image == <<file_table, blocks, current_block, files>>
initrdVars == <<image, mounted, asked, answer>>

Nothing == [status |-> "none", name |-> <<>>, size |-> 0, buffer |-> <<>>]
NoCall == [op |-> "none", name |-> <<>>, index |-> 0, offset |-> 0, size |-> 0]

InitrdInit ==
    /\ file_table = <<>> /\ blocks = <<>> /\ current_block = 0 /\ files = <<>>
    /\ mounted = FALSE /\ asked = NoCall /\ answer = Nothing

-----------------------------------------------------------------------------
(* initrd_gen *)

(* What strncpy leaves in the table: the first characters of the name. *)
Cut(name) == SubSeq(name, 1, Min({NameSize, Len(name)}))

(* The blocks it takes to hold a file. *)
BlocksOf(size) == (size + BlockSize - 1) \div BlockSize

(* The blocks it is given: as many as its field of the table can say. *)
NumBlocks(size) == BlocksOf(size) % BlockLimit

(* Fault: a file begins in the last block of the one before. *)
StartBlockTooEarly == (IF current_block = 0 THEN 0 ELSE current_block - 1) % BlockLimit

StartBlock == current_block % BlockLimit

(* The whole blocks that are written of a file; what is behind its end is zeroed.
   (A file of more blocks is read over the end of the buffer, too: the image is
   that of a generator that survives it.) *)
Padded(file, size) ==
    [k \in 1..NumBlocks(size) * BlockSize |-> IF k <= size THEN <<file, k - 1>> ELSE <<0, 0>>]

Pack ==
    /\ ~mounted /\ Len(files) < MaxFiles
    /\ \E name \in FileNames, size \in FileSizes :
          /\ file_table' = Append(file_table,
                [filename |-> Cut(name), real_size |-> size, start_block |-> StartBlock])
          /\ blocks' = blocks \o Padded(Len(files) + 1, size)
          /\ current_block' = current_block + NumBlocks(size)
          /\ files' = Append(files, [name |-> name, size |-> size])
    /\ UNCHANGED <<mounted, asked, answer>>

(* The image is loaded as a module, and initialise_initrd is given its address. *)
InitialiseInitrd ==
    /\ ~mounted /\ mounted' = TRUE
    /\ UNCHANGED <<image, asked, answer>>

-----------------------------------------------------------------------------
(* The functions of initrd.c on the root and on the nodes of files *)

Ask(op, name, index, offset, size) ==
    /\ mounted
    /\ asked' = [op |-> op, name |-> name, index |-> index, offset |-> offset, size |-> size]
    /\ UNCHANGED <<image, mounted>>

(* !strncmp(filename, name, 10) *)
SameFilename(k, name) == file_table[k].filename = Cut(name)

(* Fault: the table is read from the entry of the next index. *)
ReaddirFromZero(index) ==
    IF index >= TableSize \/ index + 1 > Len(file_table) THEN Nothing
    ELSE [Nothing EXCEPT !.status = "ok", !.name = file_table[index + 1].filename]

(* A name that fills its field loses its last character.  Entry TableSize is not
   reached. *)
Readdir(index) ==
    IF index = 0 THEN [Nothing EXCEPT !.status = "ok", !.name = <<"d", "e", "v">>]
    ELSE IF index >= TableSize \/ index > Len(file_table) THEN Nothing
    ELSE LET filename == file_table[index].filename
         IN  [Nothing EXCEPT !.status = "ok",
                  !.name = IF Len(filename) = NameSize THEN Front(filename) ELSE filename]

Finddir(name) ==
    LET found == {k \in DOMAIN file_table : SameFilename(k, name)}
    IN  IF found = {} THEN Nothing
        ELSE [Nothing EXCEPT !.status = "ok", !.name = file_table[Min(found)].filename,
                             !.size = file_table[Min(found)].real_size]

(* A byte of the memory behind the image, of which nothing is known. *)
Behind == <<0, 1>>

(* What lies behind the header, from 1. *)
BlockByte(n) == IF n <= Len(blocks) THEN blocks[n] ELSE Behind

(* Every entry of the name is copied, one over the other, until one is too short. *)
Read(name, offset, size) ==
    LET matches == {k \in DOMAIN file_table : SameFilename(k, name)}
        short == {k \in matches : offset + size > file_table[k].real_size}
        copied == {k \in matches : \A s \in short : k < s}
        from == file_table[Max(copied)].start_block * BlockSize + offset
    IN  [Nothing EXCEPT !.status = IF short = {} THEN "ok" ELSE "EINVARG",
                        !.buffer = IF copied = {} THEN <<>> ELSE [n \in 1..size |-> BlockByte(from + n)]]

CallReaddir == \E index \in 0..TableSize : Ask("readdir", <<>>, index, 0, 0) /\ answer' = Readdir(index)

CallFinddir == \E name \in FileNames : Ask("finddir", name, 0, 0, 0) /\ answer' = Finddir(name)

(* On the node of a file, within a block of its end. *)
CallRead ==
    \E file \in ToSet(files) :
    \E offset \in 0..file.size, size \in 0..file.size + 1 :
        Ask("read", file.name, 0, offset, size) /\ answer' = Read(file.name, offset, size)

InitrdNext == Pack \/ InitialiseInitrd \/ CallReaddir \/ CallFinddir \/ CallRead

InitrdSpec == InitrdInit /\ [][InitrdNext]_initrdVars

-----------------------------------------------------------------------------
(* Properties *)

(* Block numbers are in range, and the names differ where the table looks. *)
Sound ==
    /\ current_block <= BlockLimit
    /\ \A m, n \in DOMAIN files : Cut(files[m].name) = Cut(files[n].name) => m = n

(* What was packed is read, of a file whose number of blocks its field can hold:
   the bytes asked for, if the file has them, wherever its blocks begin and however
   long its neighbours are, those included that are too long themselves
   (initrd_gen.c:74); an error if not. *)
PackedIsRead ==
    asked.op = "read" /\ Sound =>
        \A k \in DOMAIN files : files[k].name = asked.name /\ BlocksOf(files[k].size) < BlockLimit =>
            IF asked.offset + asked.size <= files[k].size
            THEN /\ answer.status = "ok"
                 /\ answer.buffer = [n \in 1..asked.size |-> <<k, asked.offset + n - 1>>]
            ELSE answer.status = "EINVARG"

(* The root is listed behind "dev" in the order the files were packed, as long as
   there are fewer of them than entries and their names do not fill the field, and
   what is listed is found, with its size. *)
ListedIsFound ==
    asked.op = "readdir" /\ Sound /\ Len(files) < TableSize
        /\ (\A k \in DOMAIN files : Len(files[k].name) < NameSize) =>
        IF asked.index > Len(files) THEN answer.status = "none"
        ELSE asked.index > 0 =>
            /\ answer.name = files[asked.index].name
            /\ Finddir(answer.name).size = files[asked.index].size
=============================================================================
