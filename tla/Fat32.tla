-------------------------------- MODULE Fat32 --------------------------------
(***************************************************************************)
(* The FAT32 driver, kernel/src/fs/fat32.c, behind the calls of vfs.c, on  *)
(* a volume that does not change.  A sector is named by its number; a byte *)
(* of a file by its sector and its place in it; a name is a sequence of    *)
(* parts <<head, rest>>, head being the first eleven characters.           *)
(* The search of a directory and the reading of a file take one cluster    *)
(* per step.                                                               *)
(***************************************************************************)
EXTENDS Integers, Sequences, SequencesExt, FiniteSetsExt

CONSTANTS
    Volumes,            \* records, see VolumeAssumption
    BytesPerSector,     \* 512 in the code
    Slots,              \* directory entries looked at in a cluster, 16 in the code
    ByteValues,         \* 256
    LastCluster,        \* entries from here on end a chain, 0x0FFFFFF8 in the code
    Paths,              \* paths that are opened: sequences of names
    Positions,          \* offsets in a file where reads begin and end
    MaxOpen             \* bound: nodes open at a time

(* fat: the entry of each cluster; dirs: what a cluster of a directory holds, and
   what one of a file reads as when it is taken for one of a directory; other:
   what any other sector reads as then; stray: the byte found where the FAT is
   looked for and is not. *)
ASSUME VolumeAssumption ==
    /\ BytesPerSector \in Nat \ {0} /\ Slots \in Nat \ {0} /\ ByteValues \in Nat \ {0}
    /\ LastCluster \in Nat /\ LastCluster >= ByteValues
    /\ \A path \in Paths : path \in Seq(Range(path)) /\ (path # <<>> => Front(path) \in Paths)
    /\ \A v \in Volumes :
          /\ v.sectors_per_cluster \in Nat \ {0} /\ v.reserved_sector_count \in Nat \ {0}
          /\ v.fat_sectors \in Nat \ {0} /\ v.root_cluster \in Nat \ {0, 1}
          /\ \A c \in DOMAIN v.fat : v.fat[c] \in Nat /\ (v.fat[c] \in DOMAIN v.fat \/ v.fat[c] >= LastCluster)
          /\ DOMAIN v.dirs \subseteq DOMAIN v.fat
          /\ v.stray \in 0..ByteValues - 1

VARIABLES
    vol,
    pc,             \* "idle", "walk", "scan", "resolved", "index", "read" or "panic"
    call,           \* the latest call: operation, path, offset or index, size
    rest,           \* words of the path that are still to be found
    current_cluster,
    number,         \* clusters passed
    direntry,       \* the entry found, or "none" or "root"
    buffer,         \* bytes copied by read_fat32
    result,
    nodes           \* open nodes: path |-> how often it is open

walking == <<rest, direntry>>
position == <<current_cluster, number>>
vars == <<vol, pc, call, walking, position, buffer, result, nodes>>

None == [op |-> "none", path |-> <<>>, offset |-> 0, size |-> 0]
NoEntry == [kind |-> "none", name |-> <<>>, dir |-> FALSE, first |-> 0, size |-> 0]
Root == [kind |-> "root", name |-> <<>>, dir |-> TRUE, first |-> 0, size |-> 0]
Terminator == [NoEntry EXCEPT !.kind = "end"]

Init ==
    /\ vol \in Volumes
    /\ pc = "idle" /\ call = None /\ rest = <<>> /\ current_cluster = 0 /\ number = 0
    /\ direntry = NoEntry /\ buffer = <<>> /\ result = NoEntry
    /\ nodes = [p \in {} |-> 0]

-----------------------------------------------------------------------------
(* Sectors *)

DataStart == vol.reserved_sector_count + vol.fat_sectors
BytesPerCluster == vol.sectors_per_cluster * BytesPerSector

(* Where cluster c is. *)
SectorOf(c) == DataStart + (c - 2) * vol.sectors_per_cluster

(* Fault: the first data cluster is taken for number 0. *)
ReadClusterFromZero(c) == DataStart + c

(* Where read_cluster reads it. *)
ReadCluster(c) == DataStart + c - 2

(* The read fails, and stops the kernel, outside the disk. *)
OnDisk(lba) == lba \in 0..vol.sectors - 1

(* The sector and the place in it where read_fat_entry looks for the entry of c;
   what it takes there is a byte. *)
FatSector(c) == vol.reserved_sector_count + (4 * c - ((4 * c) % BytesPerSector))
FatEntryOf(c) ==
    LET k == ((FatSector(c) - vol.reserved_sector_count) * BytesPerSector
                + ((4 * c) % BytesPerSector)) \div 4
    IN  IF FatSector(c) < DataStart /\ k \in DOMAIN vol.fat THEN vol.fat[k] ELSE vol.stray

(* Fault: the chain is not followed. *)
ReadFatEntrySame(c) == c

ReadFatEntry(c) == FatEntryOf(c) % ByteValues

(* The entries of the directory cluster that begins in a sector. *)
EntriesAt(lba) ==
    LET here == {c \in DOMAIN vol.dirs : SectorOf(c) = lba}
    IN  IF here = {} THEN vol.other ELSE vol.dirs[CHOOSE c \in here : TRUE]

Entry(entries, i) == IF i < Len(entries) THEN entries[i + 1] ELSE Terminator

IsShort(entry) == entry.kind = "short"
IsUsed(entry) == entry.kind = "long"
IsRemoved(entry) == entry.kind = "free" /\ entry.name # <<>>

(* A part of a name, by its attributes, which it keeps when it is removed. *)
IsLong(entry) == IsUsed(entry) \/ IsRemoved(entry)
IsEnd(entry) == entry.kind = "end"

(* How many entries of a long name lie in front of entry i. *)
Parts(entries, i) == Max({n \in 0..i : \A k \in 1..n : IsLong(Entry(entries, i - k))})

(* The long name is put together backwards; without one there is a short name. *)
FileName(entries, i) ==
    IF Parts(entries, i) = 0 THEN Entry(entries, i).name
    ELSE FlattenSeq([k \in 1..Parts(entries, i) |-> Entry(entries, i - k).name])

WithName(entries, i) == [Entry(entries, i) EXCEPT !.name = FileName(entries, i)]

(* strncmp(filename, name, 11) *)
SameName(name, other) == name # <<>> /\ other # <<>> /\ name[1][1] = other[1][1]

Step(place) == pc' = place /\ UNCHANGED <<vol, call, nodes>>

(* The next cluster: panic when the sector looked for is not on the disk. *)
Follow(place) ==
    /\ Step(IF OnDisk(FatSector(current_cluster)) THEN place ELSE "panic")
    /\ current_cluster' = ReadFatEntry(current_cluster)

-----------------------------------------------------------------------------
(* Calls *)

(* open_fs; read_fs, readdir_fs and finddir_fs on a node, which do nothing for a
   node of the wrong kind.  What is opened, and finddir_fs's result, is a node. *)
IsOpen(path) == path = <<>> \/ path \in DOMAIN nodes

Called(op, path, offset, size) ==
    /\ pc = "idle"
    /\ call' = [op |-> op, path |-> path, offset |-> offset, size |-> size]
    /\ pc' = "walk"
    /\ rest' = path /\ current_cluster' = vol.root_cluster /\ number' = 0
    /\ direntry' = Root /\ buffer' = <<>> /\ result' = NoEntry
    /\ UNCHANGED <<vol, nodes>>

OpenCount == FoldLeft(LAMBDA n, p : n + nodes[p], 0, SetToSeq(DOMAIN nodes))

(* The clusters from c on, by the whole of each entry of v's FAT. *)
Clusters(v, c) ==
    LET next[n \in 0..Cardinality(DOMAIN v.fat)] ==
            IF n = 0 THEN c
            ELSE IF next[n - 1] \in DOMAIN v.fat THEN v.fat[next[n - 1]] ELSE next[n - 1]
    IN  next

(* Number 0, which no cluster has, stands for the root in an entry "..". *)
FirstOf(v, dir) == IF dir.first = 0 THEN v.root_cluster ELSE dir.first

(* All the slots of the directory dir. *)
AllSlots(v, dir) ==
    LET slot(n) == LET c == Clusters(v, FirstOf(v, dir))[n \div Slots]
                   IN  IF c \in DOMAIN v.dirs THEN Entry(v.dirs[c], n % Slots) ELSE Terminator
    IN  [k \in 1..Cardinality(DOMAIN v.fat) * Slots |-> slot(k - 1)]

(* Where the entries are that have a name. *)
Live(all) ==
    LET end == Min({n \in 0..Len(all) : IsEnd(Entry(all, n))})
    IN  {n \in 0..end - 1 : IsShort(Entry(all, n))}

Content(v, dir) ==
    LET all == AllSlots(v, dir)
        nth(k) == CHOOSE n \in Live(all) : Cardinality({m \in Live(all) : m <= n}) = k
    IN  [k \in 1..Cardinality(Live(all)) |-> WithName(all, nth(k))]

(* The entry of that name in what is taken for a directory. *)
Found(v, dir, name) ==
    LET all == AllSlots(v, dir)
        found == {n \in Live(all) : FileName(all, n) = name}
    IN  IF found = {} THEN NoEntry ELSE WithName(all, Min(found))

Lookup(v, dir, name) == IF dir.dir THEN Found(v, dir, name) ELSE NoEntry

(* The entry each path names on each volume, by the whole of its names. *)
Places(v, path) ==
    LET at[n \in 0..Len(path)] == IF n = 0 THEN Root ELSE Lookup(v, at[n - 1], path[n])
    IN  at

Naming == [v \in Volumes |-> [path \in Paths |-> Places(v, path)[Len(path)]]]

Named(path) == Naming[vol][path]

OpenFs == OpenCount < MaxOpen /\ \E path \in Paths : Called("open", path, 0, 0)

FinddirFs ==
    /\ OpenCount < MaxOpen
    /\ \E path \in Paths :
          /\ path # <<>> /\ IsOpen(Front(path)) /\ Named(Front(path)).dir
          /\ Called("finddir", path, 0, 0)

ReaddirFs ==
    \E path \in Paths, nth \in 0..Slots :
        IsOpen(path) /\ Named(path).dir /\ Called("readdir", path, nth, 0)

(* A file is read within its size (shell.c:154, process.c:49). *)
ReadFs ==
    \E path \in Paths :
        /\ IsOpen(path) /\ ~Named(path).dir
        /\ \E from, to \in (Positions \cup {Named(path).size}) \cap (0..Named(path).size) :
              /\ from < to \/ (from = 0 /\ to = 0 /\ Named(path).size = 0)
              /\ Called("read", path, from, to - from)

(* close_fat32 does not free the root's node. *)
CloseFs ==
    /\ pc = "idle"
    /\ \E path \in DOMAIN nodes :
          nodes' = IF nodes[path] > 1 THEN [nodes EXCEPT ![path] = nodes[path] - 1]
                   ELSE [p \in DOMAIN nodes \ {path} |-> nodes[p]]
    /\ call' = None /\ result' = NoEntry /\ buffer' = <<>>
    /\ UNCHANGED <<vol, pc, walking, position>>

-----------------------------------------------------------------------------
(* direntry_from_path and find_entry_by_name *)

Return(value) ==
    /\ Step("idle") /\ result' = value
    /\ rest' = <<>> /\ current_cluster' = 0 /\ number' = 0 /\ direntry' = NoEntry

(* The cluster read: panic when it is not on the disk. *)
Unreadable ==
    \E s \in 0..vol.sectors_per_cluster - 1 : ~OnDisk(ReadCluster(current_cluster) + s)

ReadFails ==
    /\ pc \in {"scan", "index", "read"} /\ current_cluster < LastCluster /\ Unreadable
    /\ Step("panic")
    /\ UNCHANGED <<walking, position, buffer, result>>

NextWord ==
    /\ pc = "walk" /\ rest # <<>>
    /\ Step("scan")
    /\ UNCHANGED <<walking, position, buffer, result>>

PathEnds ==
    /\ pc = "walk" /\ rest = <<>>
    /\ Step("resolved")
    /\ UNCHANGED <<walking, position, buffer, result>>

(* The slots of a cluster that are looked at, up to a terminator. *)
Looked(entries) ==
    Min({i \in 0..Slots : i = Slots \/ IsEnd(Entry(entries, i))})

Matches(entries) ==
    {i \in 0..Looked(entries) - 1 :
        IsShort(Entry(entries, i)) /\ SameName(FileName(entries, i), Head(rest))}

(* One round of find_entry_by_name's outer loop.  The entry found before is freed
   when a word follows it. *)
ScanCluster ==
    /\ pc = "scan" /\ current_cluster < LastCluster /\ ~Unreadable
    /\ LET entries == EntriesAt(ReadCluster(current_cluster))
           found == Matches(entries)
       IN  \/ /\ found # {}
              /\ Step("walk")
              /\ direntry' = Entry(entries, Min(found)) /\ rest' = Tail(rest)
              /\ current_cluster' = direntry'.first
              /\ UNCHANGED <<number, buffer, result>>
           \/ /\ found = {} /\ Looked(entries) < Slots
              /\ Return(NoEntry) /\ UNCHANGED buffer
           \/ /\ found = {} /\ Looked(entries) = Slots
              /\ Follow("scan")
              /\ UNCHANGED <<walking, number, buffer, result>>

(* Whoever resolved the path goes on.  open_fat32 and finddir_fat32 keep the
   directory entry and forget it, and so does first_cluster_from_path; there is
   none for the root. *)
OpenResolved ==
    /\ pc = "resolved" /\ call.op \in {"open", "finddir"}
    /\ pc' = "idle" /\ result' = direntry
    /\ nodes' = IF direntry.kind = "root" THEN nodes
                ELSE [p \in DOMAIN nodes \cup {call.path} |->
                        (IF p \in DOMAIN nodes THEN nodes[p] ELSE 0) + (IF p = call.path THEN 1 ELSE 0)]
    /\ rest' = <<>> /\ current_cluster' = 0 /\ direntry' = NoEntry
    /\ UNCHANGED <<vol, call, number, buffer>>

NodeResolved ==
    /\ pc = "resolved" /\ call.op \in {"readdir", "read"}
    /\ Step(IF call.op = "read" THEN "read" ELSE "index")
    /\ number' = 0
    /\ UNCHANGED <<walking, current_cluster, buffer, result>>

-----------------------------------------------------------------------------
(* find_entry_by_index: index grows by one for every entry that is passed over.
   One round of the outer loop; number counts clusters, call.offset entries. *)

(* Fault: entries of long names are counted. *)
SkippedFreeOnly(entry) == entry.kind = "free"

Skipped(entry) == entry.kind \in {"free", "long"}

SkippedBefore(entries, i) == Cardinality({k \in 0..i - 1 : Skipped(Entry(entries, k))})

IndexCluster ==
    /\ pc = "index" /\ current_cluster < LastCluster /\ ~Unreadable
    /\ LET entries == EntriesAt(ReadCluster(current_cluster))
           found == {i \in 0..Looked(entries) - 1 :
                        /\ ~Skipped(Entry(entries, i))
                        /\ call.offset + SkippedBefore(entries, i) = number + i}
       IN  \/ /\ found # {}
              /\ Return(WithName(entries, Min(found)))
              /\ UNCHANGED buffer
           \/ /\ found = {} /\ Looked(entries) < Slots
              /\ Return(NoEntry) /\ UNCHANGED buffer
           \/ /\ found = {} /\ Looked(entries) = Slots
              /\ Follow("index")
              /\ number' = number + Slots - SkippedBefore(entries, Slots)
              /\ UNCHANGED <<walking, buffer, result>>

-----------------------------------------------------------------------------
(* read_fat32 *)

Bytes(from, count) ==
    LET lba == ReadCluster(current_cluster)
    IN  [k \in 1..count |-> <<lba + ((from + k - 1) \div BytesPerSector),
                              (from + k - 1) % BytesPerSector>>]

ByteOffset == number * BytesPerCluster
ClusterEnd == ByteOffset + BytesPerCluster
ReadEnd == call.offset + call.size

GoOn(copied) ==
    /\ Follow("read")
    /\ buffer' = buffer \o copied /\ number' = number + 1
    /\ UNCHANGED <<walking, result>>

Enough(copied) == buffer' = buffer \o copied /\ Return(NoEntry)

(* Fault: the first cluster is copied from its beginning. *)
FirstBytesUnshifted ==
    LET count == Min({call.size, ClusterEnd - call.offset})
    IN  IF Len(buffer) + count = call.size THEN Enough(Bytes(0, count))
        ELSE GoOn(Bytes(0, count))

(* The cluster in which the read begins. *)
FirstBytes ==
    LET from == call.offset - ByteOffset
        count == Min({call.size, ClusterEnd - call.offset})
    IN  IF Len(buffer) + count = call.size THEN Enough(Bytes(from, count))
        ELSE GoOn(Bytes(from, count))

ReadRound ==
    /\ pc = "read" /\ current_cluster < LastCluster /\ ~Unreadable
    /\ IF call.offset >= ByteOffset /\ call.offset < ClusterEnd THEN FirstBytes
       ELSE IF call.offset < ByteOffset /\ ReadEnd >= ClusterEnd THEN GoOn(Bytes(0, BytesPerCluster))
       ELSE IF ReadEnd >= ByteOffset /\ ReadEnd < ClusterEnd
       THEN Enough(Bytes(0, call.size - Len(buffer)))
       ELSE GoOn(<<>>)

(* The loops' own end, a cluster number of LastCluster or more, is never reached:
   what ReadFatEntry returns is a byte. *)
Calls == OpenFs \/ FinddirFs \/ ReaddirFs \/ ReadFs \/ CloseFs
Driver == ReadFails \/ NextWord \/ PathEnds \/ ScanCluster \/ OpenResolved \/ NodeResolved
            \/ IndexCluster \/ ReadRound
Stopped == pc = "panic" /\ UNCHANGED vars

Next == Calls \/ Driver \/ Stopped

(* The driver runs to the end of a call on its own; nobody need call it. *)
Spec == Init /\ [][Next]_vars /\ WF_vars(Driver)

-----------------------------------------------------------------------------
(* The volumes the driver is made for *)

IsEntry(e) ==
    /\ e = [kind |-> e.kind, name |-> e.name, dir |-> e.dir, first |-> e.first, size |-> e.size]
    /\ e.kind \in {"short", "long", "free", "end"} /\ e.dir \in BOOLEAN /\ e.first \in Nat /\ e.size \in Nat

EntriesOf(v) == {Entry(v.dirs[c], i) : c \in DOMAIN v.dirs, i \in 0..Slots - 1}

(* A search of dir ends by an entry that ends a directory, or where the low byte of
   the end mark leads; an entry of cluster 0 is searched in the FAT instead. *)
Ends(v, dir) ==
    LET clusters == Clusters(v, FirstOf(v, dir))
    IN  /\ dir.kind = "root" \/ dir.first # 0
        /\ \E j \in 0..Cardinality(DOMAIN v.fat) - 1 :
              /\ \A h \in 0..j : clusters[h] \in DOMAIN v.dirs
              /\ \/ \E i \in 0..Slots - 1 : IsEnd(Entry(v.dirs[clusters[j]], i))
                 \/ /\ v.fat[clusters[j]] >= LastCluster
                    /\ v.fat[clusters[j]] % ByteValues \notin DOMAIN v.dirs

(* A file has clusters for all its bytes. *)
Lasts(v, file) ==
    /\ file.size <= Cardinality(DOMAIN v.fat) * BytesPerSector
    /\ \A at \in 0..file.size - 1 :
          Clusters(v, file.first)[at \div BytesPerSector] \in DOMAIN v.fat

(* What the driver asks of a path: what it leads through can be searched to an end,
   and does not hold the next name when it is a file (attributes are not looked
   at); a directory it names can be listed, a file it names read. *)
Leads(v, path) ==
    LET at == Places(v, path)
        last == at[Len(path)]
    IN  /\ \A n \in 0..Len(path) - 1 :
              at[n] # NoEntry =>
                  Ends(v, at[n]) /\ (at[n].dir \/ Found(v, at[n], path[n + 1]) = NoEntry)
        /\ IF last.dir THEN Ends(v, last) ELSE Lasts(v, last)

(* Clusters of one sector, whose entries are in the first sector of the FAT and are
   bytes; what is neither directory nor file reads as an empty directory; a long
   name lies in the cluster of its entry, which follows no removed part of another;
   names differ in eleven characters; the paths lead. *)
PlainVolume(v) ==
    /\ v.sectors_per_cluster = 1
    /\ \A c \in DOMAIN v.fat : c \in 2..ByteValues - 1 /\ 4 * c < BytesPerSector
    /\ \A e \in EntriesOf(v) : IsEntry(e)
    /\ Ends(v, Root) /\ IsEnd(Entry(v.other, 0))
    /\ \A c \in DOMAIN v.dirs :
          /\ ~IsLong(Entry(v.dirs[c], Slots - 1))
          /\ \A i \in 0..Slots - 1 :
                IsShort(Entry(v.dirs[c], i)) =>
                    /\ \A k \in 1..Parts(v.dirs[c], i) : IsUsed(Entry(v.dirs[c], i - k))
                    /\ \A path \in Paths : \A k \in DOMAIN path :
                          SameName(FileName(v.dirs[c], i), path[k]) <=> FileName(v.dirs[c], i) = path[k]
    /\ \A path \in Paths : Leads(v, path)

-----------------------------------------------------------------------------
(* Properties *)

Returned(op) == pc = "idle" /\ call.op = op

(* Where byte number at of a file is, by its chain. *)
ByteOfFile(file, at) ==
    <<SectorOf(Clusters(vol, file.first)[at \div BytesPerCluster]) + ((at % BytesPerCluster) \div BytesPerSector),
      at % BytesPerSector>>

(* A read returns the bytes of the file it was asked for, wherever it begins and
   ends in the clusters of the file and in whatever order these lie on the disk. *)
ReadIsContent ==
    Returned("read") =>
        LET file == Named(call.path)
        IN  buffer = [k \in 1..call.size |-> ByteOfFile(file, call.offset + k - 1)]

(* A path is found exactly if every name of it is in the directory before it, and
   then what is found is the entry of that name. *)
LookupIsRight ==
    Returned("open") \/ Returned("finddir") =>
        [result EXCEPT !.name = <<>>] = [Named(call.path) EXCEPT !.name = <<>>]

(* readdir_fs with index 0, 1, 2... goes through the entries of the directory, each
   once, over entries that were removed, over the slots of long names and from
   cluster to cluster, and returns nothing behind the last. *)
ListingComplete ==
    Returned("readdir") =>
        LET entries == Content(vol, Named(call.path))
        IN  result = IF call.offset < Len(entries) THEN entries[call.offset + 1] ELSE NoEntry

(* A disk on which there is every cluster a byte can name. *)
RoomForStrays == DataStart + ByteValues <= vol.sectors

(* Every call returns, and none stops the kernel unless the disk ends before the
   cluster that the low byte of an end mark names: the search of a directory whose
   last cluster is full, and a read up to the end of a cluster, go there.  On a
   volume where that cluster does not read as the end of a directory the search may
   go on from there for ever. *)
CallsEnd == pc # "idle" ~> pc = "idle" \/ (pc = "panic" /\ ~RoomForStrays)
=============================================================================
