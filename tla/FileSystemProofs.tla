-------------------------- MODULE FileSystemProofs --------------------------
(***************************************************************************)
(* Proofs about the two file systems.  FAT32: for every plain volume, its  *)
(* directories and files of whatever length in whatever clusters, and all  *)
(* calls in any order.  The initial ram disk: for every size of its names, *)
(* table and blocks and files of every length.                             *)
(***************************************************************************)
EXTENDS Fat32, Initrd, BasicLemmas, SequenceTheorems, TLAPS

-----------------------------------------------------------------------------
(* FAT32: chains of clusters and the places on a path *)

ClusterCount(v) == Cardinality(DOMAIN v.fat)

(* The cluster after c. *)
NextOf(v, c) == IF c \in DOMAIN v.fat THEN v.fat[c] ELSE c

(* Clusters(v, c) begins with c and follows the FAT. *)
LEMMA ClustersFollow ==
    ASSUME NEW v, NEW c, ClusterCount(v) \in Nat
    PROVE  /\ Clusters(v, c)[0] = c
           /\ \A n \in 1..ClusterCount(v) : Clusters(v, c)[n] = NextOf(v, Clusters(v, c)[n - 1])
<1> DEFINE IsChain(f, m) == f = [n \in 0..m |-> IF n = 0 THEN c ELSE NextOf(v, f[n - 1])]
           T == {m \in Nat : ~\E f : IsChain(f, m)}
<1>1. T = {}
  <2>1. SUFFICES ASSUME T # {} PROVE FALSE
    OBVIOUS
  <2>2. PICK m \in T : \A n \in T : m <= n
    BY <2>1, LeastExists
  <2>3. IsChain([n \in 0..0 |-> c], 0)
    OBVIOUS
  <2>4. m \in Nat \ {0} /\ m - 1 \notin T
    <3>1. m # 0
      BY <2>3
    <3> QED
      BY <2>2, <3>1
  <2>5. PICK f : IsChain(f, m - 1)
    BY <2>4
  <2> DEFINE g == [n \in 0..m |-> IF n = m THEN NextOf(v, f[m - 1]) ELSE f[n]]
  <2>6. \A n \in 0..m - 1 : g[n] = f[n] /\ f[n] = IF n = 0 THEN c ELSE NextOf(v, f[n - 1])
    BY <2>4, <2>5
  <2>7. \A n \in 0..m : g[n] = IF n = 0 THEN c ELSE NextOf(v, g[n - 1])
    <3> SUFFICES ASSUME NEW n \in 0..m PROVE g[n] = IF n = 0 THEN c ELSE NextOf(v, g[n - 1])
      OBVIOUS
    <3>1. CASE n = m
      <4>1. g[n] = NextOf(v, f[m - 1]) /\ g[m - 1] = f[m - 1]
        BY <3>1, <2>4, <2>6
      <4> QED
        BY <4>1, <3>1, <2>4
    <3>2. CASE n # m
      <4>1. n \in 0..m - 1 /\ (n # 0 => n - 1 \in 0..m - 1)
        BY <3>2, <2>4
      <4> QED
        BY <4>1, <2>6
    <3> QED
      BY <3>1, <3>2
  <2>8. IsChain(g, m)
    BY <2>7
  <2> QED
    BY <2>2, <2>8
<1>2. \E f : IsChain(f, ClusterCount(v))
  BY <1>1
<1>3. Clusters(v, c) = CHOOSE f : IsChain(f, ClusterCount(v))
  BY DEF Clusters, NextOf, ClusterCount
<1>4. IsChain(Clusters(v, c), ClusterCount(v))
  BY <1>2, <1>3
<1> QED
  BY <1>4

(* Places(v, path) begins with the root and looks up one name after another. *)
LEMMA PlacesFollow ==
    ASSUME NEW v, NEW path, Len(path) \in Nat
    PROVE  /\ Places(v, path)[0] = Root
           /\ \A n \in 1..Len(path) : Places(v, path)[n] = Lookup(v, Places(v, path)[n - 1], path[n])
<1> DEFINE IsWay(f, m) == f = [n \in 0..m |-> IF n = 0 THEN Root ELSE Lookup(v, f[n - 1], path[n])]
           T == {m \in Nat : ~\E f : IsWay(f, m)}
<1>1. T = {}
  <2>1. SUFFICES ASSUME T # {} PROVE FALSE
    OBVIOUS
  <2>2. PICK m \in T : \A n \in T : m <= n
    BY <2>1, LeastExists
  <2>3. IsWay([n \in 0..0 |-> Root], 0)
    OBVIOUS
  <2>4. m \in Nat \ {0} /\ m - 1 \notin T
    <3>1. m # 0
      BY <2>3
    <3>2. m \in Nat
      OBVIOUS
    <3> HIDE DEF T
    <3> QED
      BY <2>2, <3>1, <3>2
  <2>5. PICK f : IsWay(f, m - 1)
    BY <2>4
  <2> DEFINE g == [n \in 0..m |-> IF n = m THEN Lookup(v, f[m - 1], path[m]) ELSE f[n]]
  <2>6. \A n \in 0..m - 1 : g[n] = f[n] /\ f[n] = IF n = 0 THEN Root ELSE Lookup(v, f[n - 1], path[n])
    BY <2>4, <2>5
  <2>7. \A n \in 0..m : g[n] = IF n = 0 THEN Root ELSE Lookup(v, g[n - 1], path[n])
    <3> SUFFICES ASSUME NEW n \in 0..m PROVE g[n] = IF n = 0 THEN Root ELSE Lookup(v, g[n - 1], path[n])
      OBVIOUS
    <3>1. CASE n = m
      <4>1. g[n] = Lookup(v, f[m - 1], path[n]) /\ g[m - 1] = f[m - 1]
        BY <3>1, <2>4, <2>6
      <4> QED
        BY <4>1, <3>1, <2>4
    <3>2. CASE n # m
      <4>1. n \in 0..m - 1 /\ (n # 0 => n - 1 \in 0..m - 1)
        BY <3>2, <2>4
      <4>2. g[n] = f[n] /\ (n # 0 => g[n - 1] = f[n - 1])
        BY <4>1, <2>6
      <4>3. f[n] = IF n = 0 THEN Root ELSE Lookup(v, f[n - 1], path[n])
        BY <4>1, <2>6
      <4> HIDE DEF g
      <4> QED
        BY <4>2, <4>3
    <3> QED
      BY <3>1, <3>2
  <2>8. IsWay(g, m)
    BY <2>7
  <2> QED
    BY <2>2, <2>8
<1>2. \E f : IsWay(f, Len(path))
  BY <1>1
<1>3. Places(v, path) = CHOOSE f : IsWay(f, Len(path))
  BY DEF Places
<1>4. IsWay(Places(v, path), Len(path))
  BY <1>2, <1>3
<1> QED
  BY <1>4

(* The least of numbers. *)
LEMMA MinIs ==
    ASSUME NEW S, S \subseteq Nat, S # {}
    PROVE  Min(S) \in S /\ \A n \in S : Min(S) <= n
<1>1. \E x \in S : \A y \in S : x <= y
  BY LeastExists
<1> QED
  BY <1>1 DEF Min

(* A number is the least when it is one of them and none is less. *)
LEMMA MinOnly ==
    ASSUME NEW S, S \subseteq Nat, NEW m \in S, \A n \in S : m <= n
    PROVE  Min(S) = m
<1>1. Min(S) \in S /\ \A n \in S : Min(S) <= n
  BY MinIs
<1>2. m \in Nat /\ Min(S) \in Nat /\ m <= Min(S) /\ Min(S) <= m
  BY <1>1
<1> QED
  BY <1>2

(* What is at slot i of the cluster number j of dir. *)
SlotOf(v, dir, j, i) ==
    LET c == Clusters(v, FirstOf(v, dir))[j]
    IN  IF c \in DOMAIN v.dirs THEN Entry(v.dirs[c], i) ELSE Terminator

(* The slots of a directory are those of its clusters in their order. *)
LEMMA SlotIs ==
    ASSUME NEW v, NEW dir, ClusterCount(v) \in Nat
    PROVE  /\ Len(AllSlots(v, dir)) = ClusterCount(v) * Slots
           /\ \A j \in 0..ClusterCount(v) - 1, i \in 0..Slots - 1 :
                /\ j * Slots + i \in 0..ClusterCount(v) * Slots - 1
                /\ Entry(AllSlots(v, dir), j * Slots + i) = SlotOf(v, dir, j, i)
<1> DEFINE all == AllSlots(v, dir)
           last == ClusterCount(v) * Slots
<1>1. Slots \in Nat \ {0} /\ last \in Nat
  BY VolumeAssumption
<1>2. all = [k \in 1..last |-> LET c == Clusters(v, FirstOf(v, dir))[(k - 1) \div Slots]
                   IN  IF c \in DOMAIN v.dirs THEN Entry(v.dirs[c], (k - 1) % Slots) ELSE Terminator]
  BY DEF AllSlots, ClusterCount
<1>3. Len(all) = last
  BY <1>1, <1>2
<1>4. ASSUME NEW j \in 0..ClusterCount(v) - 1, NEW i \in 0..Slots - 1
      PROVE  /\ j * Slots + i \in 0..last - 1
             /\ Entry(all, j * Slots + i) = SlotOf(v, dir, j, i)
  <2>1. j * Slots + i \in 0..last - 1
    <3>1. (j + 1) * Slots <= last /\ (j + 1) * Slots = j * Slots + Slots /\ j * Slots \in Nat
      BY <1>1, ProductsAgree
    <3> QED
      BY <1>1, <3>1
  <2>2. (j * Slots + i) \div Slots = j /\ (j * Slots + i) % Slots = i
    BY <1>1, <2>1
  <2>3. Entry(all, j * Slots + i) = all[j * Slots + i + 1]
    BY <1>3, <2>1 DEF Entry
  <2>4. PICK n \in {j * Slots + i} : n = j * Slots + i
    OBVIOUS
  <2>5. n + 1 \in 1..last /\ n + 1 - 1 = n
    BY <1>1, <2>1, <2>4
  <2>6. all[n + 1] = LET c == Clusters(v, FirstOf(v, dir))[n \div Slots]
                   IN  IF c \in DOMAIN v.dirs THEN Entry(v.dirs[c], n % Slots) ELSE Terminator
    BY <1>2, <2>5
  <2> QED
    BY <2>1, <2>2, <2>3, <2>4, <2>6 DEF SlotOf
<1> QED
  BY <1>3, <1>4

(* Every slot is in a cluster. *)
LEMMA SlotIn ==
    ASSUME NEW count \in Nat, NEW n \in 0..count * Slots - 1
    PROVE  \E j \in 0..count - 1, i \in 0..Slots - 1 : n = j * Slots + i
<1>1. Slots \in Nat \ {0}
  BY VolumeAssumption
<1>2. PICK j \in Int, i \in 0..Slots - 1 : j = n \div Slots /\ n = j * Slots + i /\ j >= 0
  BY <1>1, DivMod
<1>3. j * Slots < count * Slots
  BY <1>1, <1>2
<1>4. j < count
  BY <1>1, <1>2, <1>3, ProductsAgree
<1> QED
  BY <1>2, <1>4

(* The first two clusters are no clusters of a plain volume, and it has some. *)
LEMMA PlainCount ==
    ASSUME NEW v \in Volumes, PlainVolume(v)
    PROVE  /\ ClusterCount(v) \in Nat \ {0}
           /\ DOMAIN v.fat \subseteq 2..ByteValues - 1
<1>1. DOMAIN v.fat \subseteq 2..ByteValues - 1
  BY DEF PlainVolume
<1>2. IsFiniteSet(2..ByteValues - 1)
  BY FS_Interval, VolumeAssumption
<1>3. ClusterCount(v) \in Nat
  BY <1>1, <1>2, FS_Subset, FS_CardinalityType DEF ClusterCount
<1>4. Ends(v, Root)
  BY DEF PlainVolume
<1>5. \E j \in 0..ClusterCount(v) - 1 : TRUE
  BY <1>4 DEF Ends, ClusterCount
<1> QED
  BY <1>1, <1>3, <1>5

(* What ends a directory, an entry with a name and a part of a name differ. *)
LEMMA Kinds ==
    /\ IsEnd(Terminator) /\ ~IsLong(Terminator) /\ ~IsShort(Terminator)
    /\ \A e : IsEnd(e) => ~IsShort(e) /\ ~IsLong(e)
    /\ \A e : IsShort(e) => ~IsLong(e)
  BY DEF IsEnd, IsLong, IsUsed, IsRemoved, IsShort, Terminator, NoEntry

(* The parts of a long name in front of slot i, as a number with that many. *)
LongBefore(entries, i) == {n \in 0..i : \A k \in 1..n : IsLong(Entry(entries, i - k))}

(* The parts counted in front of an entry are parts of long names. *)
LEMMA PartsIn ==
    ASSUME NEW entries, NEW i \in Nat
    PROVE  Parts(entries, i) \in LongBefore(entries, i)
<1> DEFINE S == LongBefore(entries, i)
<1>1. S \subseteq Nat /\ 0 \in S /\ \A n \in S : n <= i
  BY DEF LongBefore
<1>2. \E x \in S : \A y \in S : x >= y
  <2> HIDE DEF S
  <2> QED
    BY <1>1, GreatestExists
<1> QED
  BY <1>2 DEF Parts, LongBefore, Max

(* The name of a slot is the one it has in its cluster: a long name begins where
   the entry's cluster does, or later. *)
LEMMA NameOfSlot ==
    ASSUME NEW v \in Volumes, PlainVolume(v), NEW dir,
           NEW j \in 0..ClusterCount(v) - 1, NEW i \in 0..Slots - 1,
           Clusters(v, FirstOf(v, dir))[j] \in DOMAIN v.dirs
    PROVE  /\ FileName(AllSlots(v, dir), j * Slots + i) = FileName(v.dirs[Clusters(v, FirstOf(v, dir))[j]], i)
           /\ WithName(AllSlots(v, dir), j * Slots + i) = WithName(v.dirs[Clusters(v, FirstOf(v, dir))[j]], i)
<1> DEFINE all == AllSlots(v, dir)
           here == v.dirs[Clusters(v, FirstOf(v, dir))[j]]
           at == j * Slots + i
<1>1. Slots \in Nat \ {0} /\ ClusterCount(v) \in Nat \ {0} /\ j \in Nat /\ i \in Nat /\ i < Slots
  BY VolumeAssumption, PlainCount
<1>2. at \in Nat /\ i <= at /\ at - i = j * Slots
  BY <1>1
<1>3. \A k \in 0..i : Entry(all, at - k) = Entry(here, i - k)
  <2> SUFFICES ASSUME NEW k \in 0..i PROVE Entry(all, at - k) = Entry(here, i - k)
    OBVIOUS
  <2>1. i - k \in 0..Slots - 1 /\ at - k = j * Slots + (i - k)
    BY <1>1, <1>2
  <2>2. PICK h \in 0..Slots - 1 : h = i - k
    BY <2>1
  <2>3. Entry(all, j * Slots + h) = SlotOf(v, dir, j, h)
    BY <1>1, SlotIs
  <2>4. SlotOf(v, dir, j, h) = Entry(here, h)
    BY DEF SlotOf
  <2> QED
    BY <2>1, <2>2, <2>3, <2>4
<1>4. j # 0 => i + 1 <= at /\ ~IsLong(Entry(all, at - (i + 1)))
  <2> SUFFICES ASSUME j # 0 PROVE i + 1 <= at /\ ~IsLong(Entry(all, at - (i + 1)))
    OBVIOUS
  <2> DEFINE c == Clusters(v, FirstOf(v, dir))[j - 1]
  <2>1. j - 1 \in 0..ClusterCount(v) - 1 /\ Slots - 1 \in 0..Slots - 1
    BY <1>1
  <2>2. j * Slots = (j - 1) * Slots + Slots /\ (j - 1) * Slots \in Nat
    BY <1>1
  <2>3. at - (i + 1) = (j - 1) * Slots + (Slots - 1) /\ i + 1 <= at
    BY <2>2, <1>1, <1>2
  <2>4. Entry(all, (j - 1) * Slots + (Slots - 1)) = SlotOf(v, dir, j - 1, Slots - 1)
    BY <1>1, <2>1, SlotIs
  <2>5. c \in DOMAIN v.dirs => ~IsLong(Entry(v.dirs[c], Slots - 1))
    BY Zenon DEF PlainVolume
  <2>6. ~IsLong(SlotOf(v, dir, j - 1, Slots - 1))
    BY <2>5, Kinds DEF SlotOf
  <2> QED
    BY <2>3, <2>4, <2>6
<1>5. j = 0 => at = i
  BY <1>1
<1>6. LongBefore(all, at) = LongBefore(here, i)
  <2>1. ASSUME NEW n \in LongBefore(here, i) PROVE n \in LongBefore(all, at)
    <3>1. n \in 0..i /\ \A k \in 1..n : IsLong(Entry(here, i - k))
      BY DEF LongBefore
    <3>2. n \in 0..at /\ \A k \in 1..n : k \in 0..i
      BY <1>1, <1>2, <3>1
    <3>3. \A k \in 1..n : IsLong(Entry(all, at - k))
      BY <1>3, <3>1, <3>2
    <3> QED
      BY <3>2, <3>3 DEF LongBefore
  <2>2. ASSUME NEW n \in LongBefore(all, at) PROVE n \in LongBefore(here, i)
    <3>1. n \in 0..at /\ \A k \in 1..n : IsLong(Entry(all, at - k))
      BY DEF LongBefore
    <3>2. n <= i
      <4> SUFFICES ASSUME n > i PROVE FALSE
        BY <1>1, <1>2, <3>1
      <4>1. i + 1 \in 1..n
        BY <1>1, <1>2, <3>1
      <4>2. j # 0
        BY <1>5, <3>1, <1>1
      <4> QED
        BY <1>4, <3>1, <4>1, <4>2
    <3>3. n \in 0..i /\ \A k \in 1..n : k \in 0..i
      BY <1>1, <1>2, <3>1, <3>2
    <3>4. \A k \in 1..n : IsLong(Entry(here, i - k))
      BY <1>3, <3>1, <3>3
    <3> QED
      BY <3>3, <3>4 DEF LongBefore
  <2> QED
    BY <2>1, <2>2
<1>7. Parts(all, at) = Parts(here, i)
  BY <1>6 DEF Parts, LongBefore
<1>8. Entry(all, at) = Entry(here, i)
  <2>1. Entry(all, at - 0) = Entry(here, i - 0)
    BY <1>3, <1>1
  <2> QED
    BY <2>1, <1>1, <1>2
<1>9. [k \in 1..Parts(all, at) |-> Entry(all, at - k).name] = [k \in 1..Parts(here, i) |-> Entry(here, i - k).name]
  <2>1. Parts(here, i) \in 0..i
    BY PartsIn, <1>1 DEF LongBefore
  <2>2. \A k \in 1..Parts(here, i) : k \in 0..i
    BY <2>1, <1>1
  <2>3. \A k \in 1..Parts(here, i) : Entry(all, at - k).name = Entry(here, i - k).name
    BY <2>2, <1>3
  <2> QED
    BY <1>7, <2>3
<1>10. FileName(all, at) = FileName(here, i)
  BY <1>7, <1>8, <1>9, Zenon DEF FileName
<1>11. WithName(all, at) = WithName(here, i)
  BY <1>8, <1>10, Zenon DEF WithName
<1> QED
  BY <1>10, <1>11

(* What is read as the directory cluster c is that cluster. *)
LEMMA EntriesRead ==
    ASSUME NEW v \in Volumes, PlainVolume(v), vol = v, NEW c \in Int
    PROVE  EntriesAt(ReadCluster(c)) = IF c \in DOMAIN v.dirs THEN v.dirs[c] ELSE v.other
<1>1. v.sectors_per_cluster = 1
  BY DEF PlainVolume
<1>2. DataStart \in Int
  BY VolumeAssumption DEF DataStart
<1>3. \A d \in DOMAIN v.dirs : d \in Int
  BY PlainCount, VolumeAssumption
<1>4. \A d \in DOMAIN v.dirs : SectorOf(d) = ReadCluster(c) <=> d = c
  BY <1>1, <1>2, <1>3 DEF SectorOf, ReadCluster
<1> DEFINE here == {d \in DOMAIN v.dirs : SectorOf(d) = ReadCluster(c)}
<1>5. EntriesAt(ReadCluster(c)) = IF here = {} THEN v.other ELSE v.dirs[CHOOSE d \in here : TRUE]
  BY DEF EntriesAt
<1>6. here = {d \in DOMAIN v.dirs : d = c}
  BY <1>4
<1> QED
  BY <1>5, <1>6

(* What is read as the FAT's entry of c is the low byte of that entry, and the whole
   of it when it names a cluster. *)
LEMMA FatRead ==
    ASSUME NEW v \in Volumes, PlainVolume(v), vol = v, NEW c \in DOMAIN v.fat
    PROVE  /\ ReadFatEntry(c) = v.fat[c] % ByteValues /\ ReadFatEntry(c) \in Int
           /\ v.fat[c] \in DOMAIN v.fat => ReadFatEntry(c) = v.fat[c]
<1>1. c \in 2..ByteValues - 1 /\ 4 * c < BytesPerSector /\ (v.fat[c] \in DOMAIN v.fat => v.fat[c] \in 2..ByteValues - 1)
  BY DEF PlainVolume
<1>2. /\ BytesPerSector \in Nat \ {0} /\ ByteValues \in Nat \ {0}
      /\ v.reserved_sector_count \in Nat /\ v.fat_sectors \in Nat \ {0}
  BY VolumeAssumption
<1>3. c \in Nat /\ 4 * c \in Nat /\ (4 * c) % BytesPerSector = 4 * c
  BY <1>1, <1>2, ModSmall
<1>4. FatSector(c) = v.reserved_sector_count
  BY <1>2, <1>3 DEF FatSector
<1>5. FatSector(c) < DataStart
  BY <1>4, <1>2 DEF DataStart
<1>6. ((FatSector(c) - vol.reserved_sector_count) * BytesPerSector + ((4 * c) % BytesPerSector)) \div 4 = c
  <2>1. FatSector(c) - vol.reserved_sector_count = 0
    BY <1>4, <1>2
  <2>2. (4 * c) \div 4 = c /\ 0 * BytesPerSector + 4 * c = 4 * c
    BY <1>2, <1>3
  <2> QED
    BY <2>1, <2>2, <1>3
<1>7. FatEntryOf(c) = v.fat[c]
  BY <1>5, <1>6 DEF FatEntryOf
<1>8. v.fat[c] \in DOMAIN v.fat => v.fat[c] % ByteValues = v.fat[c]
  BY <1>1, <1>2, ModSmall
<1>9. v.fat[c] % ByteValues \in Int
  <2>1. v.fat[c] \in Int
    BY VolumeAssumption
  <2> QED
    BY <2>1, <1>2, DivMod
<1> QED
  BY <1>7, <1>8, <1>9 DEF ReadFatEntry

(* What is no cluster of a directory. *)
Astray(v, c) == c \in Int /\ c \notin DOMAIN v.dirs

(* A search that ends has no slot behind its last cluster.  Its clusters follow one
   another in the FAT, and behind the last full one nothing is found. *)
LEMMA DirectoryGoesOn ==
    ASSUME NEW v \in Volumes, PlainVolume(v), NEW dir, Ends(v, dir), NEW j \in 0..ClusterCount(v) - 1,
           Clusters(v, FirstOf(v, dir))[j] \in DOMAIN v.dirs,
           \A n \in 0..j * Slots - 1 : ~IsEnd(Entry(AllSlots(v, dir), n))
    PROVE  (\A i \in 0..Slots - 1 : ~IsEnd(Entry(v.dirs[Clusters(v, FirstOf(v, dir))[j]], i))) =>
                  \/ /\ j + 1 \in 0..ClusterCount(v) - 1
                     /\ Clusters(v, FirstOf(v, dir))[j + 1] \in DOMAIN v.dirs
                     /\ vol = v => ReadFatEntry(Clusters(v, FirstOf(v, dir))[j]) = Clusters(v, FirstOf(v, dir))[j + 1]
                  \/ /\ IsEnd(Entry(AllSlots(v, dir), (j + 1) * Slots))
                     /\ vol = v => Astray(v, ReadFatEntry(Clusters(v, FirstOf(v, dir))[j]))
<1> DEFINE f == Clusters(v, FirstOf(v, dir))
           all == AllSlots(v, dir)
<1>1. Slots \in Nat \ {0} /\ ClusterCount(v) \in Nat \ {0} /\ j \in Nat
  BY VolumeAssumption, PlainCount
<1>2. PICK last \in 0..ClusterCount(v) - 1 :
          /\ \A h \in 0..last : f[h] \in DOMAIN v.dirs
          /\ \/ \E i \in 0..Slots - 1 : IsEnd(Entry(v.dirs[f[last]], i))
             \/ v.fat[f[last]] >= LastCluster /\ v.fat[f[last]] % ByteValues \notin DOMAIN v.dirs
  BY Zenon DEF Ends, ClusterCount
<1>10. DOMAIN v.dirs \subseteq DOMAIN v.fat
  BY VolumeAssumption
<1>11. \A n \in 0..ClusterCount(v) - 1 : f[n] \in DOMAIN v.fat => f[n + 1] = v.fat[f[n]]
  <2> SUFFICES ASSUME NEW n \in 0..ClusterCount(v) - 1, f[n] \in DOMAIN v.fat PROVE f[n + 1] = v.fat[f[n]]
    OBVIOUS
  <2>1. n + 1 \in 1..ClusterCount(v) /\ n + 1 - 1 = n
    BY <1>1
  <2>2. f[n + 1] = NextOf(v, f[n])
    BY ClustersFollow, <1>1, <2>1
  <2> QED
    BY <2>2 DEF NextOf
<1>13. \A c \in DOMAIN v.dirs : c \in Int /\ c < LastCluster
  BY <1>10, PlainCount, VolumeAssumption
(* the slots of a cluster behind the last, and the slot behind all clusters *)
<1>12. ASSUME v.fat[f[last]] >= LastCluster, f[last] \in DOMAIN v.fat
       PROVE  IsEnd(Entry(all, (last + 1) * Slots))
  <2>1. f[last + 1] = v.fat[f[last]]
    BY <1>11, <1>12
  <2>2. f[last + 1] \notin DOMAIN v.dirs
    <3>1. \A c \in DOMAIN v.dirs : c \in Int /\ c < LastCluster
      BY <1>13
    <3>2. v.fat[f[last]] \in Int /\ LastCluster \in Int
      BY <1>12, VolumeAssumption
    <3> QED
      BY <2>1, <3>1, <3>2, <1>12
  <2>3. CASE last + 1 \in 0..ClusterCount(v) - 1
    <3>1. PICK k \in 0..ClusterCount(v) - 1 : k = last + 1
      BY <2>3
    <3>2. Entry(all, k * Slots + 0) = SlotOf(v, dir, k, 0) /\ k * Slots + 0 = (last + 1) * Slots
      BY <1>1, <3>1, SlotIs
    <3>3. SlotOf(v, dir, k, 0) = Terminator
      BY <2>2, <3>1 DEF SlotOf
    <3> QED
      BY <3>2, <3>3, Kinds
  <2>4. CASE last + 1 = ClusterCount(v)
    <3>1. Len(all) = (last + 1) * Slots
      BY <1>1, <2>4, SlotIs
    <3>2. Entry(all, (last + 1) * Slots) = Terminator
      <4>1. PICK n \in Nat : n = (last + 1) * Slots /\ ~(n < Len(all))
        BY <1>1, <3>1
      <4> HIDE DEF all
      <4> QED
        BY <4>1 DEF Entry
    <3> QED
      BY <3>2, Kinds
  <2> QED
    BY <2>3, <2>4, <1>1
<1>3. ASSUME NEW i \in 0..Slots - 1
      PROVE  Entry(all, last * Slots + i) = Entry(v.dirs[f[last]], i)
  <2>1. Entry(all, last * Slots + i) = SlotOf(v, dir, last, i)
    BY <1>1, SlotIs
  <2>2. f[last] \in DOMAIN v.dirs
    BY <1>2
  <2> QED
    BY <2>1, <2>2 DEF SlotOf
<1>14. f[last] \in DOMAIN v.fat => v.fat[f[last]] \in Int /\ LastCluster \in Int
  BY VolumeAssumption
<1>4. j <= last
  <2> SUFFICES ASSUME last < j PROVE FALSE
    BY <1>1
  <2>1. (last + 1) * Slots <= j * Slots /\ (last + 1) * Slots = last * Slots + Slots /\ last * Slots \in Nat
    BY <1>1, ProductsAgree
  <2>2. CASE \E i \in 0..Slots - 1 : IsEnd(Entry(v.dirs[f[last]], i))
    <3>1. PICK i \in 0..Slots - 1 : IsEnd(Entry(v.dirs[f[last]], i))
      BY <2>2
    <3>2. last * Slots + i \in 0..j * Slots - 1
      BY <1>1, <2>1
    <3> QED
      BY <3>1, <3>2, <1>3
  <2>3. CASE v.fat[f[last]] >= LastCluster
    <3>1. f[last + 1] = v.fat[f[last]] /\ f[last] \in DOMAIN v.fat
      BY <1>2, <1>10, <1>11
    <3>2. IsEnd(Entry(all, (last + 1) * Slots))
      BY <2>3, <3>1, <1>12
    <3>4. j # last + 1
      BY <3>1, <2>3, <1>13, <1>14
    <3>5. ~(last + 1 < j)
      <4> SUFFICES ASSUME last + 1 < j PROVE FALSE
        OBVIOUS
      <4>1. (last + 1) * Slots < j * Slots /\ (last + 1) * Slots \in Nat
        BY <1>1, ProductsAgree
      <4>2. (last + 1) * Slots \in 0..j * Slots - 1
        BY <4>1, <1>1
      <4> QED
        BY <4>2, <3>2
    <3> QED
      BY <3>4, <3>5, <1>1
  <2> QED
    BY <1>2, <2>2, <2>3
<1>6. ASSUME \A i \in 0..Slots - 1 : ~IsEnd(Entry(v.dirs[f[j]], i)), j # last
      PROVE  /\ j + 1 \in 0..ClusterCount(v) - 1 /\ f[j + 1] \in DOMAIN v.dirs
             /\ vol = v => ReadFatEntry(f[j]) = f[j + 1]
  <2>1. j + 1 \in 0..ClusterCount(v) - 1 /\ j + 1 \in 0..last
    BY <1>1, <1>4, <1>6
  <2>2. f[j + 1] \in DOMAIN v.dirs
    BY <1>2, <2>1
  <2>3. f[j + 1] = v.fat[f[j]] /\ f[j] \in DOMAIN v.fat /\ v.fat[f[j]] \in DOMAIN v.fat
    BY <1>10, <1>11, <2>2
  <2>4. vol = v => ReadFatEntry(f[j]) = v.fat[f[j]]
    <3> HIDE DEF f
    <3> QED
      BY <2>3, FatRead
  <2> QED
    BY <2>1, <2>2, <2>3, <2>4
<1>7. ASSUME \A i \in 0..Slots - 1 : ~IsEnd(Entry(v.dirs[f[j]], i)), j = last
      PROVE  IsEnd(Entry(all, (j + 1) * Slots)) /\ (vol = v => Astray(v, ReadFatEntry(f[j])))
  <2>1. v.fat[f[j]] >= LastCluster /\ v.fat[f[j]] % ByteValues \notin DOMAIN v.dirs
    BY <1>2, <1>7
  <2>2. f[j] \in DOMAIN v.fat
    BY <1>10
  <2>3. IsEnd(Entry(all, (j + 1) * Slots))
    BY <1>7, <1>12, <2>1, <2>2
  <2>4. vol = v => ReadFatEntry(f[j]) = v.fat[f[j]] % ByteValues /\ ReadFatEntry(f[j]) \in Int
    <3> HIDE DEF f
    <3> QED
      BY <2>2, FatRead
  <2> QED
    BY <2>1, <2>3, <2>4 DEF Astray
<1> QED
  BY <1>6, <1>7

(* A search that ends begins in a directory's cluster. *)
LEMMA DirectoryBegins ==
    ASSUME NEW v \in Volumes, PlainVolume(v), NEW dir, Ends(v, dir)
    PROVE  Clusters(v, FirstOf(v, dir))[0] \in DOMAIN v.dirs
<1>1. \E j \in 0..ClusterCount(v) - 1 : \A h \in 0..j : Clusters(v, FirstOf(v, dir))[h] \in DOMAIN v.dirs
  BY Zenon DEF Ends, ClusterCount
<1>2. ClusterCount(v) \in Nat \ {0}
  BY PlainCount
<1> QED
  BY <1>1, <1>2

LiveBefore(all, n) == {k \in 0..n - 1 : IsShort(Entry(all, k))}

(* The live entries are the short ones in front of the first that ends the slots. *)
LEMMA LiveIs ==
    ASSUME NEW all, Len(all) \in Nat, NEW n \in 0..Len(all), \A k \in 0..n - 1 : ~IsEnd(Entry(all, k))
    PROVE  /\ IsEnd(Entry(all, n)) => Live(all) = LiveBefore(all, n)
           /\ {k \in Live(all) : k < n} = LiveBefore(all, n)
           /\ IsShort(Entry(all, n)) => n \in Live(all)
<1> DEFINE S == {k \in 0..Len(all) : IsEnd(Entry(all, k))}
           end == Min(S)
<1>1. Len(all) \in S
  <2>1. Entry(all, Len(all)) = Terminator
    BY DEF Entry
  <2> QED
    BY <2>1, Kinds
<1>2. S \subseteq Nat
  OBVIOUS
<1>3. end \in S /\ \A k \in S : end <= k
  <2> HIDE DEF S
  <2> QED
    BY <1>1, <1>2, MinIs
<1>4. Live(all) = {k \in 0..end - 1 : IsShort(Entry(all, k))}
  BY DEF Live
<1>5. end \in 0..Len(all) /\ IsEnd(Entry(all, end))
  BY <1>3
<1>6. n <= end
  BY <1>5
<1>7. IsEnd(Entry(all, n)) => end = n
  <2> SUFFICES ASSUME IsEnd(Entry(all, n)) PROVE end = n
    OBVIOUS
  <2>1. n \in S
    OBVIOUS
  <2>2. end <= n
    BY <2>1, <1>3
  <2> QED
    BY <2>2, <1>5, <1>6
<1>8. IsShort(Entry(all, n)) => n < end
  <2> SUFFICES ASSUME IsShort(Entry(all, n)) PROVE n # end
    BY <1>5, <1>6
  <2>1. ~IsEnd(Entry(all, n))
    BY Kinds
  <2> QED
    BY <2>1, <1>5
<1> HIDE DEF end
<1>9. IsEnd(Entry(all, n)) => Live(all) = LiveBefore(all, n)
  BY <1>4, <1>7 DEF LiveBefore
<1>10. {k \in Live(all) : k < n} = LiveBefore(all, n)
  BY <1>4, <1>5, <1>6 DEF LiveBefore
<1>11. IsShort(Entry(all, n)) => n \in Live(all)
  BY <1>4, <1>5, <1>8
<1> QED
  BY <1>9, <1>10, <1>11

(* No slot in front of n is the last, or has the name. *)
PassedOver(all, n, name) ==
    \A k \in 0..n - 1 : ~IsEnd(Entry(all, k)) /\ ~(IsShort(Entry(all, k)) /\ FileName(all, k) = name)

(* A search finds the entry behind those that were passed over, or the end. *)
LEMMA SearchFinds ==
    ASSUME NEW v, NEW dir, Len(AllSlots(v, dir)) \in Nat,
           NEW n \in 0..Len(AllSlots(v, dir)), NEW name, PassedOver(AllSlots(v, dir), n, name)
    PROVE  /\ IsShort(Entry(AllSlots(v, dir), n)) /\ FileName(AllSlots(v, dir), n) = name =>
                  Found(v, dir, name) = WithName(AllSlots(v, dir), n)
           /\ IsEnd(Entry(AllSlots(v, dir), n)) => Found(v, dir, name) = NoEntry
<1> DEFINE all == AllSlots(v, dir)
           found == {k \in Live(all) : FileName(all, k) = name}
<1>1. Found(v, dir, name) = IF found = {} THEN NoEntry ELSE WithName(all, Min(found))
  BY Zenon DEF Found
<1>2. /\ \A k \in 0..n - 1 : ~IsEnd(Entry(all, k))
      /\ \A k \in 0..n - 1 : ~(IsShort(Entry(all, k)) /\ FileName(all, k) = name)
  BY DEF PassedOver
<1>3. /\ IsEnd(Entry(all, n)) => Live(all) = LiveBefore(all, n)
      /\ {k \in Live(all) : k < n} = LiveBefore(all, n)
      /\ IsShort(Entry(all, n)) => n \in Live(all)
  <2>1. Len(all) \in Nat /\ n \in 0..Len(all)
    OBVIOUS
  <2>2. \A k \in 0..n - 1 : ~IsEnd(Entry(all, k))
    BY <1>2
  <2> HIDE DEF all
  <2> QED
    BY <2>1, <2>2, LiveIs
<1>4. \A k \in LiveBefore(all, n) : FileName(all, k) # name
  BY <1>2 DEF LiveBefore
<1>5. Live(all) \subseteq Nat
  BY DEF Live
<1>6. ASSUME IsShort(Entry(all, n)), FileName(all, n) = name
      PROVE  Found(v, dir, name) = WithName(all, n)
  <2>1. n \in found
    BY <1>3, <1>6
  <2>2. \A k \in found : n <= k
    <3> SUFFICES ASSUME NEW k \in found, k < n PROVE FALSE
      BY <1>5
    <3> QED
      BY <1>3, <1>4
  <2>3. found \subseteq Nat
    BY <1>5
  <2>4. Min(found) = n
    <3> HIDE DEF found
    <3> QED
      BY <2>1, <2>2, <2>3, MinOnly
  <2> QED
    BY <1>1, <2>1, <2>4
<1>7. ASSUME IsEnd(Entry(all, n))
      PROVE  Found(v, dir, name) = NoEntry
  BY <1>1, <1>3, <1>4, <1>7
<1> QED
  BY <1>6, <1>7

(* What is found is the entry of a slot. *)
LEMMA FoundIn ==
    ASSUME NEW v \in Volumes, PlainVolume(v), NEW dir, NEW name, Found(v, dir, name) # NoEntry
    PROVE  \E c \in DOMAIN v.dirs, i \in 0..Slots - 1 :
              IsShort(Entry(v.dirs[c], i)) /\ Found(v, dir, name) = WithName(v.dirs[c], i)
<1> DEFINE all == AllSlots(v, dir)
           found == {k \in Live(all) : FileName(all, k) = name}
<1>1. Found(v, dir, name) = WithName(all, Min(found)) /\ found # {}
  BY Zenon DEF Found
<1>2. found \subseteq Nat
  BY DEF Live
<1>3. Min(found) \in found
  <2> HIDE DEF found
  <2> QED
    BY <1>1, <1>2, MinIs
<1>4. PICK n \in Live(all) : n = Min(found)
  BY <1>3
<1>5. ClusterCount(v) \in Nat /\ Slots \in Nat \ {0}
  BY PlainCount, VolumeAssumption
<1>6. Len(all) = ClusterCount(v) * Slots
  BY SlotIs, <1>5
<1>7. n \in Nat /\ IsShort(Entry(all, n))
  BY DEF Live
<1>8. n < Len(all)
  <2> SUFFICES ASSUME n >= Len(all) PROVE FALSE
    BY <1>5, <1>6, <1>7
  <2>1. Entry(all, n) = Terminator
    BY <1>5, <1>6, <1>7 DEF Entry
  <2> QED
    BY <2>1, <1>7, Kinds
<1>9. PICK j \in 0..ClusterCount(v) - 1, i \in 0..Slots - 1 : n = j * Slots + i
  <2>1. n \in 0..ClusterCount(v) * Slots - 1
    BY <1>5, <1>6, <1>7, <1>8
  <2> QED
    BY <2>1, <1>5, SlotIn
<1> DEFINE c == Clusters(v, FirstOf(v, dir))[j]
<1>10. Entry(all, n) = SlotOf(v, dir, j, i)
  BY <1>5, <1>9, SlotIs
<1>11. c \in DOMAIN v.dirs /\ Entry(all, n) = Entry(v.dirs[c], i)
  BY <1>10, <1>7, Kinds DEF SlotOf
<1>12. WithName(all, n) = WithName(v.dirs[c], i)
  BY <1>9, <1>11, NameOfSlot
<1> QED
  BY <1>1, <1>4, <1>7, <1>11, <1>12

Shape(e) ==
    /\ e = [kind |-> e.kind, name |-> e.name, dir |-> e.dir, first |-> e.first, size |-> e.size]
    /\ e.dir \in BOOLEAN /\ e.first \in Nat /\ e.size \in Nat

(* Two entries that differ in their names only. *)
Same(d, e) == d.kind = e.kind /\ d.dir = e.dir /\ d.first = e.first /\ d.size = e.size

(* What a path can name. *)
IsNode(v, e) == Shape(e) /\ (IF e.dir THEN Ends(v, e) ELSE Lasts(v, e))

(* Another name changes nothing else of an entry. *)
LEMMA Renamed ==
    ASSUME NEW e, Shape(e), NEW other
    PROVE  /\ Shape([e EXCEPT !.name = other])
           /\ Same(e, [e EXCEPT !.name = other])
  BY DEF Shape, Same

(* The entries of a plain volume. *)
LEMMA EntriesAre ==
    ASSUME NEW v \in Volumes, PlainVolume(v), NEW c \in DOMAIN v.dirs, NEW i \in 0..Slots - 1
    PROVE  /\ IsEntry(Entry(v.dirs[c], i)) /\ Shape(Entry(v.dirs[c], i))
           /\ Shape(WithName(v.dirs[c], i)) /\ Same(Entry(v.dirs[c], i), WithName(v.dirs[c], i))
<1> DEFINE e == Entry(v.dirs[c], i)
           w == WithName(v.dirs[c], i)
<1>1. e \in EntriesOf(v)
  BY DEF EntriesOf
<1>2. IsEntry(e)
  BY <1>1, Zenon DEF PlainVolume
<1>3. Shape(e)
  BY <1>2, Zenon DEF IsEntry, Shape
<1>4. Shape(w) /\ Same(e, w)
  <2>1. w = [e EXCEPT !.name = FileName(v.dirs[c], i)]
    BY DEF WithName
  <2> HIDE DEF e, w
  <2>2. PICK other \in {FileName(v.dirs[c], i)} : w = [e EXCEPT !.name = other]
    BY <2>1
  <2> QED
    BY <2>2, <1>3, Renamed
<1> QED
  BY <1>2, <1>3, <1>4 DEF e, w

(* What is found is an entry with a name, never the root. *)
LEMMA FoundIs ==
    ASSUME NEW v \in Volumes, PlainVolume(v), NEW dir, NEW name
    PROVE  Shape(Found(v, dir, name)) /\ Found(v, dir, name).kind # "root"
<1>1. CASE Found(v, dir, name) = NoEntry
  BY <1>1 DEF NoEntry, Shape
<1>2. CASE Found(v, dir, name) # NoEntry
  <2>1. PICK c \in DOMAIN v.dirs, i \in 0..Slots - 1 :
              IsShort(Entry(v.dirs[c], i)) /\ Found(v, dir, name) = WithName(v.dirs[c], i)
    BY <1>2, FoundIn
  <2>2. Shape(WithName(v.dirs[c], i)) /\ Same(Entry(v.dirs[c], i), WithName(v.dirs[c], i))
    BY EntriesAre
  <2> QED
    BY <2>1, <2>2, Zenon DEF Same, IsShort
<1> QED
  BY <1>1, <1>2

(* What is looked up is an entry of the volume, and never the root. *)
LEMMA LookedUp ==
    ASSUME NEW v \in Volumes, PlainVolume(v), NEW dir, NEW name
    PROVE  Shape(Lookup(v, dir, name)) /\ Lookup(v, dir, name).kind # "root"
<1>1. Shape(NoEntry) /\ NoEntry.kind # "root"
  BY DEF NoEntry, Shape
<1> QED
  BY <1>1, FoundIs, Zenon DEF Lookup

(* The cluster the driver begins with; 0 is not taken for the root's. *)
Start(v, e) == IF e.kind = "root" THEN v.root_cluster ELSE e.first

(* A search that ends begins where the directory does. *)
LEMMA StartIs ==
    ASSUME NEW v, NEW e, e.kind = "root" => e = Root
    PROVE  /\ Ends(v, e) => Start(v, e) = FirstOf(v, e)
           /\ Start(v, Root) = v.root_cluster
<1>1. Root.kind = "root" /\ Root.first = 0
  BY DEF Root
<1>2. Ends(v, e) => e.kind = "root" \/ e.first # 0
  BY Zenon DEF Ends
<1> QED
  BY <1>1, <1>2, Zenon DEF Start, FirstOf

(* The root and the answer "none". *)
LEMMA NothingIs ==
    /\ Shape(NoEntry) /\ ~NoEntry.dir /\ NoEntry.kind # "root" /\ NoEntry.size = 0
    /\ Shape(Root) /\ Root.dir /\ Root # NoEntry /\ Root.kind = "root"
<1>1. Shape(NoEntry) /\ NoEntry.dir = FALSE /\ NoEntry.kind = "none" /\ NoEntry.size = 0
  BY DEF Shape, NoEntry
<1>2. Shape(Root) /\ Root.dir = TRUE /\ Root.kind = "root"
  <2>1. Root = [kind |-> "root", name |-> <<>>, dir |-> TRUE, first |-> 0, size |-> 0]
    BY DEF Root
  <2>2. Root.kind = "root" /\ Root.name = <<>> /\ Root.dir = TRUE /\ Root.first = 0 /\ Root.size = 0
    BY <2>1
  <2> QED
    BY <2>1, <2>2, Zenon DEF Shape
<1> QED
  BY <1>1, <1>2

(* Every name of a path leads to an entry, and from nothing to nothing; the root is
   at the beginning only. *)
LEMMA PlacesAre ==
    ASSUME NEW v \in Volumes, PlainVolume(v), NEW path, Len(path) \in Nat, NEW m \in 0..Len(path)
    PROVE  /\ Shape(Places(v, path)[m])
           /\ Places(v, path)[m].kind = "root" => m = 0 /\ Places(v, path)[m] = Root
           /\ Places(v, path)[m] = NoEntry => Places(v, path)[Len(path)] = NoEntry
<1> DEFINE at == Places(v, path)
<1>1. at[0] = Root /\ \A n \in 1..Len(path) : at[n] = Lookup(v, at[n - 1], path[n])
  BY PlacesFollow
<1> HIDE DEF at
<1>2. Shape(at[m]) /\ (at[m].kind = "root" => m = 0 /\ at[m] = Root)
  <2>1. CASE m = 0
    BY <2>1, <1>1, NothingIs
  <2>2. CASE m # 0
    <3>1. at[m] = Lookup(v, at[m - 1], path[m])
      BY <1>1, <2>2
    <3>2. PICK d \in {at[m - 1]}, name \in {path[m]} : d = at[m - 1] /\ name = path[m]
      OBVIOUS
    <3>3. Shape(Lookup(v, d, name)) /\ Lookup(v, d, name).kind # "root"
      BY LookedUp
    <3> QED
      BY <3>1, <3>2, <3>3
  <2> QED
    BY <2>1, <2>2
<1>3. \A n \in 1..Len(path) : at[n - 1] = NoEntry => at[n] = NoEntry
  <2>1. \A name : Lookup(v, NoEntry, name) = NoEntry
    BY NothingIs, Zenon DEF Lookup
  <2> QED
    BY <1>1, <2>1
<1>4. at[m] = NoEntry => at[Len(path)] = NoEntry
  <2> SUFFICES ASSUME at[m] = NoEntry, at[Len(path)] # NoEntry PROVE FALSE
    OBVIOUS
  <2> DEFINE T == {n \in m..Len(path) : at[n] # NoEntry}
  <2>1. T \subseteq Nat /\ Len(path) \in T
    OBVIOUS
  <2>2. PICK n \in T : \A k \in T : n <= k
    <3> HIDE DEF T
    <3> QED
      BY <2>1, LeastExists
  <2>3. n # m /\ n \in 1..Len(path) /\ n - 1 \in m..Len(path)
    BY <2>2
  <2>4. at[n - 1] # NoEntry
    BY <1>3, <2>2, <2>3
  <2> QED
    BY <2>2, <2>3, <2>4
<1> QED
  BY <1>2, <1>4 DEF at

(* How many live slots lie in front of slot n. *)
LEMMA LiveStep ==
    ASSUME NEW all, NEW n \in Nat
    PROVE  /\ IsFiniteSet(LiveBefore(all, n)) /\ Cardinality(LiveBefore(all, n)) \in Nat
           /\ IsShort(Entry(all, n)) =>
                /\ LiveBefore(all, n + 1) = LiveBefore(all, n) \cup {n}
                /\ Cardinality(LiveBefore(all, n + 1)) = Cardinality(LiveBefore(all, n)) + 1
           /\ ~IsShort(Entry(all, n)) => LiveBefore(all, n + 1) = LiveBefore(all, n)
<1>1. IsFiniteSet(0..n - 1)
  BY FS_Interval
<1>2. LiveBefore(all, n) \subseteq 0..n - 1
  BY DEF LiveBefore
<1>3. IsFiniteSet(LiveBefore(all, n)) /\ Cardinality(LiveBefore(all, n)) \in Nat
  BY <1>1, <1>2, FS_Subset, FS_CardinalityType
<1>4. LiveBefore(all, n + 1) = IF IsShort(Entry(all, n)) THEN LiveBefore(all, n) \cup {n} ELSE LiveBefore(all, n)
  <2>1. 0..n + 1 - 1 = (0..n - 1) \cup {n}
    OBVIOUS
  <2> QED
    BY <2>1 DEF LiveBefore
<1>5. n \notin LiveBefore(all, n)
  BY <1>2
<1>6. Cardinality(LiveBefore(all, n) \cup {n}) = Cardinality(LiveBefore(all, n)) + 1
  BY <1>3, <1>5, FS_AddElement
<1> QED
  BY <1>3, <1>4, <1>6

(* The live entries in front of a slot are not fewer in front of a later one. *)
LEMMA LiveGrows ==
    ASSUME NEW all, NEW n \in Nat, NEW m \in Nat, m <= n
    PROVE  Cardinality(LiveBefore(all, m)) <= Cardinality(LiveBefore(all, n))
<1>1. LiveBefore(all, m) \subseteq LiveBefore(all, n)
  BY DEF LiveBefore
<1> QED
  BY <1>1, LiveStep, FS_Subset

(* Every number below their number is that of a live slot. *)
LEMMA LiveNth ==
    ASSUME NEW all, NEW n \in Nat, NEW q \in Nat, q < Cardinality(LiveBefore(all, n))
    PROVE  \E k \in LiveBefore(all, n) : Cardinality(LiveBefore(all, k)) = q
<1> DEFINE T == {k \in 0..n : q < Cardinality(LiveBefore(all, k))}
<1>1. T \subseteq Nat /\ n \in T
  OBVIOUS
<1>2. PICK k \in T : \A m \in T : k <= m
  <2> HIDE DEF T
  <2> QED
    BY <1>1, LeastExists
<1>3. k \in 0..n /\ q < Cardinality(LiveBefore(all, k))
  BY <1>2
<1>4. k # 0
  <2>1. LiveBefore(all, 0) = {}
    BY DEF LiveBefore
  <2>2. Cardinality(LiveBefore(all, 0)) = 0
    BY <2>1, FS_EmptySet
  <2> QED
    BY <1>3, <2>2
<1>5. PICK m \in Nat : k = m + 1
  <2>1. k - 1 \in Nat /\ k = k - 1 + 1
    BY <1>3, <1>4
  <2> QED
    BY <2>1
<1>6. m \in 0..n - 1 /\ m \notin T
  BY <1>2, <1>3, <1>5
<1>7. ~(q < Cardinality(LiveBefore(all, m)))
  BY <1>6
<1>8. Cardinality(LiveBefore(all, m)) \in Nat
  BY LiveStep
<1>9. IsShort(Entry(all, m)) /\ Cardinality(LiveBefore(all, k)) = Cardinality(LiveBefore(all, m)) + 1
  <2>1. CASE IsShort(Entry(all, m))
    BY <2>1, <1>5, LiveStep
  <2>2. CASE ~IsShort(Entry(all, m))
    <3>1. LiveBefore(all, k) = LiveBefore(all, m)
      BY <2>2, <1>5, LiveStep
    <3> QED
      BY <3>1, <1>3, <1>7
  <2> QED
    BY <2>1, <2>2
<1>10. Cardinality(LiveBefore(all, m)) = q
  BY <1>3, <1>7, <1>8, <1>9
<1> QED
  BY <1>6, <1>9, <1>10 DEF LiveBefore

(* The content of a directory: the live slot with q live ones in front of it is
   number q of it, and there is none when there are not that many. *)
LEMMA ContentIs ==
    ASSUME NEW v, NEW dir, Len(AllSlots(v, dir)) \in Nat, NEW n \in 0..Len(AllSlots(v, dir)),
           \A k \in 0..n - 1 : ~IsEnd(Entry(AllSlots(v, dir), k))
    PROVE  /\ IsShort(Entry(AllSlots(v, dir), n)) =>
                LET q == Cardinality(LiveBefore(AllSlots(v, dir), n))
                IN  q < Len(Content(v, dir)) /\ Content(v, dir)[q + 1] = WithName(AllSlots(v, dir), n)
           /\ IsEnd(Entry(AllSlots(v, dir), n)) =>
                Len(Content(v, dir)) = Cardinality(LiveBefore(AllSlots(v, dir), n))
<1> DEFINE all == AllSlots(v, dir)
           live == Live(all)
           upTo(k) == {m \in live : m <= k}
           nth(k) == CHOOSE h \in live : Cardinality(upTo(h)) = k
<1>1. Content(v, dir) = [k \in 1..Cardinality(live) |-> WithName(all, nth(k))]
  BY Zenon DEF Content
<1>2. /\ IsEnd(Entry(all, n)) => live = LiveBefore(all, n)
      /\ {k \in live : k < n} = LiveBefore(all, n)
      /\ IsShort(Entry(all, n)) => n \in live
  <2>1. PICK slots \in {all} : slots = all
    OBVIOUS
  <2>2. Len(slots) \in Nat /\ n \in 0..Len(slots) /\ \A k \in 0..n - 1 : ~IsEnd(Entry(slots, k))
    BY <2>1
  <2>3. /\ IsEnd(Entry(slots, n)) => Live(slots) = LiveBefore(slots, n)
        /\ {k \in Live(slots) : k < n} = LiveBefore(slots, n)
        /\ IsShort(Entry(slots, n)) => n \in Live(slots)
    BY <2>2, LiveIs
  <2> QED
    BY <2>1, <2>3
<1>3. live \subseteq Nat /\ IsFiniteSet(live) /\ Cardinality(live) \in Nat
  <2> DEFINE end == Min({m \in 0..Len(all) : IsEnd(Entry(all, m))})
  <2>1. live = {m \in 0..end - 1 : IsShort(Entry(all, m))}
    BY DEF Live
  <2>2. end \in Nat
    <3> DEFINE S == {m \in 0..Len(all) : IsEnd(Entry(all, m))}
    <3>1. S \subseteq Nat /\ Len(all) \in S
      <4>1. Entry(all, Len(all)) = Terminator
        BY DEF Entry
      <4> QED
        BY <4>1, Kinds
    <3>2. Min(S) \in S
      <4> HIDE DEF S
      <4> QED
        BY <3>1, MinIs
    <3> QED
      BY <3>1, <3>2
  <2> HIDE DEF end
  <2>3. IsFiniteSet(0..end - 1)
    BY <2>2, FS_Interval
  <2> HIDE DEF live
  <2>4. live \subseteq 0..end - 1
    BY <2>1
  <2>5. IsFiniteSet(live)
    BY <2>3, <2>4, FS_Subset
  <2>6. live \subseteq Nat
    BY <2>2, <2>4
  <2> QED
    BY <2>5, <2>6, FS_CardinalityType
<1>4. IsFiniteSet(LiveBefore(all, n)) /\ Cardinality(LiveBefore(all, n)) \in Nat
  BY LiveStep
<1> DEFINE q == Cardinality(LiveBefore(all, n))
<1>5. ASSUME IsShort(Entry(all, n))
      PROVE  q < Cardinality(live) /\ nth(q + 1) = n
  <2>1. n \in live /\ n \in Nat
    BY <1>2, <1>5
  <2>2. upTo(n) = LiveBefore(all, n) \cup {n} /\ n \notin LiveBefore(all, n)
    BY <1>2, <1>3, <2>1
  <2> HIDE DEF live
  <2>3. Cardinality(upTo(n)) = q + 1
    BY <1>4, <2>2, FS_AddElement
  <2>4. q + 1 <= Cardinality(live)
    <3>1. upTo(n) \subseteq live
      OBVIOUS
    <3> QED
      BY <1>3, <2>3, <3>1, FS_Subset
  <2>5. \A h \in live : Cardinality(upTo(h)) = q + 1 => h = n
    <3> SUFFICES ASSUME NEW h \in live, Cardinality(upTo(h)) = q + 1 PROVE h = n
      OBVIOUS
    <3>1. IsFiniteSet(upTo(h)) /\ IsFiniteSet(upTo(n))
      BY <1>3, FS_Subset
    <3>2. CASE h < n
      <4>1. upTo(h) \subseteq upTo(n) /\ n \in upTo(n) /\ n \notin upTo(h)
        <5>1. h \in Nat /\ n \in Nat
          BY <1>3, <2>1
        <5>2. \A m \in live : m <= h => m <= n
          <6>1. \A m \in live : m \in Nat
            BY <1>3
          <6> QED
            BY <6>1, <5>1, <3>2
        <5>3. n <= n /\ ~(n <= h)
          BY <5>1, <3>2
        <5> QED
          BY <5>2, <5>3, <2>1, Zenon
      <4> HIDE DEF upTo
      <4>2. PICK A \in {upTo(h)}, B \in {upTo(n)} : A = upTo(h) /\ B = upTo(n)
        OBVIOUS
      <4>3. A \in SUBSET B /\ A # B /\ IsFiniteSet(B)
        BY <4>1, <4>2, <3>1
      <4>4. Cardinality(B) # Cardinality(A)
        BY <4>3, FS_Subset
      <4> QED
        BY <4>2, <4>4, <2>3
    <3>3. CASE n < h
      <4>1. upTo(n) \subseteq upTo(h) /\ h \in upTo(h) /\ h \notin upTo(n)
        <5>1. h \in Nat /\ n \in Nat
          BY <1>3, <2>1
        <5>2. \A m \in live : m <= n => m <= h
          <6>1. \A m \in live : m \in Nat
            BY <1>3
          <6> QED
            BY <6>1, <5>1, <3>3
        <5>3. h <= h /\ ~(h <= n)
          BY <5>1, <3>3
        <5> QED
          BY <5>2, <5>3, <2>1, Zenon
      <4> HIDE DEF upTo
      <4>2. PICK A \in {upTo(n)}, B \in {upTo(h)} : A = upTo(n) /\ B = upTo(h)
        OBVIOUS
      <4>3. A \in SUBSET B /\ A # B /\ IsFiniteSet(B)
        BY <4>1, <4>2, <3>1
      <4>4. Cardinality(B) # Cardinality(A)
        BY <4>3, FS_Subset
      <4> QED
        BY <4>2, <4>4, <2>3
    <3> QED
      BY <3>2, <3>3, <1>3, <2>1
  <2>6. nth(q + 1) = n
    BY <2>1, <2>3, <2>5
  <2> QED
    BY <2>4, <2>6, <1>3, <1>4
<1>6. ASSUME IsShort(Entry(all, n))
      PROVE  q < Len(Content(v, dir)) /\ Content(v, dir)[q + 1] = WithName(all, n)
  <2>1. q < Cardinality(live) /\ nth(q + 1) = n
    BY <1>5, <1>6
  <2>2. q + 1 \in 1..Cardinality(live)
    BY <2>1, <1>3, <1>4
  <2> HIDE DEF live, nth, q
  <2> QED
    BY <1>1, <1>3, <2>1, <2>2
<1>7. ASSUME IsEnd(Entry(all, n))
      PROVE  Len(Content(v, dir)) = q
  <2>1. live = LiveBefore(all, n)
    BY <1>2, <1>7
  <2> HIDE DEF nth, live
  <2>2. Len(Content(v, dir)) = Cardinality(live)
    BY <1>1, <1>3
  <2> QED
    BY <2>1, <2>2
<1> QED
  BY <1>6, <1>7

(* The slots that are looked at end where the entries do, or with the cluster. *)
LEMMA LookedIs ==
    ASSUME NEW entries
    PROVE  /\ Looked(entries) \in 0..Slots
           /\ \A i \in 0..Looked(entries) - 1 : ~IsEnd(Entry(entries, i))
           /\ Looked(entries) < Slots => IsEnd(Entry(entries, Looked(entries)))
<1> DEFINE S == {i \in 0..Slots : i = Slots \/ IsEnd(Entry(entries, i))}
<1>1. S \subseteq Nat /\ Slots \in S
  BY VolumeAssumption
<1>2. Min(S) \in S /\ \A n \in S : Min(S) <= n
  <2> HIDE DEF S
  <2> QED
    BY <1>1, MinIs
<1>3. Looked(entries) = Min(S)
  BY DEF Looked
<1> DEFINE looked == Looked(entries)
<1>4. looked \in 0..Slots /\ (looked < Slots => IsEnd(Entry(entries, looked)))
  BY <1>2, <1>3, VolumeAssumption
<1>5. ASSUME NEW i \in 0..looked - 1 PROVE ~IsEnd(Entry(entries, i))
  <2>1. i \in 0..Slots /\ ~(looked <= i)
    BY <1>4, VolumeAssumption
  <2>2. i \notin S
    BY <2>1, <1>2, <1>3
  <2> QED
    BY <2>1, <2>2
<1> QED
  BY <1>4, <1>5

(* A search that passed over the clusters in front and i slots of this one. *)
LEMMA PassFurther ==
    ASSUME NEW v \in Volumes, PlainVolume(v), NEW dir, NEW name,
           NEW j \in 0..ClusterCount(v) - 1, Clusters(v, FirstOf(v, dir))[j] \in DOMAIN v.dirs,
           PassedOver(AllSlots(v, dir), j * Slots, name), NEW i \in 0..Slots,
           PassedOver(v.dirs[Clusters(v, FirstOf(v, dir))[j]], i, name)
    PROVE  /\ PassedOver(AllSlots(v, dir), j * Slots + i, name)
           /\ j * Slots + i \in 0..Len(AllSlots(v, dir))
<1> DEFINE all == AllSlots(v, dir)
           here == v.dirs[Clusters(v, FirstOf(v, dir))[j]]
<1>1. Slots \in Nat \ {0} /\ ClusterCount(v) \in Nat \ {0} /\ j \in Nat /\ i \in Nat
  BY VolumeAssumption, PlainCount
<1>2. j * Slots \in Nat
  BY <1>1
<1>6. PICK last \in Int : last = j * Slots + i
  BY <1>1
<1>3. ASSUME NEW n \in 0..last - 1
      PROVE  ~IsEnd(Entry(all, n)) /\ ~(IsShort(Entry(all, n)) /\ FileName(all, n) = name)
  <2>1. CASE n < j * Slots
    <3>1. n \in 0..j * Slots - 1
      BY <1>1, <1>2, <2>1
    <3> QED
      BY <3>1 DEF PassedOver
  <2>2. CASE n >= j * Slots
    <3>1. PICK h \in 0..i - 1 : n = j * Slots + h
      <4>1. n - j * Slots \in 0..i - 1 /\ n = j * Slots + (n - j * Slots)
        BY <1>1, <1>2, <1>6, <2>2
      <4> QED
        BY <4>1
    <3>2. h \in 0..Slots - 1
      BY <1>1
    <3>3. Entry(all, n) = Entry(here, h)
      BY <1>1, <3>1, <3>2, SlotIs DEF SlotOf
    <3>4. FileName(all, n) = FileName(here, h)
      BY <3>1, <3>2, NameOfSlot
    <3>5. ~IsEnd(Entry(here, h)) /\ ~(IsShort(Entry(here, h)) /\ FileName(here, h) = name)
      BY DEF PassedOver
    <3> QED
      BY <3>3, <3>4, <3>5
  <2> QED
    BY <2>1, <2>2, <1>2
<1>4. j * Slots + i \in 0..Len(all)
  <2>1. (j + 1) * Slots <= ClusterCount(v) * Slots /\ (j + 1) * Slots = j * Slots + Slots
    BY <1>1, ProductsAgree
  <2>2. Len(all) = ClusterCount(v) * Slots /\ ClusterCount(v) * Slots \in Nat
    BY <1>1, SlotIs
  <2> QED
    BY <2>1, <2>2, <1>1, <1>2
<1>5. PassedOver(all, j * Slots + i, name)
  <2>1. \A n \in 0..last - 1 : ~IsEnd(Entry(all, n)) /\ ~(IsShort(Entry(all, n)) /\ FileName(all, n) = name)
    BY <1>3, Zenon
  <2>2. PassedOver(all, last, name)
    <3> HIDE DEF all
    <3> QED
      BY <2>1, Zenon DEF PassedOver
  <2> QED
    BY <2>2, <1>6
<1> QED
  BY <1>4, <1>5

(* The live slots of a cluster are those that are not passed over. *)
LEMMA LiveOfCluster ==
    ASSUME NEW v \in Volumes, PlainVolume(v), NEW dir,
           NEW j \in 0..ClusterCount(v) - 1, Clusters(v, FirstOf(v, dir))[j] \in DOMAIN v.dirs,
           NEW i \in 0..Slots,
           \A h \in 0..i - 1 : ~IsEnd(Entry(v.dirs[Clusters(v, FirstOf(v, dir))[j]], h))
    PROVE  /\ SkippedBefore(v.dirs[Clusters(v, FirstOf(v, dir))[j]], i) \in Nat
           /\ Cardinality(LiveBefore(AllSlots(v, dir), j * Slots + i))
                  + SkippedBefore(v.dirs[Clusters(v, FirstOf(v, dir))[j]], i)
                = Cardinality(LiveBefore(AllSlots(v, dir), j * Slots)) + i
<1> DEFINE all == AllSlots(v, dir)
           here == v.dirs[Clusters(v, FirstOf(v, dir))[j]]
           skipped == {k \in 0..i - 1 : Skipped(Entry(here, k))}
           short == {k \in 0..i - 1 : IsShort(Entry(here, k))}
<1>1. Slots \in Nat \ {0} /\ ClusterCount(v) \in Nat \ {0} /\ j \in Nat /\ i \in Nat 
  BY VolumeAssumption, PlainCount
<1>0. PICK base \in Nat : base = j * Slots
  BY <1>1
<1> DEFINE new == {base + k : k \in short}
<1>2. \A k \in 0..i - 1 : IsShort(Entry(here, k)) <=> ~Skipped(Entry(here, k))
  <2> SUFFICES ASSUME NEW k \in 0..i - 1 PROVE IsShort(Entry(here, k)) <=> ~Skipped(Entry(here, k))
    OBVIOUS
  <2>1. k \in 0..Slots - 1
    BY <1>1
  <2>2. IsEntry(Entry(here, k)) /\ ~IsEnd(Entry(here, k))
    BY <2>1, EntriesAre
  <2> QED
    BY <2>2, Zenon DEF IsEntry, IsEnd, IsShort, Skipped
<1>3. skipped \cap short = {} /\ skipped \cup short = 0..i - 1
  <2>1. \A k \in 0..i - 1 : k \in skipped <=> k \notin short
    BY <1>2, Zenon
  <2>2. skipped \subseteq 0..i - 1 /\ short \subseteq 0..i - 1
    OBVIOUS
  <2> HIDE DEF skipped, short
  <2> QED
    BY <2>1, <2>2
<1>4. IsFiniteSet(0..i - 1) /\ Cardinality(0..i - 1) = i
  <2>1. i - 1 \in Int /\ 0 \in Int /\ (0 > i - 1 => i = 0) /\ i - 1 - 0 + 1 = i
    BY <1>1
  <2> QED
    BY <2>1, FS_Interval
<1>5. IsFiniteSet(skipped) /\ IsFiniteSet(short) /\ Cardinality(skipped) \in Nat /\ Cardinality(short) \in Nat
  <2>1. skipped \subseteq 0..i - 1 /\ short \subseteq 0..i - 1
    OBVIOUS
  <2> HIDE DEF skipped, short
  <2> QED
    BY <2>1, <1>4, FS_Subset, FS_CardinalityType
<1>6. Cardinality(skipped) + Cardinality(short) = i
  <2> HIDE DEF skipped, short
  <2> QED
    BY <1>3, <1>4, <1>5, DisjointUnion
<1>7. IsFiniteSet(new) /\ Cardinality(new) = Cardinality(short)
  <2> DEFINE f == [n \in new |-> n - base]
  <2>1. \A k \in short : k \in Nat /\ base + k - base = k
    BY <1>1
  <2>2. f \in [new -> short]
    BY <2>1
  <2>3. \A a, b \in new : f[a] = f[b] => a = b
    BY <1>1
  <2>4. \A t \in short : \E a \in new : f[a] = t
    BY <2>1
  <2> HIDE DEF f, new, short
  <2> QED
    BY <2>2, <2>3, <2>4, <1>5, OneToOne
<1>8. LiveBefore(all, base + i) = LiveBefore(all, base) \cup new
  <2>1. \A k \in 0..i - 1 : Entry(all, base + k) = Entry(here, k)
    <3> SUFFICES ASSUME NEW k \in 0..i - 1 PROVE Entry(all, base + k) = Entry(here, k)
      OBVIOUS
    <3>1. k \in 0..Slots - 1
      BY <1>1
    <3> QED
      BY <1>0, <1>1, <3>1, SlotIs DEF SlotOf
  <2>2. ASSUME NEW n \in LiveBefore(all, base + i), n \notin LiveBefore(all, base) PROVE n \in new
    <3>1. n \in 0..base + i - 1 /\ IsShort(Entry(all, n))
      BY DEF LiveBefore
    <3>4. n \notin 0..base - 1
      BY <2>2, <3>1 DEF LiveBefore
    <3>2. PICK k \in 0..i - 1 : n = base + k
      <4>1. n - base \in 0..i - 1 /\ n = base + (n - base)
        BY <1>1, <3>1, <3>4
      <4> QED
        BY <4>1
    <3> QED
      BY <3>1, <3>2, <2>1
  <2>3. ASSUME NEW n \in new PROVE n \in LiveBefore(all, base + i)
    <3>1. PICK k \in short : n = base + k
      OBVIOUS
    <3>2. n \in 0..base + i - 1
      BY <1>1, <3>1
    <3>3. IsShort(Entry(all, n))
      BY <2>1, <3>1
    <3> HIDE DEF all
    <3> QED
      BY <3>2, <3>3 DEF LiveBefore
  <2>4. LiveBefore(all, base) \subseteq LiveBefore(all, base + i)
    BY <1>1 DEF LiveBefore
  <2> HIDE DEF new
  <2> QED
    BY <2>2, <2>3, <2>4
<1>9. LiveBefore(all, base) \cap new = {}
  <2>1. \A n \in LiveBefore(all, base) : n < base
    BY <1>1 DEF LiveBefore
  <2>2. \A n \in new : ~(n < base)
    BY <1>1
  <2> QED
    BY <2>1, <2>2
<1>10. IsFiniteSet(LiveBefore(all, base)) /\ Cardinality(LiveBefore(all, base)) \in Nat
  BY <1>1, LiveStep
<1>11. Cardinality(LiveBefore(all, j * Slots + i)) = Cardinality(LiveBefore(all, j * Slots)) + Cardinality(new)
  <2> HIDE DEF new
  <2> QED
    BY <1>0, <1>7, <1>8, <1>9, <1>10, DisjointUnion
<1>12. SkippedBefore(here, i) = Cardinality(skipped)
  BY DEF SkippedBefore
<1> HIDE DEF skipped, short, new
<1> QED
  BY <1>0, <1>1, <1>5, <1>6, <1>7, <1>10, <1>11, <1>12

(* Where byte number at of a file of a plain volume is. *)
ByteAt(v, file, at) ==
    <<v.reserved_sector_count + v.fat_sectors + Clusters(v, file.first)[at \div BytesPerSector] - 2,
      at % BytesPerSector>>

(* The clusters of a file follow one another in the FAT as far as it has bytes. *)
LEMMA FileGoesOn ==
    ASSUME NEW v \in Volumes, PlainVolume(v), NEW file, file.size \in Nat, Lasts(v, file),
           NEW n \in Nat, n * BytesPerSector < file.size
    PROVE  /\ n \in 0..ClusterCount(v) - 1
           /\ Clusters(v, file.first)[n] \in DOMAIN v.fat
           /\ (n + 1) * BytesPerSector < file.size /\ vol = v =>
                ReadFatEntry(Clusters(v, file.first)[n]) = Clusters(v, file.first)[n + 1]
<1> DEFINE f == Clusters(v, file.first)
<1>1. BytesPerSector \in Nat \ {0} /\ ClusterCount(v) \in Nat \ {0}
  BY VolumeAssumption, PlainCount
<1>2. /\ file.size <= ClusterCount(v) * BytesPerSector
      /\ \A at \in 0..file.size - 1 : f[at \div BytesPerSector] \in DOMAIN v.fat
  BY DEF Lasts, ClusterCount
<1>3. \A k \in Nat : k * BytesPerSector < file.size => k < ClusterCount(v) /\ f[k] \in DOMAIN v.fat
  <2> SUFFICES ASSUME NEW k \in Nat, k * BytesPerSector < file.size
               PROVE  k < ClusterCount(v) /\ f[k] \in DOMAIN v.fat
    OBVIOUS
  <2>1. PICK at \in Nat : at = k * BytesPerSector
    BY <1>1
  <2>2. at \div BytesPerSector = k
    BY <1>1, <2>1, DivIs
  <2>3. at \in 0..file.size - 1
    BY <2>1
  <2>4. k * BytesPerSector < ClusterCount(v) * BytesPerSector
    BY <1>1, <1>2
  <2>5. k < ClusterCount(v)
    BY <2>4, <1>1, ProductsAgree
  <2> QED
    BY <1>2, <2>2, <2>3, <2>5
<1>4. n \in 0..ClusterCount(v) - 1 /\ f[n] \in DOMAIN v.fat
  BY <1>1, <1>3
<1>5. ASSUME (n + 1) * BytesPerSector < file.size, vol = v PROVE ReadFatEntry(f[n]) = f[n + 1]
  <2>1. n + 1 < ClusterCount(v) /\ f[n + 1] \in DOMAIN v.fat
    BY <1>3, <1>5
  <2>2. n + 1 \in 1..ClusterCount(v) /\ n + 1 - 1 = n
    BY <1>1, <2>1
  <2>3. f[n + 1] = NextOf(v, f[n])
    BY ClustersFollow, <1>1, <2>2
  <2>4. f[n + 1] = v.fat[f[n]]
    BY <2>3, <1>4 DEF NextOf
  <2>5. PICK c \in DOMAIN v.fat : c = f[n]
    BY <1>4
  <2> HIDE DEF f
  <2>6. ReadFatEntry(c) = v.fat[c]
    BY <1>5, <2>1, <2>4, <2>5, FatRead
  <2> QED
    BY <2>4, <2>5, <2>6
<1> QED
  BY <1>4, <1>5

(* On a plain volume cluster c is sector c - 2 of the data. *)
LEMMA PlainSectors ==
    ASSUME NEW v \in Volumes, PlainVolume(v), vol = v
    PROVE  /\ BytesPerCluster = BytesPerSector
           /\ DataStart = v.reserved_sector_count + v.fat_sectors /\ DataStart \in Nat
           /\ \A c \in Int : SectorOf(c) = DataStart + c - 2 /\ ReadCluster(c) = DataStart + c - 2
<1>1. v.sectors_per_cluster = 1
  BY DEF PlainVolume
<1>2. v.reserved_sector_count \in Nat /\ v.fat_sectors \in Nat /\ BytesPerSector \in Nat
  BY VolumeAssumption
<1> QED
  BY <1>1, <1>2 DEF BytesPerCluster, DataStart, SectorOf, ReadCluster

(* Where ReadIsContent expects a byte is where the chain has it. *)
LEMMA ByteOfFileIs ==
    ASSUME NEW v \in Volumes, PlainVolume(v), vol = v, NEW file, file.size \in Nat, Lasts(v, file),
           NEW at \in 0..file.size - 1
    PROVE  ByteOfFile(file, at) = ByteAt(v, file, at)
<1>1. BytesPerSector \in Nat \ {0}
  BY VolumeAssumption
<1>2. Clusters(v, file.first)[at \div BytesPerSector] \in DOMAIN v.fat
  BY DEF Lasts
<1>3. PICK c \in Int : c = Clusters(v, file.first)[at \div BytesPerSector]
  BY <1>2, PlainCount, VolumeAssumption
<1>4. PICK r \in Nat : r = at % BytesPerSector /\ r < BytesPerSector
  <2>1. at \in Nat
    OBVIOUS
  <2>2. at % BytesPerSector \in 0..BytesPerSector - 1
    BY <1>1, <2>1, DivMod
  <2> QED
    BY <1>1, <2>2
<1>5. r \div BytesPerSector = 0
  <2>1. r = 0 * BytesPerSector + r
    BY <1>1
  <2> QED
    BY <1>1, <1>4, <2>1, DivIs
<1>6. SectorOf(c) = v.reserved_sector_count + v.fat_sectors + c - 2 /\ SectorOf(c) \in Int
  BY PlainSectors
<1>7. BytesPerCluster = BytesPerSector
  BY PlainSectors
<1>8. ByteOfFile(file, at) = <<SectorOf(c) + (r \div BytesPerSector), r>>
  BY <1>3, <1>4, <1>7 DEF ByteOfFile
<1> QED
  BY <1>3, <1>4, <1>5, <1>6, <1>8 DEF ByteAt

(* What is copied from a cluster are bytes of the file whose cluster it is. *)
LEMMA BytesAre ==
    ASSUME NEW v \in Volumes, PlainVolume(v), vol = v, NEW file, NEW n \in Nat,
           current_cluster = Clusters(v, file.first)[n], current_cluster \in Int,
           NEW from \in Nat, NEW count \in Nat, from + count <= BytesPerSector
    PROVE  /\ Bytes(from, count) \in Seq(Int \X Int) /\ Len(Bytes(from, count)) = count
           /\ \A k \in 1..count : Bytes(from, count)[k] = ByteAt(v, file, n * BytesPerSector + from + k - 1)
<1>1. BytesPerSector \in Nat \ {0}
  BY VolumeAssumption
<1>2. PICK lba \in Int : lba = ReadCluster(current_cluster)
                         /\ lba = v.reserved_sector_count + v.fat_sectors + current_cluster - 2
  BY PlainSectors
<1>3. \A k \in 1..count : /\ (from + k - 1) \div BytesPerSector = 0 /\ (from + k - 1) % BytesPerSector = from + k - 1
                          /\ from + k - 1 \in Nat /\ from + k - 1 < BytesPerSector
  <2> SUFFICES ASSUME NEW k \in 1..count
               PROVE  /\ (from + k - 1) \div BytesPerSector = 0 /\ (from + k - 1) % BytesPerSector = from + k - 1
                      /\ from + k - 1 \in Nat /\ from + k - 1 < BytesPerSector
    OBVIOUS
  <2>1. PICK r \in Nat : r = from + k - 1 /\ r < BytesPerSector
    BY <1>1
  <2>2. r = 0 * BytesPerSector + r
    BY <1>1
  <2>3. r \div BytesPerSector = 0 /\ r % BytesPerSector = r
    BY <1>1, <2>1, <2>2, DivIs, ModSmall
  <2> QED
    BY <2>1, <2>3
<1>4. Bytes(from, count) = [k \in 1..count |-> <<lba + ((from + k - 1) \div BytesPerSector),
                              (from + k - 1) % BytesPerSector>>]
  BY <1>2 DEF Bytes
<1>5. \A k \in 1..count : Bytes(from, count)[k] = <<lba, from + k - 1>>
  <2> SUFFICES ASSUME NEW k \in 1..count PROVE Bytes(from, count)[k] = <<lba, from + k - 1>>
    OBVIOUS
  <2>1. Bytes(from, count)[k] = <<lba + ((from + k - 1) \div BytesPerSector), (from + k - 1) % BytesPerSector>>
    BY <1>4
  <2>2. (from + k - 1) \div BytesPerSector = 0 /\ (from + k - 1) % BytesPerSector = from + k - 1
    BY <1>3
  <2>3. lba + 0 = lba
    BY <1>2
  <2> QED
    BY <2>1, <2>2, <2>3, Zenon
<1>6. Len(Bytes(from, count)) = count /\ Bytes(from, count) \in Seq(Int \X Int)
  <2>1. \A k \in 1..count : Bytes(from, count)[k] \in Int \X Int
    <3> SUFFICES ASSUME NEW k \in 1..count PROVE Bytes(from, count)[k] \in Int \X Int
      OBVIOUS
    <3>1. from + k - 1 \in Int
      BY <1>3
    <3> QED
      BY <1>5, <3>1
  <2>2. Bytes(from, count) \in [1..count -> Int \X Int]
    BY <1>4, <2>1
  <2> QED
    BY <2>2
<1>7. \A k \in 1..count : ByteAt(v, file, n * BytesPerSector + from + k - 1) = <<lba, from + k - 1>>
  <2> SUFFICES ASSUME NEW k \in 1..count
               PROVE  ByteAt(v, file, n * BytesPerSector + from + k - 1) = <<lba, from + k - 1>>
    OBVIOUS
  <2>1. PICK r \in Nat : r = from + k - 1 /\ r < BytesPerSector
    BY <1>3
  <2>2. PICK at \in Nat : at = n * BytesPerSector + r
    BY <1>1
  <2>3. at \div BytesPerSector = n
    BY <1>1, <2>1, <2>2, DivIs
  <2>4. at % BytesPerSector = r
    <3>1. at = (at \div BytesPerSector) * BytesPerSector + (at % BytesPerSector) /\ at % BytesPerSector \in Int
      BY <1>1, DivMod
    <3>2. at = n * BytesPerSector + (at % BytesPerSector)
      BY <2>3, <3>1
    <3> QED
      BY <1>1, <2>2, <3>1, <3>2
  <2>5. n * BytesPerSector + from + k - 1 = at
    BY <1>1, <2>1, <2>2
  <2>6. ByteAt(v, file, at) = <<lba, r>>
    BY <1>2, <2>3, <2>4 DEF ByteAt
  <2> QED
    BY <2>1, <2>5, <2>6
<1> QED
  BY <1>5, <1>6, <1>7

-----------------------------------------------------------------------------
(* The invariant *)

(* What the whole path names. *)
Goal(v, path) == Places(v, path)[Len(path)]

(* The first m words of the path have been found, and entry is what they name. *)
Resolved(v, path, words, entry, m) ==
    /\ words \in Seq(Range(path)) /\ Len(words) = Len(path) - m
    /\ \A k \in 1..Len(words) : words[k] = path[m + k]
    /\ Places(v, path)[m] # NoEntry /\ Shape(entry) /\ Same(entry, Places(v, path)[m])

(* c is the cluster of dir up to which there is no last entry, nor the name; or the
   end mark was followed, and the name is nowhere. *)
Scanning(v, dir, name, c) ==
    \/ \E j \in 0..ClusterCount(v) - 1 :
          /\ c = Clusters(v, FirstOf(v, dir))[j] /\ c \in DOMAIN v.dirs
          /\ PassedOver(AllSlots(v, dir), j * Slots, name)
    \/ Astray(v, c) /\ Found(v, dir, name) = NoEntry

(* ... nor live entry number nth; and passed live entries lie in front of it. *)
Counting(v, dir, nth, c, passed) ==
    \/ \E j \in 0..ClusterCount(v) - 1 :
          /\ c = Clusters(v, FirstOf(v, dir))[j] /\ c \in DOMAIN v.dirs
          /\ \A k \in 0..j * Slots - 1 : ~IsEnd(Entry(AllSlots(v, dir), k))
          /\ passed = Cardinality(LiveBefore(AllSlots(v, dir), j * Slots)) /\ passed <= nth
    \/ Astray(v, c) /\ ~(nth < Len(Content(v, dir)))

(* The bytes copied are those of the file from the offset on. *)
CopyOf(v, file, offset, copied) ==
    /\ copied \in Seq(Int \X Int)
    /\ \A k \in 1..Len(copied) : copied[k] = ByteAt(v, file, offset + k - 1)

(* c is cluster number n of the file, and what of the clusters in front of it is
   asked for has been copied. *)
Reading(v, file, offset, size, c, n, copied) ==
    /\ n \in Nat /\ (n > 0 => n * BytesPerSector <= offset + size)
    /\ n = 0 \/ n * BytesPerSector < file.size => c = Clusters(v, file.first)[n]
    /\ CopyOf(v, file, offset, copied)
    /\ Len(copied) = IF n * BytesPerSector <= offset THEN 0 ELSE n * BytesPerSector - offset

Operations == {"none", "open", "finddir", "readdir", "read"}

(* A read is within the file, and only of an empty one it is empty. *)
Within(file, offset, size) == ~file.dir /\ offset + size <= file.size /\ (size = 0 => offset = 0)

(* The call is one that the file system was asked for. *)
Asked ==
    /\ call \in [op : Operations, path : Paths \cup {<<>>}, offset : Nat, size : Nat]
    /\ pc # "idle" => call.op # "none"
    /\ call.op # "none" => call.path \in Paths
    /\ call.op = "readdir" => Goal(vol, call.path).dir
    /\ call.op = "read" => Within(Goal(vol, call.path), call.offset, call.size)

(* Some words have been found, and the cluster is the first of what they name. *)
Walks ==
    pc = "walk" =>
        \E m \in 0..Len(call.path) :
            /\ Resolved(vol, call.path, rest, direntry, m) /\ buffer = <<>>
            /\ current_cluster = Start(vol, Places(vol, call.path)[m])

(* ... and the next word is looked for in the directory they name. *)
Scans ==
    pc = "scan" =>
        \E m \in 0..Len(call.path) - 1 :
            /\ Resolved(vol, call.path, rest, direntry, m) /\ buffer = <<>>
            /\ Scanning(vol, Places(vol, call.path)[m], call.path[m + 1], current_cluster)

(* All words have been found. *)
Resolves ==
    pc = "resolved" =>
        /\ Resolved(vol, call.path, rest, direntry, Len(call.path)) /\ buffer = <<>>
        /\ current_cluster = Start(vol, Goal(vol, call.path))

(* The live entries of the directory are counted up to the one asked for. *)
Counts ==
    pc = "index" =>
        call.op = "readdir" /\ Counting(vol, Goal(vol, call.path), call.offset, current_cluster, number)

(* The clusters of the file are gone through. *)
Reads ==
    pc = "read" =>
        /\ call.op = "read"
        /\ Reading(vol, Goal(vol, call.path), call.offset, call.size, current_cluster, number, buffer)

(* Entry number nth of a directory. *)
Listed(v, dir, nth) == IF nth < Len(Content(v, dir)) THEN Content(v, dir)[nth + 1] ELSE NoEntry

(* What the call returned. *)
Answers ==
    pc = "idle" =>
        /\ call.op \in {"open", "finddir"} => Shape(result) /\ Same(result, Goal(vol, call.path))
        /\ call.op = "readdir" => result = Listed(vol, Goal(vol, call.path), call.offset)
        /\ call.op = "read" => CopyOf(vol, Goal(vol, call.path), call.offset, buffer) /\ Len(buffer) = call.size

FatInv == Asked /\ Walks /\ Scans /\ Resolves /\ Counts /\ Reads /\ Answers

DriverInv == vol \in Volumes /\ (PlainVolume(vol) => FatInv)

(* A path is a sequence of names. *)
LEMMA PathsAre ==
    ASSUME NEW path \in Paths
    PROVE  path \in Seq(Range(path)) /\ Len(path) \in Nat
  BY VolumeAssumption

(* What the invariant says of the other places holds where the call is not. *)
LEMMA Arrives ==
    ASSUME Asked'
    PROVE  /\ pc' = "panic" => FatInv'
           /\ pc' = "idle" /\ Answers' => FatInv'
           /\ pc' = "walk" /\ Walks' => FatInv'
           /\ pc' = "scan" /\ Scans' => FatInv'
           /\ pc' = "resolved" /\ Resolves' => FatInv'
           /\ pc' = "index" /\ Counts' => FatInv'
           /\ pc' = "read" /\ Reads' => FatInv'
<1>1. /\ pc' # "idle" => Answers'
      /\ pc' # "walk" => Walks'
      /\ pc' # "scan" => Scans'
      /\ pc' # "resolved" => Resolves'
      /\ pc' # "index" => Counts'
      /\ pc' # "read" => Reads'
  BY Zenon DEF Answers, Walks, Scans, Resolves, Counts, Reads
<1> QED
  BY <1>1, Zenon DEF FatInv

(* Until a call returns it is the same call. *)
LEMMA AskedStays ==
    ASSUME Asked, UNCHANGED <<vol, call>>, pc # "idle"
    PROVE  Asked'
  BY Zenon DEF Asked

(* A call begins at the root, with the whole of its path before it. *)
LEMMA Starts ==
    ASSUME NEW v \in Volumes, PlainVolume(v), vol = v, pc' = "walk",
           NEW op \in Operations, op # "none", NEW path \in Paths, NEW offset \in Nat, NEW size \in Nat,
           Called(op, path, offset, size),
           op = "readdir" => Goal(v, path).dir, op = "read" => Within(Goal(v, path), offset, size)
    PROVE  FatInv'
<1>1. /\ call' = [op |-> op, path |-> path, offset |-> offset, size |-> size] /\ vol' = v
      /\ rest' = path /\ current_cluster' = v.root_cluster /\ direntry' = Root /\ buffer' = <<>>
  BY Zenon DEF Called
<1>2. call'.op = op /\ call'.path = path /\ call'.offset = offset /\ call'.size = size
  BY <1>1
<1>3. call' \in [op : Operations, path : Paths \cup {<<>>}, offset : Nat, size : Nat]
  <2> HIDE DEF Operations
  <2> QED
    BY <1>1
<1>4. Asked'
  BY <1>1, <1>2, <1>3, Zenon DEF Asked
<1>5. Resolved(v, path, path, Root, 0)
  <2>1. path \in Seq(Range(path)) /\ Len(path) = Len(path) - 0 /\ \A k \in 1..Len(path) : path[k] = path[0 + k]
    BY PathsAre
  <2>2. Places(v, path)[0] = Root
    BY PathsAre, PlacesFollow
  <2>3. Root # NoEntry /\ Shape(Root)
    BY NothingIs
  <2> QED
    BY <2>1, <2>2, <2>3, Zenon DEF Resolved, Same
<1>6. Walks'
  <2>1. 0 \in 0..Len(path)
    BY PathsAre
  <2>2. v.root_cluster = Start(v, Places(v, path)[0])
    BY PathsAre, PlacesFollow, NothingIs DEF Start
  <2> QED
    BY <1>1, <1>2, <1>5, <2>1, <2>2, Zenon DEF Walks
<1> QED
  BY <1>4, <1>6, Arrives

(* The entry that a path names by all its names is the one its walk ends with. *)
LEMMA NamedIs ==
    ASSUME NEW v \in Volumes, vol = v, NEW path \in Paths
    PROVE  Named(path) = Goal(v, path)
  BY DEF Named, Naming, Goal

(* What a path names is a node. *)
LEMMA GoalIs ==
    ASSUME NEW v \in Volumes, PlainVolume(v), NEW path \in Paths
    PROVE  /\ IsNode(v, Goal(v, path)) /\ Shape(Goal(v, path))
           /\ Start(v, Goal(v, path)) = IF Goal(v, path).dir THEN FirstOf(v, Goal(v, path)) ELSE Goal(v, path).first
<1>1. Len(path) \in 0..Len(path) /\ Len(path) \in Nat
  BY PathsAre
<1>2. PICK goal : goal = Places(v, path)[Len(path)] /\ goal = Goal(v, path)
  BY DEF Goal
<1>3. Shape(goal) /\ (goal.kind = "root" => goal = Root)
  BY <1>1, <1>2, PlacesAre
<1>4. IF goal.dir THEN Ends(v, goal) ELSE Lasts(v, goal)
  <2>1. Leads(v, path)
    BY Zenon DEF PlainVolume
  <2> QED
    BY <2>1, <1>2, Zenon DEF Leads
<1>5. goal.dir => Start(v, goal) = FirstOf(v, goal)
  BY <1>3, <1>4, StartIs
<1>6. ~goal.dir => Start(v, goal) = goal.first
  BY <1>3, NothingIs, Zenon DEF Start
<1>7. IsNode(v, goal)
  BY <1>3, <1>4, Zenon DEF IsNode
<1>8. Start(v, goal) = IF goal.dir THEN FirstOf(v, goal) ELSE goal.first
  BY <1>5, <1>6
<1> QED
  BY <1>2, <1>3, <1>7, <1>8

(* A search begins in what a path leads through, and ends. *)
LEMMA SearchIs ==
    ASSUME NEW v \in Volumes, PlainVolume(v), NEW path \in Paths, NEW m \in 0..Len(path) - 1,
           Places(v, path)[m] # NoEntry
    PROVE  /\ Ends(v, Places(v, path)[m]) /\ Start(v, Places(v, path)[m]) = FirstOf(v, Places(v, path)[m])
           /\ Places(v, path)[m].dir \/ Found(v, Places(v, path)[m], path[m + 1]) = NoEntry
<1>1. m \in 0..Len(path) /\ Len(path) \in Nat
  BY PathsAre
<1>2. PICK dir : dir = Places(v, path)[m]
  OBVIOUS
<1>3. dir.kind = "root" => dir = Root
  BY <1>1, <1>2, PlacesAre
<1>4. Leads(v, path)
  BY Zenon DEF PlainVolume
<1>5. Ends(v, dir) /\ (dir.dir \/ Found(v, dir, path[m + 1]) = NoEntry)
  BY <1>2, <1>4, Zenon DEF Leads
<1>6. Start(v, dir) = FirstOf(v, dir)
  BY <1>3, <1>5, StartIs
<1> QED
  BY <1>2, <1>5, <1>6

(* A call begins, or a node is closed. *)
LEMMA CallsKeep ==
    ASSUME NEW v \in Volumes, PlainVolume(v), vol = v, FatInv, Calls
    PROVE  FatInv'
<1>1. CASE OpenFs
  <2>1. PICK path \in Paths : Called("open", path, 0, 0)
    BY <1>1, Zenon DEF OpenFs
  <2>2. PICK op \in Operations : op = "open"
    BY DEF Operations
  <2>3. pc' = "walk" /\ op # "none" /\ op # "readdir" /\ op # "read" /\ 0 \in Nat
    BY <2>1, <2>2 DEF Called
  <2> QED
    BY <2>1, <2>2, <2>3, Starts, Zenon
<1>2. CASE FinddirFs
  <2>1. PICK path \in Paths : Called("finddir", path, 0, 0)
    BY <1>2, Zenon DEF FinddirFs
  <2>2. PICK op \in Operations : op = "finddir"
    BY DEF Operations
  <2>3. pc' = "walk" /\ op # "none" /\ op # "readdir" /\ op # "read" /\ 0 \in Nat
    BY <2>1, <2>2 DEF Called
  <2> QED
    BY <2>1, <2>2, <2>3, Starts, Zenon
<1>3. CASE ReaddirFs
  <2>1. PICK path \in Paths, nth \in 0..Slots : Named(path).dir /\ Called("readdir", path, nth, 0)
    BY <1>3, Zenon DEF ReaddirFs
  <2>2. PICK op \in Operations : op = "readdir"
    BY DEF Operations
  <2>3. pc' = "walk" /\ op # "none" /\ op # "read" /\ 0 \in Nat /\ nth \in Nat
    BY <2>1, <2>2 DEF Called
  <2>4. Goal(v, path).dir
    BY <2>1, NamedIs
  <2> QED
    BY <2>1, <2>2, <2>3, <2>4, Starts, Zenon
<1>4. CASE ReadFs
  <2>1. PICK path \in Paths :
            /\ ~Named(path).dir
            /\ \E from, to \in (Positions \cup {Named(path).size}) \cap (0..Named(path).size) :
                  /\ from < to \/ (from = 0 /\ to = 0 /\ Named(path).size = 0)
                  /\ Called("read", path, from, to - from)
    BY <1>4, Zenon DEF ReadFs
  <2>2. PICK file \in {Goal(v, path)} : file = Goal(v, path) /\ file = Named(path)
    BY NamedIs
  <2>3. file.size \in Nat
    BY <2>2, GoalIs DEF Shape
  <2>4. PICK from \in 0..file.size, to \in 0..file.size :
            /\ from < to \/ (from = 0 /\ to = 0 /\ file.size = 0)
            /\ Called("read", path, from, to - from)
    BY <2>1, <2>2
  <2>5. PICK size \in Nat : size = to - from /\ from + size <= file.size /\ (size = 0 => from = 0)
    BY <2>3, <2>4
  <2>6. PICK op \in Operations : op = "read"
    BY DEF Operations
  <2>7. pc' = "walk" /\ op # "none" /\ op # "readdir" /\ from \in Nat
    BY <2>4, <2>6 DEF Called
  <2>8. Within(file, from, size)
    BY <2>1, <2>2, <2>5, Zenon DEF Within
  <2>9. Called(op, path, from, size)
    BY <2>4, <2>5, <2>6
  <2> QED
    BY <2>2, <2>6, <2>7, <2>8, <2>9, Starts, Zenon
<1>5. CASE CloseFs
  <2>1. call' = None /\ pc' = "idle"
    BY <1>5, Zenon DEF CloseFs, FatInv
  <2>2. call'.op = "none" /\ call'.path = <<>> /\ call'.offset = 0 /\ call'.size = 0
    BY <2>1 DEF None
  <2>3. call' \in [op : Operations, path : Paths \cup {<<>>}, offset : Nat, size : Nat]
    BY <2>1 DEF None, Operations
  <2>4. Asked'
    BY <2>1, <2>2, <2>3, Zenon DEF Asked
  <2>5. Answers'
    BY <2>2, Zenon DEF Answers
  <2> QED
    BY <2>1, <2>4, <2>5, Arrives
<1> QED
  BY <1>1, <1>2, <1>3, <1>4, <1>5 DEF Calls

(* A cluster that cannot be read stops the kernel. *)
LEMMA ReadFailsKeeps ==
    ASSUME FatInv, ReadFails
    PROVE  FatInv'
<1>1. pc # "idle" /\ pc' = "panic" /\ UNCHANGED <<vol, call>>
  BY DEF ReadFails, Step
<1>2. Asked'
  BY <1>1, AskedStays DEF FatInv
<1> QED
  BY <1>1, <1>2, Arrives

(* The path that is asked for. *)
LEMMA PathIs ==
    ASSUME Asked, pc # "idle"
    PROVE  call.path \in Paths
  BY Zenon DEF Asked

(* The search for the next word begins in the first cluster of a directory. *)
LEMMA NextWordKeeps ==
    ASSUME NEW v \in Volumes, PlainVolume(v), vol = v, FatInv, NextWord
    PROVE  FatInv'
<1>1. /\ pc = "walk" /\ rest # <<>> /\ pc' = "scan" /\ UNCHANGED <<vol, call>>
      /\ UNCHANGED <<rest, direntry, current_cluster, buffer>>
  BY DEF NextWord, Step, walking, position
<1>2. pc # "idle" /\ Asked'
  BY <1>1, AskedStays DEF FatInv
<1>3. PICK path \in Paths : path = call.path
  BY <1>2, PathIs DEF FatInv
<1>4. PICK m \in 0..Len(path) : /\ Resolved(v, path, rest, direntry, m) /\ buffer = <<>>
                                /\ current_cluster = Start(v, Places(v, path)[m])
  BY <1>1, <1>3, Zenon DEF FatInv, Walks
<1>5. m \in 0..Len(path) - 1
  <2>1. rest \in Seq(Range(path)) /\ Len(rest) = Len(path) - m
    BY <1>4, Zenon DEF Resolved
  <2>2. Len(rest) # 0
    BY <1>1, <2>1
  <2> QED
    BY <2>1, <2>2, PathsAre
<1>8. PICK dir \in {Places(v, path)[m]} : dir = Places(v, path)[m]
  OBVIOUS
<1>6. Scanning(v, dir, path[m + 1], current_cluster)
  <2>1. Places(v, path)[m] # NoEntry
    BY <1>4, Zenon DEF Resolved
  <2>2. Ends(v, dir) /\ current_cluster = FirstOf(v, dir)
    BY <1>4, <1>5, <1>8, <2>1, SearchIs
  <2>3. 0 \in 0..ClusterCount(v) - 1 /\ ClusterCount(v) \in Nat
    BY PlainCount
  <2>4. current_cluster = Clusters(v, FirstOf(v, dir))[0]
    BY <2>2, <2>3, ClustersFollow
  <2>5. current_cluster \in DOMAIN v.dirs
    BY <2>2, <2>4, DirectoryBegins
  <2>6. 0 * Slots = 0 /\ 0..0 - 1 = {}
    BY VolumeAssumption
  <2>7. PassedOver(AllSlots(v, dir), 0 * Slots, path[m + 1])
    BY <2>6, Zenon DEF PassedOver
  <2> QED
    BY <2>3, <2>4, <2>5, <2>7, Zenon DEF Scanning
<1>7. Scans'
  BY <1>1, <1>3, <1>4, <1>5, <1>6, <1>8, Zenon DEF Scans
<1> QED
  BY <1>1, <1>2, <1>7, Arrives

(* The last word has been found. *)
LEMMA PathEndsKeeps ==
    ASSUME NEW v \in Volumes, PlainVolume(v), vol = v, FatInv, PathEnds
    PROVE  FatInv'
<1>1. /\ pc = "walk" /\ rest = <<>> /\ pc' = "resolved" /\ UNCHANGED <<vol, call>>
      /\ UNCHANGED <<rest, direntry, current_cluster, buffer>>
  BY DEF PathEnds, Step, walking, position
<1>2. pc # "idle" /\ Asked'
  BY <1>1, AskedStays DEF FatInv
<1>3. PICK path \in Paths : path = call.path
  BY <1>2, PathIs DEF FatInv
<1>4. PICK m \in 0..Len(path) : /\ Resolved(v, path, rest, direntry, m) /\ buffer = <<>>
                                /\ current_cluster = Start(v, Places(v, path)[m])
  BY <1>1, <1>3, Zenon DEF FatInv, Walks
<1>5. m = Len(path)
  <2>1. Len(rest) = Len(path) - m
    BY <1>4, Zenon DEF Resolved
  <2>2. Len(rest) = 0
    BY <1>1
  <2> QED
    BY <2>1, <2>2, PathsAre
<1>6. Resolves'
  BY <1>1, <1>3, <1>4, <1>5, Zenon DEF Resolves, Goal
<1> QED
  BY <1>1, <1>2, <1>6, Arrives

(* A lookup returns the entry it arrived at. *)
LEMMA OpenResolvedKeeps ==
    ASSUME NEW v \in Volumes, PlainVolume(v), vol = v, FatInv, OpenResolved
    PROVE  FatInv'
<1>1. /\ pc = "resolved" /\ call.op \in {"open", "finddir"} /\ pc' = "idle" /\ result' = direntry
      /\ UNCHANGED <<vol, call>>
  BY Zenon DEF OpenResolved
<1>2. pc # "idle" /\ Asked'
  BY <1>1, AskedStays DEF FatInv
<1>3. Resolved(v, call.path, rest, direntry, Len(call.path))
  BY <1>1, Zenon DEF FatInv, Resolves
<1>4. Shape(direntry) /\ Same(direntry, Goal(v, call.path))
  BY <1>3, Zenon DEF Resolved, Goal
<1>5. call.op # "readdir" /\ call.op # "read"
  BY <1>1
<1>6. Answers'
  BY <1>1, <1>4, <1>5, Zenon DEF Answers
<1> QED
  BY <1>1, <1>2, <1>6, Arrives

(* A listing or a read begins with the first cluster of what was found. *)
LEMMA NodeResolvedKeeps ==
    ASSUME NEW v \in Volumes, PlainVolume(v), vol = v, FatInv, NodeResolved
    PROVE  FatInv'
<1>1. /\ pc = "resolved" /\ call.op \in {"readdir", "read"} /\ number' = 0
      /\ pc' = (IF call.op = "read" THEN "read" ELSE "index")
      /\ UNCHANGED <<vol, call, current_cluster, buffer>>
  BY Zenon DEF NodeResolved, Step
<1>2. pc # "idle" /\ Asked /\ Asked'
  BY <1>1, AskedStays DEF FatInv
<1>3. PICK path \in Paths : path = call.path
  BY <1>2, PathIs
<1>4. buffer = <<>> /\ current_cluster = Start(v, Goal(v, path))
  BY <1>1, <1>3, Zenon DEF FatInv, Resolves
<1>5. PICK node \in {Goal(v, path)} : node = Goal(v, path)
  OBVIOUS
<1>6. CASE call.op = "readdir"
  <2>1. pc' = "index"
    BY <1>1, <1>6
  <2>2. node.dir
    BY <1>2, <1>3, <1>5, <1>6, Zenon DEF Asked
  <2>11. Ends(v, node) /\ current_cluster = FirstOf(v, node)
    <3>1. IsNode(v, node) /\ Start(v, node) = FirstOf(v, node)
      BY <1>3, <1>5, <2>2, GoalIs
    <3> QED
      BY <1>4, <1>5, <2>2, <3>1, Zenon DEF IsNode
  <2>3. 0 \in 0..ClusterCount(v) - 1 /\ ClusterCount(v) \in Nat
    BY PlainCount
  <2>4. current_cluster = Clusters(v, FirstOf(v, node))[0]
    BY <2>3, <2>11, ClustersFollow
  <2>12. current_cluster \in DOMAIN v.dirs
    BY <2>4, <2>11, DirectoryBegins
  <2>5. 0 * Slots = 0 /\ 0..0 - 1 = {}
    BY VolumeAssumption
  <2>6. LiveBefore(AllSlots(v, node), 0 * Slots) = {}
    BY <2>5, Zenon DEF LiveBefore
  <2>7. 0 = Cardinality(LiveBefore(AllSlots(v, node), 0 * Slots)) /\ 0 <= call.offset
    <3>1. call.offset \in Nat
      BY <1>2 DEF Asked
    <3> QED
      BY <2>6, <3>1, FS_EmptySet
  <2>8. \A k \in 0..0 * Slots - 1 : ~IsEnd(Entry(AllSlots(v, node), k))
    BY <2>5, Zenon
  <2>9. Counting(v, node, call.offset, current_cluster, 0)
    BY <2>3, <2>4, <2>7, <2>8, <2>12, Zenon DEF Counting
  <2>10. Counts'
    BY <1>1, <1>3, <1>5, <1>6, <2>9, Zenon DEF Counts
  <2> QED
    BY <1>2, <2>1, <2>10, Arrives
<1>7. CASE call.op = "read"
  <2>1. pc' = "read"
    BY <1>1, <1>7
  <2>2. Within(node, call.offset, call.size)
    BY <1>2, <1>3, <1>5, <1>7, Zenon DEF Asked
  <2>3. Start(v, node) = node.first
    <3>1. ~node.dir
      BY <2>2, Zenon DEF Within
    <3> QED
      BY <1>3, <1>5, <3>1, GoalIs
  <2>4. current_cluster = Clusters(v, node.first)[0]
    BY <1>4, <1>5, <2>3, ClustersFollow, PlainCount
  <2>5. 0 * BytesPerSector = 0 /\ call.offset \in Nat
    BY <1>2, VolumeAssumption DEF Asked
  <2>6. CopyOf(v, node, call.offset, buffer) /\ Len(buffer) = 0
    BY <1>4 DEF CopyOf
  <2>7. Reading(v, node, call.offset, call.size, current_cluster, 0, buffer)
    BY <2>4, <2>5, <2>6 DEF Reading
  <2>8. Reads'
    BY <1>1, <1>3, <1>5, <1>7, <2>7, Zenon DEF Reads
  <2> QED
    BY <1>2, <2>1, <2>8, Arrives
<1> QED
  BY <1>1, <1>6, <1>7

(* A lookup that fails returns nothing, and the path names nothing. *)
LEMMA NothingFound ==
    ASSUME NEW v \in Volumes, PlainVolume(v), vol = v, Asked, pc # "idle", pc' = "idle", UNCHANGED <<vol, call>>,
           result' = NoEntry, buffer' = <<>>, Goal(v, call.path) = NoEntry
    PROVE  FatInv'
<1>1. Asked'
  BY AskedStays
<1>2. ~NoEntry.dir /\ Shape(NoEntry) /\ NoEntry.size = 0
  BY NothingIs
<1>3. call.op \in {"open", "finddir"} => Shape(result') /\ Same(result', Goal(v, call.path))
  BY <1>2, Zenon DEF Same
<1>4. call.op # "readdir"
  BY <1>2, Zenon DEF Asked
<1>5. call.op = "read" => CopyOf(v, Goal(v, call.path), call.offset, buffer') /\ Len(buffer') = call.size
  <2> SUFFICES ASSUME call.op = "read"
               PROVE  CopyOf(v, Goal(v, call.path), call.offset, buffer') /\ Len(buffer') = call.size
    OBVIOUS
  <2>1. call.offset \in Nat /\ call.size \in Nat
    BY DEF Asked
  <2>2. Within(NoEntry, call.offset, call.size)
    BY Zenon DEF Asked
  <2>3. call.offset + call.size <= 0
    BY <1>2, <2>2, Zenon DEF Within
  <2>4. call.size = 0
    BY <2>1, <2>3
  <2>5. CopyOf(v, Goal(v, call.path), call.offset, <<>>)
    BY DEF CopyOf
  <2> QED
    BY <2>4, <2>5
<1>6. Answers'
  BY <1>3, <1>4, <1>5, Zenon DEF Answers
<1> QED
  BY <1>1, <1>6, Arrives

(* A cluster of a directory is searched: the name is in it, or the directory ends
   in it, or neither and the search goes on in the next. *)
LEMMA ScanClusterKeeps ==
    ASSUME NEW v \in Volumes, PlainVolume(v), vol = v, FatInv, ScanCluster
    PROVE  FatInv'
<1>1. pc = "scan" /\ pc # "idle" /\ Asked
  BY Zenon DEF ScanCluster, FatInv
<1>2. PICK path \in Paths : path = call.path
  BY <1>1, PathIs
<1>3. Len(path) \in Nat
  BY PathsAre
<1>4. PICK m \in 0..Len(path) - 1 :
          /\ Resolved(v, path, rest, direntry, m) /\ buffer = <<>>
          /\ Scanning(v, Places(v, path)[m], path[m + 1], current_cluster)
  BY <1>1, <1>2, Zenon DEF FatInv, Scans
<1>5. PICK dir \in {Places(v, path)[m]}, name \in {path[m + 1]} : dir = Places(v, path)[m] /\ name = path[m + 1]
  OBVIOUS
<1>6. m \in 0..Len(path) /\ m + 1 \in 0..Len(path) /\ m + 1 \in 1..Len(path) /\ m \in Nat
  BY <1>3
<1>7. Ends(v, dir) /\ (dir.dir \/ Found(v, dir, name) = NoEntry)
  <2>1. Places(v, path)[m] # NoEntry
    BY <1>4, Zenon DEF Resolved
  <2> QED
    BY <1>5, <2>1, SearchIs
<1>8. Places(v, path)[m + 1] = Lookup(v, dir, name)
  BY <1>3, <1>5, <1>6, PlacesFollow
<1>9. /\ rest \in Seq(Range(path)) /\ Len(rest) = Len(path) - m /\ Head(rest) = name
      /\ \A k \in 1..Len(rest) : rest[k] = path[m + k]
  <2>1. /\ rest \in Seq(Range(path)) /\ Len(rest) = Len(path) - m
        /\ \A k \in 1..Len(rest) : rest[k] = path[m + k]
    BY <1>4, Zenon DEF Resolved
  <2>2. 1 \in 1..Len(rest) /\ Head(rest) = rest[1]
    BY <2>1, <1>3
  <2> QED
    BY <2>1, <2>2, <1>5
<1>10. Found(v, dir, name) = NoEntry => Goal(v, path) = NoEntry
  <2>1. Found(v, dir, name) = NoEntry => Lookup(v, dir, name) = NoEntry
    BY Zenon DEF Lookup
  <2> QED
    BY <1>3, <1>6, <1>8, <2>1, PlacesAre DEF Goal
<1> DEFINE entries == EntriesAt(ReadCluster(current_cluster))
<1>11. CASE Astray(v, current_cluster) /\ Found(v, dir, name) = NoEntry
  <2>3. entries = v.other
    BY <1>11, EntriesRead DEF Astray
  <2>4. Looked(entries) = 0
    <3>1. IsEnd(Entry(entries, 0))
      BY <2>3, Zenon DEF PlainVolume
    <3>2. Looked(entries) \in 0..Slots /\ \A i \in 0..Looked(entries) - 1 : ~IsEnd(Entry(entries, i))
      BY LookedIs
    <3> HIDE DEF entries
    <3>3. ~(0 \in 0..Looked(entries) - 1)
      BY <3>1, <3>2
    <3> QED
      BY <3>2, <3>3, VolumeAssumption
  <2>5. Matches(entries) = {} /\ Looked(entries) < Slots
    <3>1. 0..0 - 1 = {} /\ 0 < Slots
      BY VolumeAssumption
    <3> QED
      BY <2>4, <3>1 DEF Matches
  <2>6. Return(NoEntry) /\ UNCHANGED buffer
    BY <2>5, VolumeAssumption DEF ScanCluster
  <2>8. pc' = "idle" /\ UNCHANGED <<vol, call>> /\ result' = NoEntry /\ buffer' = <<>>
    BY <2>6, <1>4 DEF Return, Step
  <2> QED
    BY <1>1, <1>2, <1>10, <1>11, <2>8, NothingFound
<1>12. CASE \E j \in 0..ClusterCount(v) - 1 :
               /\ current_cluster = Clusters(v, FirstOf(v, dir))[j] /\ current_cluster \in DOMAIN v.dirs
               /\ PassedOver(AllSlots(v, dir), j * Slots, name)
  <2>1. PICK j \in 0..ClusterCount(v) - 1 :
            /\ current_cluster = Clusters(v, FirstOf(v, dir))[j] /\ current_cluster \in DOMAIN v.dirs
            /\ PassedOver(AllSlots(v, dir), j * Slots, name)
    BY <1>12
  <2>3. \A n \in 0..j * Slots - 1 : ~IsEnd(Entry(AllSlots(v, dir), n))
    BY <2>1, Zenon DEF PassedOver
  <2>4. current_cluster \in DOMAIN v.dirs /\ current_cluster \in Int
    BY <2>1, PlainCount, VolumeAssumption
  <2>5. PICK here \in {v.dirs[current_cluster]} : here = v.dirs[current_cluster] /\ here = entries
    BY <2>4, EntriesRead
  <2>6. here = v.dirs[Clusters(v, FirstOf(v, dir))[j]] /\ Clusters(v, FirstOf(v, dir))[j] \in DOMAIN v.dirs
    BY <2>1, <2>4, <2>5
  <2>7. /\ Looked(here) \in 0..Slots /\ \A i \in 0..Looked(here) - 1 : ~IsEnd(Entry(here, i))
        /\ Looked(here) < Slots => IsEnd(Entry(here, Looked(here)))
    BY LookedIs
  <2>8. PICK looked \in 0..Slots : looked = Looked(here)
    BY <2>7
  <2>9. Slots \in Nat \ {0}
    BY VolumeAssumption
  <2>10. \A i \in 0..Slots - 1 : IsShort(Entry(here, i)) => (SameName(FileName(here, i), name) <=> FileName(here, i) = name)
    <3>1. m + 1 \in DOMAIN path
      BY <1>6, PathsAre
    <3>2. \A i \in 0..Slots - 1 : IsShort(Entry(v.dirs[current_cluster], i)) =>
             (SameName(FileName(v.dirs[current_cluster], i), path[m + 1])
                <=> FileName(v.dirs[current_cluster], i) = path[m + 1])
      BY <2>4, <3>1, Zenon DEF PlainVolume
    <3> QED
      BY <2>5, <3>2, <1>5
  <2>11. Matches(here) = {i \in 0..looked - 1 : IsShort(Entry(here, i)) /\ FileName(here, i) = name}
    <3>1. Matches(here) = {i \in 0..looked - 1 : IsShort(Entry(here, i)) /\ SameName(FileName(here, i), name)}
      BY <2>8, <1>9 DEF Matches
    <3>2. \A i \in 0..looked - 1 : i \in 0..Slots - 1
      BY <2>9
    <3> QED
      BY <3>1, <3>2, <2>10
  <2>12. ASSUME NEW i \in 0..looked, \A h \in 0..i - 1 : h \notin Matches(here)
         PROVE  PassedOver(AllSlots(v, dir), j * Slots + i, name) /\ j * Slots + i \in 0..Len(AllSlots(v, dir))
    <3>1. i \in 0..Slots /\ \A h \in 0..i - 1 : h \in 0..looked - 1
      BY <2>9
    <3>2. \A h \in 0..i - 1 : ~IsEnd(Entry(here, h)) /\ ~(IsShort(Entry(here, h)) /\ FileName(here, h) = name)
      BY <2>7, <2>8, <2>11, <2>12, <3>1
    <3>3. PassedOver(here, i, name)
      BY <3>2, Zenon DEF PassedOver
    <3> QED
      BY <2>1, <2>6, <3>1, <3>3, PassFurther
  <2>13. /\ Len(AllSlots(v, dir)) \in Nat
         /\ \A i \in 0..Slots - 1 : Entry(AllSlots(v, dir), j * Slots + i) = Entry(here, i)
    <3>1. ClusterCount(v) \in Nat /\ ClusterCount(v) * Slots \in Nat
      BY PlainCount, <2>9
    <3> QED
      BY <3>1, <2>6, SlotIs DEF SlotOf
  <2>14. ASSUME Matches(here) # {}, Step("walk"), direntry' = Entry(here, Min(Matches(here))), rest' = Tail(rest),
                current_cluster' = direntry'.first, UNCHANGED buffer
         PROVE  FatInv'
    <3>1. Matches(here) \subseteq Nat
      BY DEF Matches
    <3>2. PICK i \in Matches(here) : i = Min(Matches(here)) /\ \A h \in Matches(here) : i <= h
      BY <3>1, <2>14, MinIs
    <3>3. i \in 0..looked - 1 /\ IsShort(Entry(here, i)) /\ FileName(here, i) = name
      BY <2>11
    <3>4. i \in 0..looked /\ i \in 0..Slots - 1
      BY <3>3, <2>9
    <3>5. \A h \in 0..i - 1 : h \notin Matches(here)
      <4>1. \A h \in 0..i - 1 : ~(i <= h)
        BY <3>4
      <4> QED
        BY <4>1, <3>2
    <3>6. PassedOver(AllSlots(v, dir), j * Slots + i, name) /\ j * Slots + i \in 0..Len(AllSlots(v, dir))
      BY <2>12, <3>4, <3>5
    <3>7. /\ FileName(AllSlots(v, dir), j * Slots + i) = FileName(here, i)
          /\ WithName(AllSlots(v, dir), j * Slots + i) = WithName(here, i)
      BY <2>6, <3>4, NameOfSlot
    <3>8. Found(v, dir, name) = WithName(here, i)
      <4>1. PICK n \in 0..Len(AllSlots(v, dir)) : n = j * Slots + i
        BY <3>6
      <4>2. PassedOver(AllSlots(v, dir), n, name)
        BY <3>6, <4>1
      <4>3. IsShort(Entry(AllSlots(v, dir), n)) /\ FileName(AllSlots(v, dir), n) = name
        BY <2>13, <3>3, <3>4, <3>7, <4>1
      <4>4. Found(v, dir, name) = WithName(AllSlots(v, dir), n)
        BY <2>13, <4>2, <4>3, SearchFinds
      <4> QED
        BY <3>7, <4>1, <4>4
    <3>9. PICK e \in {Entry(here, i)} : e = Entry(here, i) /\ e = direntry'
      BY <2>14, <3>2
    <3>10. Shape(e) /\ Same(e, WithName(here, i))
      <4>1. Shape(e)
        BY <2>4, <2>5, <3>4, <3>9, EntriesAre
      <4>2. WithName(here, i) = [e EXCEPT !.name = FileName(here, i)]
        BY <3>9 DEF WithName
      <4>3. PICK other \in {FileName(here, i)} : WithName(here, i) = [e EXCEPT !.name = other]
        BY <4>2
      <4>4. Same(e, [e EXCEPT !.name = other])
        BY <4>1, Renamed, Zenon
      <4> QED
        BY <4>1, <4>3, <4>4, Zenon
    <3>11. WithName(here, i) # NoEntry /\ Start(v, WithName(here, i)) = e.first
      <4>1. e.kind = "short"
        BY <3>3, <3>9 DEF IsShort
      <4>2. WithName(here, i).kind = "short" /\ WithName(here, i).first = e.first
        BY <4>1, <3>10, Zenon DEF Same
      <4>3. NoEntry.kind = "none"
        BY DEF NoEntry
      <4> QED
        BY <4>2, <4>3, Zenon DEF Start
    <3>19. Places(v, path)[m + 1] = WithName(here, i)
      <4>1. dir.dir
        BY <1>7, <3>8, <3>11
      <4> QED
        BY <1>8, <3>8, <4>1, Zenon DEF Lookup
    <3>12. Tail(rest) \in Seq(Range(path)) /\ Len(Tail(rest)) = Len(path) - (m + 1)
      BY <1>3, <1>6, <1>9
    <3>13. \A k \in 1..Len(Tail(rest)) : Tail(rest)[k] = path[(m + 1) + k]
      <4> SUFFICES ASSUME NEW k \in 1..Len(Tail(rest)) PROVE Tail(rest)[k] = path[(m + 1) + k]
        OBVIOUS
      <4>1. k + 1 \in 1..Len(rest) /\ Tail(rest)[k] = rest[k + 1] /\ m + (k + 1) = (m + 1) + k
        BY <1>3, <1>6, <1>9, <3>12
      <4> QED
        BY <4>1, <1>9
    <3>14. Resolved(v, path, Tail(rest), e, m + 1)
      BY <3>10, <3>11, <3>12, <3>13, <3>19, Zenon DEF Resolved
    <3>15. pc' = "walk" /\ UNCHANGED <<vol, call>> /\ buffer' = <<>> /\ current_cluster' = e.first
      BY <2>14, <1>4, <3>9 DEF Step
    <3>16. e.first = Start(v, Places(v, path)[m + 1])
      BY <3>11, <3>19
    <3>17. Walks'
      BY <1>2, <1>6, <2>14, <3>9, <3>14, <3>15, <3>16, Zenon DEF Walks
    <3>18. Asked'
      BY <1>1, <3>15, AskedStays
    <3> QED
      BY <3>15, <3>17, <3>18, Arrives
  <2>15. ASSUME Matches(here) = {}, Looked(here) < Slots, Return(NoEntry), UNCHANGED buffer
         PROVE  FatInv'
    <3>1. PassedOver(AllSlots(v, dir), j * Slots + looked, name) /\ j * Slots + looked \in 0..Len(AllSlots(v, dir))
      BY <2>12, <2>15, <2>9
    <3>2. looked \in 0..Slots - 1 /\ IsEnd(Entry(here, looked))
      BY <2>7, <2>8, <2>9, <2>15
    <3>3. Found(v, dir, name) = NoEntry
      <4>1. PICK n \in 0..Len(AllSlots(v, dir)) : n = j * Slots + looked
        BY <3>1
      <4>2. PassedOver(AllSlots(v, dir), n, name)
        BY <3>1, <4>1
      <4>3. IsEnd(Entry(AllSlots(v, dir), n))
        BY <2>13, <3>2, <4>1
      <4> QED
        BY <2>13, <4>2, <4>3, SearchFinds
    <3>4. pc' = "idle" /\ UNCHANGED <<vol, call>> /\ result' = NoEntry /\ buffer' = <<>>
      BY <2>15, <1>4 DEF Return, Step
    <3> QED
      BY <1>1, <1>2, <1>10, <3>3, <3>4, NothingFound
  <2>16. ASSUME Matches(here) = {}, Looked(here) = Slots, Follow("scan"), UNCHANGED <<rest, direntry, buffer>>
         PROVE  FatInv'
    <3>1. looked = Slots /\ Slots \in 0..looked
      BY <2>8, <2>9, <2>16
    <3>2. PassedOver(AllSlots(v, dir), j * Slots + Slots, name)
      BY <2>12, <2>16, <3>1
    <3>5. (j + 1) * Slots = j * Slots + Slots
      BY <2>9
    <3>3. PICK c : c = ReadFatEntry(current_cluster) /\ Scanning(v, dir, name, c)
      <4>1. \A i \in 0..Slots - 1 : ~IsEnd(Entry(v.dirs[Clusters(v, FirstOf(v, dir))[j]], i))
        BY <2>6, <2>7, <2>8, <3>1
      <4>2. \/ /\ j + 1 \in 0..ClusterCount(v) - 1
               /\ Clusters(v, FirstOf(v, dir))[j + 1] \in DOMAIN v.dirs
               /\ ReadFatEntry(current_cluster) = Clusters(v, FirstOf(v, dir))[j + 1]
            \/ /\ IsEnd(Entry(AllSlots(v, dir), (j + 1) * Slots))
               /\ Astray(v, ReadFatEntry(current_cluster))
        BY <4>1, <1>7, <2>1, <2>3, <2>6, DirectoryGoesOn
      <4>3. CASE /\ j + 1 \in 0..ClusterCount(v) - 1
                 /\ Clusters(v, FirstOf(v, dir))[j + 1] \in DOMAIN v.dirs
                 /\ ReadFatEntry(current_cluster) = Clusters(v, FirstOf(v, dir))[j + 1]
        BY <3>2, <3>5, <4>3, Zenon DEF Scanning
      <4>4. CASE IsEnd(Entry(AllSlots(v, dir), (j + 1) * Slots)) /\ Astray(v, ReadFatEntry(current_cluster))
        <5>1. PICK n \in 0..Len(AllSlots(v, dir)) : n = j * Slots + Slots
          BY <2>12, <2>16, <3>1
        <5>2. PassedOver(AllSlots(v, dir), n, name) /\ IsEnd(Entry(AllSlots(v, dir), n))
          BY <3>2, <3>5, <4>4, <5>1
        <5>3. Found(v, dir, name) = NoEntry
          BY <2>13, <5>2, SearchFinds
        <5> QED
          BY <4>4, <5>3, Zenon DEF Scanning
      <4> QED
        BY <4>2, <4>3, <4>4
    <3>4. current_cluster' = c /\ UNCHANGED <<vol, call>>
          /\ pc' = IF OnDisk(FatSector(current_cluster)) THEN "scan" ELSE "panic"
      BY <2>16, <3>3, Zenon DEF Follow, Step
    <3>6. Scanning(v, dir, name, current_cluster')
      BY <3>3, <3>4
    <3>7. Asked'
      BY <1>1, <3>4, AskedStays
    <3>8. Scans'
      BY <1>2, <1>4, <1>5, <2>16, <3>4, <3>6, Zenon DEF Scans
    <3> QED
      BY <3>4, <3>7, <3>8, Arrives
  <2>17. \/ /\ Matches(here) # {} /\ Step("walk") /\ direntry' = Entry(here, Min(Matches(here))) /\ rest' = Tail(rest)
            /\ current_cluster' = direntry'.first /\ UNCHANGED buffer
         \/ Matches(here) = {} /\ Looked(here) < Slots /\ Return(NoEntry) /\ UNCHANGED buffer
         \/ Matches(here) = {} /\ Looked(here) = Slots /\ Follow("scan") /\ UNCHANGED <<rest, direntry, buffer>>
    BY <2>5, Zenon DEF ScanCluster, walking
  <2> QED
    BY <2>14, <2>15, <2>16, <2>17
<1> QED
  BY <1>4, <1>5, <1>11, <1>12, Zenon DEF Scanning

(* A cluster of a directory is counted through in the same way. *)
LEMMA IndexClusterKeeps ==
    ASSUME NEW v \in Volumes, PlainVolume(v), vol = v, FatInv, IndexCluster
    PROVE  FatInv'
<1>1. pc = "index" /\ pc # "idle" /\ Asked
  BY Zenon DEF IndexCluster, FatInv
<1>2. PICK path \in Paths : path = call.path
  BY <1>1, PathIs
<1>3. call.op = "readdir" /\ Counting(v, Goal(v, path), call.offset, current_cluster, number)
  BY <1>1, <1>2, Zenon DEF FatInv, Counts
<1>4. PICK dir \in {Goal(v, path)} : dir = Goal(v, path) /\ dir.dir /\ IsNode(v, dir)
  <2>1. Goal(v, path).dir
    BY <1>1, <1>2, <1>3, Zenon DEF Asked
  <2> QED
    BY <2>1, GoalIs
<1>5. PICK nth \in Nat : nth = call.offset
  BY <1>1 DEF Asked
<1>7. Ends(v, dir)
  BY <1>4, Zenon DEF IsNode
<1> DEFINE entries == EntriesAt(ReadCluster(current_cluster))
(* nothing is listed where the end mark led *)
<1>24. CASE Astray(v, current_cluster) /\ ~(nth < Len(Content(v, dir)))
  <2>1. entries = v.other
    BY <1>24, EntriesRead DEF Astray
  <2>2. Looked(entries) = 0
    <3>1. IsEnd(Entry(entries, 0))
      BY <2>1, Zenon DEF PlainVolume
    <3>2. Looked(entries) \in 0..Slots /\ \A i \in 0..Looked(entries) - 1 : ~IsEnd(Entry(entries, i))
      BY LookedIs
    <3> HIDE DEF entries
    <3>3. ~(0 \in 0..Looked(entries) - 1)
      BY <3>1, <3>2
    <3> QED
      BY <3>2, <3>3, VolumeAssumption
  <2>3. Return(NoEntry)
    <3>1. 0..0 - 1 = {} /\ 0 < Slots
      BY VolumeAssumption
    <3>2. Looked(entries) < Slots /\ Looked(entries) # Slots
      BY <2>2, VolumeAssumption
    <3>3. {i \in 0..Looked(entries) - 1 : /\ ~Skipped(Entry(entries, i))
                                          /\ call.offset + SkippedBefore(entries, i) = number + i} = {}
      BY <2>2, <3>1
    <3> QED
      BY <3>2, <3>3, Zenon DEF IndexCluster
  <2>4. result' = NoEntry /\ pc' = "idle" /\ UNCHANGED <<vol, call>>
    BY <2>3 DEF Return, Step
  <2>5. result' = Listed(v, dir, nth)
    BY <1>24, <2>4, Zenon DEF Listed
  <2>6. Asked'
    BY <1>1, <2>4, AskedStays
  <2>7. Answers'
    <3>1. call.op # "open" /\ call.op # "finddir" /\ call.op # "read"
      BY <1>3
    <3> QED
      BY <1>2, <1>4, <1>5, <2>4, <2>5, <3>1, Zenon DEF Answers
  <2> QED
    BY <2>4, <2>6, <2>7, Arrives
<1>25. SUFFICES ASSUME ~(Astray(v, current_cluster) /\ ~(nth < Len(Content(v, dir)))) PROVE FatInv'
  BY <1>24
<1>6. PICK j \in 0..ClusterCount(v) - 1 :
          /\ current_cluster = Clusters(v, FirstOf(v, dir))[j] /\ current_cluster \in DOMAIN v.dirs
          /\ \A k \in 0..j * Slots - 1 : ~IsEnd(Entry(AllSlots(v, dir), k))
          /\ number = Cardinality(LiveBefore(AllSlots(v, dir), j * Slots)) /\ number <= nth
  BY <1>3, <1>4, <1>5, <1>25, Zenon DEF Counting
<1>8. current_cluster \in DOMAIN v.dirs /\ current_cluster \in Int
  BY <1>6, PlainCount, VolumeAssumption
<1>9. PICK here \in {v.dirs[current_cluster]}, all \in {AllSlots(v, dir)} :
          here = v.dirs[current_cluster] /\ here = entries /\ all = AllSlots(v, dir)
  BY <1>8, EntriesRead
<1>10. here = v.dirs[Clusters(v, FirstOf(v, dir))[j]] /\ Clusters(v, FirstOf(v, dir))[j] \in DOMAIN v.dirs
  BY <1>6, <1>8, <1>9
<1>11. PICK looked \in 0..Slots :
           /\ looked = Looked(here) /\ \A i \in 0..looked - 1 : ~IsEnd(Entry(here, i))
           /\ looked < Slots => IsEnd(Entry(here, looked))
  BY LookedIs
<1>12. Slots \in Nat \ {0} /\ ClusterCount(v) \in Nat /\ j \in Nat
  BY VolumeAssumption, PlainCount
<1>13. PICK base \in Nat : base = j * Slots
  BY <1>12
(* how many live entries lie in front of slot i of the cluster *)
<1>14. \A i \in 0..looked :
          /\ SkippedBefore(here, i) \in Nat /\ Cardinality(LiveBefore(all, base + i)) \in Nat
          /\ Cardinality(LiveBefore(all, base + i)) + SkippedBefore(here, i) = number + i
  <2> SUFFICES ASSUME NEW i \in 0..looked
               PROVE  /\ SkippedBefore(here, i) \in Nat /\ Cardinality(LiveBefore(all, base + i)) \in Nat
                      /\ Cardinality(LiveBefore(all, base + i)) + SkippedBefore(here, i) = number + i
    OBVIOUS
  <2>1. i \in 0..Slots /\ \A h \in 0..i - 1 : ~IsEnd(Entry(here, h))
    BY <1>11, <1>12
  <2>2. /\ SkippedBefore(here, i) \in Nat
        /\ Cardinality(LiveBefore(all, j * Slots + i)) + SkippedBefore(here, i)
             = Cardinality(LiveBefore(all, j * Slots)) + i
    BY <1>9, <1>10, <2>1, LiveOfCluster
  <2>3. base + i \in Nat
    BY <1>13
  <2>4. Cardinality(LiveBefore(all, base + i)) \in Nat
    BY <2>3, LiveStep
  <2> QED
    BY <1>6, <1>9, <1>13, <2>2, <2>4
<1>15. number \in Nat /\ Cardinality(LiveBefore(all, base)) = number
  BY <1>6, <1>9, <1>13, LiveStep
<1>16. /\ Len(all) \in Nat /\ \A i \in 0..Slots - 1 : Entry(all, base + i) = Entry(here, i)
       /\ \A i \in 0..looked : base + i \in 0..Len(all)
  <2>1. Len(all) = ClusterCount(v) * Slots /\ ClusterCount(v) * Slots \in Nat
    BY <1>9, <1>12, SlotIs
  <2>2. \A i \in 0..Slots - 1 : Entry(all, j * Slots + i) = Entry(here, i)
    BY <1>9, <1>10, <1>12, SlotIs DEF SlotOf
  <2>3. (j + 1) * Slots <= ClusterCount(v) * Slots /\ (j + 1) * Slots = j * Slots + Slots
    BY <1>12, ProductsAgree
  <2>4. base + Slots <= Len(all)
    BY <1>13, <2>1, <2>3
  <2>5. \A i \in 0..looked : base + i \in 0..Len(all)
    BY <1>12, <2>1, <2>4
  <2>6. \A i \in 0..Slots - 1 : Entry(all, base + i) = Entry(here, i)
    BY <1>13, <2>2
  <2> QED
    BY <2>1, <2>5, <2>6
<1>17. \A i \in 0..looked : \A k \in 0..base + i - 1 : ~IsEnd(Entry(all, k))
  <2> SUFFICES ASSUME NEW i \in 0..looked, NEW k \in 0..base + i - 1 PROVE ~IsEnd(Entry(all, k))
    OBVIOUS
  <2>1. CASE k < base
    BY <2>1, <1>6, <1>9, <1>13
  <2>2. CASE ~(k < base)
    <3>1. PICK h \in 0..looked - 1 : k = base + h /\ h \in 0..Slots - 1
      <4>1. k - base \in 0..looked - 1 /\ k = base + (k - base) /\ k - base \in 0..Slots - 1
        BY <2>2, <1>12
      <4> QED
        BY <4>1
    <3> QED
      BY <3>1, <1>11, <1>16
  <2> QED
    BY <2>1, <2>2
<1>18. ASSUME NEW i \in 0..looked - 1
       PROVE  (~Skipped(Entry(here, i)) /\ nth + SkippedBefore(here, i) = number + i)
                <=> (IsShort(Entry(here, i)) /\ Cardinality(LiveBefore(all, base + i)) = nth)
  <2>1. i \in 0..looked /\ i \in 0..Slots - 1
    BY <1>12
  <2>2. ~Skipped(Entry(here, i)) <=> IsShort(Entry(here, i))
    <3>1. IsEntry(Entry(here, i)) /\ ~IsEnd(Entry(here, i))
      BY <1>8, <1>9, <1>11, <2>1, EntriesAre
    <3> QED
      BY <3>1, Zenon DEF IsEntry, IsEnd, IsShort, Skipped
  <2>3. nth + SkippedBefore(here, i) = number + i <=> Cardinality(LiveBefore(all, base + i)) = nth
    BY <1>14, <1>15, <2>1
  <2> QED
    BY <2>2, <2>3
<1> DEFINE found == {i \in 0..looked - 1 :
                        /\ ~Skipped(Entry(here, i))
                        /\ call.offset + SkippedBefore(here, i) = number + i}
(* no live entry in front of slot looked has the number *)
<1>19. found = {} => Cardinality(LiveBefore(all, base + looked)) <= nth
  <2> SUFFICES ASSUME found = {}, ~(Cardinality(LiveBefore(all, base + looked)) <= nth) PROVE FALSE
    OBVIOUS
  <2>1. looked \in 0..looked /\ base + looked \in Nat /\ Cardinality(LiveBefore(all, base + looked)) \in Nat
    BY <1>12, <1>14
  <2>2. nth < Cardinality(LiveBefore(all, base + looked))
    BY <2>1
  <2>3. PICK k \in LiveBefore(all, base + looked) : Cardinality(LiveBefore(all, k)) = nth
    BY <2>1, <2>2, LiveNth
  <2>4. k \in 0..base + looked - 1 /\ IsShort(Entry(all, k))
    BY <2>3 DEF LiveBefore
  <2>5. ~(k < base)
    <3> SUFFICES ASSUME k < base PROVE FALSE
      OBVIOUS
    <3>1. k \in Nat /\ k + 1 \in Nat /\ k + 1 <= base
      BY <2>4
    <3>2. Cardinality(LiveBefore(all, k + 1)) = nth + 1
      BY <2>3, <2>4, <3>1, LiveStep
    <3>3. Cardinality(LiveBefore(all, k + 1)) <= Cardinality(LiveBefore(all, base))
      BY <3>1, LiveGrows
    <3> QED
      BY <1>6, <1>15, <3>2, <3>3
  <2>6. PICK h \in 0..looked - 1 : k = base + h /\ h \in 0..Slots - 1
    <3>1. k - base \in 0..looked - 1 /\ k = base + (k - base) /\ k - base \in 0..Slots - 1
      BY <2>4, <2>5, <1>12
    <3> QED
      BY <3>1
  <2>7. IsShort(Entry(here, h)) /\ Cardinality(LiveBefore(all, base + h)) = nth
    BY <2>3, <2>4, <2>6, <1>16
  <2>8. h \in found
    BY <2>7, <1>5, <1>18
  <2> QED
    BY <2>8
<1>20. ASSUME found # {}, Return(WithName(here, Min(found)))
       PROVE  FatInv'
  <2>1. PICK i \in found : i = Min(found)
    <3>1. found \subseteq Nat
      OBVIOUS
    <3> HIDE DEF found
    <3> QED
      BY <1>20, <3>1, MinIs
  <2>2. i \in 0..looked - 1 /\ IsShort(Entry(here, i)) /\ Cardinality(LiveBefore(all, base + i)) = nth
    BY <2>1, <1>5, <1>18
  <2>3. i \in 0..looked /\ i \in 0..Slots - 1
    BY <2>2, <1>12
  <2>4. PICK n \in 0..Len(all) : n = base + i
    BY <2>3, <1>16
  <2>5. IsShort(Entry(all, n)) /\ \A k \in 0..n - 1 : ~IsEnd(Entry(all, k))
    BY <2>2, <2>3, <2>4, <1>16, <1>17
  <2>6. LET q == Cardinality(LiveBefore(AllSlots(v, dir), n))
        IN  q < Len(Content(v, dir)) /\ Content(v, dir)[q + 1] = WithName(AllSlots(v, dir), n)
    BY <2>5, <1>9, <1>16, ContentIs
  <2>7. nth < Len(Content(v, dir)) /\ Content(v, dir)[nth + 1] = WithName(all, n)
    BY <2>2, <2>4, <2>6, <1>9
  <2>8. WithName(all, n) = WithName(here, i)
    BY <1>9, <1>10, <1>13, <2>3, <2>4, NameOfSlot
  <2>9. result' = WithName(here, i) /\ pc' = "idle" /\ UNCHANGED <<vol, call>>
    BY <1>20, <2>1 DEF Return, Step
  <2>10. result' = Listed(v, dir, nth)
    BY <2>7, <2>8, <2>9, Zenon DEF Listed
  <2>11. Asked'
    BY <1>1, <2>9, AskedStays
  <2>12. Answers'
    <3>1. call.op # "open" /\ call.op # "finddir" /\ call.op # "read"
      BY <1>3
    <3> QED
      BY <1>2, <1>4, <1>5, <2>9, <2>10, <3>1, Zenon DEF Answers
  <2> QED
    BY <2>9, <2>11, <2>12, Arrives
<1>21. ASSUME found = {}, looked < Slots, Return(NoEntry)
       PROVE  FatInv'
  <2>1. looked \in 0..Slots - 1 /\ looked \in 0..looked /\ IsEnd(Entry(here, looked))
    BY <1>11, <1>12, <1>21
  <2>2. PICK n \in 0..Len(all) : n = base + looked
    BY <2>1, <1>16
  <2>3. IsEnd(Entry(all, n)) /\ \A k \in 0..n - 1 : ~IsEnd(Entry(all, k))
    <3>1. Entry(all, base + looked) = Entry(here, looked)
      BY <2>1, <1>16
    <3>2. \A k \in 0..base + looked - 1 : ~IsEnd(Entry(all, k))
      BY <2>1, <1>17
    <3> QED
      BY <2>1, <2>2, <3>1, <3>2
  <2>4. Len(Content(v, dir)) = Cardinality(LiveBefore(all, n))
    BY <2>3, <1>9, <1>16, ContentIs
  <2>5. ~(nth < Len(Content(v, dir)))
    BY <1>14, <1>19, <1>21, <2>1, <2>2, <2>4
  <2>6. result' = NoEntry /\ pc' = "idle" /\ UNCHANGED <<vol, call>>
    BY <1>21 DEF Return, Step
  <2>7. result' = Listed(v, dir, nth)
    BY <2>5, <2>6, Zenon DEF Listed
  <2>8. Asked'
    BY <1>1, <2>6, AskedStays
  <2>9. Answers'
    <3>1. call.op # "open" /\ call.op # "finddir" /\ call.op # "read"
      BY <1>3
    <3> QED
      BY <1>2, <1>4, <1>5, <2>6, <2>7, <3>1, Zenon DEF Answers
  <2> QED
    BY <2>6, <2>8, <2>9, Arrives
<1>22. ASSUME found = {}, looked = Slots, Follow("index"), number' = number + Slots - SkippedBefore(here, Slots)
       PROVE  FatInv'
  <2>1. looked \in 0..looked /\ Slots \in 0..looked
    BY <1>12, <1>22
  <2>2. \/ /\ j + 1 \in 0..ClusterCount(v) - 1
           /\ Clusters(v, FirstOf(v, dir))[j + 1] \in DOMAIN v.dirs
           /\ ReadFatEntry(current_cluster) = Clusters(v, FirstOf(v, dir))[j + 1]
        \/ IsEnd(Entry(all, (j + 1) * Slots)) /\ Astray(v, ReadFatEntry(current_cluster))
    <3>1. \A i \in 0..Slots - 1 : ~IsEnd(Entry(v.dirs[Clusters(v, FirstOf(v, dir))[j]], i))
      BY <1>10, <1>11, <1>22
    <3> QED
      BY <3>1, <1>6, <1>7, <1>9, <1>10, DirectoryGoesOn
  <2>3. /\ current_cluster' = ReadFatEntry(current_cluster) /\ UNCHANGED <<vol, call>>
        /\ pc' = IF OnDisk(FatSector(current_cluster)) THEN "index" ELSE "panic"
    BY <1>22, Zenon DEF Follow, Step
  <2>4. (j + 1) * Slots = base + Slots
    BY <1>12, <1>13
  <2>5. \A k \in 0..(j + 1) * Slots - 1 : ~IsEnd(Entry(all, k))
    BY <2>1, <2>4, <1>17
  <2>6. number' = Cardinality(LiveBefore(all, base + Slots))
    <3>1. PICK s \in Nat, f \in Nat : /\ s = SkippedBefore(here, Slots) /\ f = Cardinality(LiveBefore(all, base + Slots))
                                      /\ f + s = number + Slots
      BY <1>14, <2>1
    <3> QED
      BY <3>1, <1>12, <1>15, <1>22
  <2>7. Cardinality(LiveBefore(all, base + Slots)) <= nth
    BY <1>19, <1>22
  <2>8. Counting(v, dir, nth, current_cluster', number')
    <3>1. CASE /\ j + 1 \in 0..ClusterCount(v) - 1
               /\ Clusters(v, FirstOf(v, dir))[j + 1] \in DOMAIN v.dirs
               /\ ReadFatEntry(current_cluster) = Clusters(v, FirstOf(v, dir))[j + 1]
      BY <1>9, <2>3, <2>4, <2>5, <2>6, <2>7, <3>1, Zenon DEF Counting
    <3>2. CASE IsEnd(Entry(all, (j + 1) * Slots)) /\ Astray(v, ReadFatEntry(current_cluster))
      <4>1. PICK n \in 0..Len(all) : n = base + Slots
        BY <2>1, <1>16
      <4>2. IsEnd(Entry(all, n)) /\ \A k \in 0..n - 1 : ~IsEnd(Entry(all, k))
        BY <2>4, <2>5, <3>2, <4>1
      <4>3. Len(Content(v, dir)) = Cardinality(LiveBefore(all, n))
        BY <4>2, <1>9, <1>16, ContentIs
      <4>4. ~(nth < Len(Content(v, dir)))
        <5>1. Cardinality(LiveBefore(all, n)) \in Nat
          BY LiveStep
        <5> QED
          BY <2>7, <4>1, <4>3, <5>1
      <4> QED
        BY <2>3, <3>2, <4>4, Zenon DEF Counting
    <3> QED
      BY <2>2, <3>1, <3>2
  <2>9. Asked'
    BY <1>1, <2>3, AskedStays
  <2>10. Counts'
    BY <1>2, <1>3, <1>4, <1>5, <2>3, <2>8, Zenon DEF Counts
  <2> QED
    BY <2>3, <2>9, <2>10, Arrives
<1>23. \/ found # {} /\ Return(WithName(here, Min(found)))
       \/ found = {} /\ looked < Slots /\ Return(NoEntry)
       \/ found = {} /\ looked = Slots /\ Follow("index") /\ number' = number + Slots - SkippedBefore(here, Slots)
  BY <1>9, <1>11, Zenon DEF IndexCluster
<1> QED
  BY <1>20, <1>21, <1>22, <1>23

(* A copy goes on with a copy of what follows. *)
LEMMA CopyMore ==
    ASSUME NEW v, NEW file, NEW offset \in Nat, NEW copied, CopyOf(v, file, offset, copied),
           NEW at \in Nat, at = offset + Len(copied), NEW bytes, CopyOf(v, file, at, bytes)
    PROVE  /\ CopyOf(v, file, offset, copied \o bytes)
           /\ Len(copied \o bytes) = Len(copied) + Len(bytes)
<1>1. copied \in Seq(Int \X Int) /\ \A k \in 1..Len(copied) : copied[k] = ByteAt(v, file, offset + k - 1)
  BY DEF CopyOf
<1>5. bytes \in Seq(Int \X Int) /\ \A k \in 1..Len(bytes) : bytes[k] = ByteAt(v, file, at + k - 1)
  BY DEF CopyOf
<1>2. Len(copied) \in Nat /\ Len(bytes) \in Nat
  BY <1>1, <1>5
<1>3. copied \o bytes \in Seq(Int \X Int) /\ Len(copied \o bytes) = Len(copied) + Len(bytes)
  BY <1>1, <1>5
<1>4. ASSUME NEW k \in 1..Len(copied) + Len(bytes)
      PROVE  (copied \o bytes)[k] = ByteAt(v, file, offset + k - 1)
  <2>1. CASE k <= Len(copied)
    <3>1. k \in 1..Len(copied) /\ (copied \o bytes)[k] = copied[k]
      BY <1>1, <1>2, <1>5, <2>1
    <3> QED
      BY <3>1, <1>1
  <2>2. CASE k > Len(copied)
    <3>1. PICK h \in 1..Len(bytes) : k = Len(copied) + h
      <4>1. k - Len(copied) \in 1..Len(bytes) /\ k = Len(copied) + (k - Len(copied))
        BY <1>2, <2>2
      <4> QED
        BY <4>1
    <3>2. (copied \o bytes)[k] = bytes[h]
      BY <1>1, <1>2, <1>5, <3>1
    <3>3. at + h - 1 = offset + k - 1
      BY <1>2, <3>1
    <3> QED
      BY <1>5, <3>1, <3>2, <3>3
  <2> QED
    BY <2>1, <2>2, <1>2
<1> QED
  BY <1>3, <1>4 DEF CopyOf

(* The bytes copied out of a cluster are those of the file. *)
LEMMA BytesCopied ==
    ASSUME NEW v \in Volumes, PlainVolume(v), vol = v, NEW file, NEW n \in Nat,
           current_cluster = Clusters(v, file.first)[n], current_cluster \in Int,
           NEW from \in Nat, NEW count \in Nat, from + count <= BytesPerSector,
           NEW at \in Nat, at = n * BytesPerSector + from
    PROVE  CopyOf(v, file, at, Bytes(from, count)) /\ Len(Bytes(from, count)) = count
<1>1. /\ Bytes(from, count) \in Seq(Int \X Int) /\ Len(Bytes(from, count)) = count
      /\ \A k \in 1..count : Bytes(from, count)[k] = ByteAt(v, file, n * BytesPerSector + from + k - 1)
  BY BytesAre
<1> QED
  BY <1>1 DEF CopyOf

(* A cluster of a file is passed over, or copied from, and the read ends when it
   has as many bytes as were asked for. *)
LEMMA ReadRoundKeeps ==
    ASSUME NEW v \in Volumes, PlainVolume(v), vol = v, FatInv, ReadRound
    PROVE  FatInv'
<1>1. pc = "read" /\ pc # "idle" /\ Asked
  BY Zenon DEF ReadRound, FatInv
<1>2. PICK path \in Paths : path = call.path
  BY <1>1, PathIs
<1>3. PICK file \in {Goal(v, path)}, offset \in Nat, size \in Nat :
          file = Goal(v, path) /\ offset = call.offset /\ size = call.size
  BY <1>1 DEF Asked
<1>4. call.op = "read" /\ Reading(v, file, offset, size, current_cluster, number, buffer)
  BY <1>1, <1>2, <1>3, Zenon DEF FatInv, Reads
<1>5. /\ ~file.dir /\ offset + size <= file.size /\ (size = 0 => offset = 0)
      /\ file.size \in Nat /\ file.first \in Nat /\ Lasts(v, file)
  <2>1. Within(file, offset, size)
    BY <1>1, <1>2, <1>3, <1>4, Zenon DEF Asked
  <2>2. IsNode(v, file)
    BY <1>3, GoalIs
  <2> QED
    BY <2>1, <2>2, Zenon DEF Within, IsNode, Shape
<1>6. PICK n \in Nat : n = number
  BY <1>4 DEF Reading
<1>7. BytesPerSector \in Nat \ {0}
  BY VolumeAssumption
<1>8. PICK base \in Nat : base = n * BytesPerSector /\ (n + 1) * BytesPerSector = base + BytesPerSector
  BY <1>7
<1>9. (n = 0 <=> base = 0)
  BY <1>7, <1>8
<1>10. /\ n > 0 => base <= offset + size
       /\ n = 0 \/ base < file.size => current_cluster = Clusters(v, file.first)[n]
       /\ CopyOf(v, file, offset, buffer)
       /\ Len(buffer) = IF base <= offset THEN 0 ELSE base - offset
  BY <1>4, <1>6, <1>8 DEF Reading
<1>11. n = 0 \/ base < file.size => current_cluster \in Int
  <2>1. CASE base < file.size
    <3>1. Clusters(v, file.first)[n] \in DOMAIN v.fat
      BY <1>5, <1>8, <2>1, FileGoesOn
    <3> QED
      BY <1>10, <2>1, <3>1, PlainCount, VolumeAssumption
  <2>2. CASE n = 0
    BY <1>5, <1>10, <2>2, ClustersFollow, PlainCount
  <2> QED
    BY <2>1, <2>2
<1>12. ByteOffset = base /\ ClusterEnd = base + BytesPerSector /\ ReadEnd = offset + size
  BY <1>3, <1>6, <1>8, PlainSectors DEF ByteOffset, ClusterEnd, ReadEnd
<1>18. PICK copied \in Seq(Int \X Int), done \in Nat :
           /\ copied = buffer /\ done = Len(buffer) /\ done = Len(copied) /\ CopyOf(v, file, offset, copied)
           /\ done = IF base <= offset THEN 0 ELSE base - offset
  <2>1. buffer \in Seq(Int \X Int)
    BY <1>10 DEF CopyOf
  <2> QED
    BY <1>10, <2>1
<1>19. PICK at \in Nat : at = offset + done
  OBVIOUS
(* the read goes on with the next cluster *)
<1>13. ASSUME NEW bytes, GoOn(bytes), base + BytesPerSector <= offset + size, CopyOf(v, file, at, bytes),
              done + Len(bytes) = IF base + BytesPerSector <= offset THEN 0 ELSE base + BytesPerSector - offset
       PROVE  FatInv'
  <2>1. /\ buffer' = buffer \o bytes /\ number' = n + 1 /\ UNCHANGED <<vol, call>>
        /\ current_cluster' = ReadFatEntry(current_cluster)
        /\ pc' = IF OnDisk(FatSector(current_cluster)) THEN "read" ELSE "panic"
    BY <1>6, <1>13, Zenon DEF GoOn, Follow, Step
  <2>2. CopyOf(v, file, offset, buffer') /\ Len(buffer') = done + Len(bytes)
    <3>1. CopyOf(v, file, offset, copied) /\ at = offset + Len(copied)
      BY <1>18, <1>19
    <3>2. CopyOf(v, file, offset, copied \o bytes) /\ Len(copied \o bytes) = Len(copied) + Len(bytes)
      BY <3>1, <1>13, CopyMore
    <3> QED
      BY <3>2, <2>1, <1>18
  <2>3. (n + 1) * BytesPerSector < file.size => current_cluster' = Clusters(v, file.first)[n + 1]
    <3> SUFFICES ASSUME (n + 1) * BytesPerSector < file.size
                 PROVE  current_cluster' = Clusters(v, file.first)[n + 1]
      OBVIOUS
    <3>1. base < file.size /\ n * BytesPerSector < file.size
      BY <1>5, <1>7, <1>8
    <3>2. ReadFatEntry(Clusters(v, file.first)[n]) = Clusters(v, file.first)[n + 1]
      BY <1>5, <3>1, FileGoesOn
    <3> QED
      BY <1>10, <2>1, <3>1, <3>2
  <2>4. Reading(v, file, offset, size, current_cluster', n + 1, buffer')
    <3>1. n + 1 \in Nat /\ n + 1 # 0
      OBVIOUS
    <3>2. (n + 1) * BytesPerSector <= offset + size
      BY <1>8, <1>13
    <3>3. Len(buffer') = IF (n + 1) * BytesPerSector <= offset THEN 0 ELSE (n + 1) * BytesPerSector - offset
      <4>1. Len(buffer') = IF base + BytesPerSector <= offset THEN 0 ELSE base + BytesPerSector - offset
        BY <1>13, <2>2
      <4>2. PICK goal \in Nat : goal = base + BytesPerSector
        BY <1>7
      <4>3. goal = (n + 1) * BytesPerSector
        BY <1>8, <4>2, Zenon
      <4>4. Len(buffer') = IF goal <= offset THEN 0 ELSE goal - offset
        <5>1. goal - offset = base + BytesPerSector - offset
          BY <4>2, <1>7
        <5> QED
          BY <4>1, <4>2, <5>1, Zenon
      <4> QED
        BY <4>3, <4>4, Zenon
    <3> QED
      BY <2>2, <2>3, <3>1, <3>2, <3>3, Zenon DEF Reading
  <2>5. Asked'
    BY <1>1, <2>1, AskedStays
  <2>6. Reads'
    BY <1>2, <1>3, <1>4, <2>1, <2>4, Zenon DEF Reads
  <2> QED
    BY <2>1, <2>5, <2>6, Arrives
(* the read ends *)
<1>14. ASSUME NEW bytes, Enough(bytes), done + Len(bytes) = size, CopyOf(v, file, at, bytes)
       PROVE  FatInv'
  <2>1. buffer' = buffer \o bytes /\ UNCHANGED <<vol, call>> /\ pc' = "idle"
    BY <1>14, Zenon DEF Enough, Return, Step
  <2>2. CopyOf(v, file, offset, buffer') /\ Len(buffer') = size
    <3>1. CopyOf(v, file, offset, copied) /\ at = offset + Len(copied)
      BY <1>18, <1>19
    <3>2. CopyOf(v, file, offset, copied \o bytes) /\ Len(copied \o bytes) = Len(copied) + Len(bytes)
      BY <3>1, <1>14, CopyMore
    <3> QED
      BY <3>2, <2>1, <1>14, <1>18
  <2>3. Asked'
    BY <1>1, <2>1, AskedStays
  <2>4. Answers'
    <3>1. call.op # "open" /\ call.op # "finddir" /\ call.op # "readdir"
      BY <1>4
    <3> QED
      BY <1>2, <1>3, <2>1, <2>2, <3>1, Zenon DEF Answers
  <2> QED
    BY <2>1, <2>3, <2>4, Arrives
<1>15. CASE offset >= base /\ offset < base + BytesPerSector
  <2>1. PICK from \in Nat : from = offset - base /\ from < BytesPerSector
    BY <1>7, <1>15
  <2>2. PICK count \in Nat : /\ count = Min({size, base + BytesPerSector - offset})
                             /\ count <= base + BytesPerSector - offset
                             /\ count = size \/ (count = base + BytesPerSector - offset /\ count < size)
    <3> DEFINE S == {size, base + BytesPerSector - offset}
    <3>1. S \subseteq Nat /\ S # {}
      BY <1>7, <1>15
    <3>2. Min(S) \in S /\ \A h \in S : Min(S) <= h
      BY <3>1, MinIs
    <3> QED
      BY <3>1, <3>2, <1>7, <1>15
  <2>3. from + count <= BytesPerSector /\ done = 0
    BY <1>7, <1>15, <1>18, <2>1, <2>2
  <2>4. n = 0 \/ base < file.size
    BY <1>5, <1>7, <1>9, <1>15
  <2>5. PICK bytes \in {Bytes(from, count)} : bytes = Bytes(from, count)
    OBVIOUS
  <2>6. CopyOf(v, file, at, bytes) /\ Len(bytes) = count
    <3>1. at = n * BytesPerSector + from
      BY <1>8, <1>19, <2>1, <2>3
    <3> QED
      BY <1>10, <1>11, <2>3, <2>4, <2>5, <3>1, BytesCopied
  <2>7. FirstBytes
    <3>1. call.offset >= ByteOffset /\ call.offset < ClusterEnd
      BY <1>3, <1>12, <1>15
    <3> QED
      BY <3>1, Zenon DEF ReadRound
  <2>8. IF done + count = size THEN Enough(bytes) ELSE GoOn(bytes)
    <3>1. /\ call.offset - ByteOffset = from /\ Min({call.size, ClusterEnd - call.offset}) = count
          /\ Len(buffer) = done /\ call.size = size
      <4>1. call.offset = offset /\ call.size = size /\ ByteOffset = base /\ ClusterEnd = base + BytesPerSector
        BY <1>3, <1>12
      <4>2. call.offset - ByteOffset = from
        BY <4>1, <2>1
      <4>3. ClusterEnd - call.offset = base + BytesPerSector - offset
        <5>1. PICK end \in Nat : end = base + BytesPerSector
          BY <1>7
        <5>2. end - offset = base + BytesPerSector - offset
          BY <5>1, <1>7
        <5> QED
          BY <4>1, <5>1, <5>2, Zenon
      <4>4. Min({call.size, ClusterEnd - call.offset}) = count
        BY <4>1, <4>3, <2>2, Zenon
      <4> QED
        BY <4>1, <4>2, <4>4, <1>18
    <3> QED
      BY <3>1, <2>5, <2>7, Zenon DEF FirstBytes
  <2>9. CASE done + count = size
    BY <1>14, <2>5, <2>6, <2>8, <2>9
  <2>10. CASE done + count # size
    <3>1. count = base + BytesPerSector - offset /\ count < size
      <4>1. count # size
        BY <2>3, <2>10
      <4> QED
        BY <2>2, <4>1
    <3>2. base + BytesPerSector <= offset + size /\ ~(base + BytesPerSector <= offset)
      BY <1>7, <1>15, <3>1
    <3>3. done + Len(bytes) = base + BytesPerSector - offset
      BY <2>3, <2>6, <3>1, <1>7
    <3> QED
      BY <1>13, <2>5, <2>6, <2>8, <2>10, <3>2, <3>3
  <2> QED
    BY <2>9, <2>10
<1>16. CASE ~(offset >= base /\ offset < base + BytesPerSector) /\ offset < base
  <2>1. done = base - offset /\ n # 0 /\ base <= offset + size
    BY <1>9, <1>10, <1>16, <1>18
  <2>2. ASSUME NEW count \in 0..BytesPerSector, base < file.size \/ count = 0
        PROVE  CopyOf(v, file, at, Bytes(0, count)) /\ Len(Bytes(0, count)) = count
    <3>1. CASE count = 0
      <4>1. Bytes(0, 0) = <<>>
        BY DEF Bytes
      <4>2. CopyOf(v, file, at, <<>>) /\ Len(<<>>) = 0
        BY DEF CopyOf
      <4> QED
        BY <3>1, <4>1, <4>2, Zenon
    <3>2. CASE base < file.size
      <4>1. PICK from \in Nat : from = 0 /\ count \in Nat /\ from + count <= BytesPerSector
        BY <1>7
      <4>2. at = n * BytesPerSector + from
        BY <1>8, <1>19, <2>1, <4>1
      <4>3. CopyOf(v, file, at, Bytes(from, count)) /\ Len(Bytes(from, count)) = count
        <5>1. current_cluster = Clusters(v, file.first)[n] /\ current_cluster \in Int
          BY <1>10, <1>11, <3>2
        <5> QED
          BY <4>1, <4>2, <5>1, BytesCopied, SMTT(30)
      <4> QED
        BY <4>1, <4>3
    <3> QED
      BY <2>2, <3>1, <3>2
  <2>3. CASE offset + size >= base + BytesPerSector
    <3>1. GoOn(Bytes(0, BytesPerSector))
      <4>1. GoOn(Bytes(0, BytesPerCluster))
        <5>1. /\ ~(call.offset >= ByteOffset /\ call.offset < ClusterEnd)
              /\ call.offset < ByteOffset /\ ReadEnd >= ClusterEnd
          BY <1>3, <1>12, <1>16, <2>3
        <5> QED
          BY <5>1, Zenon DEF ReadRound
      <4> QED
        BY <4>1, PlainSectors
    <3>2. BytesPerSector \in 0..BytesPerSector /\ base < file.size
      BY <1>5, <1>7, <2>3
    <3>3. PICK bytes \in {Bytes(0, BytesPerSector)} :
            bytes = Bytes(0, BytesPerSector) /\ Len(bytes) = BytesPerSector /\ CopyOf(v, file, at, bytes)
      BY <2>2, <3>2
    <3>4. ~(base + BytesPerSector <= offset) /\ done + Len(bytes) = base + BytesPerSector - offset
      <4>1. Len(bytes) = BytesPerSector
        BY <3>3
      <4> QED
        BY <1>7, <1>16, <2>1, <4>1
    <3> QED
      BY <1>13, <2>3, <3>1, <3>3, <3>4, <1>7
  <2>4. CASE offset + size < base + BytesPerSector
    <3>1. Enough(Bytes(0, size - done))
      <4>1. ~(offset + size >= base + BytesPerSector)
        BY <1>7, <2>4
      <4>2. /\ ~(call.offset >= ByteOffset /\ call.offset < ClusterEnd)
            /\ ~(call.offset < ByteOffset /\ ReadEnd >= ClusterEnd)
            /\ ReadEnd >= ByteOffset /\ ReadEnd < ClusterEnd
        BY <1>3, <1>12, <1>16, <2>1, <2>4, <4>1
      <4>3. Enough(Bytes(0, call.size - Len(buffer)))
        BY <4>2, Zenon DEF ReadRound
      <4> QED
        BY <1>3, <1>18, <4>3
    <3>2. PICK count \in 0..BytesPerSector : count = size - done /\ count = offset + size - base
      BY <1>7, <2>1, <2>4
    <3>3. base < file.size \/ count = 0
      BY <1>5, <1>7, <3>2
    <3>4. PICK bytes \in {Bytes(0, count)} :
            bytes = Bytes(0, count) /\ Len(bytes) = count /\ CopyOf(v, file, at, bytes)
      BY <2>2, <3>3
    <3>5. done + Len(bytes) = size
      BY <2>1, <3>2, <3>4
    <3> QED
      BY <1>14, <3>1, <3>2, <3>4, <3>5
  <2> QED
    BY <2>3, <2>4, <1>7
<1>17. CASE offset >= base + BytesPerSector
  <2>1. /\ ~(offset >= base /\ offset < base + BytesPerSector)
        /\ ~(offset < base /\ offset + size >= base + BytesPerSector)
        /\ ~(offset + size >= base /\ offset + size < base + BytesPerSector)
    BY <1>7, <1>17
  <2>2. GoOn(<<>>)
    <3>1. /\ ~(call.offset >= ByteOffset /\ call.offset < ClusterEnd)
          /\ ~(call.offset < ByteOffset /\ ReadEnd >= ClusterEnd)
          /\ ~(ReadEnd >= ByteOffset /\ ReadEnd < ClusterEnd)
      BY <1>3, <1>12, <2>1
    <3> QED
      BY <3>1, Zenon DEF ReadRound
  <2>3. PICK bytes : bytes = <<>> /\ Len(bytes) = 0 /\ CopyOf(v, file, at, bytes)
    <3>1. CopyOf(v, file, at, <<>>) /\ Len(<<>>) = 0
      BY DEF CopyOf
    <3> QED
      BY <3>1, Zenon
  <2>4. done = 0 /\ base + BytesPerSector <= offset + size /\ base + BytesPerSector <= offset
    BY <1>7, <1>17, <1>18
  <2>5. GoOn(bytes) /\ done + Len(bytes) = 0
    BY <2>2, <2>3, <2>4
  <2> QED
    BY <1>13, <2>3, <2>4, <2>5
<1> QED
  BY <1>7, <1>15, <1>16, <1>17

(* Nothing has been asked for at first. *)
LEMMA Begins ==
    ASSUME Init
    PROVE  DriverInv
<1>1. vol \in Volumes /\ pc = "idle" /\ call = None /\ buffer = <<>>
  BY Zenon DEF Init
<1>2. Asked
  <2>1. call.op = "none" /\ call.path = <<>> /\ call.offset = 0 /\ call.size = 0
    BY <1>1 DEF None
  <2>2. call \in [op : Operations, path : Paths \cup {<<>>}, offset : Nat, size : Nat]
    BY <1>1 DEF None, Operations
  <2> QED
    BY <1>1, <2>1, <2>2 DEF Asked
<1>3. Walks /\ Scans /\ Resolves /\ Counts /\ Reads
  BY <1>1 DEF Walks, Scans, Resolves, Counts, Reads
<1>4. Answers
  BY <1>1 DEF Answers, None
<1> QED
  BY <1>1, <1>2, <1>3, <1>4, Zenon DEF DriverInv, FatInv

(* The volume does not change. *)
LEMMA VolumeStays ==
    ASSUME Next
    PROVE  vol' = vol
<1>1. CASE Calls
  BY <1>1, Zenon DEF Calls, OpenFs, FinddirFs, ReaddirFs, ReadFs, CloseFs, Called
<1>2. CASE ReadFails \/ NextWord \/ PathEnds \/ NodeResolved
  BY <1>2, Zenon DEF ReadFails, NextWord, PathEnds, NodeResolved, Step
<1>3. CASE ScanCluster
  BY <1>3, Zenon DEF ScanCluster, Step, Return, Follow
<1>4. CASE OpenResolved
  BY <1>4, Zenon DEF OpenResolved
<1>5. CASE IndexCluster
  BY <1>5, Zenon DEF IndexCluster, Step, Return, Follow
<1>6. CASE ReadRound
  BY <1>6, Zenon DEF ReadRound, FirstBytes, GoOn, Enough, Step, Return, Follow
<1>7. CASE Stopped
  BY <1>7, Zenon DEF Stopped, vars
<1> QED
  BY <1>1, <1>2, <1>3, <1>4, <1>5, <1>6, <1>7, Zenon DEF Next, Driver

(* Every step keeps the invariant. *)
LEMMA StepKeeps ==
    ASSUME DriverInv, [Next]_vars
    PROVE  DriverInv'
<1>1. CASE UNCHANGED vars
  BY <1>1, Zenon DEF DriverInv, FatInv, Asked, Walks, Scans, Resolves, Counts, Reads, Answers,
     vars, walking, position
<1>2. CASE Next
  <2>1. vol' = vol
    BY <1>2, VolumeStays
  <2>2. PICK v \in Volumes : v = vol
    BY Zenon DEF DriverInv
  <2>3. SUFFICES ASSUME PlainVolume(v)
                 PROVE  FatInv'
    BY <2>1, <2>2, Zenon DEF DriverInv
  <2>4. FatInv
    BY <2>2, <2>3, Zenon DEF DriverInv
  <2>5. CASE Calls
    BY <2>2, <2>3, <2>4, <2>5, CallsKeep
  <2>6. CASE ReadFails
    BY <2>4, <2>6, ReadFailsKeeps
  <2>7. CASE NextWord
    BY <2>2, <2>3, <2>4, <2>7, NextWordKeeps
  <2>8. CASE PathEnds
    BY <2>2, <2>3, <2>4, <2>8, PathEndsKeeps
  <2>9. CASE ScanCluster
    BY <2>2, <2>3, <2>4, <2>9, ScanClusterKeeps
  <2>10. CASE OpenResolved
    BY <2>2, <2>3, <2>4, <2>10, OpenResolvedKeeps
  <2>11. CASE NodeResolved
    BY <2>2, <2>3, <2>4, <2>11, NodeResolvedKeeps
  <2>12. CASE IndexCluster
    BY <2>2, <2>3, <2>4, <2>12, IndexClusterKeeps
  <2>13. CASE ReadRound
    BY <2>2, <2>3, <2>4, <2>13, ReadRoundKeeps
  <2>14. CASE Stopped
    <3>1. UNCHANGED vars
      BY <2>14, Zenon DEF Stopped
    <3> QED
      BY <2>4, <3>1, Zenon DEF FatInv, Asked, Walks, Scans, Resolves, Counts, Reads, Answers,
         vars, walking, position
  <2> QED
    BY <1>2, <2>5, <2>6, <2>7, <2>8, <2>9, <2>10, <2>11, <2>12, <2>13, <2>14, Zenon DEF Next, Driver
<1> QED
  BY <1>1, <1>2

(* When a call has returned, the goal of its path is what the path names. *)
LEMMA Returns ==
    ASSUME NEW v \in Volumes, PlainVolume(v), vol = v, FatInv, pc = "idle", call.op # "none"
    PROVE  /\ Named(call.path) = Goal(v, call.path) /\ Asked /\ Answers
           /\ IsNode(v, Goal(v, call.path))
<1>1. Asked /\ Answers
  BY Zenon DEF FatInv
<1>2. PICK path \in Paths : path = call.path
  BY <1>1, Zenon DEF Asked
<1>3. Named(path) = Goal(v, path)
  BY <1>2, NamedIs
<1>4. IsNode(v, Goal(v, path))
  BY <1>2, GoalIs
<1> QED
  BY <1>1, <1>2, <1>3, <1>4, Zenon

(* Entries that differ in their names only are equal without them. *)
LEMMA Unnamed ==
    ASSUME NEW d, NEW e, Shape(d), Shape(e), Same(d, e)
    PROVE  [d EXCEPT !.name = <<>>] = [e EXCEPT !.name = <<>>]
<1>1. PICK kind, dir, first, size, one, two :
          /\ d = [kind |-> kind, name |-> one, dir |-> dir, first |-> first, size |-> size]
          /\ e = [kind |-> kind, name |-> two, dir |-> dir, first |-> first, size |-> size]
  BY Zenon DEF Shape, Same
<1> QED
  BY <1>1

(* A lookup returns the entry that the path names. *)
LEMMA LookupFollows ==
    ASSUME NEW v \in Volumes, PlainVolume(v), vol = v, FatInv
    PROVE  LookupIsRight
<1> SUFFICES ASSUME Returned("open") \/ Returned("finddir")
             PROVE  [result EXCEPT !.name = <<>>] = [Named(call.path) EXCEPT !.name = <<>>]
  BY Zenon DEF LookupIsRight
<1>1. pc = "idle" /\ call.op \in {"open", "finddir"} /\ call.op # "none"
  BY DEF Returned
<1>2. /\ Named(call.path) = Goal(v, call.path) /\ Answers
      /\ IsNode(v, Goal(v, call.path))
  BY <1>1, Returns
<1>3. PICK d \in {result}, e \in {Goal(v, call.path)} : d = result /\ e = Goal(v, call.path)
  OBVIOUS
<1>4. Shape(d) /\ Shape(e) /\ Same(d, e)
  BY <1>1, <1>2, <1>3, Zenon DEF Answers, IsNode
<1>5. [d EXCEPT !.name = <<>>] = [e EXCEPT !.name = <<>>]
  BY <1>4, Unnamed
<1> QED
  BY <1>2, <1>3, <1>5, Zenon

(* A listing returns the entry with its number. *)
LEMMA ListingFollows ==
    ASSUME NEW v \in Volumes, PlainVolume(v), vol = v, FatInv
    PROVE  ListingComplete
<1> SUFFICES ASSUME Returned("readdir")
             PROVE  result = Listed(v, Named(call.path), call.offset)
  BY Zenon DEF ListingComplete, Listed
<1>1. pc = "idle" /\ call.op = "readdir" /\ call.op # "none"
  BY DEF Returned
<1>2. Named(call.path) = Goal(v, call.path) /\ Answers
  BY <1>1, Returns
<1> QED
  BY <1>1, <1>2, Zenon DEF Answers

(* A read returns the bytes of the file. *)
LEMMA ReadFollows ==
    ASSUME NEW v \in Volumes, PlainVolume(v), vol = v, FatInv
    PROVE  ReadIsContent
<1> SUFFICES ASSUME Returned("read")
             PROVE  buffer = [k \in 1..call.size |-> ByteOfFile(Named(call.path), call.offset + k - 1)]
  BY Zenon DEF ReadIsContent
<1>1. pc = "idle" /\ call.op = "read" /\ call.op # "none"
  BY DEF Returned
<1>2. /\ Named(call.path) = Goal(v, call.path) /\ Asked /\ Answers
      /\ IsNode(v, Goal(v, call.path))
  BY <1>1, Returns
<1>3. PICK file \in {Goal(v, call.path)}, offset \in Nat, size \in Nat :
          file = Goal(v, call.path) /\ offset = call.offset /\ size = call.size
  BY <1>2 DEF Asked
<1>4. Within(file, offset, size) /\ CopyOf(v, file, offset, buffer) /\ Len(buffer) = size
  BY <1>1, <1>2, <1>3, Zenon DEF Asked, Answers
<1>5. file.size \in Nat /\ Lasts(v, file) /\ offset + size <= file.size
  <2>1. IsNode(v, file) /\ ~file.dir /\ offset + size <= file.size
    BY <1>2, <1>3, <1>4, Zenon DEF Within
  <2> QED
    BY <2>1, Zenon DEF IsNode, Shape
<1>6. ASSUME NEW k \in 1..size
      PROVE  buffer[k] = ByteOfFile(file, offset + k - 1)
  <2>1. PICK at \in 0..file.size - 1 : at = offset + k - 1
    BY <1>5
  <2>2. ByteOfFile(file, at) = ByteAt(v, file, at)
    BY <1>5, ByteOfFileIs
  <2>3. buffer[k] = ByteAt(v, file, offset + k - 1)
    BY <1>4 DEF CopyOf
  <2> QED
    BY <2>1, <2>2, <2>3
<1>7. buffer = [k \in 1..size |-> buffer[k]]
  BY <1>4 DEF CopyOf
<1>8. buffer = [k \in 1..size |-> ByteOfFile(file, offset + k - 1)]
  BY <1>6, <1>7, Zenon
<1> QED
  BY <1>2, <1>3, <1>8, Zenon

(* The invariant of the driver. *)
THEOREM Fat32Invariant == Spec => []DriverInv
BY Begins, StepKeeps, PTL DEF Spec

(* On a plain volume what a path is found to be, or not to be, is what it names. *)
THEOREM Fat32LookupIsRight == Spec => [](PlainVolume(vol) => LookupIsRight)
<1>1. DriverInv => (PlainVolume(vol) => LookupIsRight)
  BY LookupFollows, Zenon DEF DriverInv
<1> QED
  BY <1>1, Fat32Invariant, PTL

(* ... a listing goes through the entries of the directory, each once ... *)
THEOREM Fat32ListingComplete == Spec => [](PlainVolume(vol) => ListingComplete)
<1>1. DriverInv => (PlainVolume(vol) => ListingComplete)
  BY ListingFollows, Zenon DEF DriverInv
<1> QED
  BY <1>1, Fat32Invariant, PTL

(* ... and a read returns the bytes of the file, by its chain of clusters. *)
THEOREM Fat32ReadIsContent == Spec => [](PlainVolume(vol) => ReadIsContent)
<1>1. DriverInv => (PlainVolume(vol) => ReadIsContent)
  BY ReadFollows, Zenon DEF DriverInv
<1> QED
  BY <1>1, Fat32Invariant, PTL

-----------------------------------------------------------------------------
(* The initial ram disk *)

(* A byte of the image: of which file and where in it. *)
ImageByte == Nat \X Nat

FileEntry == [filename : Seq(STRING), real_size : Nat, start_block : Nat]

PackedFile == [name : FileNames, size : FileSizes]

(* The table lists the files in the order they were packed. *)
TableListsFiles ==
    /\ file_table \in Seq(FileEntry) /\ files \in Seq(PackedFile)
    /\ Len(file_table) = Len(files) /\ Len(files) <= MaxFiles
    /\ \A k \in 1..Len(files) :
          file_table[k].filename = Cut(files[k].name) /\ file_table[k].real_size = files[k].size

(* The k-th file lies in whole blocks from the first one on, its bytes too when the
   number of its blocks can be said. *)
LiesFrom(first, k) ==
    /\ file_table[k].start_block = first % BlockLimit
    /\ first + NumBlocks(files[k].size) <= current_block
    /\ BlocksOf(files[k].size) < BlockLimit =>
          \A n \in 1..files[k].size : BlockByte(first * BlockSize + n) = <<k, n - 1>>

BlocksHoldFiles ==
    /\ current_block \in Nat
    /\ blocks \in Seq(ImageByte) /\ Len(blocks) = current_block * BlockSize
    /\ \A k \in 1..Len(files) : \E first \in Nat : LiesFrom(first, k)

(* What was returned is what would be returned now: an image that is mounted stays as
   it is. *)
AnswerStands ==
    /\ ~mounted => asked.op = "none"
    /\ asked.op = "read" => /\ asked.offset \in Nat /\ asked.size \in Nat
                           /\ answer = Read(asked.name, asked.offset, asked.size)
    /\ asked.op = "readdir" => asked.index \in Nat /\ answer = Readdir(asked.index)

InitrdInv == TableListsFiles /\ BlocksHoldFiles /\ AnswerStands

(* What the constants are. *)
LEMMA ImageSizes ==
    /\ NameSize \in Nat \ {0} /\ BlockSize \in Nat \ {0} /\ BlockLimit \in Nat \ {0}
    /\ TableSize \in Nat /\ MaxFiles \in Nat /\ MaxFiles <= TableSize
<1>1. /\ NameSize \in Nat \ {0} /\ BlockSize \in Nat \ {0} /\ BlockLimit \in Nat \ {0}
      /\ TableSize \in Nat /\ MaxFiles \in 0..TableSize
  BY InitrdAssumption, Zenon
<1> QED
  BY <1>1

(* What is packed has a name and a size. *)
LEMMA Packable ==
    /\ FileSizes \subseteq Nat
    /\ \A name \in FileNames : name \in Seq(STRING)
BY InitrdAssumption, Zenon

(* The least of two numbers, and of one. *)
LEMMA LeastOfTwo ==
    ASSUME NEW a \in Nat, NEW b \in Nat
    PROVE  Min({a, b}) = IF a <= b THEN a ELSE b
<1> DEFINE least == IF a <= b THEN a ELSE b
<1>1. least \in {a, b} /\ \A y \in {a, b} : least <= y
  OBVIOUS
<1>2. \A x \in {a, b} : (\A y \in {a, b} : x <= y) => x = least
  OBVIOUS
<1>3. Min({a, b}) \in {a, b} /\ \A y \in {a, b} : Min({a, b}) <= y
  <2> HIDE DEF least
  <2> QED
    BY <1>1, Zenon DEF Min
<1> QED
  BY <1>2, <1>3

(* A set of one number. *)
LEMMA OnlyOne ==
    ASSUME NEW a \in Nat
    PROVE  Min({a}) = a /\ Max({a}) = a
<1>1. \A y \in {a} : a <= y /\ y <= a
  OBVIOUS
<1>2. Min({a}) \in {a}
  BY <1>1, Zenon DEF Min
<1>3. Max({a}) \in {a}
  <2>1. \A y \in {a} : a >= y
    BY <1>1
  <2> QED
    BY <2>1, Zenon DEF Max
<1> QED
  BY <1>2, <1>3

(* Some elements of a sequence, from the one behind the first few. *)
Part(s, from, count) == SubSeq(s, from + 1, from + count)

(* There are such elements. *)
ThereIn(s, from, count, S) == \A n \in 1..count : s[from + n] \in S

(* What they are. *)
Elements(s, from, count, S) ==
    /\ Part(s, from, count) \in Seq(S) /\ Len(Part(s, from, count)) = count
    /\ \A n \in 1..count : Part(s, from, count)[n] = s[from + n]

(* A part of a sequence is a sequence of its elements. *)
LEMMA PartIs ==
    ASSUME NEW S, NEW s, NEW from \in Nat, NEW count \in Nat, ThereIn(s, from, count, S)
    PROVE  Elements(s, from, count, S)
<1>1. PICK m \in Int, l \in Int : m = from + 1 /\ l = from + count
  OBVIOUS
<1>2. ASSUME NEW j \in m..l PROVE s[j] \in S
  <2>1. PICK n \in 1..count : n = j - from
    BY <1>1
  <2>2. j = from + n
    BY <2>1
  <2> QED
    BY <2>2, Zenon DEF ThereIn
<1>3. /\ SubSeq(s, m, l) \in Seq(S)
      /\ Len(SubSeq(s, m, l)) = IF m <= l THEN l - m + 1 ELSE 0
      /\ \A n \in 1..l - m + 1 : SubSeq(s, m, l)[n] = s[m + n - 1]
  BY <1>2, SubSeqProperties
<1>4. l - m + 1 = count /\ (m <= l <=> count # 0)
  BY <1>1
<1>5. Len(SubSeq(s, m, l)) = count
  BY <1>3, <1>4
<1>6. ASSUME NEW n \in 1..count PROVE SubSeq(s, m, l)[n] = s[from + n]
  <2>1. m + n - 1 = from + n
    BY <1>1
  <2> QED
    BY <1>3, <1>4, <2>1, Zenon
<1> QED
  BY <1>1, <1>3, <1>5, <1>6, Zenon DEF Part, Elements

(* A name in the table, and the whole of it when it is short. *)
LEMMA CutIs ==
    ASSUME NEW name \in Seq(STRING)
    PROVE  Cut(name) \in Seq(STRING) /\ (Len(name) < NameSize => Cut(name) = name)
<1>1. Len(name) \in Nat /\ NameSize \in Nat
  BY ImageSizes, LenProperties, Zenon
<1>2. PICK n \in 0..Len(name) : n = Min({NameSize, Len(name)}) /\ (Len(name) < NameSize => n = Len(name))
  <2>1. Min({NameSize, Len(name)}) = IF NameSize <= Len(name) THEN NameSize ELSE Len(name)
    BY <1>1, LeastOfTwo
  <2>2. /\ (IF NameSize <= Len(name) THEN NameSize ELSE Len(name)) \in 0..Len(name)
        /\ Len(name) < NameSize => (IF NameSize <= Len(name) THEN NameSize ELSE Len(name)) = Len(name)
    BY <1>1
  <2> QED
    BY <2>1, <2>2, Zenon
<1>3. Cut(name) = SubSeq(name, 1, n)
  BY <1>2, Zenon DEF Cut
<1>4. \A k \in 1..n : name[0 + k] \in STRING
  <2> SUFFICES ASSUME NEW k \in 1..n PROVE name[k] \in STRING
    OBVIOUS
  <2>1. k \in 1..Len(name)
    BY <1>1
  <2> QED
    BY <2>1, ElementOfSeq
<1>5. /\ SubSeq(name, 1, n) \in Seq(STRING) /\ Len(SubSeq(name, 1, n)) = n
      /\ \A k \in 1..n : SubSeq(name, 1, n)[k] = name[k]
  <2>1. n \in Nat
    BY <1>1
  <2>2. PICK from \in Nat : from = 0
    OBVIOUS
  <2>3. ThereIn(name, from, n, STRING)
    BY <1>4, <2>2 DEF ThereIn
  <2>4. /\ Part(name, from, n) \in Seq(STRING) /\ Len(Part(name, from, n)) = n
        /\ \A k \in 1..n : Part(name, from, n)[k] = name[from + k]
    <3>1. Elements(name, from, n, STRING)
      BY <2>1, <2>3, PartIs, Zenon
    <3> QED
      BY <3>1, Zenon DEF Elements
  <2>5. from + 1 = 1 /\ from + n = n /\ \A k \in 1..n : from + k = k
    BY <2>1, <2>2
  <2> QED
    BY <2>4, <2>5, Zenon DEF Part
<1>6. ASSUME Len(name) < NameSize
      PROVE  Cut(name) = name
  <2>1. n = Len(name)
    BY <1>2, <1>6
  <2>2. PICK cut \in Seq(STRING) : cut = SubSeq(name, 1, n)
    BY <1>5, Zenon
  <2>3. Len(cut) = Len(name) /\ \A k \in 1..Len(cut) : cut[k] = name[k]
    BY <1>1, <1>5, <2>1, <2>2
  <2>4. cut = name
    BY <2>3, SeqEqual, Zenon
  <2> QED
    BY <1>3, <2>2, <2>4, Zenon
<1> QED
  BY <1>3, <1>5, <1>6, Zenon

(* Enough blocks for a file, when their number can be said. *)
LEMMA BlocksSuffice ==
    ASSUME NEW size \in Nat
    PROVE  /\ NumBlocks(size) \in Nat /\ NumBlocks(size) * BlockSize \in Nat
           /\ BlocksOf(size) < BlockLimit =>
                 /\ size <= NumBlocks(size) * BlockSize
                 /\ size > 0 => NumBlocks(size) > 0
<1> DEFINE dividend == size + BlockSize - 1
<1>1. BlockSize \in Nat \ {0} /\ dividend \in Nat
  BY ImageSizes
<1> HIDE DEF dividend
<1>2. /\ dividend \div BlockSize \in Nat /\ dividend % BlockSize \in 0..BlockSize - 1
      /\ dividend = (dividend \div BlockSize) * BlockSize + (dividend % BlockSize)
  BY <1>1, DivMod
<1>3. PICK q \in Nat : q = dividend \div BlockSize /\ dividend = q * BlockSize + (dividend % BlockSize)
  BY <1>2, Zenon
<1>4. PICK product \in Nat : product = q * BlockSize
  BY <1>1
<1>5. size <= product
  BY <1>1, <1>2, <1>3, <1>4 DEF dividend
<1>6. BlocksOf(size) = q
  BY <1>3, Zenon DEF BlocksOf, dividend
<1>7. q = 0 => product = 0
  BY <1>1, <1>4
<1>8. size > 0 => q > 0
  BY <1>5, <1>7
<1>9. PICK cut \in Nat : cut = q % BlockLimit
  <2>1. q % BlockLimit \in 0..BlockLimit - 1
    BY ImageSizes, DivMod, Zenon
  <2>2. q % BlockLimit \in Nat
    BY <2>1, ImageSizes
  <2> QED
    BY <2>2, Zenon
<1>10. NumBlocks(size) = cut
  BY <1>6, <1>9, Zenon DEF NumBlocks
<1>11. q < BlockLimit => cut = q
  BY <1>9, ImageSizes, ModSmall
<1>12. cut * BlockSize \in Nat
  BY <1>1
<1> QED
  BY <1>4, <1>5, <1>6, <1>8, <1>10, <1>11, <1>12, Zenon
-----------------------------------------------------------------------------
(* Reading *)

(* When the names differ in the table, one entry has the name. *)
LEMMA OneMatches ==
    ASSUME TableListsFiles, Sound, NEW k \in 1..Len(files), NEW name, Cut(name) = Cut(files[k].name)
    PROVE  /\ {j \in DOMAIN file_table : SameFilename(j, name)} = {k}
           /\ DOMAIN file_table = 1..Len(files) /\ DOMAIN files = 1..Len(files)
<1>1. DOMAIN file_table = 1..Len(files) /\ DOMAIN files = 1..Len(files)
  BY DEF TableListsFiles
<1>2. ASSUME NEW j \in 1..Len(files)
      PROVE  SameFilename(j, name) <=> j = k
  <2>1. SameFilename(j, name) <=> Cut(files[j].name) = Cut(files[k].name)
    BY <1>2, Zenon DEF SameFilename, TableListsFiles
  <2>2. Cut(files[j].name) = Cut(files[k].name) => j = k
    BY <1>1, Zenon DEF Sound
  <2> QED
    BY <2>1, <2>2, Zenon
<1> QED
  BY <1>1, <1>2

(* What reading a packed file returns. *)
LEMMA ReadReturns ==
    ASSUME TableListsFiles, BlocksHoldFiles, Sound, NEW k \in 1..Len(files),
           BlocksOf(files[k].size) < BlockLimit, NEW offset \in Nat, NEW size \in Nat
    PROVE  IF offset + size <= files[k].size
           THEN /\ Read(files[k].name, offset, size).status = "ok"
                /\ Read(files[k].name, offset, size).buffer = [n \in 1..size |-> <<k, offset + n - 1>>]
           ELSE Read(files[k].name, offset, size).status = "EINVARG"
<1>1. PICK name : name = files[k].name
  BY Zenon
<1>2. {j \in DOMAIN file_table : SameFilename(j, name)} = {k}
  BY <1>1, OneMatches, Zenon
<1>0. k \in Nat /\ Len(files) \in Nat
  BY DEF TableListsFiles
<1>3. files[k].size \in Nat /\ file_table[k].real_size = files[k].size
  <2>1. files[k] \in PackedFile
    BY DEF TableListsFiles
  <2>2. files[k].size \in FileSizes
    BY <2>1 DEF PackedFile
  <2> QED
    BY <2>2, Packable, Zenon DEF TableListsFiles
<1>4. PICK short : short = {j \in {k} : offset + size > file_table[j].real_size}
  OBVIOUS
<1>5. PICK copied : copied = {j \in {k} : \A s \in short : j < s}
  OBVIOUS
<1>6. PICK from : from = file_table[Max(copied)].start_block * BlockSize + offset
  OBVIOUS
<1>7. Read(name, offset, size) =
         [Nothing EXCEPT !.status = IF short = {} THEN "ok" ELSE "EINVARG",
                         !.buffer = IF copied = {} THEN <<>> ELSE [n \in 1..size |-> BlockByte(from + n)]]
  BY <1>2, <1>4, <1>5, <1>6, Zenon DEF Read
<1>8. /\ Read(name, offset, size).status = IF short = {} THEN "ok" ELSE "EINVARG"
      /\ Read(name, offset, size).buffer = IF copied = {} THEN <<>> ELSE [n \in 1..size |-> BlockByte(from + n)]
  BY <1>7 DEF Nothing
<1>9. CASE ~(offset + size <= files[k].size)
  <2>1. k \in short
    BY <1>3, <1>4, <1>9
  <2> QED
    BY <1>1, <1>8, <1>9, <2>1
<1>10. CASE offset + size <= files[k].size
  <2>1. short = {}
    BY <1>3, <1>4, <1>10
  <2>2. copied = {k}
    BY <1>5, <2>1
  <2>3. Max(copied) = k
    BY <1>0, <2>2, OnlyOne, Zenon
  <2>4. Read(name, offset, size).status = "ok"
    BY <1>8, <2>1
  <2>5. Read(name, offset, size).buffer = [n \in 1..size |-> BlockByte(from + n)]
    BY <1>8, <2>2
  <2>6. from = file_table[k].start_block * BlockSize + offset
    BY <1>6, <2>3, Zenon
  <2>7. PICK first \in Nat : LiesFrom(first, k)
    BY DEF BlocksHoldFiles
  <2>8. PICK whole \in Nat : whole = files[k].size
    BY <1>3, Zenon
  <2>9. offset + size <= whole
    BY <1>10, <2>8, Zenon
  <2>10. PICK start \in Nat : start = first * BlockSize
    BY ImageSizes
  <2>11. \A n \in 1..whole : BlockByte(start + n) = <<k, n - 1>>
    BY <2>7, <2>8, <2>10, Zenon DEF LiesFrom
  <2>12. ASSUME NEW n \in 1..size
         PROVE  BlockByte(from + n) = <<k, offset + n - 1>>
    <3>1. PICK m \in 1..whole : m = offset + n
      BY <2>9
    <3>2. whole > 0
      BY <3>1
    <3>3. NumBlocks(whole) \in Nat /\ NumBlocks(whole) > 0
      BY <2>8, <3>2, BlocksSuffice, Zenon
    <3>4. first < BlockLimit
      <4>1. first + NumBlocks(whole) <= current_block
        BY <2>7, <2>8, Zenon DEF LiesFrom
      <4> QED
        BY <3>3, <4>1, ImageSizes DEF Sound, BlocksHoldFiles
    <3>5. file_table[k].start_block = first % BlockLimit /\ first % BlockLimit = first
      BY <2>7, <3>4, ImageSizes, ModSmall DEF LiesFrom
    <3>6. from = start + offset
      BY <2>6, <2>10, <3>5, Zenon
    <3>7. from + n = start + m /\ offset + n - 1 = m - 1
      BY <3>1, <3>6
    <3> QED
      BY <2>11, <3>1, <3>7, Zenon
  <2>13. [n \in 1..size |-> BlockByte(from + n)] = [n \in 1..size |-> <<k, offset + n - 1>>]
    BY <2>12, Zenon
  <2> QED
    BY <1>1, <1>10, <2>4, <2>5, <2>13, Zenon
<1> QED
  BY <1>9, <1>10

(* What is read was packed. *)
LEMMA ReadsPacked == InitrdInv => PackedIsRead
<1> SUFFICES ASSUME InitrdInv, asked.op = "read", Sound, NEW k \in DOMAIN files,
                    files[k].name = asked.name, BlocksOf(files[k].size) < BlockLimit
             PROVE  IF asked.offset + asked.size <= files[k].size
                    THEN /\ answer.status = "ok"
                         /\ answer.buffer = [n \in 1..asked.size |-> <<k, asked.offset + n - 1>>]
                    ELSE answer.status = "EINVARG"
  BY Zenon DEF PackedIsRead
<1>1. k \in 1..Len(files)
  BY DEF InitrdInv, TableListsFiles
<1>2. PICK offset \in Nat, size \in Nat : offset = asked.offset /\ size = asked.size
  BY Zenon DEF InitrdInv, AnswerStands
<1>3. answer = Read(files[k].name, offset, size)
  BY <1>2, Zenon DEF InitrdInv, AnswerStands
<1>4. IF offset + size <= files[k].size
      THEN /\ Read(files[k].name, offset, size).status = "ok"
           /\ Read(files[k].name, offset, size).buffer = [n \in 1..size |-> <<k, offset + n - 1>>]
      ELSE Read(files[k].name, offset, size).status = "EINVARG"
  BY <1>1, ReadReturns DEF InitrdInv
<1> QED
  BY <1>2, <1>3, <1>4, Zenon
-----------------------------------------------------------------------------
(* Listing *)

(* What is listed is found. *)
LEMMA ListsPacked == InitrdInv => ListedIsFound
<1> SUFFICES ASSUME InitrdInv, asked.op = "readdir", Sound, Len(files) < TableSize,
                    \A k \in DOMAIN files : Len(files[k].name) < NameSize
             PROVE  IF asked.index > Len(files) THEN answer.status = "none"
                    ELSE asked.index > 0 =>
                        /\ answer.name = files[asked.index].name
                        /\ Finddir(answer.name).size = files[asked.index].size
  BY Zenon DEF ListedIsFound
<1>1. PICK index \in Nat : index = asked.index /\ answer = Readdir(index)
  BY Zenon DEF InitrdInv, AnswerStands
<1>2. PICK count \in Nat : count = Len(files) /\ count = Len(file_table)
  <2>1. Len(files) \in Nat /\ Len(files) = Len(file_table)
    BY DEF InitrdInv, TableListsFiles
  <2> QED
    BY <2>1, Zenon
<1>3. TableSize \in Nat /\ count < TableSize
  BY <1>2, ImageSizes, Zenon
<1>4. CASE index > count
  <2>1. index # 0
    BY <1>4
  <2>2. Readdir(index) = Nothing
    BY <1>2, <1>4, <2>1, Zenon DEF Readdir
  <2> QED
    BY <1>1, <1>2, <1>4, <2>2 DEF Nothing
<1>5. CASE ~(index > count) /\ index > 0
  <2>1. index \in 1..count /\ index # 0 /\ ~(index >= TableSize)
    BY <1>3, <1>5
  <2>2. index \in 1..Len(files)
    BY <1>2, <2>1, Zenon
  <2>3. PICK name \in FileNames, size \in FileSizes : name = files[index].name /\ size = files[index].size
    <3>1. files[index] \in PackedFile
      BY <2>2 DEF InitrdInv, TableListsFiles
    <3>2. files[index].name \in FileNames /\ files[index].size \in FileSizes
      BY <3>1 DEF PackedFile
    <3> QED
      BY <3>2, Zenon
  <2>4. Cut(name) = name /\ Len(name) < NameSize /\ Len(name) \in Nat
    <3>1. name \in Seq(STRING)
      BY Packable, Zenon
    <3>2. DOMAIN files = 1..Len(files)
      BY DEF InitrdInv, TableListsFiles
    <3>3. Len(name) < NameSize
      BY <2>2, <2>3, <3>2, Zenon
    <3>4. Len(name) \in Nat
      BY <3>1, LenProperties, Zenon
    <3> QED
      BY <3>1, <3>3, <3>4, CutIs, Zenon
  <2>5. file_table[index].filename = name /\ file_table[index].real_size = size
    BY <2>2, <2>3, <2>4, Zenon DEF InitrdInv, TableListsFiles
  <2>6. Readdir(index).name = name
    <3>1. Len(name) # NameSize
      BY <2>4, ImageSizes
    <3>2. Readdir(index) = [Nothing EXCEPT !.status = "ok", !.name = name]
      BY <1>2, <1>5, <2>1, <2>5, <3>1, Zenon DEF Readdir
    <3> QED
      BY <3>2 DEF Nothing
  <2>7. Finddir(name).size = size
    <3>1. PICK found : found = {k \in DOMAIN file_table : SameFilename(k, name)}
      BY Zenon
    <3>2. found = {index}
      BY <2>2, <2>3, <3>1, OneMatches, Zenon DEF InitrdInv
    <3>3. Min(found) = index
      BY <3>2, OnlyOne, Zenon
    <3>4. found # {}
      BY <3>2
    <3>5. Finddir(name) = [Nothing EXCEPT !.status = "ok", !.name = name, !.size = size]
      BY <2>5, <3>1, <3>3, <3>4, Zenon DEF Finddir
    <3> QED
      BY <3>5 DEF Nothing
  <2> QED
    BY <1>1, <1>2, <1>5, <2>3, <2>6, <2>7, Zenon
<1> QED
  BY <1>1, <1>2, <1>4, <1>5, Zenon
-----------------------------------------------------------------------------
(* The steps *)

(* A file is packed behind the others. *)
LEMMA PackKeeps ==
    ASSUME InitrdInv, Pack
    PROVE  InitrdInv'
<1>1. PICK name \in FileNames, size \in FileSizes :
         /\ file_table' = Append(file_table,
                [filename |-> Cut(name), real_size |-> size, start_block |-> StartBlock])
         /\ blocks' = blocks \o Padded(Len(files) + 1, size)
         /\ current_block' = current_block + NumBlocks(size)
         /\ files' = Append(files, [name |-> name, size |-> size])
  BY Zenon DEF Pack
<1>2. ~mounted /\ Len(files) < MaxFiles /\ mounted' = mounted /\ asked' = asked /\ answer' = answer
  BY Zenon DEF Pack
<1>3. PICK file : file = [name |-> name, size |-> size]
  OBVIOUS
<1>4. file \in PackedFile /\ file.name = name /\ file.size = size
  BY <1>3 DEF PackedFile
<1>5. size \in Nat /\ name \in Seq(STRING) /\ Cut(name) \in Seq(STRING)
  BY Packable, CutIs, Zenon
<1>6. current_block \in Nat /\ blocks \in Seq(ImageByte) /\ Len(blocks) = current_block * BlockSize
  BY Zenon DEF InitrdInv, BlocksHoldFiles
<1>7. PICK start \in Nat : start = StartBlock /\ start = current_block % BlockLimit
  <2>1. current_block % BlockLimit \in 0..BlockLimit - 1
    BY <1>6, ImageSizes, DivMod, Zenon
  <2>2. current_block % BlockLimit \in Nat
    BY <2>1, ImageSizes
  <2> QED
    BY <2>2, Zenon DEF StartBlock
<1>8. PICK entry : entry = [filename |-> Cut(name), real_size |-> size, start_block |-> start]
  OBVIOUS
<1>9. entry \in FileEntry /\ entry.filename = Cut(name) /\ entry.real_size = size /\ entry.start_block = start
  BY <1>5, <1>8 DEF FileEntry
<1>10. file_table' = Append(file_table, entry) /\ files' = Append(files, file)
  BY <1>1, <1>3, <1>7, <1>8, Zenon
<1>11. /\ file_table \in Seq(FileEntry) /\ files \in Seq(PackedFile)
       /\ Len(file_table) = Len(files) /\ Len(files) \in Nat
       /\ \A k \in 1..Len(files) :
             file_table[k].filename = Cut(files[k].name) /\ file_table[k].real_size = files[k].size
  BY DEF InitrdInv, TableListsFiles
<1>12. PICK count \in Nat : count = Len(files) /\ count = Len(file_table)
  BY <1>11, Zenon
<1>13. /\ file_table' \in Seq(FileEntry) /\ Len(file_table') = count + 1
       /\ files' \in Seq(PackedFile) /\ Len(files') = count + 1
       /\ \A k \in 1..count : file_table'[k] = file_table[k] /\ files'[k] = files[k]
       /\ file_table'[count + 1] = entry /\ files'[count + 1] = file
  <2>1. /\ file_table' \in Seq(FileEntry) /\ Len(file_table') = Len(file_table) + 1
        /\ \A k \in 1..Len(file_table) : file_table'[k] = file_table[k]
        /\ file_table'[Len(file_table) + 1] = entry
    BY <1>9, <1>10, <1>11, AppendProperties
  <2>2. /\ files' \in Seq(PackedFile) /\ Len(files') = Len(files) + 1
        /\ \A k \in 1..Len(files) : files'[k] = files[k]
        /\ files'[Len(files) + 1] = file
    BY <1>4, <1>10, <1>11, AppendProperties
  <2> QED
    BY <1>12, <2>1, <2>2, Zenon
<1>14. ASSUME NEW k \in 1..count + 1
       PROVE  k \in 1..count \/ k = count + 1
  OBVIOUS
<1>15. TableListsFiles'
  <2>1. count + 1 <= MaxFiles
    BY <1>2, <1>12, ImageSizes
  <2>2. \A k \in 1..count + 1 :
           file_table'[k].filename = Cut(files'[k].name) /\ file_table'[k].real_size = files'[k].size
    BY <1>4, <1>9, <1>11, <1>12, <1>13, <1>14, Zenon
  <2> QED
    BY <1>13, <2>1, <2>2, Zenon DEF TableListsFiles
<1>16. PICK taken \in Nat, room \in Nat :
          /\ taken = NumBlocks(size) /\ room = taken * BlockSize
          /\ BlocksOf(size) < BlockLimit => size <= room
  BY <1>5, BlocksSuffice, Zenon
<1>17. PICK padded : padded = Padded(count + 1, size)
  OBVIOUS
<1>18. /\ padded \in Seq(ImageByte) /\ Len(padded) = room
       /\ \A n \in 1..size : n <= room => padded[n] = <<count + 1, n - 1>>
  <2>1. padded = [n \in 1..room |-> IF n <= size THEN <<count + 1, n - 1>> ELSE <<0, 0>>]
    BY <1>16, <1>17, Zenon DEF Padded
  <2>2. ASSUME NEW n \in 1..room
        PROVE  (IF n <= size THEN <<count + 1, n - 1>> ELSE <<0, 0>>) \in ImageByte
    <3>1. count + 1 \in Nat /\ n - 1 \in Nat /\ 0 \in Nat
      OBVIOUS
    <3> QED
      BY <3>1, Zenon DEF ImageByte
  <2>3. padded \in [1..room -> ImageByte]
    BY <2>1, <2>2, Zenon
  <2>4. ASSUME NEW n \in 1..size, n <= room PROVE padded[n] = <<count + 1, n - 1>>
    <3>1. n \in 1..room /\ n <= size
      BY <1>5, <2>4
    <3> QED
      BY <2>1, <3>1, Zenon
  <2>5. padded \in Seq(ImageByte) /\ Len(padded) = room
    <3> HIDE DEF ImageByte
    <3> QED
      BY <2>3
  <2> QED
    BY <2>4, <2>5, Zenon
<1>19. blocks' = blocks \o padded /\ current_block' = current_block + taken
  BY <1>1, <1>12, <1>16, <1>17, Zenon
<1>20. PICK filled \in Nat : filled = current_block * BlockSize /\ filled = Len(blocks)
  BY <1>6, LenProperties, Zenon
<1>21. /\ blocks' \in Seq(ImageByte) /\ Len(blocks') = filled + room
       /\ \A n \in 1..filled : blocks'[n] = blocks[n]
       /\ \A n \in 1..room : blocks'[filled + n] = padded[n]
  <2>1. /\ blocks' \in Seq(ImageByte) /\ Len(blocks') = Len(blocks) + Len(padded)
        /\ \A n \in 1..Len(blocks) + Len(padded) :
              blocks'[n] = IF n <= Len(blocks) THEN blocks[n] ELSE padded[n - Len(blocks)]
    BY <1>6, <1>18, <1>19, ConcatProperties
  <2>2. /\ Len(blocks') = filled + room
        /\ \A n \in 1..filled + room : blocks'[n] = IF n <= filled THEN blocks[n] ELSE padded[n - filled]
    BY <1>18, <1>20, <2>1, Zenon
  <2>3. ASSUME NEW n \in 1..room PROVE blocks'[filled + n] = padded[n]
    <3>1. PICK m \in 1..filled + room : m = filled + n /\ ~(m <= filled) /\ m - filled = n
      OBVIOUS
    <3>2. blocks'[m] = padded[m - filled]
      BY <2>2, <3>1, Zenon
    <3> QED
      BY <3>1, <3>2, Zenon
  <2>4. ASSUME NEW n \in 1..filled PROVE blocks'[n] = blocks[n]
    <3>1. n \in 1..filled + room /\ n <= filled
      OBVIOUS
    <3> QED
      BY <2>2, <3>1, Zenon
  <2> QED
    BY <2>1, <2>2, <2>3, <2>4, Zenon
<1>22. current_block' \in Nat /\ Len(blocks') = current_block' * BlockSize
  <2>1. (current_block + taken) * BlockSize = current_block * BlockSize + taken * BlockSize
    BY <1>6, ImageSizes, ProductsAgree
  <2>2. current_block + taken \in Nat
    BY <1>6
  <2> QED
    BY <1>16, <1>19, <1>20, <1>21, <2>1, <2>2, Zenon
<1>23. ASSUME NEW k \in 1..count
       PROVE  \E first \in Nat : LiesFrom(first, k)'
  <2>1. PICK first \in Nat : LiesFrom(first, k)
    BY <1>12, Zenon DEF InitrdInv, BlocksHoldFiles
  <2>2. PICK whole \in Nat : whole = files[k].size
    <3>1. files[k] \in PackedFile
      BY <1>11, <1>12
    <3>2. files[k].size \in FileSizes
      BY <3>1 DEF PackedFile
    <3> QED
      BY <3>2, Packable, Zenon
  <2>3. PICK kept \in Nat, bytes \in Nat :
           /\ kept = NumBlocks(whole) /\ bytes = kept * BlockSize
           /\ BlocksOf(whole) < BlockLimit => whole <= bytes
    BY BlocksSuffice, Zenon
  <2>4. PICK begin \in Nat : begin = first * BlockSize
    BY ImageSizes
  <2>5. /\ file_table[k].start_block = first % BlockLimit /\ first + kept <= current_block
        /\ BlocksOf(whole) < BlockLimit => \A n \in 1..whole : BlockByte(begin + n) = <<k, n - 1>>
    BY <2>1, <2>2, <2>3, <2>4, Zenon DEF LiesFrom
  <2>6. begin + bytes <= filled
    <3>1. (first + kept) * BlockSize <= current_block * BlockSize
      BY <1>6, <2>5, ImageSizes, ProductsAgree
    <3>2. (first + kept) * BlockSize = first * BlockSize + kept * BlockSize
      BY ImageSizes, ProductsAgree
    <3> QED
      BY <1>20, <2>3, <2>4, <3>1, <3>2, Zenon
  <2>7. ASSUME BlocksOf(whole) < BlockLimit, NEW n \in 1..whole
        PROVE  BlockByte(begin + n)' = <<k, n - 1>>
    <3>1. PICK m \in 1..filled : m = begin + n
      BY <2>3, <2>6, <2>7
    <3>2. m <= filled /\ m <= filled + room
      BY <3>1
    <3>3. blocks'[m] = BlockByte(m)
      BY <1>20, <1>21, <3>1, <3>2, Zenon DEF BlockByte
    <3>4. BlockByte(begin + n)' = blocks'[m]
      BY <1>21, <3>1, <3>2, Zenon DEF BlockByte
    <3> QED
      BY <2>5, <2>7, <3>1, <3>3, <3>4, Zenon
  <2>8. first + kept <= current_block'
    BY <1>6, <1>19, <2>5
  <2>9. file_table'[k] = file_table[k] /\ files'[k] = files[k]
    BY <1>13
  <2>10. LiesFrom(first, k)'
    BY <2>2, <2>3, <2>4, <2>5, <2>7, <2>8, <2>9, Zenon DEF LiesFrom
  <2> QED
    BY <2>10
<1>24. ASSUME NEW k, k = count + 1
       PROVE  \E first \in Nat : LiesFrom(first, k)'
  <2>1. PICK first \in Nat : first = current_block
    BY <1>6, Zenon
  <2>2. file_table'[k] = entry /\ files'[k] = file
    BY <1>13, <1>24, Zenon
  <2>3. file_table'[k].start_block = first % BlockLimit /\ files'[k].size = size
    BY <1>4, <1>7, <1>9, <2>1, <2>2, Zenon
  <2>4. first + taken <= current_block'
    BY <1>19, <2>1
  <2>5. ASSUME BlocksOf(size) < BlockLimit, NEW n \in 1..size
        PROVE  BlockByte(filled + n)' = <<k, n - 1>>
    <3>1. n \in 1..room /\ n <= room
      BY <1>5, <1>16, <2>5
    <3>2. PICK m \in Nat : m = filled + n /\ m <= filled + room
      BY <3>1
    <3>3. blocks'[m] = padded[n]
      BY <1>21, <3>1, <3>2, Zenon
    <3>4. BlockByte(filled + n)' = blocks'[m]
      BY <1>21, <3>2, Zenon DEF BlockByte
    <3> QED
      BY <1>18, <1>24, <3>1, <3>3, <3>4, Zenon
  <2>6. LiesFrom(first, k)'
    BY <1>16, <1>20, <2>1, <2>3, <2>4, <2>5, Zenon DEF LiesFrom
  <2> QED
    BY <2>6
<1>25. BlocksHoldFiles'
  <2>1. \A k \in 1..count + 1 : \E first \in Nat : LiesFrom(first, k)'
    BY <1>14, <1>23, <1>24, Zenon
  <2> QED
    BY <1>13, <1>21, <1>22, <2>1, Zenon DEF BlocksHoldFiles
<1>26. AnswerStands'
  <2>1. asked.op = "none"
    BY <1>2, Zenon DEF InitrdInv, AnswerStands
  <2> QED
    BY <1>2, <2>1 DEF AnswerStands
<1> QED
  BY <1>15, <1>25, <1>26 DEF InitrdInv

(* What is read, of any table and bytes. *)
ReadOf(table, bytes, name, offset, size) ==
    LET matches == {k \in DOMAIN table : table[k].filename = Cut(name)}
        short == {k \in matches : offset + size > table[k].real_size}
        copied == {k \in matches : \A s \in short : k < s}
        from == table[Max(copied)].start_block * BlockSize + offset
    IN  [Nothing EXCEPT !.status = IF short = {} THEN "ok" ELSE "EINVARG",
                        !.buffer = IF copied = {} THEN <<>> ELSE [n \in 1..size |-> IF from + n <= Len(bytes) THEN bytes[from + n] ELSE Behind]]

(* A call of the reader answers from the image as it is. *)
LEMMA ReaderKeeps ==
    ASSUME InitrdInv, CallReaddir \/ CallFinddir \/ CallRead
    PROVE  InitrdInv'
<1>1. UNCHANGED image /\ mounted /\ mounted' = mounted
  BY Zenon DEF CallReaddir, CallFinddir, CallRead, Ask
<1>2. /\ file_table' = file_table /\ blocks' = blocks /\ current_block' = current_block /\ files' = files
  BY <1>1, Zenon DEF image
<1>3. TableListsFiles'
  BY <1>2, Zenon DEF InitrdInv, TableListsFiles
<1>4. BlocksHoldFiles'
  BY <1>2, Zenon DEF InitrdInv, BlocksHoldFiles, LiesFrom, BlockByte
<1>5. AnswerStands'
  <2>1. CASE CallReaddir
    <3>1. PICK index \in 0..TableSize :
             Ask("readdir", <<>>, index, 0, 0) /\ answer' = Readdir(index)
      BY <2>1, Zenon DEF CallReaddir
    <3>2. asked'.op = "readdir" /\ asked'.index = index
      BY <3>1 DEF Ask
    <3>3. index \in Nat
      BY ImageSizes
    <3>4. Readdir(asked.index)' = Readdir(index)
      BY <1>2, <3>2, Zenon DEF Readdir
    <3> QED
      BY <1>1, <3>1, <3>2, <3>3, <3>4 DEF AnswerStands
  <2>2. CASE CallFinddir
    <3>1. PICK name \in FileNames : Ask("finddir", name, 0, 0, 0)
      BY <2>2, Zenon DEF CallFinddir
    <3>2. asked'.op = "finddir"
      BY <3>1 DEF Ask
    <3> QED
      BY <1>1, <3>2 DEF AnswerStands
  <2>3. CASE CallRead
    <3>1. PICK file \in ToSet(files) :
             \E offset \in 0..file.size, size \in 0..file.size + 1 :
                Ask("read", file.name, 0, offset, size) /\ answer' = Read(file.name, offset, size)
      BY <2>3, Zenon DEF CallRead
    <3>2. PICK offset \in 0..file.size, size \in 0..file.size + 1 :
             Ask("read", file.name, 0, offset, size) /\ answer' = Read(file.name, offset, size)
      BY <3>1, Zenon
    <3>3. file.size \in Nat
      <4>1. PICK k \in DOMAIN files : file = files[k]
        BY Zenon DEF ToSet
      <4>2. file \in PackedFile
        BY <4>1 DEF InitrdInv, TableListsFiles
      <4>3. file.size \in FileSizes
        BY <4>2 DEF PackedFile
      <4> QED
        BY <4>3, Packable, Zenon
    <3>4. offset \in Nat /\ size \in Nat
      BY <3>3
    <3>5. PICK name : name = file.name
      BY Zenon
    <3>6. asked'.op = "read" /\ asked'.name = name /\ asked'.offset = offset /\ asked'.size = size
      BY <3>2, <3>5 DEF Ask
    <3>7. answer' = Read(name, offset, size)
      BY <3>2, <3>5, Zenon
    <3>8. Read(asked.name, asked.offset, asked.size)' = Read(name, offset, size)
      <4>1. Read(asked.name, asked.offset, asked.size)' =
               ReadOf(file_table', blocks', asked'.name, asked'.offset, asked'.size)
        BY DEF Read, SameFilename, BlockByte, ReadOf
      <4>2. Read(name, offset, size) = ReadOf(file_table, blocks, name, offset, size)
        BY DEF Read, SameFilename, BlockByte, ReadOf
      <4> QED
        BY <1>2, <3>6, <4>1, <4>2, Zenon
    <3> QED
      BY <1>1, <3>4, <3>6, <3>7, <3>8 DEF AnswerStands
  <2> QED
    BY <2>1, <2>2, <2>3
<1> QED
  BY <1>3, <1>4, <1>5 DEF InitrdInv

(* Mounting changes nothing, and then the image stays. *)
LEMMA OtherStepsKeep ==
    ASSUME InitrdInv, InitialiseInitrd \/ UNCHANGED initrdVars
    PROVE  InitrdInv'
<1>1. /\ file_table' = file_table /\ blocks' = blocks /\ current_block' = current_block /\ files' = files
      /\ asked' = asked /\ answer' = answer /\ (mounted' = mounted \/ mounted' = TRUE)
  BY Zenon DEF InitialiseInitrd, initrdVars, image
<1>2. TableListsFiles'
  BY <1>1, Zenon DEF InitrdInv, TableListsFiles
<1>3. BlocksHoldFiles'
  BY <1>1, Zenon DEF InitrdInv, BlocksHoldFiles, LiesFrom, BlockByte
<1>4. AnswerStands'
  <2>1. Read(asked.name, asked.offset, asked.size)' = Read(asked.name, asked.offset, asked.size)
    <3>1. Read(asked.name, asked.offset, asked.size)' =
             ReadOf(file_table', blocks', asked'.name, asked'.offset, asked'.size)
      BY DEF Read, SameFilename, BlockByte, ReadOf
    <3>2. Read(asked.name, asked.offset, asked.size) =
             ReadOf(file_table, blocks, asked.name, asked.offset, asked.size)
      BY DEF Read, SameFilename, BlockByte, ReadOf
    <3> QED
      BY <1>1, <3>1, <3>2, Zenon
  <2>2. Readdir(asked.index)' = Readdir(asked.index)
    BY <1>1, Zenon DEF Readdir
  <2> QED
    BY <1>1, <2>1, <2>2, Zenon DEF InitrdInv, AnswerStands
<1> QED
  BY <1>2, <1>3, <1>4 DEF InitrdInv

(* In every reachable state the table lists the files in order, their bytes lie in
   blocks of their own, and the reader's answer is the one it would give now. *)
THEOREM InitrdInvariant == InitrdSpec => []InitrdInv
<1>1. InitrdInit => InitrdInv
  <2> SUFFICES ASSUME InitrdInit PROVE InitrdInv
    OBVIOUS
  <2>1. /\ file_table = <<>> /\ blocks = <<>> /\ current_block = 0 /\ files = <<>>
        /\ mounted = FALSE /\ asked = NoCall
    BY Zenon DEF InitrdInit
  <2>2. TableListsFiles
    BY <2>1, ImageSizes DEF TableListsFiles
  <2>3. BlocksHoldFiles
    BY <2>1, ImageSizes DEF BlocksHoldFiles
  <2>4. AnswerStands
    BY <2>1 DEF AnswerStands, NoCall
  <2> QED
    BY <2>2, <2>3, <2>4 DEF InitrdInv
<1>2. InitrdInv /\ [InitrdNext]_initrdVars => InitrdInv'
  BY PackKeeps, ReaderKeeps, OtherStepsKeep DEF InitrdNext
<1> QED
  BY <1>1, <1>2, PTL DEF InitrdSpec

(* For every size of names, blocks and table, and files of every length: what was
   packed is read, unless the number of its blocks does not fit in its field. *)
THEOREM InitrdPackedIsRead == InitrdSpec => []PackedIsRead
BY InitrdInvariant, ReadsPacked, PTL

(* And what is listed is found, with its size. *)
THEOREM InitrdListedIsFound == InitrdSpec => []ListedIsFound
BY InitrdInvariant, ListsPacked, PTL
=============================================================================
