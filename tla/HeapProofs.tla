----------------------------- MODULE HeapProofs -----------------------------
(***************************************************************************)
(* Proofs about the kernel heap, for every size of the heap and of its     *)
(* headers and for every set of request sizes and alignments.              *)
(***************************************************************************)
EXTENDS Heap, TLAPS

(* What a chunk map is, whatever the flags say. *)
Shape(h) ==
    /\ DOMAIN h \subseteq Nat
    /\ h \in [DOMAIN h -> Header]
    /\ Tiled(h)
    /\ Linked(h)

Good(h) == Shape(h) /\ Merged(h)

-----------------------------------------------------------------------------
(* The fields of a header. *)
LEMMA HeaderFields ==
    ASSUME NEW n, NEW p, NEW s, NEW f
    PROVE  /\ Hdr(n, p, s, f).next = n
           /\ Hdr(n, p, s, f).prev = p
           /\ Hdr(n, p, s, f).size = s
           /\ Hdr(n, p, s, f).allocated = f
           /\ (n \in Nat /\ p \in Nat /\ s \in Nat /\ f \in BOOLEAN) => Hdr(n, p, s, f) \in Header
  BY DEF Hdr, Header

(* The successor and predecessor of a chunk are neighbours of it. *)
LEMMA Neighbours ==
    ASSUME NEW h, Shape(h), NEW c \in DOMAIN h
    PROVE  /\ c \in Nat /\ c # NULL
           /\ h[c] \in Header
           /\ h[c].next # NULL =>
                /\ h[c].next \in DOMAIN h
                /\ h[c].next = c + HDR + h[c].size
                /\ h[h[c].next].prev = c
           /\ h[c].prev # NULL =>
                /\ h[c].prev \in DOMAIN h
                /\ h[h[c].prev].next = c
                /\ c = h[c].prev + HDR + h[h[c].prev].size
  BY HeapAssumption DEF Shape, Tiled, Linked, ChunkEnd, NULL, Header

(* What g is when c was split in h, the new header being at new. *)
SplitTo(h, c, size, new, g) ==
    /\ Shape(g)
    /\ DOMAIN g = DOMAIN h \cup {new}
    /\ new \notin DOMAIN h
    /\ ~g[new].allocated
    /\ g[c].size = size
    /\ g[c].next = new
    /\ g[new].next = h[c].next
    /\ \A a \in DOMAIN h : g[a].allocated = h[a].allocated
    /\ \A a \in DOMAIN h \ {c} : g[a].size = h[a].size /\ g[a].next = h[a].next

(* A split leaves a chunk map, adds one free header, and changes the size
   and the flag of no other chunk. *)
LEMMA SplitKeeps ==
    ASSUME NEW h, Shape(h), NEW c \in DOMAIN h, NEW size \in Nat,
           Splits(h, c, size), NEW new, new = c + HDR + size,
           NEW g, g = Split(h, c, size)
    PROVE  SplitTo(h, c, size, new, g)
<1> DEFINE nxt == h[c].next
<1>1. /\ c \in Nat /\ c # NULL /\ h[c] \in Header /\ new \in Nat
      /\ HDR \in Nat /\ HDR > 0 /\ HeapBase \in Nat
  BY Neighbours, HeapAssumption
<1>2. /\ new > c /\ new + HDR < ChunkEnd(h, c)
      /\ h[c].size - size - HDR \in Nat
  BY <1>1 DEF Splits, ChunkEnd, Header
<1>3. new \notin DOMAIN h
  <2>1. SUFFICES ASSUME new \in DOMAIN h PROVE FALSE
    OBVIOUS
  <2>2. ChunkEnd(h, c) <= new
    BY <2>1, <1>1, <1>2 DEF Shape, Tiled
  <2> QED
    BY <2>2, <1>1, <1>2 DEF ChunkEnd, Header
<1>4. nxt # c
  BY <1>1, Neighbours DEF Header
<1>5. /\ DOMAIN g = DOMAIN h \cup {new}
      /\ g[new] = Hdr(nxt, c, h[c].size - size - HDR, FALSE)
      /\ g[c] = Hdr(new, h[c].prev, size, h[c].allocated)
      /\ nxt # NULL => g[nxt] = Hdr(h[nxt].next, new, h[nxt].size, h[nxt].allocated)
      /\ \A a \in DOMAIN h \ {c, nxt} : g[a] = h[a]
  <2>1. g = [a \in DOMAIN h \cup {new} |->
               IF a = new THEN Hdr(nxt, c, h[c].size - size - HDR, FALSE)
               ELSE IF a = c THEN Hdr(new, h[c].prev, size, h[c].allocated)
               ELSE IF a = nxt THEN Hdr(h[a].next, new, h[a].size, h[a].allocated)
               ELSE h[a]]
    BY DEF Split
  <2>2. nxt # NULL => nxt \in DOMAIN h
    BY Neighbours
  <2>3. DOMAIN g = DOMAIN h \cup {new}
    BY <2>1
  <2>4. g[new] = Hdr(nxt, c, h[c].size - size - HDR, FALSE)
    BY <2>1
  <2>5. g[c] = Hdr(new, h[c].prev, size, h[c].allocated)
    BY <2>1, <1>3
  <2>6. nxt # NULL => g[nxt] = Hdr(h[nxt].next, new, h[nxt].size, h[nxt].allocated)
    BY <2>1, <2>2, <1>3, <1>4
  <2>7. \A a \in DOMAIN h \ {c, nxt} : g[a] = h[a]
    BY <2>1, <1>3
  <2> QED
    BY <2>3, <2>4, <2>5, <2>6, <2>7
<1>6. /\ g = [a \in DOMAIN g |-> g[a]]
      /\ NULL \notin DOMAIN h
      /\ \A a \in DOMAIN h : h[a] \in Header
  BY Neighbours DEF Split
<1>7. /\ \A a \in DOMAIN h : g[a].allocated = h[a].allocated
      /\ \A a \in DOMAIN h \ {c} : g[a].size = h[a].size /\ g[a].next = h[a].next
      /\ g[c].size = size /\ g[c].next = new /\ g[c].prev = h[c].prev
      /\ g[new].next = nxt /\ g[new].prev = c /\ g[new].size = h[c].size - size - HDR
      /\ ~g[new].allocated
      /\ nxt # NULL => g[nxt].prev = new
      /\ \A a \in DOMAIN h \ {nxt} : g[a].prev = h[a].prev
      /\ g \in [DOMAIN g -> Header]
  <2>1. /\ g[c].size = size /\ g[c].next = new /\ g[c].prev = h[c].prev
        /\ g[c].allocated = h[c].allocated /\ g[c] \in Header
    BY <1>1, <1>5, HeaderFields DEF Header
  <2>2. /\ g[new].next = nxt /\ g[new].prev = c /\ g[new].size = h[c].size - size - HDR
        /\ ~g[new].allocated /\ g[new] \in Header
    <3>1. nxt \in Nat
      BY <1>1 DEF Header
    <3> QED
      BY <3>1, <1>1, <1>2, <1>5 DEF Hdr, Header
  <2>3. nxt # NULL =>
            /\ g[nxt].prev = new /\ g[nxt].size = h[nxt].size /\ g[nxt].next = h[nxt].next
            /\ g[nxt].allocated = h[nxt].allocated /\ g[nxt] \in Header
    BY <1>1, <1>5, <1>6, HeaderFields, Neighbours DEF Header
  <2> QED
    BY <1>3, <1>5, <1>6, <2>1, <2>2, <2>3
<1>8. /\ ChunkEnd(g, c) = new
      /\ ChunkEnd(g, new) = ChunkEnd(h, c)
      /\ \A a \in DOMAIN h \ {c} : ChunkEnd(g, a) = ChunkEnd(h, a)
      /\ \A a \in DOMAIN h : ChunkEnd(h, a) \in Nat /\ a < ChunkEnd(h, a)
      /\ \A a \in DOMAIN g : a \in Nat
  <2>1. \A a \in DOMAIN h : a \in Nat /\ h[a].size \in Nat
    BY <1>6 DEF Shape, Header
  <2>2. /\ ChunkEnd(g, c) = new
        /\ \A a \in DOMAIN h \ {c} : ChunkEnd(g, a) = ChunkEnd(h, a)
    BY <1>1, <1>7, <2>1 DEF ChunkEnd
  <2>3. ChunkEnd(g, new) = ChunkEnd(h, c)
    <3>1. g[new].size = h[c].size - size - HDR
      BY <1>7
    <3> QED
      BY <1>1, <2>1, <3>1 DEF ChunkEnd
  <2>4. \A a \in DOMAIN h : ChunkEnd(h, a) \in Nat /\ a < ChunkEnd(h, a)
    BY <1>1, <2>1 DEF ChunkEnd
  <2> QED
    BY <1>1, <1>5, <2>1, <2>2, <2>3, <2>4
<1>9. Tiled(g)
  <2>1. HeapBase \in DOMAIN g
    BY <1>5 DEF Shape, Tiled
  <2>2. \A a \in DOMAIN g : HeapBase <= a /\ ChunkEnd(g, a) <= HeapEnd
    <3>1. \A a \in DOMAIN h : HeapBase <= a /\ ChunkEnd(h, a) <= HeapEnd
      BY DEF Shape, Tiled
    <3>2. HeapEnd \in Nat
      BY HeapAssumption DEF HeapEnd
    <3> QED
      BY <1>1, <1>2, <1>5, <1>8, <3>1, <3>2
  <2>3. \A a, b \in DOMAIN g : a < b => ChunkEnd(g, a) <= b
    <3>1. \A a, b \in DOMAIN h : a < b => ChunkEnd(h, a) <= b
      BY DEF Shape, Tiled
    <3> QED
      BY <1>1, <1>2, <1>5, <1>8, <3>1
  <2>4. \A x \in HeapBase..(HeapEnd - 1) : \E a \in DOMAIN g : a <= x /\ x < ChunkEnd(g, a)
    <3>1. TAKE x \in HeapBase..(HeapEnd - 1)
    <3>2. PICK a \in DOMAIN h : a <= x /\ x < ChunkEnd(h, a)
      BY DEF Shape, Tiled
    <3>3. CASE a # c
      BY <3>2, <3>3, <1>5, <1>8
    <3>4. CASE a = c
      <4>1. x \in Int
        BY HeapAssumption DEF HeapEnd
      <4> QED
        BY <3>2, <3>4, <4>1, <1>1, <1>5, <1>8
    <3> QED
      BY <3>3, <3>4
  <2> QED
    BY <2>1, <2>2, <2>3, <2>4 DEF Tiled
<1>10. Linked(g)
  <2>1. ASSUME NEW a \in DOMAIN g
        PROVE  IF g[a].next = NULL THEN ChunkEnd(g, a) = HeapEnd
               ELSE /\ g[a].next \in DOMAIN g
                    /\ g[a].next = ChunkEnd(g, a)
                    /\ g[g[a].next].prev = a
    <3>1. CASE a = c
      <4>1. new # NULL /\ new \in DOMAIN g
        BY <1>1, <1>2, <1>5 DEF NULL
      <4> QED
        BY <3>1, <4>1, <1>7, <1>8
    <3>2. CASE a = new
      <4>1. g[a].next = nxt /\ ChunkEnd(g, a) = ChunkEnd(h, c)
        BY <3>2, <1>7, <1>8
      <4>2. IF nxt = NULL THEN ChunkEnd(h, c) = HeapEnd
            ELSE nxt \in DOMAIN h /\ nxt = ChunkEnd(h, c)
        BY DEF Linked, Shape
      <4> QED
        BY <3>2, <4>1, <4>2, <1>5, <1>7
    <3>3. CASE a # c /\ a # new
      <4>1. a \in DOMAIN h /\ g[a].next = h[a].next /\ ChunkEnd(g, a) = ChunkEnd(h, a)
        BY <3>3, <1>5, <1>7, <1>8
      <4>2. h[a].next # NULL => h[a].next # nxt
        BY <4>1, <3>3, Neighbours
      <4> QED
        BY <4>1, <4>2, <1>5, <1>7 DEF Linked, Shape
    <3> QED
      BY <3>1, <3>2, <3>3
  <2>2. ASSUME NEW a \in DOMAIN g
        PROVE  IF g[a].prev = NULL THEN a = HeapBase
               ELSE /\ g[a].prev \in DOMAIN g
                    /\ g[g[a].prev].next = a
    <3>1. CASE a = new
      BY <3>1, <1>1, <1>5, <1>7
    <3>2. CASE a = nxt /\ a # new
      <4>1. a \in DOMAIN h /\ a # NULL
        BY <3>2, <1>5, <1>6
      <4>2. g[a].prev = new /\ g[new].next = nxt
        BY <3>2, <4>1, <1>7
      <4> QED
        BY <3>2, <4>2, <1>1, <1>5 DEF NULL
    <3>3. CASE a # nxt /\ a # new
      <4>1. a \in DOMAIN h /\ g[a].prev = h[a].prev
        BY <3>3, <1>5, <1>7
      <4>2. h[a].prev # NULL => h[a].prev # c
        BY <4>1, <3>3, Neighbours
      <4> QED
        BY <4>1, <4>2, <1>5, <1>7 DEF Linked, Shape
    <3> QED
      BY <3>1, <3>2, <3>3
  <2> QED
    BY <2>1, <2>2 DEF Linked
<1>11. Shape(g)
  BY <1>7, <1>8, <1>9, <1>10 DEF Shape
<1> QED
  BY <1>3, <1>5, <1>7, <1>11 DEF SplitTo

-----------------------------------------------------------------------------
(* What g is when the flag of c was set in h. *)
MarkedTo(h, c, flag, g) ==
    /\ Shape(g)
    /\ DOMAIN g = DOMAIN h
    /\ g[c].allocated <=> flag
    /\ \A a \in DOMAIN h : g[a].size = h[a].size /\ g[a].next = h[a].next /\ g[a].prev = h[a].prev
    /\ \A a \in DOMAIN h \ {c} : g[a].allocated = h[a].allocated

(* Setting a flag leaves the layout alone. *)
LEMMA MarkKeeps ==
    ASSUME NEW h, Shape(h), NEW c \in DOMAIN h, NEW flag \in BOOLEAN,
           NEW g, g = Mark(h, c, flag)
    PROVE  MarkedTo(h, c, flag, g)
<1>1. /\ DOMAIN g = DOMAIN h
      /\ g[c] = Hdr(h[c].next, h[c].prev, h[c].size, flag)
      /\ \A a \in DOMAIN h \ {c} : g[a] = h[a]
      /\ g = [a \in DOMAIN g |-> g[a]]
  BY DEF Mark, Shape
<1>2. \A a \in DOMAIN h : h[a] \in Header
  BY DEF Shape
<1>3. /\ g[c].allocated = flag /\ g[c].size = h[c].size /\ g[c].next = h[c].next
      /\ g[c].prev = h[c].prev /\ g[c] \in Header
  BY <1>1, <1>2 DEF Hdr, Header
<1>4. /\ \A a \in DOMAIN h : g[a].size = h[a].size /\ g[a].next = h[a].next /\ g[a].prev = h[a].prev
      /\ \A a \in DOMAIN h \ {c} : g[a].allocated = h[a].allocated
      /\ g \in [DOMAIN g -> Header]
  BY <1>1, <1>2, <1>3
<1>5. \A a \in DOMAIN h : ChunkEnd(g, a) = ChunkEnd(h, a)
  BY <1>4 DEF ChunkEnd
<1>6. Tiled(g)
  BY <1>1, <1>5 DEF Shape, Tiled
<1>7. Linked(g)
  BY <1>1, <1>4, <1>5 DEF Shape, Linked
<1>8. Shape(g)
  BY <1>1, <1>4, <1>6, <1>7 DEF Shape
<1>9. g[c].allocated <=> flag
  BY <1>3
<1> QED
  BY <1>1, <1>4, <1>8, <1>9 DEF MarkedTo

(* What g is when n was merged into its predecessor c in h. *)
AbsorbedTo(h, c, n, g) ==
    /\ Shape(g)
    /\ n # c
    /\ DOMAIN g = DOMAIN h \ {n}
    /\ g[c].next = h[n].next /\ g[c].prev = h[c].prev
    /\ g[c].size = h[c].size + h[n].size + HDR
    /\ \A a \in DOMAIN g : g[a].allocated = h[a].allocated
    /\ \A a \in DOMAIN g \ {c} : g[a].size = h[a].size /\ g[a].next = h[a].next

(* Merging a chunk with its successor leaves a chunk map with one header
   less, and changes the size and the flag of no third chunk. *)
LEMMA AbsorbKeeps ==
    ASSUME NEW h, Shape(h), NEW c \in DOMAIN h, h[c].next # NULL,
           NEW n, n = h[c].next, NEW g, g = Absorb(h, c, n)
    PROVE  AbsorbedTo(h, c, n, g)
<1> DEFINE m == h[n].next
<1>1. /\ c \in Nat /\ c # NULL /\ h[c] \in Header
      /\ n \in DOMAIN h /\ n = c + HDR + h[c].size /\ h[n].prev = c /\ n \in Nat /\ h[n] \in Header
      /\ m # NULL => m \in DOMAIN h /\ m = n + HDR + h[n].size /\ h[m].prev = n /\ h[m] \in Header
  BY Neighbours DEF Shape
<1>2. /\ HDR \in Nat /\ HDR > 0 /\ h[c].size \in Nat /\ h[n].size \in Nat /\ m \in Nat
      /\ h[c].prev \in Nat /\ h[c].allocated \in BOOLEAN
  BY <1>1, HeapAssumption DEF Header
<1>3. n # c /\ m # c /\ m # n
  <2>1. n # c
    BY <1>1, <1>2
  <2>2. CASE m = NULL
    BY <2>1, <2>2, <1>1, <1>2 DEF NULL
  <2>3. CASE m # NULL
    BY <2>1, <2>3, <1>1, <1>2
  <2> QED
    BY <2>1, <2>2, <2>3
<1>4. /\ DOMAIN g = DOMAIN h \ {n}
      /\ g[c] = Hdr(m, h[c].prev, h[c].size + h[n].size + HDR, h[c].allocated)
      /\ m # NULL => g[m] = Hdr(h[m].next, c, h[m].size, h[m].allocated)
      /\ \A a \in DOMAIN h \ {c, n, m} : g[a] = h[a]
      /\ g = [a \in DOMAIN g |-> g[a]]
  BY <1>1, <1>3 DEF Absorb
<1>5. /\ \A a \in DOMAIN h : h[a] \in Header /\ a \in Nat /\ h[a].size \in Nat
      /\ NULL \notin DOMAIN h
  BY Neighbours DEF Shape, Header
<1>6. /\ g[c].next = m /\ g[c].prev = h[c].prev /\ g[c].size = h[c].size + h[n].size + HDR
      /\ g[c].allocated = h[c].allocated /\ g[c] \in Header
  BY <1>2, <1>4 DEF Hdr, Header
<1>7. m # NULL =>
        /\ g[m].next = h[m].next /\ g[m].prev = c /\ g[m].size = h[m].size
        /\ g[m].allocated = h[m].allocated /\ g[m] \in Header
  BY <1>1, <1>4 DEF Hdr, Header
<1>8. /\ \A a \in DOMAIN g : g[a].allocated = h[a].allocated
      /\ \A a \in DOMAIN g \ {c} : g[a].size = h[a].size /\ g[a].next = h[a].next
      /\ \A a \in DOMAIN g \ {m} : g[a].prev = h[a].prev
      /\ g \in [DOMAIN g -> Header]
  BY <1>3, <1>4, <1>5, <1>6, <1>7
<1>9. /\ ChunkEnd(g, c) = ChunkEnd(h, n)
      /\ ChunkEnd(h, c) = n
      /\ \A a \in DOMAIN g \ {c} : ChunkEnd(g, a) = ChunkEnd(h, a)
      /\ \A a \in DOMAIN h : ChunkEnd(h, a) \in Nat /\ a < ChunkEnd(h, a)
  <2>1. ChunkEnd(g, c) = ChunkEnd(h, n)
    BY <1>1, <1>2, <1>6 DEF ChunkEnd
  <2>2. ChunkEnd(h, c) = n
    BY <1>1 DEF ChunkEnd
  <2>3. \A a \in DOMAIN g \ {c} : ChunkEnd(g, a) = ChunkEnd(h, a)
    BY <1>8 DEF ChunkEnd
  <2>4. \A a \in DOMAIN h : ChunkEnd(h, a) \in Nat /\ a < ChunkEnd(h, a)
    BY <1>2, <1>5 DEF ChunkEnd
  <2> QED
    BY <2>1, <2>2, <2>3, <2>4
<1>10. Tiled(g)
  <2>1. HeapBase \in DOMAIN g
    <3>1. c >= HeapBase /\ HeapBase \in DOMAIN h
      BY DEF Shape, Tiled
    <3> QED
      BY <3>1, <1>1, <1>2, <1>4, HeapAssumption
  <2>2. \A a \in DOMAIN g : HeapBase <= a /\ ChunkEnd(g, a) <= HeapEnd
    BY <1>1, <1>3, <1>4, <1>9 DEF Shape, Tiled
  <2>3. \A a, b \in DOMAIN g : a < b => ChunkEnd(g, a) <= b
    <3>1. \A a, b \in DOMAIN h : a < b => ChunkEnd(h, a) <= b
      BY DEF Shape, Tiled
    <3>2. \A b \in DOMAIN g : c < b => ChunkEnd(h, n) <= b
      <4>1. TAKE b \in DOMAIN g
      <4>2. HAVE c < b
      <4>3. n <= b /\ b # n /\ b \in DOMAIN h /\ b \in Nat
        BY <4>2, <3>1, <1>1, <1>4, <1>5, <1>9
      <4> QED
        BY <4>3, <3>1, <1>1
    <3> QED
      BY <3>1, <3>2, <1>4, <1>9
  <2>4. \A x \in HeapBase..(HeapEnd - 1) : \E a \in DOMAIN g : a <= x /\ x < ChunkEnd(g, a)
    <3>1. TAKE x \in HeapBase..(HeapEnd - 1)
    <3>2. x \in Int
      BY HeapAssumption DEF HeapEnd
    <3>3. PICK a \in DOMAIN h : a <= x /\ x < ChunkEnd(h, a)
      BY DEF Shape, Tiled
    <3>4. CASE a = c \/ a = n
      <4>1. c <= x /\ x < ChunkEnd(h, n)
        BY <3>2, <3>3, <3>4, <1>1, <1>2, <1>5, <1>9
      <4> QED
        BY <4>1, <1>3, <1>4, <1>9
    <3>5. CASE a # c /\ a # n
      BY <3>3, <3>5, <1>4, <1>9
    <3> QED
      BY <3>4, <3>5
  <2> QED
    BY <2>1, <2>2, <2>3, <2>4 DEF Tiled
<1>11. Linked(g)
  <2>1. ASSUME NEW a \in DOMAIN g
        PROVE  IF g[a].next = NULL THEN ChunkEnd(g, a) = HeapEnd
               ELSE /\ g[a].next \in DOMAIN g
                    /\ g[a].next = ChunkEnd(g, a)
                    /\ g[g[a].next].prev = a
    <3>1. CASE a = c
      <4>1. IF m = NULL THEN ChunkEnd(h, n) = HeapEnd ELSE m \in DOMAIN h /\ m = ChunkEnd(h, n)
        BY <1>1 DEF Linked, Shape
      <4> QED
        BY <3>1, <4>1, <1>3, <1>4, <1>6, <1>7, <1>9
    <3>2. CASE a # c
      <4>1. a \in DOMAIN h /\ g[a].next = h[a].next /\ ChunkEnd(g, a) = ChunkEnd(h, a) /\ a # n
        BY <3>2, <1>4, <1>8, <1>9
      <4>2. h[a].next # NULL => h[a].next # m /\ h[a].next # n
        BY <4>1, <3>2, <1>1, Neighbours
      <4> QED
        BY <4>1, <4>2, <1>4, <1>8 DEF Linked, Shape
    <3> QED
      BY <3>1, <3>2
  <2>2. ASSUME NEW a \in DOMAIN g
        PROVE  IF g[a].prev = NULL THEN a = HeapBase
               ELSE /\ g[a].prev \in DOMAIN g
                    /\ g[g[a].prev].next = a
    <3>1. CASE a = m
      <4>1. m # NULL
        BY <3>1, <1>4, <1>5
      <4> QED
        BY <3>1, <4>1, <1>1, <1>3, <1>4, <1>6, <1>7
    <3>2. CASE a # m
      <4>1. a \in DOMAIN h /\ g[a].prev = h[a].prev
        BY <3>2, <1>4, <1>8
      <4>2. h[a].prev # NULL => h[a].prev # c /\ h[a].prev # n
        BY <4>1, <3>2, <1>4, Neighbours
      <4> QED
        BY <4>1, <4>2, <1>4, <1>8 DEF Linked, Shape
    <3> QED
      BY <3>1, <3>2
  <2> QED
    BY <2>1, <2>2 DEF Linked
<1>12. Shape(g)
  BY <1>4, <1>5, <1>8, <1>10, <1>11 DEF Shape
<1> QED
  BY <1>3, <1>4, <1>6, <1>8, <1>12 DEF AbsorbedTo

-----------------------------------------------------------------------------
(* What g is when c was allocated in h for a request of size bytes. *)
AllocatedTo(h, c, size, g) ==
    /\ Good(g)
    /\ DOMAIN h \subseteq DOMAIN g
    /\ c \in DOMAIN g
    /\ g[c].allocated
    /\ size <= g[c].size /\ g[c].size <= size + HDR
    /\ \A a \in DOMAIN h \ {c} : g[a].size = h[a].size /\ g[a].allocated = h[a].allocated
    /\ \A a \in DOMAIN g \ DOMAIN h : ~g[a].allocated

(* Allocating out of a free chunk that fits leaves a chunk map in which that
   chunk is the only one to have changed hands. *)
LEMMA AllocateKeeps ==
    ASSUME NEW h, Good(h), NEW size \in Nat, NEW c \in Fits(h, size),
           NEW g, g = Allocate(h, c, size)
    PROVE  AllocatedTo(h, c, size, g)
<1> DEFINE new == c + HDR + size
           k   == IF Splits(h, c, size) THEN Split(h, c, size) ELSE h
<1>1. /\ Shape(h) /\ Merged(h) /\ c \in DOMAIN h /\ h[c].size > size /\ ~h[c].allocated
      /\ h[c].size \in Nat /\ HDR \in Nat
  <2>1. /\ Shape(h) /\ Merged(h) /\ c \in DOMAIN h /\ h[c].size > size /\ ~h[c].allocated
    BY DEF Good, Fits
  <2> QED
    BY <2>1, HeapAssumption DEF Shape, Header
<1>2. /\ Shape(k)
      /\ DOMAIN h \subseteq DOMAIN k
      /\ size <= k[c].size /\ k[c].size <= size + HDR
      /\ \A a \in DOMAIN h : k[a].allocated = h[a].allocated
      /\ \A a \in DOMAIN h \ {c} : k[a].size = h[a].size /\ k[a].next = h[a].next
      /\ \A a \in DOMAIN k \ DOMAIN h : ~k[a].allocated /\ k[a].next = h[c].next
      /\ k[c].next = h[c].next \/ k[c].next \in DOMAIN k \ DOMAIN h
  <2>1. CASE Splits(h, c, size)
    <3>1. k = Split(h, c, size)
      BY <2>1
    <3> HIDE DEF k
    <3>2. /\ Shape(k) /\ DOMAIN k = DOMAIN h \cup {new} /\ new \notin DOMAIN h
          /\ ~k[new].allocated /\ k[c].size = size /\ k[c].next = new /\ k[new].next = h[c].next
          /\ \A a \in DOMAIN h : k[a].allocated = h[a].allocated
          /\ \A a \in DOMAIN h \ {c} : k[a].size = h[a].size /\ k[a].next = h[a].next
      <4>1. SplitTo(h, c, size, new, k)
        BY <2>1, <3>1, <1>1, SplitKeeps
      <4> QED
        BY <4>1 DEF SplitTo
    <3> HIDE DEF new
    <3> QED
      BY <3>2, <1>1
  <2>2. CASE ~Splits(h, c, size)
    BY <2>2, <1>1 DEF Splits
  <2> QED
    BY <2>1, <2>2
<1>3. g = Mark(k, c, TRUE)
  BY DEF Allocate
<1> HIDE DEF k
<1>4. /\ Shape(g) /\ DOMAIN g = DOMAIN k /\ g[c].allocated
      /\ \A a \in DOMAIN k : g[a].size = k[a].size /\ g[a].next = k[a].next
      /\ \A a \in DOMAIN k \ {c} : g[a].allocated = k[a].allocated
  <2>1. c \in DOMAIN k /\ TRUE \in BOOLEAN
    BY <1>1, <1>2
  <2>2. MarkedTo(k, c, TRUE, g)
    BY <2>1, <1>2, <1>3, MarkKeeps
  <2> QED
    BY <2>2 DEF MarkedTo
<1>5. Merged(g)
  <2>1. SUFFICES ASSUME NEW a \in DOMAIN g, g[a].next # NULL, a # c, g[a].next # c
                 PROVE  g[a].allocated \/ g[g[a].next].allocated
    BY <1>4 DEF Merged
  <2>2. g[a].next \in DOMAIN g
    BY <2>1, <1>4, Neighbours
  <2>3. CASE a \in DOMAIN h
    <3>1. g[a].next = h[a].next /\ g[a].allocated = h[a].allocated /\ h[a].next \in DOMAIN h
      BY <2>1, <2>3, <1>1, <1>2, <1>4, Neighbours
    <3> QED
      BY <2>1, <2>3, <3>1, <1>1, <1>2, <1>4 DEF Merged
  <2>4. CASE a \notin DOMAIN h
    <3>1. g[a].next = h[c].next /\ h[c].next \in DOMAIN h
      BY <2>1, <2>4, <1>1, <1>2, <1>4, Neighbours
    <3>2. h[h[c].next].allocated
      BY <2>1, <3>1, <1>1 DEF Merged
    <3> QED
      BY <2>1, <3>1, <3>2, <1>2, <1>4
  <2> QED
    BY <2>3, <2>4
<1> QED
  BY <1>1, <1>2, <1>4, <1>5 DEF Good, AllocatedTo

(* What g is when c was freed in h. *)
FreedTo(h, c, g) ==
    /\ Good(g)
    /\ \A a \in DOMAIN h \ {c} :
          h[a].allocated => a \in DOMAIN g /\ g[a].allocated /\ g[a].size = h[a].size
    /\ \A a \in DOMAIN g : g[a].allocated => a \in DOMAIN h /\ a # c /\ h[a].allocated

(* Freeing an allocated chunk leaves a chunk map in which every other
   allocated chunk is still there, unchanged, and this one is not. *)
LEMMA FreeKeeps ==
    ASSUME NEW h, Good(h), NEW c \in DOMAIN h, h[c].allocated,
           NEW g, g = FreeChunk(h, c)
    PROVE  FreedTo(h, c, g)
<1> DEFINE k   == Mark(h, c, FALSE)
           q   == k[c].prev
           top == IF IsFree(k, q) THEN q ELSE c
           m   == MergePrev(k, c)
<1>1. Shape(h) /\ Merged(h)
  BY DEF Good
<1>2. /\ Shape(k) /\ DOMAIN k = DOMAIN h /\ ~k[c].allocated
      /\ \A a \in DOMAIN h : k[a].size = h[a].size /\ k[a].next = h[a].next /\ k[a].prev = h[a].prev
      /\ \A a \in DOMAIN h \ {c} : k[a].allocated = h[a].allocated
  <2>1. FALSE \in BOOLEAN
    OBVIOUS
  <2>2. MarkedTo(h, c, FALSE, k)
    BY <2>1, <1>1, MarkKeeps
  <2> QED
    BY <2>2 DEF MarkedTo
<1>3. /\ m = IF IsFree(k, q) THEN Absorb(k, q, c) ELSE k
      /\ g = MergeNext(m, top)
  BY DEF FreeChunk, MergePrev
<1> HIDE DEF k, m
<1>4. q # NULL => q \in DOMAIN k /\ k[q].next = c /\ q # c
  BY <1>2, Neighbours, HeapAssumption DEF Header
<1>5. c # NULL
  BY <1>1, Neighbours
<1>6. /\ Shape(m)
      /\ top \in DOMAIN m /\ ~m[top].allocated /\ top \in {c, q}
      /\ DOMAIN m = IF top = c THEN DOMAIN h ELSE DOMAIN h \ {c}
      /\ m[top].next = h[c].next
      /\ \A a \in DOMAIN m : m[a].allocated = k[a].allocated
      /\ \A a \in DOMAIN m \ {top} : m[a].size = h[a].size /\ m[a].next = h[a].next
  <2>1. CASE IsFree(k, q)
    <3>1. top = q /\ q # NULL /\ ~k[q].allocated /\ m = Absorb(k, q, k[q].next)
      <4>1. q # NULL /\ ~k[q].allocated /\ m = Absorb(k, q, c)
        BY <2>1, <1>3 DEF IsFree
      <4>2. k[q].next = c
        BY <4>1, <1>4
      <4> QED
        BY <2>1, <4>1, <4>2
    <3> HIDE DEF q, top
    <3>2. /\ Shape(m) /\ DOMAIN m = DOMAIN k \ {c} /\ m[q].next = k[c].next
          /\ \A a \in DOMAIN m : m[a].allocated = k[a].allocated
          /\ \A a \in DOMAIN m \ {q} : m[a].size = k[a].size /\ m[a].next = k[a].next
      <4>1. AbsorbedTo(k, q, c, m)
        BY <3>1, <1>2, <1>4, <1>5, AbsorbKeeps
      <4> QED
        BY <4>1 DEF AbsorbedTo
    <3> QED
      BY <3>1, <3>2, <1>2, <1>4
  <2>2. CASE ~IsFree(k, q)
    BY <2>2, <1>2, <1>3
  <2> QED
    BY <2>1, <2>2
(* Only the freed run can have a free neighbour, and only behind it. *)
<1>7. \A a \in DOMAIN m :
        m[a].next # NULL /\ a # top => m[a].allocated \/ m[m[a].next].allocated
  <2>1. SUFFICES ASSUME NEW a \in DOMAIN m, m[a].next # NULL, a # top, ~m[a].allocated
                 PROVE  m[m[a].next].allocated
    OBVIOUS
  <2>2. /\ m[a].next \in DOMAIN m /\ a \in DOMAIN h /\ m[a].next = h[a].next
        /\ a # c /\ ~h[a].allocated /\ h[a].next \in DOMAIN h
    <3>1. m[a].next \in DOMAIN m
      BY <2>1, <1>6, Neighbours
    <3>2. a \in DOMAIN h /\ m[a].next = h[a].next /\ a # c
      BY <2>1, <1>6, <1>4, <1>2
    <3>3. ~h[a].allocated
      BY <2>1, <3>2, <1>6, <1>2
    <3> QED
      BY <3>1, <3>2, <3>3, <1>6
  <2>3. h[h[a].next].allocated
    BY <2>1, <2>2, <1>1 DEF Merged
  <2>4. h[a].next # c
    <3>1. SUFFICES ASSUME h[a].next = c PROVE FALSE
      OBVIOUS
    <3>2. h[c].prev = a
      BY <3>1, <2>1, <2>2, <1>1, Neighbours
    <3>3. a # NULL
      BY <2>2, <1>1, Neighbours
    <3>4. IsFree(k, q) /\ q = a
      BY <3>2, <3>3, <2>2, <1>2 DEF IsFree
    <3> QED
      BY <3>4, <2>1
  <2> QED
    BY <2>2, <2>3, <2>4, <1>2, <1>6
<1> HIDE DEF top
<1>8. CASE IsFree(m, m[top].next)
  <2> DEFINE n == m[top].next
  <2>1. n # NULL /\ ~m[n].allocated /\ g = Absorb(m, top, n)
    BY <1>8, <1>3 DEF IsFree, MergeNext
  <2>2. n \in DOMAIN m /\ n \in DOMAIN h /\ n = h[c].next
    BY <2>1, <1>6, Neighbours
  <2>3. /\ Shape(g) /\ n # top /\ DOMAIN g = DOMAIN m \ {n} /\ g[top].next = m[n].next
        /\ \A a \in DOMAIN g : g[a].allocated = m[a].allocated
        /\ \A a \in DOMAIN g \ {top} : g[a].size = m[a].size /\ g[a].next = m[a].next
    <3>1. Shape(m) /\ top \in DOMAIN m /\ m[top].next # NULL /\ n = m[top].next
      BY <2>1, <1>6
    <3> HIDE DEF n
    <3>2. AbsorbedTo(m, top, n, g)
      BY <2>1, <3>1, AbsorbKeeps
    <3> QED
      BY <3>2 DEF AbsorbedTo
  <2>4. Merged(g)
    <3>1. SUFFICES ASSUME NEW a \in DOMAIN g, g[a].next # NULL
                   PROVE  g[a].allocated \/ g[g[a].next].allocated
      BY DEF Merged
    <3>2. g[a].next \in DOMAIN g
      BY <3>1, <2>3, Neighbours
    <3> HIDE DEF n
    <3>3. CASE a = top
      BY <3>1, <3>2, <3>3, <2>1, <2>2, <2>3, <1>7
    <3>4. CASE a # top
      BY <3>1, <3>2, <3>4, <2>3, <1>7
    <3> QED
      BY <3>3, <3>4
  <2>5. \A a \in DOMAIN h \ {c} :
           h[a].allocated => a \in DOMAIN g /\ g[a].allocated /\ g[a].size = h[a].size
    BY <2>1, <2>2, <2>3, <1>2, <1>6
  <2>6. \A a \in DOMAIN g : g[a].allocated => a \in DOMAIN h /\ a # c /\ h[a].allocated
    BY <2>3, <1>2, <1>6
  <2> QED
    BY <2>3, <2>4, <2>5, <2>6 DEF Good, FreedTo
<1>9. CASE ~IsFree(m, m[top].next)
  <2>1. g = m
    BY <1>9, <1>3 DEF MergeNext
  <2>2. Merged(m)
    BY <1>7, <1>9 DEF Merged, IsFree
  <2> QED
    BY <2>1, <2>2, <1>2, <1>6 DEF Good, FreedTo
<1> QED
  BY <1>8, <1>9

-----------------------------------------------------------------------------
(* The inductive invariant: none of the four parts is inductive alone.  The
   list stays well formed only because a freed pointer is one that was handed
   out (BlocksSafe), and a free run is merged completely only because there
   never are two free neighbours to begin with (Coalesced).  After an overrun
   nothing is claimed, and nothing moves. *)
IInv == TypeOK /\ WellFormed /\ Coalesced /\ BlocksSafe

(* The invariant gives what the lemmas on chunk maps ask for. *)
LEMMA ChunksGood == IInv /\ Intact => Good(chunks)
  BY DEF IInv, TypeOK, WellFormed, Coalesced, Good, Shape

(* Every operation of the heap is one of a running kernel, and that is intact. *)
LEMMA RunningIsIntact == failed = Running => Intact
  BY DEF Intact, Running, Overrun

(* A kernel that has stopped stays as it is. *)
LEMMA OnlyRunningMoves == failed # Running /\ Next => UNCHANGED vars
  BY DEF Next, KMalloc, KMallocAligned, KCalloc, KRealloc, KFree, OutOfMemory, Stopped, vars

(* A sum below 2^32 does not wrap. *)
LEMMA SumFits ==
    ASSUME NEW n \in Nat, n < Word
    PROVE  n % Word = n
  BY HeapAssumption, Z3

(* kmalloc_aligned moves the pointer forward, by at most the alignment. *)
LEMMA AlignUpBounds ==
    ASSUME NEW p \in Nat, NEW al \in Nat \ {0}
    PROVE  AlignUp(p, al) \in Nat /\ p < AlignUp(p, al) /\ AlignUp(p, al) <= p + al
<1>1. p % al \in Nat /\ p % al < al
  BY Z3
<1> QED
  BY <1>1 DEF AlignUp

(* What callers ask for, products of kcalloc and room for alignment included, is a number. *)
LEMMA SizesAreNaturals == AllocSizes \subseteq Nat
<1>1. \A n, e \in Sizes : (n * e) % Word \in Nat
  <2>1. TAKE n, e \in Sizes
  <2>2. n * e \in Nat
    BY HeapAssumption
  <2> QED
    BY <2>2, HeapAssumption, Z3
<1>2. \A s \in Sizes, a \in Alignments : AlignedSize(a, s) \in Nat
  <2>1. TAKE s \in Sizes, a \in Alignments
  <2>2. s + a \in Nat
    BY HeapAssumption
  <2> QED
    BY <2>2, HeapAssumption, Z3 DEF AlignedSize
<1>3. SUFFICES ASSUME NEW x \in AllocSizes PROVE x \in Nat
  OBVIOUS
<1>4. CASE x \in Sizes
  BY <1>4, HeapAssumption
<1>5. CASE x \in {AlignedSize(a, s) : s \in Sizes, a \in Alignments}
  BY <1>5, <1>2
<1>6. CASE x \in {(n * e) % Word : n \in Sizes, e \in Sizes}
  BY <1>6, <1>1
<1> QED
  BY <1>4, <1>5, <1>6 DEF AllocSizes

(* A block cut from a chunk that fits is safe, and endangers no other. *)
LEMMA GiveOut ==
    ASSUME NEW h, NEW L, Good(h), Safe(h, L), L \subseteq Block,
           NEW size \in Nat, NEW c \in Fits(h, size),
           NEW b \in Block, b.chunk = c, c + HDR <= b.ptr, b.ptr + b.size <= c + HDR + size,
           NEW g, g = Allocate(h, c, size)
    PROVE  Good(g) /\ Safe(g, L \cup {b})
<1>1. /\ Good(g) /\ DOMAIN h \subseteq DOMAIN g /\ c \in DOMAIN g /\ g[c].allocated
      /\ size <= g[c].size
      /\ \A a \in DOMAIN h \ {c} : g[a].size = h[a].size /\ g[a].allocated = h[a].allocated
      /\ \A a \in DOMAIN g \ DOMAIN h : ~g[a].allocated
  <2>1. AllocatedTo(h, c, size, g)
    BY AllocateKeeps
  <2> QED
    BY <2>1 DEF AllocatedTo
<1>2. c \in DOMAIN h /\ ~h[c].allocated /\ c \in Nat
  BY DEF Fits, Good, Shape
<1>3. \A d \in L : d.chunk # c
  BY <1>2 DEF Safe
<1>4. g[c].size \in Nat
  BY <1>1 DEF Good, Shape, Header
<1>5. ASSUME NEW d \in L \cup {b}
      PROVE  /\ d.chunk \in DOMAIN g
             /\ g[d.chunk].allocated
             /\ d.chunk + HDR <= d.ptr
             /\ d.ptr + d.size <= ChunkEnd(g, d.chunk)
  <2>1. CASE d = b
    <3>1. b.ptr \in Nat /\ b.size \in Nat
      BY DEF Block
    <3>2. b.ptr + b.size <= c + HDR + g[c].size
      BY <3>1, <1>1, <1>2, <1>4, HeapAssumption
    <3> QED
      BY <2>1, <3>2, <1>1 DEF ChunkEnd
  <2>2. CASE d \in L
    <3>1. /\ d.chunk \in DOMAIN h /\ h[d.chunk].allocated
          /\ d.chunk + HDR <= d.ptr /\ d.ptr + d.size <= ChunkEnd(h, d.chunk)
      BY <2>2 DEF Safe
    <3>2. d.chunk \in DOMAIN h \ {c}
      BY <2>2, <3>1, <1>3
    <3>3. ChunkEnd(g, d.chunk) = ChunkEnd(h, d.chunk)
      BY <3>2, <1>1 DEF ChunkEnd
    <3> QED
      BY <3>1, <3>2, <3>3, <1>1
  <2> QED
    BY <2>1, <2>2
<1>6. \A d, e \in L \cup {b} : d.chunk = e.chunk => d = e
  BY <1>3 DEF Safe
<1>7. \A a \in DOMAIN g : g[a].allocated => \E d \in L \cup {b} : d.chunk = a
  <2>1. TAKE a \in DOMAIN g
  <2>2. CASE a = c
    BY <2>2
  <2>3. CASE a # c
    BY <2>3, <1>1 DEF Safe
  <2> QED
    BY <2>2, <2>3
<1> QED
  BY <1>1, <1>5, <1>6, <1>7 DEF Safe

(* Taking a block back endangers no other. *)
LEMMA TakeBack ==
    ASSUME NEW h, NEW L, Good(h), Safe(h, L), NEW b \in L,
           NEW g, g = FreeChunk(h, b.chunk)
    PROVE  Good(g) /\ Safe(g, L \ {b})
<1> DEFINE c == b.chunk
<1>1. c \in DOMAIN h /\ h[c].allocated
  BY DEF Safe
<1>2. /\ Good(g)
      /\ \A a \in DOMAIN h \ {c} :
            h[a].allocated => a \in DOMAIN g /\ g[a].allocated /\ g[a].size = h[a].size
      /\ \A a \in DOMAIN g : g[a].allocated => a \in DOMAIN h /\ a # c /\ h[a].allocated
  <2>1. FreedTo(h, c, g)
    BY <1>1, FreeKeeps
  <2> QED
    BY <2>1 DEF FreedTo
<1>3. ASSUME NEW d \in L \ {b}
      PROVE  /\ d.chunk \in DOMAIN g
             /\ g[d.chunk].allocated
             /\ d.chunk + HDR <= d.ptr
             /\ d.ptr + d.size <= ChunkEnd(g, d.chunk)
  <2>1. /\ d.chunk \in DOMAIN h /\ h[d.chunk].allocated /\ d.chunk # c
        /\ d.chunk + HDR <= d.ptr /\ d.ptr + d.size <= ChunkEnd(h, d.chunk)
    BY DEF Safe
  <2>2. /\ d.chunk \in DOMAIN g /\ g[d.chunk].allocated
        /\ g[d.chunk].size = h[d.chunk].size
    BY <2>1, <1>2
  <2> QED
    BY <2>1, <2>2 DEF ChunkEnd
<1>4. \A d, e \in L \ {b} : d.chunk = e.chunk => d = e
  BY DEF Safe
<1>5. \A a \in DOMAIN g : g[a].allocated => \E d \in L \ {b} : d.chunk = a
  BY <1>2 DEF Safe
<1> QED
  BY <1>2, <1>3, <1>4, <1>5 DEF Safe

(* heap_init leaves one free chunk that is the whole heap. *)
LEMMA InitIInv == Init => IInv
<1> SUFFICES ASSUME Init PROVE IInv
  OBVIOUS
<1>1. /\ DOMAIN chunks = {HeapBase}
      /\ chunks[HeapBase].next = NULL /\ chunks[HeapBase].prev = NULL
      /\ chunks[HeapBase].size = HeapSize - HDR /\ ~chunks[HeapBase].allocated
      /\ chunks[HeapBase] \in Header
  BY HeapAssumption DEF Init, FirstHeader, Hdr, Header, NULL
<1>2. /\ HeapBase \in Nat /\ HDR \in Nat /\ HeapSize \in Nat /\ HDR > 0 /\ HeapSize > HDR
      /\ HeapEnd = HeapBase + HeapSize
  BY HeapAssumption DEF HeapEnd
<1>3. ChunkEnd(chunks, HeapBase) = HeapEnd
  BY <1>1, <1>2 DEF ChunkEnd
<1>4. TypeOK
  BY <1>1, <1>2 DEF TypeOK, Init
<1>5. Tiled(chunks)
  BY <1>1, <1>2, <1>3 DEF Tiled
<1>6. Linked(chunks)
  BY <1>1, <1>3 DEF Linked
<1>7. Merged(chunks)
  BY <1>1 DEF Merged
<1>8. Safe(chunks, live)
  BY <1>1 DEF Safe, Init
<1> QED
  BY <1>4, <1>5, <1>6, <1>7, <1>8 DEF IInv, WellFormed, Coalesced, BlocksSafe

(* What an action has to establish. *)
LEMMA Establish ==
    ASSUME Good(chunks'), Safe(chunks', live'), live' \subseteq Block,
           failed' \in AllocSizes \cup {Running, Overrun}
    PROVE  IInv'
  BY DEF IInv, TypeOK, WellFormed, Coalesced, BlocksSafe, Good, Shape

(* Every entry point of the heap, whether it succeeds or panics, keeps the invariant. *)
LEMMA NextIInv == IInv /\ [Next]_vars => IInv'
<1>a. IInv /\ UNCHANGED vars => IInv'
  BY DEF IInv, TypeOK, WellFormed, Coalesced, BlocksSafe, Intact, vars
<1> SUFFICES ASSUME IInv, Next, failed = Running PROVE IInv'
  BY <1>a, OnlyRunningMoves
<1>1. /\ Good(chunks) /\ Safe(chunks, live) /\ live \subseteq Block
      /\ failed \in AllocSizes \cup {Running, Overrun}
  BY ChunksGood, RunningIsIntact DEF IInv, BlocksSafe, TypeOK
<1>2. HDR \in Nat /\ Sizes \subseteq Nat /\ Alignments \subseteq Nat \ {0}
  BY HeapAssumption
<1>3. \A size : Fits(chunks, size) \subseteq Nat
  BY <1>1 DEF Good, Shape, Fits
<1>4. ASSUME NEW size \in Nat, NEW c \in FirstFit(chunks, size)
      PROVE  /\ c \in Fits(chunks, size)
             /\ Plain(c, size) \in Block
             /\ Good(Allocate(chunks, c, size))
             /\ Safe(Allocate(chunks, c, size), live \cup {Plain(c, size)})
  <2>1. c \in Fits(chunks, size) /\ c \in Nat
    BY <1>3 DEF FirstFit
  <2>2. /\ Plain(c, size) \in Block /\ Plain(c, size).chunk = c
        /\ c + HDR <= Plain(c, size).ptr
        /\ Plain(c, size).ptr + Plain(c, size).size <= c + HDR + size
    BY <1>2, <2>1 DEF Plain, Block
  <2> QED
    BY <1>1, <2>1, <2>2, GiveOut
<1>5. ASSUME NEW size \in Nat, KMalloc(size) PROVE IInv'
  <2>1. PICK c \in FirstFit(chunks, size) :
           /\ chunks' = Allocate(chunks, c, size)
           /\ live' = live \cup {Plain(c, size)}
    BY <1>5 DEF KMalloc
  <2>2. failed' = failed
    BY <1>5 DEF KMalloc
  <2> QED
    BY <1>1, <1>4, <2>1, <2>2, Establish
<1>6. ASSUME NEW al \in Alignments, NEW size \in Sizes, KMallocAligned(al, size) PROVE IInv'
  <2> DEFINE sum == AlignedSize(al, size)
  <2>1. PICK c \in FirstFit(chunks, sum) :
           /\ chunks' = Allocate(chunks, c, sum)
           /\ live' = live \cup {[ptr |-> AlignUp(c + HDR, al), size |-> size, chunk |-> c]}
    BY <1>6 DEF KMallocAligned
  <2> DEFINE b == [ptr |-> AlignUp(c + HDR, al), size |-> size, chunk |-> c]
  <2>2. sum \in Nat
    BY SizesAreNaturals DEF AllocSizes
  <2>3. c \in Fits(chunks, sum) /\ c \in Nat /\ size \in Nat /\ al \in Nat \ {0}
    BY <1>2, <1>3 DEF FirstFit
  <2>4. /\ AlignUp(c + HDR, al) \in Nat
        /\ c + HDR < AlignUp(c + HDR, al) /\ AlignUp(c + HDR, al) <= c + HDR + al
    <3>1. c + HDR \in Nat
      BY <1>2, <2>3
    <3> QED
      BY <2>3, <3>1, AlignUpBounds
  <2>5. b \in Block /\ b.chunk = c /\ c + HDR <= b.ptr
    BY <1>2, <2>3, <2>4 DEF Block
  <2>6. live' \subseteq Block
    BY <1>1, <2>1, <2>5
  <2>7. CASE size + al < Word
    <3>1. sum = size + al
      BY <2>3, <2>7, SumFits DEF AlignedSize
    <3>2. b.ptr + b.size <= c + HDR + sum
      BY <1>2, <2>3, <2>4, <3>1
    <3>3. Good(chunks') /\ Safe(chunks', live')
      <4> HIDE DEF b, sum
      <4> QED
        BY <1>1, <2>1, <2>2, <2>3, <2>5, <3>2, GiveOut DEF b
    <3>4. failed' = Running
      BY <1>6, <2>7 DEF KMallocAligned
    <3> QED
      BY <2>6, <3>3, <3>4, Establish
  <2>8. CASE ~(size + al < Word)
    <3>1. Good(chunks')
      <4> HIDE DEF sum
      <4> QED
        BY <1>4, <2>1, <2>2
    <3>2. failed' = Overrun
      BY <1>6, <2>8 DEF KMallocAligned
    <3> QED
      BY <2>6, <3>1, <3>2 DEF IInv, TypeOK, WellFormed, Coalesced, BlocksSafe, Intact, Good, Shape
  <2> QED
    BY <2>7, <2>8
<1>7. ASSUME NEW b \in Freeable, NEW size \in Sizes, KRealloc(b, size) PROVE IInv'
  <2>1. PICK c \in FirstFit(chunks, size) :
           /\ chunks' = FreeChunk(Allocate(chunks, c, size), b.ptr - HDR)
           /\ live' = (live \cup {Plain(c, size)}) \ {b}
    BY <1>7 DEF KRealloc
  <2>2. failed' = failed
    BY <1>7 DEF KRealloc
  <2>3. b \in live /\ b.ptr - HDR = b.chunk
    BY <1>1, <1>2 DEF Freeable, Block
  <2>4. size \in Nat
    BY <1>2
  <2>5. /\ Plain(c, size) \in Block /\ Good(Allocate(chunks, c, size))
        /\ Safe(Allocate(chunks, c, size), live \cup {Plain(c, size)})
    BY <1>4, <2>4
  <2>6. Good(chunks') /\ Safe(chunks', live')
    BY <2>1, <2>3, <2>5, TakeBack
  <2>7. live' \subseteq Block
    BY <1>1, <2>1, <2>5
  <2> QED
    BY <1>1, <2>2, <2>6, <2>7, Establish
<1>8. ASSUME NEW b \in Freeable, KFree(b) PROVE IInv'
  <2>1. b \in live /\ b.ptr - HDR = b.chunk
    BY <1>1, <1>2 DEF Freeable, Block
  <2>2. Good(chunks') /\ Safe(chunks', live')
    BY <1>1, <1>8, <2>1, TakeBack DEF KFree
  <2>3. live' \subseteq Block /\ failed' = failed
    BY <1>1, <1>8 DEF KFree
  <2> QED
    BY <1>1, <2>2, <2>3, Establish
<1>9. ASSUME NEW size \in AllocSizes, OutOfMemory(size) PROVE IInv'
  BY <1>1, <1>9, Establish DEF OutOfMemory
<1>10. CASE UNCHANGED vars
  BY <1>a, <1>10
<1>11. ASSUME NEW num \in Sizes, NEW element_size \in Sizes, KCalloc(num, element_size) PROVE IInv'
  <2>1. (num * element_size) % Word \in Nat
    BY SizesAreNaturals DEF AllocSizes
  <2> QED
    BY <1>11, <2>1, <1>5 DEF KCalloc
<1> QED
  BY <1>2, <1>5, <1>6, <1>7, <1>8, <1>9, <1>10, <1>11 DEF Next, Stopped

(* Whatever callers do, the kernel heap stays well formed, completely merged,
   and its blocks stay inside chunks of their own. *)
THEOREM HeapInvariant == Spec => []IInv
<1> QED
  BY InitIInv, NextIInv, PTL DEF Spec

(* The type invariant of the heap. *)
THEOREM HeapTypeOK == Spec => []TypeOK
<1>1. IInv => TypeOK
  BY DEF IInv
<1> QED
  BY <1>1, HeapInvariant, PTL

(* The list of headers is never torn, and no byte is ever lost or doubled. *)
THEOREM HeapWellFormed == Spec => []WellFormed
<1>1. IInv => WellFormed
  BY DEF IInv
<1> QED
  BY <1>1, HeapInvariant, PTL

(* No two neighbouring chunks are ever both free. *)
THEOREM HeapCoalesced == Spec => []Coalesced
<1>1. IInv => Coalesced
  BY DEF IInv
<1> QED
  BY <1>1, HeapInvariant, PTL

(* Blocks in callers' hands lie inside chunks of their own. *)
THEOREM HeapBlocksSafe == Spec => []BlocksSafe
<1>1. IInv => BlocksSafe
  BY DEF IInv
<1> QED
  BY <1>1, HeapInvariant, PTL

-----------------------------------------------------------------------------
(* A heap without blocks is one free chunk, as heap_init left it. *)
THEOREM HeapQuietIsWhole == Spec => []QuietHeapIsWhole
<1>1. IInv => QuietHeapIsWhole
  <2>1. SUFFICES ASSUME IInv, Intact, live = {}
                 PROVE  chunks = [a \in {HeapBase} |-> FirstHeader]
    BY DEF QuietHeapIsWhole
  <2>2. Good(chunks) /\ \A c \in DOMAIN chunks : ~chunks[c].allocated
    BY <2>1, ChunksGood DEF IInv, BlocksSafe, Safe
  <2>3. \A c \in DOMAIN chunks : chunks[c].next = NULL
    BY <2>2, Neighbours DEF Good, Merged
  <2>4. \A c \in DOMAIN chunks : /\ c \in Nat /\ chunks[c] \in Header /\ chunks[c].size \in Nat
                                  /\ ChunkEnd(chunks, c) = HeapEnd /\ c < HeapEnd
    <3>1. TAKE c \in DOMAIN chunks
    <3>2. c \in Nat /\ chunks[c] \in Header /\ chunks[c].size \in Nat
      BY <2>2 DEF Good, Shape, Header
    <3>3. ChunkEnd(chunks, c) = HeapEnd
      BY <2>2, <2>3 DEF Good, Shape, Linked
    <3> QED
      BY <3>2, <3>3, HeapAssumption DEF ChunkEnd
  <2>5. DOMAIN chunks = {HeapBase}
    <3>1. HeapBase \in DOMAIN chunks
      BY <2>2 DEF Good, Shape, Tiled
    <3>2. \A c, d \in DOMAIN chunks : ~ (c < d)
      <4>1. \A c, d \in DOMAIN chunks : c < d => ChunkEnd(chunks, c) <= d
        BY <2>2 DEF Good, Shape, Tiled
      <4>2. HeapEnd \in Nat
        BY HeapAssumption DEF HeapEnd
      <4> QED
        BY <4>1, <4>2, <2>4
    <3>3. \A c \in DOMAIN chunks : c = HeapBase
      BY <3>1, <3>2, <2>4
    <3> QED
      BY <3>1, <3>3
  <2>6. chunks[HeapBase].prev = NULL
    BY <2>2, <2>3, <2>5, Neighbours DEF Good
  <2>7. chunks[HeapBase].size = HeapSize - HDR
    BY <2>4, <2>5, HeapAssumption DEF ChunkEnd, HeapEnd
  <2>8. chunks[HeapBase] = FirstHeader
    BY <2>2, <2>3, <2>4, <2>5, <2>6, <2>7 DEF FirstHeader, Hdr, Header
  <2> QED
    BY <2>2, <2>5, <2>8 DEF Good, Shape
<1> QED
  BY <1>1, HeapInvariant, PTL

-----------------------------------------------------------------------------
(* Refinement of BlockPool *)

(* The extent of a chunk that was just allocated is fresh, and large enough
   without wasting more than a header. *)
LEMMA FreshExtent ==
    ASSUME NEW h, Good(h), NEW size \in Nat, NEW c \in Fits(h, size),
           NEW g, g = Allocate(h, c, size)
    PROVE  /\ Good(g)
           /\ ExtentAt(g, c) \in [lo : HeapBase..HeapEnd, hi : HeapBase..HeapEnd]
           /\ ExtentAt(g, c).lo <= ExtentAt(g, c).hi
           /\ ExtentAt(g, c).hi - ExtentAt(g, c).lo \in (size + HDR)..(size + 2 * HDR)
           /\ \A f \in ExtentsOf(h) : ExtentAt(g, c).hi <= f.lo \/ f.hi <= ExtentAt(g, c).lo
           /\ ExtentsOf(g) = ExtentsOf(h) \cup {ExtentAt(g, c)}
<1>1. /\ Good(g) /\ DOMAIN h \subseteq DOMAIN g /\ c \in DOMAIN g /\ g[c].allocated
      /\ size <= g[c].size /\ g[c].size <= size + HDR
      /\ \A a \in DOMAIN h \ {c} : g[a].size = h[a].size /\ g[a].allocated = h[a].allocated
      /\ \A a \in DOMAIN g \ DOMAIN h : ~g[a].allocated
  <2>1. AllocatedTo(h, c, size, g)
    BY AllocateKeeps
  <2> QED
    BY <2>1 DEF AllocatedTo
<1>2. c \in DOMAIN h /\ ~h[c].allocated
  BY DEF Fits
<1>3. /\ DOMAIN g \subseteq Nat /\ g[c].size \in Nat /\ HDR \in Nat /\ HeapBase \in Nat /\ HeapEnd \in Nat
      /\ HeapBase <= c /\ ChunkEnd(g, c) <= HeapEnd
  BY <1>1, HeapAssumption DEF Good, Shape, Tiled, Header, HeapEnd
<1>4. ChunkEnd(g, c) = c + HDR + g[c].size
  BY DEF ChunkEnd
<1>5. \A a \in DOMAIN h \ {c} : ExtentAt(g, a) = ExtentAt(h, a)
  BY <1>1 DEF ExtentAt, ChunkEnd
<1>6. /\ ExtentAt(g, c) \in [lo : HeapBase..HeapEnd, hi : HeapBase..HeapEnd]
      /\ ExtentAt(g, c).lo <= ExtentAt(g, c).hi
      /\ ExtentAt(g, c).hi - ExtentAt(g, c).lo \in (size + HDR)..(size + 2 * HDR)
  BY <1>1, <1>3, <1>4 DEF ExtentAt
<1>7. ASSUME NEW f \in ExtentsOf(h)
      PROVE  ExtentAt(g, c).hi <= f.lo \/ f.hi <= ExtentAt(g, c).lo
  <2>1. PICK a \in DOMAIN h : h[a].allocated /\ f = ExtentAt(h, a)
    BY DEF ExtentsOf
  <2>2. a \in DOMAIN g /\ a # c /\ f = ExtentAt(g, a)
    BY <2>1, <1>1, <1>2, <1>5
  <2>3. ChunkEnd(g, a) <= c \/ ChunkEnd(g, c) <= a
    BY <2>2, <1>1, <1>3 DEF Good, Shape, Tiled
  <2> QED
    BY <2>2, <2>3 DEF ExtentAt
<1>8. ExtentsOf(g) = ExtentsOf(h) \cup {ExtentAt(g, c)}
  <2>1. \A a \in DOMAIN g : g[a].allocated <=> (a = c \/ (a \in DOMAIN h /\ h[a].allocated))
    BY <1>1, <1>2
  <2>2. ExtentsOf(g) \subseteq ExtentsOf(h) \cup {ExtentAt(g, c)}
    <3>1. SUFFICES ASSUME NEW f \in ExtentsOf(g) PROVE f \in ExtentsOf(h) \cup {ExtentAt(g, c)}
      OBVIOUS
    <3>2. PICK a \in DOMAIN g : g[a].allocated /\ f = ExtentAt(g, a)
      BY DEF ExtentsOf
    <3> QED
      BY <3>2, <2>1, <1>5 DEF ExtentsOf
  <2>3. ExtentsOf(h) \subseteq ExtentsOf(g)
    <3>1. SUFFICES ASSUME NEW f \in ExtentsOf(h) PROVE f \in ExtentsOf(g)
      OBVIOUS
    <3>2. PICK a \in DOMAIN h : h[a].allocated /\ f = ExtentAt(h, a)
      BY DEF ExtentsOf
    <3> QED
      BY <3>2, <2>1, <1>1, <1>2, <1>5 DEF ExtentsOf
  <2>4. ExtentAt(g, c) \in ExtentsOf(g)
    BY <1>1 DEF ExtentsOf
  <2> QED
    BY <2>2, <2>3, <2>4
<1> QED
  BY <1>1, <1>6, <1>7, <1>8

(* Freeing a chunk gives back its extent and touches no other. *)
LEMMA ReturnedExtent ==
    ASSUME NEW h, Good(h), NEW c \in DOMAIN h, h[c].allocated,
           NEW g, g = FreeChunk(h, c)
    PROVE  /\ ExtentAt(h, c) \in ExtentsOf(h)
           /\ ExtentsOf(g) = ExtentsOf(h) \ {ExtentAt(h, c)}
<1>1. /\ \A a \in DOMAIN h \ {c} :
            h[a].allocated => a \in DOMAIN g /\ g[a].allocated /\ g[a].size = h[a].size
      /\ \A a \in DOMAIN g : g[a].allocated => a \in DOMAIN h /\ a # c /\ h[a].allocated
  <2>1. FreedTo(h, c, g)
    BY FreeKeeps
  <2> QED
    BY <2>1 DEF FreedTo
<1>2. \A a \in DOMAIN h \ {c} : h[a].allocated => ExtentAt(g, a) = ExtentAt(h, a)
  BY <1>1 DEF ExtentAt, ChunkEnd
<1>3. \A a : ExtentAt(h, a) = ExtentAt(h, c) => a = c
  BY DEF ExtentAt
<1>4. ExtentsOf(g) \subseteq ExtentsOf(h) \ {ExtentAt(h, c)}
  <2>1. SUFFICES ASSUME NEW f \in ExtentsOf(g) PROVE f \in ExtentsOf(h) \ {ExtentAt(h, c)}
    OBVIOUS
  <2>2. PICK a \in DOMAIN g : g[a].allocated /\ f = ExtentAt(g, a)
    BY DEF ExtentsOf
  <2> QED
    BY <2>2, <1>1, <1>2, <1>3 DEF ExtentsOf
<1>5. ExtentsOf(h) \ {ExtentAt(h, c)} \subseteq ExtentsOf(g)
  <2>1. SUFFICES ASSUME NEW f \in ExtentsOf(h), f # ExtentAt(h, c) PROVE f \in ExtentsOf(g)
    OBVIOUS
  <2>2. PICK a \in DOMAIN h : h[a].allocated /\ f = ExtentAt(h, a)
    BY DEF ExtentsOf
  <2> QED
    BY <2>1, <2>2, <1>1, <1>2 DEF ExtentsOf
<1> QED
  BY <1>4, <1>5 DEF ExtentsOf

(* A request that fits no chunk fits no run of unclaimed bytes either: such a
   run lies in one free chunk, because the next chunk is allocated. *)
LEMMA NoRunIsLongEnough ==
    ASSUME NEW h, Good(h), NEW need \in Nat, Fits(h, need) = {},
           NEW lo \in HeapBase..HeapEnd, NEW hi \in HeapBase..HeapEnd,
           \A f \in ExtentsOf(h) : hi <= f.lo \/ f.hi <= lo
    PROVE  hi - lo <= need + HDR
<1>1. SUFFICES ASSUME hi - lo > need + HDR PROVE FALSE
  BY HeapAssumption DEF HeapEnd
<1>2. /\ HDR \in Nat /\ HDR > 0 /\ HeapBase \in Nat /\ HeapEnd \in Nat /\ lo \in Nat /\ hi \in Nat
      /\ lo < hi /\ hi > lo + need + HDR /\ lo \in HeapBase..(HeapEnd - 1)
  BY <1>1, HeapAssumption DEF HeapEnd
<1>3. PICK c \in DOMAIN h : c <= lo /\ lo < ChunkEnd(h, c)
  BY <1>2 DEF Good, Shape, Tiled
<1>4. ASSUME NEW a \in DOMAIN h, h[a].allocated
      PROVE  hi <= a \/ ChunkEnd(h, a) <= lo
  <2>1. ExtentAt(h, a) \in ExtentsOf(h)
    BY <1>4 DEF ExtentsOf
  <2>2. ExtentAt(h, a).lo = a /\ ExtentAt(h, a).hi = ChunkEnd(h, a)
    BY DEF ExtentAt
  <2> QED
    BY <2>1, <2>2
<1>5. c \in Nat /\ h[c].size \in Nat /\ ChunkEnd(h, c) = c + HDR + h[c].size /\ ChunkEnd(h, c) \in Nat
  BY <1>2 DEF Good, Shape, Header, ChunkEnd
<1>6. ~h[c].allocated
  BY <1>2, <1>3, <1>4, <1>5
<1>7. h[c].size <= need
  BY <1>5, <1>6 DEF Fits
<1>8. ChunkEnd(h, c) < hi
  BY <1>2, <1>3, <1>5, <1>7
<1>9. h[c].next # NULL
  BY <1>2, <1>5, <1>8 DEF Good, Shape, Linked
<1> DEFINE n == h[c].next
<1>10. n \in DOMAIN h /\ n = ChunkEnd(h, c) /\ h[n].allocated
  BY <1>6, <1>9 DEF Good, Shape, Linked, Merged
<1>11. n < ChunkEnd(h, n) /\ ChunkEnd(h, n) \in Nat
  BY <1>2, <1>10 DEF Good, Shape, Header, ChunkEnd
<1> QED
  BY <1>2, <1>3, <1>4, <1>5, <1>8, <1>10, <1>11

(* The kernel heap is an implementation of the byte pool: every kmalloc,
   kmalloc_aligned, kcalloc, krealloc and kfree takes out or gives back
   exactly one fresh extent, and a panic is never spurious. *)
THEOREM HeapImplementsPool == Spec => ImplementsPool
<1>1. Init => Pool!Init
  <2>1. SUFFICES ASSUME Init PROVE Pool!Init
    OBVIOUS
  <2>2. Extents = {}
    BY <2>1 DEF Init, Extents, ExtentsOf, FirstHeader, Hdr
  <2> QED
    BY <2>1, <2>2 DEF Init, GaveUpOn, Intact, Running, Overrun, Pool!Nothing, Pool!Init
<1>2. IInv /\ [Next]_vars => [Pool!Next]_(Pool!vars)
  <2>a. UNCHANGED vars => UNCHANGED Pool!vars
    BY DEF vars, Pool!vars, Extents, GaveUpOn, Intact
  <2> SUFFICES ASSUME IInv, Next, failed = Running PROVE Pool!Next \/ UNCHANGED Pool!vars
    BY <2>a, OnlyRunningMoves
  <2>b. /\ GaveUpOn = Pool!Nothing
        /\ failed' \in {Running, Overrun} => GaveUpOn' = GaveUpOn
    BY DEF GaveUpOn, Intact, Running, Overrun, Pool!Nothing
  <2>1. Good(chunks) /\ Safe(chunks, live) /\ live \subseteq Block
    BY ChunksGood, RunningIsIntact DEF IInv, BlocksSafe, TypeOK
  <2>2. HDR \in Nat /\ AllocSizes \subseteq Nat /\ Sizes \subseteq AllocSizes
    BY HeapAssumption, SizesAreNaturals DEF AllocSizes
  <2>3. ASSUME NEW need \in AllocSizes, NEW c \in FirstFit(chunks, need),
               chunks' = Allocate(chunks, c, need), failed' \in {Running, Overrun}
        PROVE  Pool!Next
    <3>1. need \in Nat /\ c \in Fits(chunks, need)
      BY <2>2 DEF FirstFit
    <3> DEFINE e == ExtentAt(chunks', c)
    <3>2. /\ e \in [lo : HeapBase..HeapEnd, hi : HeapBase..HeapEnd] /\ e.lo <= e.hi
          /\ e.hi - e.lo \in (need + HDR)..(need + 2 * HDR)
          /\ \A f \in Extents : e.hi <= f.lo \/ f.hi <= e.lo
          /\ Extents' = Extents \cup {e}
      BY <2>1, <2>3, <3>1, FreshExtent DEF Extents
    <3> HIDE DEF e
    <3>3. Pool!Unclaimed(e) /\ e \in Pool!Extent
      BY <3>2 DEF Pool!Unclaimed, Pool!Apart, Pool!Extent
    <3>4. Pool!Claim(need)
      BY <3>2, <3>3 DEF Pool!Claim
    <3>5. Pool!Grab
      BY <2>b, <2>3, <3>4 DEF Pool!Grab
    <3> QED
      BY <3>5 DEF Pool!Next
  <2>4. ASSUME NEW size \in AllocSizes, KMalloc(size) PROVE Pool!Next
    BY <2>3, <2>4 DEF KMalloc
  <2>5. ASSUME NEW al \in Alignments, NEW size \in Sizes, KMallocAligned(al, size) PROVE Pool!Next
    <3>1. AlignedSize(al, size) \in AllocSizes
      BY DEF AllocSizes
    <3> QED
      BY <2>3, <2>5, <3>1 DEF KMallocAligned
  <2>6. ASSUME NEW num \in Sizes, NEW element_size \in Sizes, KCalloc(num, element_size) PROVE Pool!Next
    <3>1. (num * element_size) % Word \in AllocSizes
      BY DEF AllocSizes
    <3> QED
      BY <2>4, <2>6, <3>1 DEF KCalloc
  <2>7. ASSUME NEW b \in Freeable, KFree(b) PROVE Pool!Next
    <3>1. /\ b.chunk = b.ptr - HDR /\ b.chunk \in DOMAIN chunks /\ chunks[b.chunk].allocated
          /\ chunks' = FreeChunk(chunks, b.chunk)
      BY <2>1, <2>2, <2>7 DEF Freeable, Block, KFree, Safe
    <3>2. /\ ExtentAt(chunks, b.chunk) \in Extents
          /\ Extents' = Extents \ {ExtentAt(chunks, b.chunk)}
      BY <2>1, <3>1, ReturnedExtent DEF Extents
    <3>3. Pool!Release
      BY <2>b, <2>7, <3>2 DEF KFree, Pool!Release
    <3> QED
      BY <3>3 DEF Pool!Next
  <2>8. ASSUME NEW b \in Freeable, NEW size \in Sizes, KRealloc(b, size) PROVE Pool!Next
    <3>1. PICK c \in FirstFit(chunks, size) :
             chunks' = FreeChunk(Allocate(chunks, c, size), b.ptr - HDR)
      BY <2>8 DEF KRealloc
    <3>2. size \in Nat /\ c \in Fits(chunks, size) /\ size \in AllocSizes
      BY <2>2 DEF FirstFit
    <3>3. /\ b.chunk = b.ptr - HDR /\ b.chunk \in DOMAIN chunks /\ chunks[b.chunk].allocated
      BY <2>1, <2>2 DEF Freeable, Block, Safe
    <3> DEFINE k == Allocate(chunks, c, size)
               e == ExtentAt(k, c)
               old == ExtentAt(k, b.chunk)
    <3>4. /\ Good(k)
          /\ e \in [lo : HeapBase..HeapEnd, hi : HeapBase..HeapEnd] /\ e.lo <= e.hi
          /\ e.hi - e.lo \in (size + HDR)..(size + 2 * HDR)
          /\ \A f \in Extents : e.hi <= f.lo \/ f.hi <= e.lo
          /\ ExtentsOf(k) = Extents \cup {e}
      BY <2>1, <3>2, FreshExtent DEF Extents
    <3>5. b.chunk \in DOMAIN k /\ k[b.chunk].allocated /\ b.chunk # c
          /\ old = ExtentAt(chunks, b.chunk)
      <4>1. AllocatedTo(chunks, c, size, k)
        BY <2>1, <3>2, AllocateKeeps
      <4>2. b.chunk # c
        BY <3>2, <3>3 DEF Fits
      <4> HIDE DEF k
      <4>3. b.chunk \in DOMAIN k /\ k[b.chunk].allocated /\ k[b.chunk].size = chunks[b.chunk].size
        BY <3>3, <4>1, <4>2 DEF AllocatedTo
      <4> QED
        BY <4>2, <4>3 DEF ExtentAt, ChunkEnd
    <3>6. old \in Extents
      BY <3>3, <3>5 DEF Extents, ExtentsOf
    <3>7. Extents' = (Extents \cup {e}) \ {old}
      <4>1. chunks' = FreeChunk(k, b.chunk)
        BY <3>1, <3>3
      <4> HIDE DEF k, e, old
      <4>2. ExtentsOf(chunks') = ExtentsOf(k) \ {ExtentAt(k, b.chunk)}
        BY <3>4, <3>5, <4>1, ReturnedExtent
      <4> QED
        BY <3>4, <4>2 DEF Extents, old
    <3> HIDE DEF k, e, old
    <3>8. Pool!Unclaimed(e) /\ e \in Pool!Extent
      BY <3>4 DEF Pool!Unclaimed, Pool!Apart, Pool!Extent
    <3>9. Pool!Move
      BY <2>b, <2>8, <3>2, <3>4, <3>6, <3>7, <3>8 DEF KRealloc, Pool!Move
    <3> QED
      BY <3>9 DEF Pool!Next
  <2>9. ASSUME NEW size \in AllocSizes, OutOfMemory(size) PROVE Pool!Next
    <3>1. ASSUME NEW e \in Pool!Extent, Pool!Unclaimed(e)
          PROVE  e.hi - e.lo <= size + HDR
      <4>1. e.lo \in HeapBase..HeapEnd /\ e.hi \in HeapBase..HeapEnd
        BY DEF Pool!Extent
      <4>2. \A f \in ExtentsOf(chunks) : e.hi <= f.lo \/ f.hi <= e.lo
        BY <3>1 DEF Pool!Unclaimed, Pool!Apart, Extents
      <4>3. size \in Nat /\ Fits(chunks, size) = {}
        BY <2>2, <2>9 DEF OutOfMemory
      <4> QED
        BY <2>1, <4>1, <4>2, <4>3, NoRunIsLongEnough
    <3>2. GaveUpOn' = size /\ Extents' = Extents
      BY <2>2, <2>9 DEF OutOfMemory, Overrun, Intact, GaveUpOn, Extents
    <3>3. Pool!GiveUp
      BY <2>b, <3>1, <3>2 DEF Pool!GiveUp
    <3> QED
      BY <3>3 DEF Pool!Next
  <2>10. CASE UNCHANGED vars
    BY <2>a, <2>10
  <2> QED
    BY <2>2, <2>4, <2>5, <2>6, <2>7, <2>8, <2>9, <2>10 DEF Next, Stopped
<1> QED
  BY <1>1, <1>2, HeapInvariant, PTL DEF Spec, ImplementsPool, Pool!Spec
=============================================================================
