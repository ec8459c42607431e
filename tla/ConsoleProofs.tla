---------------------------- MODULE ConsoleProofs ----------------------------
(***************************************************************************)
(* Proofs about the two ends of the console.  The keyboard driver: for     *)
(* every set of scan codes, every size of the array and every number of    *)
(* codes sent, whatever the handler comes in between.  The terminal: for   *)
(* every size of the screen and all messages and texts, whatever escape    *)
(* sequences are broken off in them.                                       *)
(***************************************************************************)
EXTENDS Keyboard, Terminal, BasicLemmas, SequenceTheorems, TLAPS

-----------------------------------------------------------------------------
(* The keyboard *)

Byte == 0..255

KeyboardTypeOK ==
    /\ keycache \in [0..Cells - 1 -> Byte] /\ key_loc \in 0..Cells - 1
    /\ pc \in {"idle", "take", "load", "store", "shift"}
    /\ c \in Byte /\ loaded \in 0..Cells - 1 /\ i \in 0..Cells
    /\ irq \in BOOLEAN /\ masked \in BOOLEAN
    /\ port = {} \/ \E code \in Code : port = {code}
    /\ accepted \in Seq(Code) /\ delivered \in Seq(Byte)

(* What the reader relies on between two of its loads and stores, also when the
   handler has come in between: codes are only ever added. *)
ReaderInStep ==
    /\ pc \in {"take", "load", "store"} => key_loc > 0
    /\ pc = "store" => loaded \in 1..key_loc

(* What only a reader that masks interrupts can rely on. *)
ReaderAlone ==
    masked =>
        /\ pc \in {"load", "store"} => c = keycache[0]
        /\ pc = "store" => loaded = key_loc

(* An interrupt waits only for a code that is there. *)
NothingSpurious == irq => port # {}

KeyboardInv == KeyboardTypeOK /\ ReaderInStep /\ ReaderAlone /\ NothingSpurious /\ NoMoreThanSent

(* The inductive invariant: no interleaving of the handler with the reader's loads
   and stores makes the count run below zero, beyond the array or ahead of the
   codes that were put into the queue. *)
THEOREM KeyboardInvariant == Spec => []KeyboardInv
<1> USE KeyboardAssumption DEF Byte
<1>1. Init => KeyboardInv
  <2> SUFFICES ASSUME Init PROVE KeyboardInv
    OBVIOUS
  <2>1. <<>> \in Seq(Code) /\ <<>> \in Seq(Byte) /\ Len(accepted) = 0 /\ Len(delivered) = 0
    BY DEF Init
  <2> QED
    <3>1. KeyboardTypeOK
      <4>1. keycache \in [0..Cells - 1 -> Byte] /\ key_loc \in 0..Cells - 1
        BY DEF Init
      <4>2. c \in Byte /\ loaded \in 0..Cells - 1 /\ i \in 0..Cells
        BY DEF Init
      <4>3. irq \in BOOLEAN /\ masked \in BOOLEAN /\ port = {} /\ pc = "idle"
        BY Zenon DEF Init
      <4> QED
        BY <2>1, <4>1, <4>2, <4>3 DEF Init, KeyboardTypeOK
    <3>2. NoMoreThanSent
      BY <2>1 DEF Init, NoMoreThanSent
    <3> QED
      BY <3>1, <3>2 DEF Init, KeyboardInv, ReaderInStep, ReaderAlone, NothingSpurious
<1>2. KeyboardInv /\ [Next]_vars => KeyboardInv'
  <2> SUFFICES ASSUME KeyboardInv, [Next]_vars PROVE KeyboardInv'
    OBVIOUS
  <2> USE DEF KeyboardInv
  <2>1. CASE Send
    BY <2>1 DEF Send, reader, KeyboardTypeOK, ReaderInStep, ReaderAlone, NothingSpurious, NoMoreThanSent
  <2>2. CASE KeyboardIrq
    <3>1. CASE key_loc >= Cells - 1
      <4>1. /\ UNCHANGED <<keycache, key_loc, pc, c, loaded, i, event, delivered, port, masked, accepted>>
            /\ irq' = FALSE
        BY <2>2, <3>1 DEF KeyboardIrq, reader
      <4>2. KeyboardTypeOK'
        BY <4>1 DEF KeyboardTypeOK
      <4>3. ReaderInStep' /\ NoMoreThanSent'
        BY <4>1 DEF ReaderInStep, NoMoreThanSent
      <4>4. ReaderAlone'
        BY <4>1 DEF ReaderAlone
      <4>5. NothingSpurious'
        BY <4>1, Zenon DEF NothingSpurious
      <4> QED
        BY <4>2, <4>3, <4>4, <4>5
    <3>2. CASE ~(key_loc >= Cells - 1)
      <4>1. PICK code \in Code :
               /\ keycache' = [keycache EXCEPT ![key_loc] = code]
               /\ key_loc' = key_loc + 1
               /\ port' = {} /\ irq' = FALSE
               /\ accepted' = Append(accepted, code)
        BY <2>2, <3>2 DEF KeyboardIrq, KeyboardTypeOK
      <4>2. accepted' \in Seq(Code) /\ Len(accepted') = Len(accepted) + 1
        BY <4>1, AppendProperties DEF KeyboardTypeOK
      <4>3. UNCHANGED <<pc, c, loaded, i, event, delivered, masked>> /\ (masked => pc = "idle")
        BY <2>2 DEF KeyboardIrq, reader
      <4>4. KeyboardTypeOK'
        <5>1. keycache' \in [0..Cells - 1 -> Byte] /\ key_loc' \in 0..Cells - 1
          BY <3>2, <4>1 DEF KeyboardTypeOK
        <5>2. masked' \in BOOLEAN /\ irq' \in BOOLEAN /\ port' = {} /\ delivered' \in Seq(Byte)
          BY <4>1, <4>3, Zenon DEF KeyboardTypeOK
        <5>3. /\ pc' \in {"idle", "take", "load", "store", "shift"}
              /\ c' \in Byte /\ loaded' \in 0..Cells - 1 /\ i' \in 0..Cells
          BY <4>3 DEF KeyboardTypeOK
        <5> QED
          BY <4>2, <5>1, <5>2, <5>3 DEF KeyboardTypeOK
      <4>5. NoMoreThanSent'
        BY <4>1, <4>2, <4>3, LenProperties DEF KeyboardTypeOK, NoMoreThanSent
      <4>6. NothingSpurious'
        BY <4>1, Zenon DEF NothingSpurious
      <4>7. ReaderInStep'
        BY <4>1, <4>3 DEF KeyboardTypeOK, ReaderInStep
      <4>8. ReaderAlone'
        <5>1. masked' => pc' = "idle"
          BY <4>3, Zenon
        <5> QED
          BY <5>1 DEF ReaderAlone
      <4> QED
        BY <4>4, <4>5, <4>6, <4>7, <4>8
    <3> QED
      BY <3>1, <3>2
  <2>3. CASE Empty
    BY <2>3 DEF Empty, controller, KeyboardTypeOK, ReaderInStep, ReaderAlone, NothingSpurious, NoMoreThanSent
  <2>4. CASE NotEmpty
    BY <2>4 DEF NotEmpty, IsEmpty, controller, KeyboardTypeOK, ReaderInStep, ReaderAlone, NothingSpurious, NoMoreThanSent
  <2>5. CASE TakeFirst
    BY <2>5 DEF TakeFirst, controller, KeyboardTypeOK, ReaderInStep, ReaderAlone, NothingSpurious, NoMoreThanSent
  <2>6. CASE LoadKeyLoc
    BY <2>6 DEF LoadKeyLoc, controller, KeyboardTypeOK, ReaderInStep, ReaderAlone, NothingSpurious, NoMoreThanSent
  <2>7. CASE StoreKeyLoc
    <3>1. key_loc' = loaded - 1 /\ loaded \in 1..key_loc /\ pc = "store" /\ pc' = "shift" /\ i' = 0
          /\ UNCHANGED <<keycache, c, loaded, event, delivered, port, irq, masked, accepted>>
      BY <2>7 DEF StoreKeyLoc, controller, ReaderInStep
    <3>2. NoMoreThanSent'
      BY <3>1, LenProperties DEF KeyboardTypeOK, NoMoreThanSent
    <3>3. key_loc' \in 0..Cells - 1 /\ key_loc' <= key_loc
      BY <3>1 DEF KeyboardTypeOK
    <3>4. KeyboardTypeOK'
      BY <3>1, <3>3 DEF KeyboardTypeOK
    <3>5. ReaderInStep' /\ ReaderAlone'
      BY <3>1, <3>3 DEF ReaderInStep, ReaderAlone
    <3>6. NothingSpurious'
      BY <3>1 DEF NothingSpurious
    <3> QED
      BY <3>2, <3>4, <3>5, <3>6
  <2>8. CASE Shift
    <3>1. /\ pc = "shift" /\ i < Cells /\ i' = i + 1
          /\ UNCHANGED <<key_loc, pc, c, loaded, event, delivered, port, irq, masked, accepted>>
      BY <2>8 DEF Shift, controller
    <3>2. keycache' \in [0..Cells - 1 -> Byte]
      BY <2>8 DEF Shift, KeyboardTypeOK
    <3>3. KeyboardTypeOK'
      BY <3>1, <3>2 DEF KeyboardTypeOK
    <3>4. ReaderInStep' /\ ReaderAlone' /\ NoMoreThanSent'
      BY <3>1 DEF ReaderInStep, ReaderAlone, NoMoreThanSent
    <3>5. NothingSpurious'
      BY <3>1 DEF NothingSpurious
    <3> QED
      BY <3>3, <3>4, <3>5
  <2>9. CASE Deliver
    <3>1. delivered' \in Seq(Byte) /\ Len(delivered') = Len(delivered) + 1
      BY <2>9, AppendProperties DEF Deliver, KeyboardTypeOK
    <3>2. UNCHANGED <<keycache, key_loc, c, loaded, i, port, irq, masked, accepted>>
          /\ pc = "shift" /\ pc' = "idle"
      BY <2>9 DEF Deliver, controller
    <3>3. NoMoreThanSent'
      BY <3>1, <3>2, LenProperties DEF KeyboardTypeOK, NoMoreThanSent
    <3> QED
      BY <3>1, <3>2, <3>3 DEF KeyboardTypeOK, ReaderInStep, ReaderAlone, NothingSpurious
  <2>10. CASE UNCHANGED vars
    BY <2>10 DEF vars, reader, controller, KeyboardTypeOK, ReaderInStep, ReaderAlone, NothingSpurious, NoMoreThanSent
  <2> QED
    BY <2>1, <2>2, <2>3, <2>4, <2>5, <2>6, <2>7, <2>8, <2>9, <2>10 DEF Next, GetEvent
<1> QED
  BY <1>1, <1>2, PTL DEF Spec

(* However the handler and the reader are interleaved, the driver never hands
   out more codes than it took. *)
THEOREM KeyboardNoMoreThanSent == Spec => []NoMoreThanSent
<1>1. KeyboardInv => NoMoreThanSent
  BY DEF KeyboardInv
<1> QED
  BY <1>1, KeyboardInvariant, PTL

-----------------------------------------------------------------------------
(* The two forms of what waits: the n codes at the beginning of the array, and n
   codes of which those from place j on still lie one cell higher. *)
Plain(cache, n) == [k \in 1..n |-> cache[k - 1]]
Moving(cache, n, j) == [k \in 1..n |-> cache[IF k - 1 < j THEN k - 1 ELSE k]]

Caches == [0..Cells - 1 -> Byte]

(* The first n cells of the array, read as a sequence. *)
LEMMA PlainIsSeq ==
    ASSUME NEW cache \in Caches, NEW n \in 0..Cells
    PROVE  Plain(cache, n) \in Seq(Byte) /\ Len(Plain(cache, n)) = n
<1>1. \A k \in 1..n : cache[k - 1] \in Byte
  BY KeyboardAssumption DEF Caches
<1>2. Plain(cache, n) \in [1..n -> Byte] /\ n \in Nat
  BY <1>1, KeyboardAssumption DEF Plain
<1> QED
  BY <1>2

(* The cells that hold the queue while get_event shifts it, one of them twice. *)
LEMMA MovingIsSeq ==
    ASSUME NEW cache \in Caches, NEW n \in 0..Cells - 1, NEW j \in 0..Cells
    PROVE  Moving(cache, n, j) \in Seq(Byte) /\ Len(Moving(cache, n, j)) = n
<1>1. \A k \in 1..n : cache[IF k - 1 < j THEN k - 1 ELSE k] \in Byte
  BY KeyboardAssumption DEF Caches
<1>2. Moving(cache, n, j) \in [1..n -> Byte] /\ n \in Nat
  BY <1>1, KeyboardAssumption DEF Moving
<1> QED
  BY <1>2

(* The handler puts a code behind the others. *)
LEMMA AppendedPlain ==
    ASSUME NEW cache \in Caches, NEW n \in 0..Cells - 2, NEW code \in Byte
    PROVE  Plain([cache EXCEPT ![n] = code], n + 1) = Append(Plain(cache, n), code)
<1> DEFINE after == [cache EXCEPT ![n] = code]
<1>1. after \in Caches /\ n + 1 \in 0..Cells /\ n \in 0..Cells /\ n \in Nat
  BY KeyboardAssumption DEF Caches
<1>2. /\ Plain(after, n + 1) \in Seq(Byte) /\ Len(Plain(after, n + 1)) = n + 1
      /\ Plain(cache, n) \in Seq(Byte) /\ Len(Plain(cache, n)) = n
  BY <1>1, PlainIsSeq
<1>3. \A k \in 1..n + 1 :
          Plain(after, n + 1)[k] = IF k <= n THEN Plain(cache, n)[k] ELSE code
  BY <1>1, KeyboardAssumption DEF Plain, Caches
<1> HIDE DEF after
<1>4. /\ Append(Plain(cache, n), code) \in Seq(Byte)
      /\ Len(Append(Plain(cache, n), code)) = n + 1
      /\ \A k \in 1..n + 1 :
             Append(Plain(cache, n), code)[k] = IF k <= n THEN Plain(cache, n)[k] ELSE code
  BY <1>1, <1>2, AppendProperties
<1>5. Plain(after, n + 1) = Append(Plain(cache, n), code)
  BY <1>2, <1>3, <1>4, SeqEqual
<1> QED
  BY <1>5 DEF after

(* A sequence put behind one code. *)
LEMMA Prefixed ==
    ASSUME NEW code \in Byte, NEW s \in Seq(Byte)
    PROVE  /\ <<code>> \o s \in Seq(Byte)
           /\ Len(<<code>> \o s) = Len(s) + 1
           /\ (<<code>> \o s)[1] = code
           /\ \A k \in 1..Len(s) : (<<code>> \o s)[k + 1] = s[k]
           /\ <<code>> \o s # <<>>
           /\ Head(<<code>> \o s) = code
           /\ Tail(<<code>> \o s) = s
<1>1. <<code>> \in Seq(Byte) /\ Len(<<code>>) = 1 /\ <<code>>[1] = code
  OBVIOUS
<1>2. Len(s) \in Nat
  BY LenProperties
<1> DEFINE t == <<code>> \o s
<1>3. /\ t \in Seq(Byte) /\ Len(t) = 1 + Len(s)
      /\ \A k \in 1..1 + Len(s) : t[k] = IF k <= 1 THEN <<code>>[k] ELSE s[k - 1]
  BY <1>1, ConcatProperties
<1>4. t[1] = code /\ \A k \in 1..Len(s) : t[k + 1] = s[k]
  BY <1>1, <1>2, <1>3
<1> HIDE DEF t
<1>5. t # <<>>
  BY <1>2, <1>3
<1>6. /\ Tail(t) \in Seq(Byte) /\ Len(Tail(t)) = Len(s)
      /\ \A k \in 1..Len(Tail(t)) : Tail(t)[k] = t[k + 1]
  BY <1>2, <1>3, <1>5, HeadTailProperties
<1>7. Tail(t) = s
  BY <1>4, <1>6, SeqEqual
<1>8. Head(t) = code
  BY <1>3, <1>4, <1>5
<1> QED
  BY <1>2, <1>3, <1>4, <1>5, <1>7, <1>8 DEF t

(* Once the first code is taken, the others are those one cell higher. *)
LEMMA TakenPlain ==
    ASSUME NEW cache \in Caches, NEW n \in 1..Cells - 1
    PROVE  Plain(cache, n) = <<cache[0]>> \o Moving(cache, n - 1, 0)
<1> DEFINE rest == Moving(cache, n - 1, 0)
<1>1. cache[0] \in Byte /\ n - 1 \in 0..Cells - 1 /\ n \in 0..Cells /\ 0 \in 0..Cells
  BY KeyboardAssumption DEF Caches
<1>2. rest \in Seq(Byte) /\ Len(rest) = n - 1
  BY <1>1, MovingIsSeq
<1>3. Plain(cache, n) \in Seq(Byte) /\ Len(Plain(cache, n)) = n
  BY <1>1, PlainIsSeq
<1>4. Plain(cache, n)[1] = cache[0]
  BY DEF Plain
<1>5. \A k \in 1..n - 1 : Plain(cache, n)[k + 1] = rest[k]
  BY DEF Plain, Moving
<1> HIDE DEF rest
<1>6. /\ <<cache[0]>> \o rest \in Seq(Byte) /\ Len(<<cache[0]>> \o rest) = n
      /\ (<<cache[0]>> \o rest)[1] = cache[0]
      /\ \A k \in 1..n - 1 : (<<cache[0]>> \o rest)[k + 1] = rest[k]
  BY <1>1, <1>2, Prefixed
<1>7. \A k \in 1..n : Plain(cache, n)[k] = (<<cache[0]>> \o rest)[k]
  <2> SUFFICES ASSUME NEW k \in 1..n PROVE Plain(cache, n)[k] = (<<cache[0]>> \o rest)[k]
    OBVIOUS
  <2>1. CASE k = 1
    BY <1>4, <1>6, <2>1
  <2>2. CASE k # 1
    <3>1. k - 1 \in 1..n - 1 /\ (k - 1) + 1 = k
      BY <2>2
    <3> QED
      BY <1>5, <1>6, <3>1
  <2> QED
    BY <2>1, <2>2
<1>8. Plain(cache, n) = <<cache[0]>> \o rest
  BY <1>3, <1>6, <1>7, SeqEqual
<1> QED
  BY <1>8 DEF rest

(* A round of the shift moves one code and none of the others: what it reads from
   behind the array never is one. *)
LEMMA ShiftedMoving ==
    ASSUME NEW cache \in Caches, NEW n \in 0..Cells - 1, NEW j \in 0..Cells - 1,
           NEW after, j + 1 < Cells => after[j] = cache[j + 1],
           \A k \in 0..Cells - 1 : k # j => after[k] = cache[k]
    PROVE  Moving(after, n, j + 1) = Moving(cache, n, j)
<1>1. \A k \in 1..n :
          after[IF k - 1 < j + 1 THEN k - 1 ELSE k] = cache[IF k - 1 < j THEN k - 1 ELSE k]
  <2> SUFFICES ASSUME NEW k \in 1..n
               PROVE  after[IF k - 1 < j + 1 THEN k - 1 ELSE k]
                          = cache[IF k - 1 < j THEN k - 1 ELSE k]
    OBVIOUS
  <2>1. CASE k - 1 < j
    BY <2>1, KeyboardAssumption DEF Caches
  <2>2. CASE k - 1 = j
    BY <2>2, KeyboardAssumption DEF Caches
  <2>3. CASE k - 1 > j
    BY <2>3, KeyboardAssumption DEF Caches
  <2> QED
    BY <2>1, <2>2, <2>3, KeyboardAssumption
<1> QED
  BY <1>1 DEF Moving

(* After the last round they lie at the beginning of the array. *)
LEMMA MovedIsPlain ==
    ASSUME NEW cache \in Caches, NEW n \in 0..Cells - 1
    PROVE  Moving(cache, n, Cells) = Plain(cache, n)
<1>1. \A k \in 1..n : k - 1 < Cells
  BY KeyboardAssumption
<1> QED
  BY <1>1 DEF Moving, Plain

-----------------------------------------------------------------------------
Deaf == port # {} /\ ~irq

(* The queue while the reader does not shift, and while it does. *)
LEMMA WaitingPlain == ASSUME pc # "shift" PROVE Waiting = Plain(keycache, key_loc)
  BY DEF Waiting, Plain

(* During the shift the code just taken stands in front of the rest. *)
LEMMA WaitingMoving ==
    ASSUME pc = "shift" PROVE Waiting = <<c>> \o Moving(keycache, key_loc, i)
  BY DEF Waiting, Moving

(* A reader that masks interrupts is promised the queue itself. *)
LEMMA PromisedWhenMasked == ASSUME masked PROVE promised = <<Waiting, delivered, Deaf>>
  BY Zenon DEF promised, Promised, Deaf

(* A reader that is interrupted is promised the empty queue that never changes. *)
LEMMA PromisedToNobody ==
    ASSUME ~masked, masked \in BOOLEAN PROVE promised = <<<<>>, <<>>, FALSE>>
  BY Zenon DEF promised, Promised

(* The shape of a step that the queue does not see. *)
LEMMA PromisedUnchanged ==
    ASSUME masked, masked', Waiting' = Waiting, delivered' = delivered, Deaf' = Deaf
    PROVE  UNCHANGED promised
<1>1. promised = <<Waiting, delivered, Deaf>>
  BY PromisedWhenMasked
<1>2. promised' = <<Waiting', delivered', Deaf'>>
  BY Zenon DEF promised, Promised, Deaf
<1> QED
  BY <1>1, <1>2, Zenon

(* The array starts as an empty queue. *)
LEMMA QueueInitially == Init => Queue!Init
<1> SUFFICES ASSUME Init PROVE Queue!Init
  OBVIOUS
<1>1. pc # "shift" /\ key_loc = 0 /\ delivered = <<>> /\ port = {} /\ irq = FALSE
  BY DEF Init
<1>2. masked \in BOOLEAN
  BY Zenon DEF Init
<1>3. Waiting = <<>>
  BY <1>1 DEF Waiting
<1>4. CASE masked
  <2>1. promised = <<Waiting, delivered, Deaf>> /\ Deaf = FALSE
    BY <1>1, <1>4, PromisedWhenMasked, Zenon DEF Deaf
  <2>2. promised[1] = <<>> /\ promised[2] = <<>> /\ promised[3] = FALSE
    BY <1>1, <1>3, <2>1
  <2> QED
    BY <2>2 DEF Queue!Init
<1>5. CASE ~masked
  <2>1. promised = <<<<>>, <<>>, FALSE>>
    BY <1>2, <1>5, PromisedToNobody
  <2>2. promised[1] = <<>> /\ promised[2] = <<>> /\ promised[3] = FALSE
    BY <2>1
  <2> QED
    BY <2>2 DEF Queue!Init
<1> QED
  BY <1>4, <1>5

(* Every step of the driver is a step of the queue or invisible to it. *)
LEMMA QueueStep == KeyboardInv /\ KeyboardInv' /\ [Next]_vars => [Queue!Next]_promised
<1> SUFFICES ASSUME KeyboardInv, KeyboardInv', [Next]_vars PROVE [Queue!Next]_promised
  OBVIOUS
<1> USE KeyboardAssumption DEF KeyboardInv, Byte
<1>0. masked' = masked /\ masked \in BOOLEAN
  <2>1. masked' = masked
    BY DEF Next, GetEvent, vars, Send, KeyboardIrq, Empty, NotEmpty, TakeFirst, LoadKeyLoc,
           StoreKeyLoc, Shift, Deliver, controller
  <2>2. masked \in BOOLEAN
    BY Zenon DEF KeyboardTypeOK
  <2> QED
    BY <2>1, <2>2
<1>1. CASE ~masked
  <2>1. promised = <<<<>>, <<>>, FALSE>>
    BY <1>0, <1>1, PromisedToNobody
  <2>2. promised' = <<<<>>, <<>>, FALSE>>
    BY <1>0, <1>1, Zenon DEF promised, Promised
  <2> QED
    BY <2>1, <2>2
<1>2. CASE masked
  <2> USE <1>2
  <2>0. /\ promised = <<Waiting, delivered, Deaf>>
        /\ promised' = <<Waiting', delivered', Deaf'>>
        /\ keycache \in Caches
    <3>1. promised = <<Waiting, delivered, Deaf>>
      BY PromisedWhenMasked
    <3>2. promised' = <<Waiting', delivered', Deaf'>>
      BY <1>0, Zenon DEF promised, Promised, Deaf
    <3> QED
      BY <3>1, <3>2 DEF KeyboardTypeOK, Caches
  <2>1. CASE Send
    <3>1. Waiting' = Waiting /\ delivered' = delivered
      BY <2>1 DEF Send, reader, Waiting
    <3>2. port = {} /\ irq' = TRUE
      BY <2>1 DEF Send
    <3>3. Deaf' = Deaf
      BY <3>2, Zenon DEF Deaf
    <3> QED
      BY <1>0, <3>1, <3>3, PromisedUnchanged
  <2>2. CASE KeyboardIrq
    <3>1. /\ irq /\ pc = "idle" /\ pc' = "idle" /\ irq' = FALSE
          /\ delivered' = delivered /\ i' = i /\ c' = c
      BY <2>2 DEF KeyboardIrq, reader
    <3>2. port # {} /\ Deaf = FALSE
      BY <3>1, Zenon DEF NothingSpurious, Deaf
    <3>3. /\ Waiting = Plain(keycache, key_loc) /\ Len(Waiting) = key_loc
          /\ Waiting' = Plain(keycache', key_loc')
      <4>1. Waiting = Plain(keycache, key_loc) /\ Waiting' = Plain(keycache', key_loc')
        BY <3>1 DEF Waiting, Plain
      <4>2. key_loc \in 0..Cells
        BY DEF KeyboardTypeOK
      <4> QED
        BY <2>0, <4>1, <4>2, PlainIsSeq
    <3>4. CASE key_loc >= Cells - 1
      <4>1. UNCHANGED <<keycache, key_loc, port>>
        BY <2>2, <3>4 DEF KeyboardIrq
      <4>2. Waiting' = Waiting /\ key_loc = Cells - 1
        BY <3>3, <3>4, <4>1 DEF KeyboardTypeOK
      <4>3. Deaf' = TRUE
        BY <3>1, <3>2, <4>1, Zenon DEF Deaf
      <4>4. /\ promised[1] = Waiting /\ promised'[1] = Waiting
            /\ promised[2] = delivered /\ promised'[2] = delivered
            /\ promised[3] = FALSE /\ promised'[3] = TRUE
        BY <2>0, <3>1, <3>2, <4>2, <4>3
      <4>5. Queue!Refuse
        BY <3>3, <4>2, <4>4 DEF Queue!Refuse
      <4> QED
        BY <4>5 DEF Queue!Next
    <3>5. CASE ~(key_loc >= Cells - 1)
      <4>1. PICK code \in Code :
               keycache' = [keycache EXCEPT ![key_loc] = code] /\ key_loc' = key_loc + 1 /\ port' = {}
        BY <2>2, <3>5 DEF KeyboardIrq, KeyboardTypeOK
      <4>2. key_loc \in 0..Cells - 2 /\ code \in Byte
        BY <3>5 DEF KeyboardTypeOK
      <4>3. Waiting' = Append(Waiting, code)
        BY <2>0, <3>3, <4>1, <4>2, AppendedPlain
      <4>4. Deaf' = FALSE
        BY <4>1, Zenon DEF Deaf
      <4>5. /\ promised[1] = Waiting /\ promised'[1] = Append(Waiting, code)
            /\ promised[2] = delivered /\ promised'[2] = delivered
            /\ promised[3] = FALSE /\ promised'[3] = FALSE
        BY <2>0, <3>1, <3>2, <4>3, <4>4
      <4>6. Len(promised[1]) < Cells - 1
        BY <3>3, <4>2, <4>5
      <4>7. Queue!Accept(code)
        BY <4>5, <4>6, Zenon DEF Queue!Accept
      <4> QED
        BY <4>7, Zenon DEF Queue!Next
    <3> QED
      BY <3>4, <3>5
  <2>3. CASE Empty \/ NotEmpty \/ TakeFirst \/ LoadKeyLoc \/ UNCHANGED vars
    <3>1. /\ UNCHANGED vars \/ (pc # "shift" /\ pc' # "shift")
          /\ UNCHANGED <<keycache, key_loc, delivered, port, irq>>
      BY <2>3 DEF Empty, NotEmpty, TakeFirst, LoadKeyLoc, controller, vars, reader
    <3>2. Waiting' = Waiting
      BY <3>1 DEF Waiting, vars, reader
    <3>3. Deaf' = Deaf
      BY <3>1, Zenon DEF Deaf
    <3> QED
      BY <1>0, <3>1, <3>2, <3>3, PromisedUnchanged
  <2>4. CASE StoreKeyLoc
    <3>1. /\ pc = "store" /\ pc' = "shift" /\ i' = 0 /\ key_loc' = loaded - 1
          /\ UNCHANGED <<keycache, c, delivered, port, irq>>
      BY <2>4 DEF StoreKeyLoc, controller
    <3>2. c = keycache[0] /\ loaded = key_loc /\ key_loc \in 1..Cells - 1
      BY <3>1 DEF ReaderAlone, ReaderInStep, KeyboardTypeOK
    <3>3. Waiting = <<keycache[0]>> \o Moving(keycache, key_loc - 1, 0)
      BY <2>0, <3>1, <3>2, WaitingPlain, TakenPlain
    <3>4. Waiting' = <<c'>> \o Moving(keycache', key_loc', i')
      BY <3>1 DEF Waiting, Moving
    <3>5. Waiting' = Waiting
      BY <3>1, <3>2, <3>3, <3>4
    <3>6. Deaf' = Deaf
      BY <3>1, Zenon DEF Deaf
    <3> QED
      BY <1>0, <3>1, <3>5, <3>6, PromisedUnchanged
  <2>5. CASE Shift
    <3>1. /\ pc = "shift" /\ pc' = "shift" /\ i < Cells /\ i' = i + 1
          /\ UNCHANGED <<key_loc, c, delivered, port, irq>>
      BY <2>5 DEF Shift, controller
    <3>2. PICK byte \in Behind :
             keycache' = [keycache EXCEPT ![i] = IF i + 1 < Cells THEN keycache[i + 1] ELSE byte]
      BY <2>5 DEF Shift
    <3>3. key_loc \in 0..Cells - 1 /\ i \in 0..Cells - 1
      BY <3>1 DEF KeyboardTypeOK
    <3>4. Moving(keycache', key_loc, i + 1) = Moving(keycache, key_loc, i)
      <4>0. keycache \in Caches
        BY <2>0, Zenon
      <4>2. \A k \in 0..Cells - 1 : k # i => keycache'[k] = keycache[k]
        BY <3>2, <4>0 DEF Caches
      <4>3. i + 1 < Cells => keycache'[i] = keycache[i + 1]
        BY <3>2, <3>3, <4>0 DEF Caches
      <4> QED
        BY <3>3, <4>0, <4>2, <4>3, ShiftedMoving
    <3>5. Waiting' = <<c'>> \o Moving(keycache', key_loc', i')
      BY <3>1 DEF Waiting, Moving
    <3>6. Waiting' = Waiting
      BY <3>1, <3>4, <3>5, WaitingMoving
    <3>7. Deaf' = Deaf
      BY <3>1, Zenon DEF Deaf
    <3> QED
      BY <1>0, <3>1, <3>6, <3>7, PromisedUnchanged
  <2>6. CASE Deliver
    <3>1. /\ pc = "shift" /\ pc' = "idle" /\ i = Cells /\ delivered' = Append(delivered, c)
          /\ UNCHANGED <<keycache, key_loc, c, port, irq>>
      BY <2>6 DEF Deliver, controller
    <3>2. key_loc \in 0..Cells - 1 /\ c \in Byte /\ Cells \in 0..Cells /\ key_loc \in 0..Cells
      BY DEF KeyboardTypeOK
    <3>3. Waiting = <<c>> \o Moving(keycache, key_loc, Cells)
      BY <3>1, WaitingMoving
    <3>4. Moving(keycache, key_loc, Cells) = Plain(keycache, key_loc)
      BY <2>0, <3>2, MovedIsPlain
    <3>5. Waiting = <<c>> \o Plain(keycache, key_loc) /\ Plain(keycache, key_loc) \in Seq(Byte)
      BY <2>0, <3>2, <3>3, <3>4, PlainIsSeq
    <3>6. Waiting' = Plain(keycache, key_loc)
      BY <3>1 DEF Waiting, Plain
    <3>7. Waiting # <<>> /\ Head(Waiting) = c /\ Tail(Waiting) = Waiting'
      BY <3>2, <3>5, <3>6, Prefixed
    <3>8. Deaf' = Deaf
      BY <3>1, Zenon DEF Deaf
    <3>9. /\ promised[1] = Waiting /\ promised'[1] = Waiting'
          /\ promised[2] = delivered /\ promised'[2] = delivered'
          /\ promised[3] = Deaf /\ promised'[3] = Deaf
      BY <2>0, <3>8
    <3>10. Queue!Deliver
      BY <3>1, <3>7, <3>9 DEF Queue!Deliver
    <3> QED
      BY <3>10 DEF Queue!Next
  <2> QED
    BY <2>1, <2>2, <2>3, <2>4, <2>5, <2>6 DEF Next, GetEvent
<1> QED
  BY <1>1, <1>2

(* A driver whose reader masks interrupts is the queue of KeyQueue: codes come out
   in the order they were sent, each once, and one is refused only when the array
   is full. *)
THEOREM KeyboardImplementsQueue == Spec => ImplementsQueue
<1>1. KeyboardInv /\ KeyboardInv' /\ [Next]_vars => [Queue!Next]_promised
  BY QueueStep
<1> QED
  BY <1>1, QueueInitially, KeyboardInvariant, PTL DEF Spec, ImplementsQueue
-----------------------------------------------------------------------------
(* The terminal: what its constants and its invariant are *)

Cell == Glyph \cup {"bs"}

Line == [0..Width - 1 -> Cell]

(* The screen: the cursor is on it, and whole lines scroll away. *)
DisplayOK ==
    /\ row \in 0..Height - 1 /\ col \in 0..Width - 1
    /\ screen \in [0..Height - 1 -> Line] /\ gone \in Seq(Line)

(* What is still to be read. *)
TextsOK == fmt \in Seq(Glyph \cup Control \cup Conversion) /\ str \in Seq(Glyph \cup Control)

(* Until it is printed, a message that resets the colours ends in "\033[0m", whatever
   of it has been read: the parser never runs past the escape character. *)
ResetPending ==
    last \in Resetting =>
        \/ EndsReset(fmt)
        \/ fmt = <<>> /\ str = <<>> /\ current_color = TtyColor(White, Black)

TerminalInv == DisplayOK /\ TextsOK /\ ResetPending

(* What the constants are. *)
LEMMA Screens == Width \in Nat \ {0} /\ Height \in Nat \ {0} /\ " " \in Glyph
BY TerminalAssumption, Zenon

(* Two digits of a number are read, if not more. *)
LEMMA DigitLimits == DigitLimit \in Nat /\ DigitLimit >= 2
<1>1. DigitLimit \in Nat \ {0, 1}
  BY TerminalAssumption, Zenon
<1> QED
  BY <1>1

(* What the parser calls the digits of a sequence. *)
LEMMA DigitsRead ==
    ASSUME NEW s
    PROVE  /\ Digits(s) \in 0..DigitLimit
           /\ \A k \in 3..Digits(s) + 2 : CharAt(s, k) \in Range(Digit)
           /\ \A n \in 0..DigitLimit :
                 (\A k \in 3..n + 2 : CharAt(s, k) \in Range(Digit)) => n <= Digits(s)
<1> DEFINE T == {n \in 0..DigitLimit : \A k \in 3..n + 2 : CharAt(s, k) \in Range(Digit)}
<1>1. DigitLimit \in Nat
  BY DigitLimits
<1>2. 0 \in T
  BY <1>1
<1>3. T \subseteq Nat /\ \A n \in T : n <= DigitLimit
  BY <1>1
<1>4. \E x \in T : \A y \in T : x >= y
  <2> HIDE DEF T
  <2> QED
    BY <1>1, <1>2, <1>3, GreatestExists
<1>5. Max(T) \in T /\ \A y \in T : Max(T) >= y
  <2> HIDE DEF T
  <2> QED
    BY <1>4, Zenon DEF Max
<1>6. Digits(s) = Max(T)
  BY DEF Digits
<1> HIDE DEF T
<1>7. Digits(s) \in T /\ \A y \in T : Digits(s) >= y
  BY <1>5, <1>6
<1> QED
  BY <1>1, <1>7 DEF T

(* The digits, and what they are not. *)
LEMMA DigitsAre ==
    /\ "0" \in Range(Digit)
    /\ \A d \in {"esc", "nul", "m", ";", "["} : d \notin Range(Digit)
<1>1. DOMAIN Digit = 1..10
  BY DEF Digit
<1>2. Digit[1] = "0" /\ Digit[2] = "1" /\ Digit[3] = "2" /\ Digit[4] = "3" /\ Digit[5] = "4"
      /\ Digit[6] = "5" /\ Digit[7] = "6" /\ Digit[8] = "7" /\ Digit[9] = "8" /\ Digit[10] = "9"
  BY DEF Digit
<1>3. ASSUME NEW k \in 1..10
      PROVE  Digit[k] \in {"0", "1", "2", "3", "4", "5", "6", "7", "8", "9"}
  <2>1. k = 1 \/ k = 2 \/ k = 3 \/ k = 4 \/ k = 5 \/ k = 6 \/ k = 7 \/ k = 8 \/ k = 9 \/ k = 10
    OBVIOUS
  <2> QED
    BY <1>2, <2>1
<1>4. 1 \in 1..10
  OBVIOUS
<1> QED
  BY <1>1, <1>2, <1>3, <1>4 DEF Range

(* Where the parser resumes: within the text or right behind it, and never past another
   escape character. *)
LEMMA Parsed ==
    ASSUME NEW S, NEW s \in Seq(S), s # <<>>
    PROVE  /\ StopsAt(s) \in 2..Len(s) + 1 /\ ResumesAt(s, FALSE) \in 2..Len(s) + 1
           /\ \A k \in 2..ResumesAt(s, FALSE) - 1 : s[k] # "esc"
<1>1. Len(s) \in Nat /\ Len(s) >= 1 /\ \A k \in 1..Len(s) : CharAt(s, k) = s[k]
  BY DEF CharAt
<1>2. ASSUME NEW k \in Nat, CharAt(s, k) # "nul" PROVE k <= Len(s)
  BY <1>1, <1>2 DEF CharAt
<1>3. PICK digits \in Nat : digits = Digits(s)
  <2>1. Digits(s) \in 0..DigitLimit
    BY DigitsRead, Zenon
  <2>2. DigitLimit \in Nat
    BY DigitLimits
  <2>3. Digits(s) \in Nat
    BY <2>1, <2>2
  <2> QED
    BY <2>3, Zenon
<1>4. ASSUME NEW k \in 3..digits + 2 PROVE CharAt(s, k) # "nul" /\ CharAt(s, k) # "esc"
  BY <1>3, DigitsRead, DigitsAre
<1> DEFINE Passed(n) == n \in 2..Len(s) + 1 /\ \A k \in 2..n - 1 : s[k] # "esc"
<1>5. Passed(2)
  BY <1>1
<1>6. ASSUME NEW n \in Nat, Passed(n), CharAt(s, n) # "nul", CharAt(s, n) # "esc"
      PROVE  Passed(n + 1)
  <2>1. n <= Len(s)
    BY <1>2, <1>6
  <2>2. s[n] # "esc"
    BY <1>1, <1>6, <2>1
  <2> QED
    BY <1>1, <1>6, <2>1, <2>2
<1>7. CharAt(s, 2) = "[" => Passed(digits + 3)
  <2> SUFFICES ASSUME CharAt(s, 2) = "[" PROVE Passed(digits + 3)
    OBVIOUS
  <2>1. digits + 2 <= Len(s)
    <3>1. CharAt(s, digits + 2) # "nul"
      <4>1. CASE digits = 0
        BY <4>1
      <4>2. CASE digits # 0
        BY <1>4, <4>2
      <4> QED
        BY <4>1, <4>2
    <3> QED
      BY <1>2, <3>1
  <2>2. ASSUME NEW k \in 2..digits + 2 PROVE s[k] # "esc"
    <3>1. CharAt(s, k) # "esc"
      BY <1>4
    <3> QED
      BY <1>1, <2>1, <3>1
  <2> QED
    BY <1>1, <2>1, <2>2
<1>8. Passed(StopsAt(s))
  <2>1. CASE CharAt(s, 2) # "["
    BY <1>5, <2>1 DEF StopsAt
  <2>2. CASE CharAt(s, 2) = "["
    <3>1. StopsAt(s) = IF digits = DigitLimit \/ CharAt(s, digits + 3) # ";" THEN digits + 3
                       ELSE IF CharAt(s, digits + 3 + 1) # "1" THEN digits + 3 + 1
                       ELSE digits + 3 + 2
      BY <1>3, <2>2 DEF StopsAt
    <3>2. CharAt(s, digits + 3) = ";" => Passed(digits + 3 + 1)
      <4>1. digits + 3 \in Nat
        OBVIOUS
      <4> HIDE DEF Passed
      <4> QED
        BY <1>6, <1>7, <2>2, <4>1
    <3>3. CharAt(s, digits + 3) = ";" /\ CharAt(s, digits + 3 + 1) = "1" => Passed(digits + 3 + 2)
      <4>1. digits + 3 + 1 \in Nat /\ digits + 3 + 2 = (digits + 3 + 1) + 1
        OBVIOUS
      <4> HIDE DEF Passed
      <4> QED
        BY <1>6, <3>2, <4>1
    <3> HIDE DEF Passed
    <3> QED
      BY <1>7, <2>2, <3>1, <3>2, <3>3
  <2> QED
    BY <2>1, <2>2
<1>9. Passed(ResumesAt(s, FALSE))
  <2>1. CASE Understood(s) /\ Digits(s) # DigitLimit
    <3>1. CharAt(s, StopsAt(s)) = "m"
      BY <2>1 DEF Understood
    <3>2. ResumesAt(s, FALSE) = StopsAt(s) + 1
      BY <2>1 DEF ResumesAt
    <3>3. StopsAt(s) \in Nat
      BY <1>1, <1>8
    <3> HIDE DEF Passed
    <3> QED
      BY <1>6, <1>8, <3>1, <3>2, <3>3
  <2>2. CASE ~(Understood(s) /\ Digits(s) # DigitLimit)
    <3>1. ResumesAt(s, FALSE) = StopsAt(s)
      BY <2>2 DEF ResumesAt
    <3> QED
      BY <1>8, <3>1
  <2> QED
    BY <2>1, <2>2
<1> QED
  BY <1>8, <1>9

(* A suffix of a text. *)
LEMMA SuffixIs ==
    ASSUME NEW S, NEW s \in Seq(S), NEW r \in 1..Len(s) + 1
    PROVE  /\ From(s, r) \in Seq(S) /\ Len(From(s, r)) = Len(s) - r + 1
           /\ \A k \in 1..Len(s) - r + 1 : From(s, r)[k] = s[r + k - 1]
  BY DEF From

(* A message that resets the colours still does so when its beginning has been read or
   replaced. *)
LEMMA ResetStays ==
    ASSUME NEW S, NEW s \in Seq(S), EndsReset(s)
    PROVE  /\ s # <<>>
           /\ Head(s) # "esc" => EndsReset(Tail(s)) /\ \A t \in Seq(S) : EndsReset(t \o Tail(s))
           /\ \A r \in 1..Len(s) - 3 : EndsReset(From(s, r))
<1>1. Len(s) \in Nat /\ Len(s) >= 4 /\ \A k \in 1..4 : s[Len(s) - 4 + k] = Reset[k]
  BY DEF EndsReset
<1>2. s # <<>>
  BY <1>1
<1>3. ASSUME NEW r \in 1..Len(s) - 3 PROVE EndsReset(From(s, r))
  <2>1. /\ Len(From(s, r)) = Len(s) - r + 1
        /\ \A k \in 1..Len(s) - r + 1 : From(s, r)[k] = s[r + k - 1]
    BY <1>1, SuffixIs
  <2>2. ASSUME NEW k \in 1..4 PROVE From(s, r)[Len(From(s, r)) - 4 + k] = Reset[k]
    <3>1. Len(From(s, r)) - 4 + k \in 1..Len(s) - r + 1
          /\ r + (Len(From(s, r)) - 4 + k) - 1 = Len(s) - 4 + k
      BY <1>1, <2>1
    <3> QED
      BY <1>1, <2>1, <3>1
  <2> QED
    BY <1>1, <2>1, <2>2 DEF EndsReset
<1>4. ASSUME Head(s) # "esc"
      PROVE  EndsReset(Tail(s)) /\ \A t \in Seq(S) : EndsReset(t \o Tail(s))
  <2>1. Len(s) # 4
    <3>1. Reset[1] = "esc"
      BY DEF Reset
    <3>2. Len(s) = 4 => s[1] = "esc"
      BY <1>1, <3>1
    <3> QED
      BY <1>2, <1>4, <3>2
  <2>2. PICK tail \in Seq(S) : tail = Tail(s) /\ Len(tail) = Len(s) - 1
                               /\ \A k \in 1..Len(s) - 1 : tail[k] = s[k + 1]
    <3>1. Tail(s) \in Seq(S) /\ Len(Tail(s)) = Len(s) - 1 /\ \A k \in 1..Len(s) - 1 : Tail(s)[k] = s[k + 1]
      BY <1>2
    <3> QED
      BY <3>1, Zenon
  <2>3. ASSUME NEW k \in 1..4 PROVE tail[Len(tail) - 4 + k] = Reset[k]
    <3>1. Len(tail) - 4 + k \in 1..Len(s) - 1 /\ (Len(tail) - 4 + k) + 1 = Len(s) - 4 + k
      BY <1>1, <2>1, <2>2
    <3> QED
      BY <1>1, <2>2, <3>1
  <2>4. EndsReset(tail)
    BY <1>1, <2>1, <2>2, <2>3 DEF EndsReset
  <2>5. ASSUME NEW t \in Seq(S) PROVE EndsReset(t \o tail)
    <3>1. Len(t \o tail) = Len(t) + Len(tail) /\ Len(t) \in Nat /\ Len(tail) >= 4 /\ Len(tail) \in Nat
          /\ \A k \in 1..Len(tail) : (t \o tail)[Len(t) + k] = tail[k]
      <4>1. Len(tail) >= 4 /\ Len(tail) \in Nat
        BY <1>1, <2>1, <2>2
      <4>2. Len(t \o tail) = Len(t) + Len(tail) /\ Len(t) \in Nat
            /\ \A k \in 1..Len(tail) : (t \o tail)[Len(t) + k] = tail[k]
        BY <4>1
      <4> QED
        BY <4>1, <4>2
    <3>2. ASSUME NEW k \in 1..4 PROVE (t \o tail)[Len(t \o tail) - 4 + k] = Reset[k]
      <4>1. Len(tail) - 4 + k \in 1..Len(tail) /\ Len(t) + (Len(tail) - 4 + k) = Len(t \o tail) - 4 + k
        BY <3>1
      <4> QED
        BY <2>3, <3>1, <4>1
    <3>3. Len(t \o tail) >= 4
      BY <3>1
    <3> QED
      BY <3>2, <3>3, Zenon DEF EndsReset
  <2> QED
    BY <2>2, <2>4, <2>5
<1> QED
  BY <1>2, <1>3, <1>4

(* "\033[0m" by itself is read to its end, and its code is 0. *)
LEMMA ResetIsRead ==
    ASSUME NEW S, NEW s \in Seq(S), EndsReset(s), Len(s) = 4
    PROVE  Understood(s) /\ ResumesAt(s, FALSE) = 5 /\ EscapeCode(s) = 0
<1>1. s[1] = "esc" /\ s[2] = "[" /\ s[3] = "0" /\ s[4] = "m"
  <2>1. Reset[1] = "esc" /\ Reset[2] = "[" /\ Reset[3] = "0" /\ Reset[4] = "m"
    BY DEF Reset
  <2>2. \A k \in 1..4 : s[4 - 4 + k] = Reset[k]
    BY DEF EndsReset
  <2>3. s[4 - 4 + 1] = Reset[1] /\ s[4 - 4 + 2] = Reset[2] /\ s[4 - 4 + 3] = Reset[3] /\ s[4 - 4 + 4] = Reset[4]
    BY <2>2
  <2> QED
    BY <2>1, <2>3
<1>2. CharAt(s, 2) = "[" /\ CharAt(s, 3) = "0" /\ CharAt(s, 4) = "m"
  <2>1. 2 <= Len(s) /\ 3 <= Len(s) /\ 4 <= Len(s)
    OBVIOUS
  <2> QED
    BY <1>1, <2>1, Zenon DEF CharAt
<1>3. DigitLimit \in Nat /\ DigitLimit >= 2
  BY DigitLimits
<1>4. Digits(s) = 1
  <2>1. \A k \in 3..1 + 2 : CharAt(s, k) \in Range(Digit)
    <3>1. \A k \in 3..1 + 2 : k = 3
      OBVIOUS
    <3>2. CharAt(s, 3) \in Range(Digit)
      BY <1>2, DigitsAre, Zenon
    <3> QED
      BY <3>1, <3>2, Zenon
  <2>2. 1 <= Digits(s) /\ Digits(s) \in Nat
    BY <1>3, <2>1, DigitsRead
  <2>3. ~(Digits(s) >= 2)
    <3>1. CharAt(s, 4) \notin Range(Digit)
      BY <1>2, DigitsAre
    <3>2. \A k \in 3..Digits(s) + 2 : CharAt(s, k) \in Range(Digit)
      BY DigitsRead
    <3> QED
      BY <2>2, <3>1, <3>2
  <2> QED
    BY <2>2, <2>3
<1>5. StopsAt(s) = 4
  <2>1. Digits(s) + 3 = 4 /\ Digits(s) # DigitLimit
    BY <1>3, <1>4
  <2>2. CharAt(s, Digits(s) + 3) # ";"
    BY <1>2, <2>1
  <2>3. StopsAt(s) = Digits(s) + 3
    BY <1>2, <2>1, <2>2, Zenon DEF StopsAt
  <2> QED
    BY <2>1, <2>3
<1>6. Understood(s)
  BY <1>2, <1>4, <1>5 DEF Understood
<1>7. ResumesAt(s, FALSE) = 5
  BY <1>3, <1>4, <1>5, <1>6 DEF ResumesAt
<1>8. EscapeCode(s) = 0
  <2> DEFINE digit(n) == CHOOSE v \in 0..9 : Digit[v + 1] = s[n + 2]
             Step(code) == [n \in 0..1 |-> IF n = 0 THEN 0 ELSE (10 * code[n - 1] + digit(n)) % 256]
             zero == [n \in 0..1 |-> 0]
  <2>1. digit(1) = 0
    <3>1. Digit[1] = "0" /\ \A v \in 1..9 : Digit[v + 1] # "0"
      <4>1. Digit[2] # "0" /\ Digit[3] # "0" /\ Digit[4] # "0" /\ Digit[5] # "0" /\ Digit[6] # "0"
            /\ Digit[7] # "0" /\ Digit[8] # "0" /\ Digit[9] # "0" /\ Digit[10] # "0" /\ Digit[1] = "0"
        BY DEF Digit
      <4>2. \A v \in 1..9 : v = 1 \/ v = 2 \/ v = 3 \/ v = 4 \/ v = 5 \/ v = 6 \/ v = 7 \/ v = 8 \/ v = 9
        OBVIOUS
      <4> QED
        BY <4>1, <4>2
    <3>2. \A v \in 0..9 : Digit[v + 1] = "0" <=> v = 0
      BY <3>1
    <3>3. s[1 + 2] = "0"
      BY <1>1
    <3>4. digit(1) = CHOOSE v \in 0..9 : Digit[v + 1] = "0"
      BY <3>3
    <3> QED
      BY <3>2, <3>4
  <2> HIDE DEF digit
  <2>2. zero = Step(zero)
    BY <2>1
  <2>3. ASSUME NEW code, code = Step(code) PROVE code[1] = 0
    <3>1. code[1] = (10 * code[0] + digit(1)) % 256
      BY <2>3
    <3>2. code[0] = 0
      BY <2>3
    <3> QED
      BY <2>1, <3>1, <3>2
  <2>4. EscapeCode(s) = (CHOOSE code : code = Step(code))[1]
    BY <1>4 DEF EscapeCode, digit
  <2> HIDE DEF Step, zero
  <2> QED
    BY <2>2, <2>3, <2>4
<1> QED
  BY <1>6, <1>7, <1>8
-----------------------------------------------------------------------------
(* The page that the screen shows the end of *)

(* The lines that have scrolled away and those of the screen. *)
Lines(scrolled, cells) == scrolled \o [y \in 1..Height |-> cells[y - 1]]

(* What has scrolled away is followed by what is on the screen. *)
LEMMA LinesAre ==
    ASSUME NEW scrolled \in Seq(Line), NEW cells \in [0..Height - 1 -> Line]
    PROVE  /\ Lines(scrolled, cells) \in Seq(Line)
           /\ Len(Lines(scrolled, cells)) = Len(scrolled) + Height
           /\ \A y \in 1..Len(scrolled) : Lines(scrolled, cells)[y] = scrolled[y]
           /\ \A y \in 0..Height - 1 : Lines(scrolled, cells)[Len(scrolled) + y + 1] = cells[y]
<1>1. Height \in Nat \ {0}
  BY Screens, Zenon
<1>2. PICK shown : shown = [y \in 1..Height |-> cells[y - 1]]
  BY Zenon
<1>3. shown \in Seq(Line) /\ Len(shown) = Height /\ \A y \in 0..Height - 1 : shown[y + 1] = cells[y]
  <2>1. \A y \in 1..Height : y - 1 \in 0..Height - 1
    BY <1>1
  <2>2. shown \in [1..Height -> Line]
    BY <1>2, <2>1
  <2>3. shown \in Seq(Line) /\ Len(shown) = Height
    BY <1>1, <2>2
  <2> QED
    BY <1>1, <1>2, <2>3
<1>4. /\ scrolled \o shown \in Seq(Line)
      /\ Len(scrolled \o shown) = Len(scrolled) + Height
      /\ \A y \in 1..Len(scrolled) : (scrolled \o shown)[y] = scrolled[y]
      /\ \A y \in 0..Height - 1 : (scrolled \o shown)[Len(scrolled) + y + 1] = shown[y + 1]
  <2>1. /\ scrolled \o shown \in Seq(Line) /\ Len(scrolled \o shown) = Len(scrolled) + Len(shown)
        /\ \A k \in 1..Len(scrolled) + Len(shown) :
              (scrolled \o shown)[k] = IF k <= Len(scrolled) THEN scrolled[k] ELSE shown[k - Len(scrolled)]
    BY <1>3, ConcatProperties
  <2>2. Len(scrolled) \in Nat
    OBVIOUS
  <2> QED
    BY <1>1, <1>3, <2>1, <2>2
<1> QED
  BY <1>2, <1>3, <1>4 DEF Lines

(* The page is known by its lines. *)
LEMMA LinesKnown ==
    ASSUME NEW scrolled \in Seq(Line), NEW cells \in [0..Height - 1 -> Line], NEW paper \in Seq(Line),
           Len(paper) = Len(scrolled) + Height,
           \A y \in 1..Len(scrolled) : paper[y] = scrolled[y],
           \A y \in 0..Height - 1 : paper[Len(scrolled) + y + 1] = cells[y]
    PROVE  paper = Lines(scrolled, cells)
<1>1. Height \in Nat \ {0} /\ Len(scrolled) \in Nat
  <2>1. Height \in Nat \ {0}
    BY Screens, Zenon
  <2>2. Len(scrolled) \in Nat
    OBVIOUS
  <2> QED
    BY <2>1, <2>2
<1>2. PICK other \in Seq(Line) : other = Lines(scrolled, cells)
  BY LinesAre, Zenon
<1>3. Len(other) = Len(paper)
  BY <1>2, LinesAre
<1>4. ASSUME NEW k \in 1..Len(paper) PROVE other[k] = paper[k]
  <2>1. CASE k <= Len(scrolled)
    <3>1. k \in 1..Len(scrolled)
      BY <1>1, <2>1
    <3> QED
      BY <1>2, <3>1, LinesAre
  <2>2. CASE k > Len(scrolled)
    <3>1. PICK y \in 0..Height - 1 : k = Len(scrolled) + y + 1
      <4>1. k - Len(scrolled) - 1 \in 0..Height - 1 /\ k = Len(scrolled) + (k - Len(scrolled) - 1) + 1
        BY <1>1, <2>2
      <4> QED
        BY <4>1, Zenon
    <3> QED
      BY <1>2, <3>1, LinesAre
  <2> QED
    BY <1>1, <2>1, <2>2
<1> QED
  BY <1>2, <1>3, <1>4, SeqEqual

(* The screen with one cell redrawn. *)
OneCell(cells, y, x, g, redrawn) ==
    /\ redrawn \in [0..Height - 1 -> Line]
    /\ \A k \in 0..Height - 1 : k # y => redrawn[k] = cells[k]
    /\ \A z \in 0..Width - 1 : redrawn[y][z] = IF z = x THEN g ELSE cells[y][z]

(* A cell that is redrawn on the screen is redrawn on the page. *)
LEMMA CellRedrawn ==
    ASSUME NEW scrolled \in Seq(Line), NEW cells \in [0..Height - 1 -> Line],
           NEW y \in 0..Height - 1, NEW x \in 0..Width - 1, NEW g \in Cell,
           NEW redrawn, OneCell(cells, y, x, g, redrawn)
    PROVE  [Lines(scrolled, cells) EXCEPT ![Len(scrolled) + y + 1][x] = g] = Lines(scrolled, redrawn)
<1>1. Height \in Nat \ {0} /\ Len(scrolled) \in Nat
  <2>1. Height \in Nat \ {0}
    BY Screens, Zenon
  <2>2. Len(scrolled) \in Nat
    OBVIOUS
  <2> QED
    BY <2>1, <2>2
<1>2. cells[y] \in Line
  OBVIOUS
<1> redrawn \in [0..Height - 1 -> Line]
  BY DEF OneCell
<1>3. PICK line \in Line : line = redrawn[y]
  <2>1. redrawn[y] \in Line
    OBVIOUS
  <2> QED
    BY <2>1, Zenon
<1>4. line = [cells[y] EXCEPT ![x] = g]
  BY <1>2, <1>3 DEF Line, OneCell
<1>5. PICK paper \in Seq(Line) : paper = Lines(scrolled, cells)
  BY LinesAre, Zenon
<1>6. Len(paper) = Len(scrolled) + Height /\ paper[Len(scrolled) + y + 1] = cells[y]
  BY <1>5, LinesAre
<1>7. PICK n \in 1..Len(paper) : n = Len(scrolled) + y + 1
  BY <1>1, <1>6
<1>8. [paper EXCEPT ![n][x] = g] = [paper EXCEPT ![n] = line]
  BY <1>4, <1>6, <1>7
<1>9. PICK after \in Seq(Line) : after = [paper EXCEPT ![n] = line] /\ Len(after) = Len(paper)
                                 /\ \A k \in 1..Len(paper) : after[k] = IF k = n THEN line ELSE paper[k]
  <2>1. /\ [paper EXCEPT ![n] = line] \in Seq(Line)
        /\ Len([paper EXCEPT ![n] = line]) = Len(paper)
        /\ \A k \in 1..Len(paper) : [paper EXCEPT ![n] = line][k] = IF k = n THEN line ELSE paper[k]
    BY ExceptSeq
  <2> QED
    BY <2>1, Zenon
<1>10. after = Lines(scrolled, redrawn)
  <2>1. \A k \in 1..Len(scrolled) : after[k] = scrolled[k]
    <3> SUFFICES ASSUME NEW k \in 1..Len(scrolled) PROVE after[k] = scrolled[k]
      OBVIOUS
    <3>1. k \in 1..Len(paper) /\ k # n
      BY <1>1, <1>6, <1>7
    <3>2. paper[k] = scrolled[k]
      BY <1>5, LinesAre
    <3> QED
      BY <1>9, <3>1, <3>2
  <2>2. ASSUME NEW k \in 0..Height - 1 PROVE after[Len(scrolled) + k + 1] = redrawn[k]
    <3>1. Len(scrolled) + k + 1 \in 1..Len(paper) /\ (Len(scrolled) + k + 1 = n <=> k = y)
      BY <1>1, <1>6, <1>7
    <3>2. paper[Len(scrolled) + k + 1] = cells[k]
      BY <1>5, LinesAre
    <3>3. redrawn[k] = IF k = y THEN line ELSE cells[k]
      BY <1>3 DEF OneCell
    <3> QED
      BY <1>9, <3>1, <3>2, <3>3
  <2>3. Len(after) = Len(scrolled) + Height
    BY <1>6, <1>9
  <2> QED
    BY <2>1, <2>2, <2>3, LinesKnown
<1> QED
  BY <1>5, <1>7, <1>8, <1>9, <1>10

(* The screen scrolls where the page grows. *)
LEMMA PageGrows ==
    ASSUME NEW scrolled \in Seq(Line), NEW cells \in [0..Height - 1 -> Line]
    PROVE  /\ Scrolled(cells) \in [0..Height - 1 -> Line]
           /\ Append(scrolled, cells[0]) \in Seq(Line)
           /\ Len(Append(scrolled, cells[0])) = Len(scrolled) + 1
           /\ Append(Lines(scrolled, cells), BlankLine) = Lines(Append(scrolled, cells[0]), Scrolled(cells))
<1>1. Height \in Nat \ {0} /\ Len(scrolled) \in Nat
  <2>1. Height \in Nat \ {0}
    BY Screens, Zenon
  <2>2. Len(scrolled) \in Nat
    OBVIOUS
  <2> QED
    BY <2>1, <2>2
<1>2. PICK blank \in Line : blank = BlankLine
  <2>1. BlankLine \in Line
    BY Screens DEF BlankLine, Line, Cell
  <2> QED
    BY <2>1, Zenon
<1>3. PICK first \in Line : first = cells[0]
  BY <1>1
<1>4. PICK next \in [0..Height - 1 -> Line] :
         next = Scrolled(cells) /\ \A y \in 0..Height - 1 : next[y] = IF y < Height - 1 THEN cells[y + 1] ELSE blank
  <2>1. \A y \in 0..Height - 1 : y < Height - 1 => y + 1 \in 0..Height - 1
    BY <1>1
  <2>2. Scrolled(cells) \in [0..Height - 1 -> Line]
        /\ \A y \in 0..Height - 1 : Scrolled(cells)[y] = IF y < Height - 1 THEN cells[y + 1] ELSE blank
    BY <1>2, <2>1 DEF Scrolled
  <2> QED
    BY <2>2, Zenon
<1>5. PICK longer \in Seq(Line) : longer = Append(scrolled, first) /\ Len(longer) = Len(scrolled) + 1
                                  /\ longer[Len(scrolled) + 1] = first
                                  /\ \A k \in 1..Len(scrolled) : longer[k] = scrolled[k]
  <2>1. /\ Append(scrolled, first) \in Seq(Line) /\ Len(Append(scrolled, first)) = Len(scrolled) + 1
        /\ Append(scrolled, first)[Len(scrolled) + 1] = first
        /\ \A k \in 1..Len(scrolled) : Append(scrolled, first)[k] = scrolled[k]
    BY AppendProperties
  <2> QED
    BY <2>1, Zenon
<1>6. PICK paper \in Seq(Line) : paper = Lines(scrolled, cells)
  BY LinesAre, Zenon
<1>7. Len(paper) = Len(scrolled) + Height
  BY <1>6, LinesAre
<1>8. PICK grown \in Seq(Line) : grown = Append(paper, blank) /\ Len(grown) = Len(paper) + 1
                                 /\ grown[Len(paper) + 1] = blank
                                 /\ \A k \in 1..Len(paper) : grown[k] = paper[k]
  <2>1. /\ Append(paper, blank) \in Seq(Line) /\ Len(Append(paper, blank)) = Len(paper) + 1
        /\ Append(paper, blank)[Len(paper) + 1] = blank
        /\ \A k \in 1..Len(paper) : Append(paper, blank)[k] = paper[k]
    BY AppendProperties
  <2> QED
    BY <2>1, Zenon
<1>9. \A k \in 1..Len(longer) : grown[k] = longer[k]
  <2> SUFFICES ASSUME NEW k \in 1..Len(longer) PROVE grown[k] = longer[k]
    OBVIOUS
  <2>1. k \in 1..Len(paper) /\ grown[k] = paper[k]
    BY <1>1, <1>5, <1>7, <1>8
  <2>2. CASE k <= Len(scrolled)
    <3>1. k \in 1..Len(scrolled)
      BY <1>1, <2>2
    <3>2. paper[k] = scrolled[k] /\ longer[k] = scrolled[k]
      BY <1>5, <1>6, <3>1, LinesAre
    <3> QED
      BY <2>1, <3>2
  <2>3. CASE k > Len(scrolled)
    <3>1. k = Len(scrolled) + 0 + 1 /\ 0 \in 0..Height - 1 /\ k = Len(scrolled) + 1
      BY <1>1, <1>5, <2>3
    <3>2. paper[Len(scrolled) + 0 + 1] = cells[0]
      BY <1>6, <3>1, LinesAre
    <3> QED
      BY <1>3, <1>5, <2>1, <3>1, <3>2
  <2> QED
    BY <1>1, <2>2, <2>3
<1>10. ASSUME NEW y \in 0..Height - 1 PROVE grown[Len(longer) + y + 1] = next[y]
  <2>1. CASE y = Height - 1
    <3>1. Len(longer) + y + 1 = Len(paper) + 1
      BY <1>1, <1>5, <1>7, <2>1
    <3>2. next[y] = blank
      BY <1>1, <1>4, <2>1
    <3> QED
      BY <1>8, <3>1, <3>2
  <2>2. CASE y # Height - 1
    <3>1. /\ y + 1 \in 0..Height - 1 /\ next[y] = cells[y + 1]
          /\ Len(longer) + y + 1 = Len(scrolled) + (y + 1) + 1 /\ Len(longer) + y + 1 \in 1..Len(paper)
      BY <1>1, <1>4, <1>5, <1>7, <2>2
    <3>2. paper[Len(scrolled) + (y + 1) + 1] = cells[y + 1]
      BY <1>6, <3>1, LinesAre
    <3> QED
      BY <1>8, <3>1, <3>2
  <2> QED
    BY <2>1, <2>2
<1>11. grown = Lines(longer, next)
  <2>1. Len(grown) = Len(longer) + Height
    BY <1>1, <1>5, <1>7, <1>8
  <2> QED
    BY <1>9, <1>10, <2>1, LinesKnown
<1> QED
  BY <1>2, <1>3, <1>4, <1>5, <1>6, <1>8, <1>11
(* The page's own terms, in those of the screen. *)
At == Len(gone) + row + 1

(* The next line, with the screen scrolled or not. *)
LEMMA GoesDown ==
    ASSUME DisplayOK, NEW cells \in [0..Height - 1 -> Line], col' = 0,
           IF row + 1 < Height
           THEN row' = row + 1 /\ screen' = cells /\ gone' = gone
           ELSE row' = row /\ screen' = Scrolled(cells) /\ gone' = Append(gone, cells[0])
    PROVE  /\ DisplayOK' /\ At' = At + 1
           /\ Lines(gone', screen') = IF At = Len(Lines(gone, screen)) THEN Append(Lines(gone, cells), BlankLine)
                                      ELSE Lines(gone, cells)
<1>1. /\ Height \in Nat \ {0} /\ Width \in Nat \ {0} /\ gone \in Seq(Line) /\ Len(gone) \in Nat
      /\ row \in 0..Height - 1 /\ screen \in [0..Height - 1 -> Line]
  <2>1. Height \in Nat \ {0} /\ Width \in Nat \ {0}
    BY Screens, Zenon
  <2> QED
    BY <2>1 DEF DisplayOK
<1>2. Len(Lines(gone, screen)) = Len(gone) + Height
  BY <1>1, LinesAre
<1>3. 0 \in 0..Width - 1
  BY <1>1
<1>4. CASE row + 1 < Height
  <2>1. row' = row + 1 /\ screen' = cells /\ gone' = gone
    BY <1>4
  <2>2. DisplayOK'
    BY <1>1, <1>3, <1>4, <2>1 DEF DisplayOK
  <2>3. At' = At + 1 /\ At # Len(Lines(gone, screen))
    BY <1>1, <1>2, <1>4, <2>1 DEF At
  <2>4. Lines(gone', screen') = Lines(gone, cells)
    BY <2>1, Zenon
  <2> QED
    BY <2>2, <2>3, <2>4, Zenon
<1>5. CASE ~(row + 1 < Height)
  <2>1. row' = row /\ screen' = Scrolled(cells) /\ gone' = Append(gone, cells[0])
    BY <1>5, Zenon
  <2>2. /\ Scrolled(cells) \in [0..Height - 1 -> Line]
        /\ Append(gone, cells[0]) \in Seq(Line) /\ Len(Append(gone, cells[0])) = Len(gone) + 1
        /\ Append(Lines(gone, cells), BlankLine) = Lines(Append(gone, cells[0]), Scrolled(cells))
    BY <1>1, PageGrows
  <2>3. DisplayOK'
    BY <1>1, <1>3, <2>1, <2>2 DEF DisplayOK
  <2>4. Len(gone') = Len(gone) + 1 /\ row' = row
    BY <2>1, <2>2, Zenon
  <2>5. At' = At + 1 /\ At = Len(Lines(gone, screen))
    <3>1. At' = Len(gone) + 1 + row + 1 /\ At = Len(gone) + row + 1
      BY <2>4, Zenon DEF At
    <3>2. row = Height - 1
      BY <1>1, <1>5
    <3> QED
      BY <1>1, <1>2, <3>1, <3>2
  <2>6. Lines(gone', screen') = Append(Lines(gone, cells), BlankLine)
    BY <2>1, <2>2, Zenon
  <2> QED
    BY <2>3, <2>5, <2>6, Zenon
<1> QED
  BY <1>4, <1>5

(* A character is typed on the page. *)
LEMMA CharPut ==
    ASSUME DisplayOK, NEW g \in Glyph, KputChar(g)
    PROVE  DisplayOK' /\ Shown!Type(g)
<1>1. /\ Width \in Nat \ {0} /\ gone \in Seq(Line) /\ row \in 0..Height - 1 /\ col \in 0..Width - 1
      /\ screen \in [0..Height - 1 -> Line] /\ g \in Cell
  <2>1. Width \in Nat \ {0}
    BY Screens, Zenon
  <2> QED
    BY <2>1 DEF DisplayOK, Cell
<1>2. PICK cells :
         cells = [screen EXCEPT ![row] = [x \in 0..Width - 1 |-> IF x = col THEN g ELSE screen[row][x]]]
  BY Zenon
<1>3. cells \in [0..Height - 1 -> Line] /\ OneCell(screen, row, col, g, cells)
  <2>1. [x \in 0..Width - 1 |-> IF x = col THEN g ELSE screen[row][x]] \in Line
    BY <1>1 DEF Line
  <2> QED
    BY <1>1, <1>2, <2>1 DEF OneCell
<1>4. [Lines(gone, screen) EXCEPT ![At][col] = g] = Lines(gone, cells)
  BY <1>1, <1>3, CellRedrawn DEF At
<1>5. IF col + 1 >= Width
      THEN /\ col' = 0
           /\ IF row + 1 < Height THEN row' = row + 1 /\ screen' = cells /\ gone' = gone
              ELSE row' = row /\ screen' = Scrolled(cells) /\ gone' = Append(gone, cells[0])
      ELSE screen' = cells /\ col' = col + 1 /\ row' = row /\ gone' = gone
  BY <1>2, Zenon DEF KputChar, Down
<1>6. CASE col + 1 >= Width
  <2>1. /\ col' = 0
        /\ IF row + 1 < Height THEN row' = row + 1 /\ screen' = cells /\ gone' = gone
           ELSE row' = row /\ screen' = Scrolled(cells) /\ gone' = Append(gone, cells[0])
    BY <1>5, <1>6, Zenon
  <2>2. /\ DisplayOK' /\ At' = At + 1
        /\ Lines(gone', screen') = IF At = Len(Lines(gone, screen)) THEN Append(Lines(gone, cells), BlankLine)
                                   ELSE Lines(gone, cells)
    BY <1>3, <2>1, GoesDown
  <2>3. col = Width - 1
    BY <1>1, <1>6
  <2>4. Shown!Type(g)
    BY <1>4, <2>1, <2>2, <2>3, Zenon DEF Shown!Type, Shown!Down, Shown!BlankLine, BlankLine, Lines, At
  <2> QED
    BY <2>2, <2>4
<1>7. CASE ~(col + 1 >= Width)
  <2>1. screen' = cells /\ col' = col + 1 /\ row' = row /\ gone' = gone
    BY <1>5, <1>7, Zenon
  <2>2. col # Width - 1 /\ col' \in 0..Width - 1
    BY <1>1, <1>7, <2>1
  <2>3. DisplayOK'
    BY <1>1, <1>3, <2>1, <2>2 DEF DisplayOK
  <2>4. Lines(gone', screen') = [Lines(gone, screen) EXCEPT ![At][col] = g]
    BY <1>4, <2>1, Zenon
  <2>5. Shown!Type(g)
    BY <2>1, <2>2, <2>4, Zenon DEF Shown!Type, Lines, At
  <2> QED
    BY <2>3, <2>5
<1> QED
  BY <1>6, <1>7

(* "\n" returns on the page. *)
LEMMA LineEnded ==
    ASSUME DisplayOK, NewLine
    PROVE  DisplayOK' /\ Shown!Return
<1>1. PICK cells \in [0..Height - 1 -> Line] : cells = screen
  BY Zenon DEF DisplayOK
<1>2. /\ col' = 0
      /\ IF row + 1 < Height THEN row' = row + 1 /\ screen' = cells /\ gone' = gone
         ELSE row' = row /\ screen' = Scrolled(cells) /\ gone' = Append(gone, cells[0])
  BY <1>1, Zenon DEF NewLine, Down
<1>3. /\ DisplayOK' /\ At' = At + 1
      /\ Lines(gone', screen') = IF At = Len(Lines(gone, screen)) THEN Append(Lines(gone, cells), BlankLine)
                                 ELSE Lines(gone, cells)
  BY <1>2, GoesDown
<1> QED
  BY <1>1, <1>2, <1>3, Zenon DEF Shown!Return, Shown!Down, Shown!BlankLine, BlankLine, Lines, At

(* Where "\b" goes back to, on the screen and on the page. *)
LEMMA GoesBack ==
    ASSUME DisplayOK, ~AtHome
    PROVE  /\ Before.y \in 0..Height - 1 /\ Before.x \in 0..Width - 1
           /\ ~Shown!AtHome
           /\ Shown!Before.y = Len(gone) + Before.y + 1 /\ Shown!Before.x = Before.x
<1>1. /\ Height \in Nat \ {0} /\ Width \in Nat \ {0} /\ gone \in Seq(Line) /\ Len(gone) \in Nat
      /\ row \in 0..Height - 1 /\ col \in 0..Width - 1 /\ screen \in [0..Height - 1 -> Line]
  <2>1. Height \in Nat \ {0} /\ Width \in Nat \ {0}
    BY Screens, Zenon
  <2> QED
    BY <2>1 DEF DisplayOK
<1>2. Len(Lines(gone, screen)) = Len(gone) + Height
  BY <1>1, LinesAre
<1>3. Shown!AtHome <=> col = 0 /\ At = Len(Lines(gone, screen)) - Height + 1
  BY Zenon DEF Shown!AtHome, Lines, At
<1>4. ~Shown!AtHome
  BY <1>1, <1>2, <1>3 DEF AtHome, At
<1>5. CASE col > 0
  <2>1. Before.y = row /\ Before.x = col - 1
    BY <1>5 DEF Before
  <2>2. Shown!Before.y = At /\ Shown!Before.x = col - 1
    BY <1>5 DEF Shown!Before, At
  <2> QED
    BY <1>1, <1>4, <1>5, <2>1, <2>2 DEF At
<1>6. CASE ~(col > 0)
  <2>1. Before.y = row - 1 /\ Before.x = Width - 1
    BY <1>6 DEF Before
  <2>2. Shown!Before.y = At - 1 /\ Shown!Before.x = Width - 1
    BY <1>6 DEF Shown!Before, At
  <2>3. row > 0
    BY <1>1, <1>6 DEF AtHome
  <2> QED
    BY <1>1, <1>4, <2>1, <2>2, <2>3 DEF At
<1> QED
  BY <1>5, <1>6

(* A cell of the screen that is redrawn is one of the page. *)
LEMMA RedrawnBefore ==
    ASSUME DisplayOK, ~AtHome, NEW g \in Cell
    PROVE  /\ Redrawn(Before, g) \in [0..Height - 1 -> Line]
           /\ [Lines(gone, screen) EXCEPT ![Shown!Before.y][Shown!Before.x] = g] = Lines(gone, Redrawn(Before, g))
<1>1. PICK y \in 0..Height - 1, x \in 0..Width - 1 :
         y = Before.y /\ x = Before.x /\ Shown!Before.y = Len(gone) + y + 1 /\ Shown!Before.x = x
  BY GoesBack, Zenon
<1>2. PICK redrawn : redrawn = Redrawn(Before, g)
  BY Zenon
<1>3. gone \in Seq(Line) /\ screen \in [0..Height - 1 -> Line]
  BY DEF DisplayOK
<1>4. redrawn = [screen EXCEPT ![y] = [z \in 0..Width - 1 |-> IF z = x THEN g ELSE screen[y][z]]]
  BY <1>1, <1>2, Zenon DEF Redrawn
<1>5. /\ redrawn \in [0..Height - 1 -> Line]
      /\ OneCell(screen, y, x, g, redrawn)
  <2>1. [z \in 0..Width - 1 |-> IF z = x THEN g ELSE screen[y][z]] \in Line
    BY <1>3 DEF Line
  <2> QED
    BY <1>3, <1>4, <2>1 DEF OneCell
<1>6. [Lines(gone, screen) EXCEPT ![Len(gone) + y + 1][x] = g] = Lines(gone, redrawn)
  BY <1>3, <1>5, CellRedrawn
<1> QED
  BY <1>1, <1>2, <1>5, <1>6, Zenon

(* "\b" in kprintf. *)
LEMMA RubbedOut ==
    ASSUME DisplayOK, RubOut
    PROVE  DisplayOK' /\ Shown!RubOut
<1>1. /\ ~AtHome /\ screen' = Redrawn(Before, " ") /\ row' = Before.y /\ col' = Before.x /\ gone' = gone
      /\ " " \in Cell
  BY Screens DEF RubOut, Cell
<1>2. /\ Before.y \in 0..Height - 1 /\ Before.x \in 0..Width - 1 /\ ~Shown!AtHome
      /\ Shown!Before.y = Len(gone) + Before.y + 1 /\ Shown!Before.x = Before.x
  BY <1>1, GoesBack
<1>3. PICK blank \in Cell : blank = " "
  BY <1>1, Zenon
<1>4. /\ Redrawn(Before, blank) \in [0..Height - 1 -> Line]
      /\ [Lines(gone, screen) EXCEPT ![Shown!Before.y][Shown!Before.x] = blank] = Lines(gone, Redrawn(Before, blank))
  BY <1>1, RedrawnBefore
<1>5. DisplayOK'
  BY <1>1, <1>2, <1>3, <1>4 DEF DisplayOK
<1>6. Shown!RubOut <=>
         /\ ~Shown!AtHome
         /\ Lines(gone', screen') = [Lines(gone, screen) EXCEPT ![Shown!Before.y][Shown!Before.x] = " "]
         /\ At' = Shown!Before.y /\ col' = Shown!Before.x
  BY Zenon DEF Shown!RubOut, Lines, At
<1>7. At' = Shown!Before.y
  BY <1>1, <1>2 DEF At
<1>8. Lines(gone', screen') = [Lines(gone, screen) EXCEPT ![Shown!Before.y][Shown!Before.x] = " "]
  BY <1>1, <1>3, <1>4, Zenon
<1> QED
  BY <1>1, <1>2, <1>5, <1>6, <1>7, <1>8, Zenon

(* "\b" in kprint. *)
LEMMA Overtyped ==
    ASSUME DisplayOK, Overtype
    PROVE  DisplayOK' /\ (Shown!Overtype("bs") \/ UNCHANGED display)
<1>1. row' = row /\ col' = col /\ gone' = gone
  BY DEF Overtype
<1>2. CASE AtHome
  <2>1. UNCHANGED display
    BY <1>1, <1>2 DEF Overtype, display
  <2> QED
    BY <2>1 DEF display, DisplayOK
<1>3. CASE ~AtHome
  <2>1. PICK g \in Cell : g = "bs"
    <3>1. "bs" \in Cell
      BY DEF Cell
    <3> QED
      BY <3>1, Zenon
  <2>2. screen' = Redrawn(Before, g)
    BY <1>3, <2>1 DEF Overtype
  <2>3. /\ Redrawn(Before, g) \in [0..Height - 1 -> Line]
        /\ [Lines(gone, screen) EXCEPT ![Shown!Before.y][Shown!Before.x] = g] = Lines(gone, Redrawn(Before, g))
    BY <1>3, RedrawnBefore
  <2>4. DisplayOK'
    BY <1>1, <2>2, <2>3 DEF DisplayOK
  <2>5. ~Shown!AtHome
    BY <1>3, GoesBack
  <2>6. Shown!Overtype(g) <=>
           /\ ~Shown!AtHome
           /\ Lines(gone', screen') = [Lines(gone, screen) EXCEPT ![Shown!Before.y][Shown!Before.x] = g]
           /\ At' = At /\ col' = col
    BY Zenon DEF Shown!Overtype, Lines, At
  <2>7. At' = At
    BY <1>1 DEF At
  <2>8. Lines(gone', screen') = [Lines(gone, screen) EXCEPT ![Shown!Before.y][Shown!Before.x] = g]
    BY <1>1, <2>2, <2>3
  <2> QED
    BY <1>1, <2>1, <2>4, <2>5, <2>6, <2>7, <2>8, Zenon
<1> QED
  BY <1>2, <1>3
-----------------------------------------------------------------------------
(* The steps of kprint and kprintf *)

(* What a step may show. *)
Shows == Shown!Next \/ UNCHANGED display

(* A character typed is shown. *)
LEMMA TypedIsShown == ASSUME NEW g \in Glyph, Shown!Type(g) PROVE Shows
BY Zenon DEF Shown!Next, Shows

(* So is one that is typed over. *)
LEMMA OvertypedIsShown == ASSUME Shown!Overtype("bs") PROVE Shows
<1>1. "bs" \in Glyph \cup {"bs"}
  BY Zenon
<1> QED
  BY <1>1, Zenon DEF Shown!Next, Shows

(* So are a new line and a cell that is rubbed out. *)
LEMMA ReturnedIsShown == ASSUME Shown!Return \/ Shown!RubOut PROVE Shows
BY Zenon DEF Shown!Next, Shows

(* A step that leaves the display alone shows nothing. *)
LEMMA NothingShown == ASSUME DisplayOK, UNCHANGED display PROVE DisplayOK' /\ Shows
BY DEF DisplayOK, Shows, display

(* A character of a text. *)
LEMMA KprintShows ==
    ASSUME DisplayOK, Kprint
    PROVE  DisplayOK' /\ Shows
<1>1. PICK g : g = Head(str)
  BY Zenon
<1>2. \/ g \in Glyph /\ KputChar(g)
      \/ NewLine
      \/ Overtype
      \/ UNCHANGED display
  BY <1>1, Zenon DEF Kprint, KputChar, Down
<1>3. CASE g \in Glyph /\ KputChar(g)
  BY <1>3, CharPut, TypedIsShown
<1>4. CASE NewLine
  BY <1>4, LineEnded, ReturnedIsShown
<1>5. CASE Overtype
  <2>1. CASE Shown!Overtype("bs")
    BY <1>5, <2>1, Overtyped, OvertypedIsShown
  <2>2. CASE UNCHANGED display
    BY <2>2, NothingShown
  <2> QED
    BY <1>5, <2>1, <2>2, Overtyped
<1>6. CASE UNCHANGED display
  BY <1>6, NothingShown
<1> QED
  BY <1>2, <1>3, <1>4, <1>5, <1>6

(* A character of a format. *)
LEMMA KprintfShows ==
    ASSUME DisplayOK, Kprintf
    PROVE  DisplayOK' /\ Shows
<1>1. PICK g : g = Head(fmt)
  BY Zenon
<1>2. \/ g \in Glyph /\ KputChar(g)
      \/ NewLine
      \/ RubOut
      \/ UNCHANGED display
  BY <1>1, Zenon DEF Kprintf, KputChar, Down
<1>3. CASE g \in Glyph /\ KputChar(g)
  BY <1>3, CharPut, TypedIsShown
<1>4. CASE NewLine
  BY <1>4, LineEnded, ReturnedIsShown
<1>5. CASE RubOut
  BY <1>5, RubbedOut, ReturnedIsShown
<1>6. CASE UNCHANGED display
  BY <1>6, NothingShown
<1> QED
  BY <1>2, <1>3, <1>4, <1>5, <1>6

(* What the kernel may print. *)
LEMMA Printed ==
    /\ Texts \subseteq Seq(Glyph \cup Control) /\ Arguments \subseteq Glyph \cup Control
    /\ Formats \subseteq Seq(Glyph \cup Control \cup Conversion)
    /\ \A f \in Resetting : EndsReset(f)
BY TerminalAssumption

(* Nothing is left of "\033[0m" once it is read. *)
LEMMA NothingLeft ==
    ASSUME NEW S, NEW s \in Seq(S), Len(s) = 4
    PROVE  From(s, 5) = <<>>
<1>1. Len(From(s, 5)) = 0 /\ From(s, 5) \in Seq(S)
  <2>1. 5 \in 1..Len(s) + 1 /\ Len(s) - 5 + 1 = 0
    OBVIOUS
  <2> QED
    BY <2>1, SuffixIs
<1> QED
  BY <1>1

(* A sequence of four. *)
LEMMA FourTimes ==
    ASSUME NEW S, NEW b \in S
    PROVE  <<b, b, b, b>> \in Seq(S)
OBVIOUS

(* What a tab is replaced with. *)
LEMMA FourBlanks ==
    ASSUME NEW S, " " \in S
    PROVE  <<" ", " ", " ", " ">> \in Seq(S)
<1>1. PICK b \in S : b = " "
  BY Zenon
<1>2. <<b, b, b, b>> \in Seq(S)
  BY FourTimes, Zenon
<1> QED
  BY <1>1, <1>2, Zenon

(* Kprint leaves the format alone. *)
LEMMA KprintText ==
    ASSUME TextsOK, ResetPending, Kprint
    PROVE  TextsOK' /\ ResetPending'
<1>1. str # <<>> /\ fmt' = fmt /\ last' = last /\ fmt \in Seq(Glyph \cup Control \cup Conversion)
      /\ str \in Seq(Glyph \cup Control)
  BY DEF Kprint, TextsOK
<1>2. ResetPending'
  BY <1>1 DEF ResetPending
<1>3. Tail(str) \in Seq(Glyph \cup Control)
  BY <1>1
<1>4. PICK blanks \in Seq(Glyph \cup Control) : blanks = <<" ", " ", " ", " ">>
  <2>1. " " \in Glyph \cup Control
    BY Screens, Zenon
  <2> QED
    BY <2>1, FourBlanks, Zenon
<1>5. ASSUME ResumesAt(str, TRUE) <= Len(str) + 1
      PROVE  From(str, ResumesAt(str, TRUE)) \in Seq(Glyph \cup Control)
  <2>1. ResumesAt(str, TRUE) = StopsAt(str) + 1
    BY DEF ResumesAt
  <2>2. StopsAt(str) \in 2..Len(str) + 1
    BY <1>1, Parsed
  <2>3. PICK r \in 1..Len(str) + 1 : r = ResumesAt(str, TRUE)
    <3>1. StopsAt(str) + 1 <= Len(str) + 1
      BY <1>5, <2>1, Zenon
    <3>2. PICK stop \in 2..Len(str) + 1 : stop = StopsAt(str)
      BY <2>2, Zenon
    <3>3. Len(str) \in Nat /\ stop + 1 <= Len(str) + 1
      <4>1. Len(str) \in Nat
        BY <1>1, LenProperties, Zenon
      <4> QED
        BY <3>1, <3>2, <4>1, Zenon
    <3>4. stop + 1 \in 1..Len(str) + 1
      BY <3>3
    <3> QED
      BY <2>1, <3>2, <3>4, Zenon
  <2> QED
    BY <1>1, <2>3, SuffixIs, Zenon
<1>6. \/ str' = Tail(str)
      \/ str' = <<" ", " ", " ", " ">> \o Tail(str)
      \/ ResumesAt(str, TRUE) <= Len(str) + 1 /\ str' = From(str, ResumesAt(str, TRUE))
      \/ str' \in Texts
  BY Zenon DEF Kprint
<1>7. str' \in Seq(Glyph \cup Control)
  <2>1. blanks \o Tail(str) \in Seq(Glyph \cup Control)
    BY <1>3, <1>4, ConcatProperties, Zenon
  <2>2. CASE str' = Tail(str)
    BY <1>3, <2>2, Zenon
  <2>3. CASE str' = <<" ", " ", " ", " ">> \o Tail(str)
    BY <1>4, <2>1, <2>3, Zenon
  <2>4. CASE ResumesAt(str, TRUE) <= Len(str) + 1 /\ str' = From(str, ResumesAt(str, TRUE))
    BY <1>5, <2>4, Zenon
  <2>5. CASE str' \in Texts
    BY <2>5, Printed, Zenon
  <2> QED
    BY <1>6, <2>2, <2>3, <2>4, <2>5, Zenon
<1> QED
  BY <1>1, <1>2, <1>7 DEF TextsOK

(* A format whose beginning has been read still ends as it did, or it has been read
   as "\033[0m" and the colours are the first ones. *)
LEMMA KprintfText ==
    ASSUME TextsOK, ResetPending, Kprintf
    PROVE  TextsOK' /\ ResetPending'
<1> DEFINE Character == Glyph \cup Control \cup Conversion
<1>1. str = <<>> /\ fmt # <<>> /\ last' = last /\ fmt \in Seq(Character) /\ str \in Seq(Glyph \cup Control)
  BY DEF Kprintf, TextsOK
<1>2. Tail(fmt) \in Seq(Character) /\ Head(fmt) \in Character
  BY <1>1
<1>3. PICK blanks \in Seq(Character) : blanks = <<" ", " ", " ", " ">>
  <2>1. " " \in Character
    BY Screens, Zenon
  <2> QED
    BY <2>1, FourBlanks, Zenon
<1>4. ASSUME NEW arg \in Arguments
      PROVE  <<arg>> \in Seq(Character)
  <2>1. arg \in Character
    BY Printed, Zenon
  <2> QED
    BY <2>1
<1>5. PICK r \in 1..Len(fmt) + 1 : r = ResumesAt(fmt, FALSE) /\ \A k \in 2..r - 1 : fmt[k] # "esc"
  <2>1. PICK resumes \in 2..Len(fmt) + 1 :
           resumes = ResumesAt(fmt, FALSE) /\ \A k \in 2..resumes - 1 : fmt[k] # "esc"
    BY <1>1, Parsed, Zenon
  <2>2. Len(fmt) \in Nat
    BY <1>1, LenProperties, Zenon
  <2>3. resumes \in 1..Len(fmt) + 1
    BY <2>2
  <2> QED
    BY <2>1, <2>3, Zenon
<1>6. From(fmt, r) \in Seq(Character)
  BY <1>1, SuffixIs
<1>7. \/ Head(fmt) # "esc" /\ fmt' = Tail(fmt)
      \/ Head(fmt) # "esc" /\ fmt' = <<" ", " ", " ", " ">> \o Tail(fmt)
      \/ Head(fmt) # "esc" /\ \E arg \in Arguments : fmt' = <<arg>> \o Tail(fmt)
      \/ Head(fmt) = "esc" /\ Escape(fmt) /\ fmt' = From(fmt, ResumesAt(fmt, FALSE)) /\ str' = str
  <2>1. "esc" \notin Glyph
    BY TerminalAssumption, Zenon DEF Control
  <2>2. Head(fmt) \in Glyph => Head(fmt) # "esc"
    BY <2>1, Zenon
  <2>3. /\ "tab" # "esc" /\ "nl" # "esc" /\ "bs" # "esc" /\ "%s" # "esc" /\ "%c" # "esc" /\ "%?" # "esc"
    OBVIOUS
  <2>4. PICK g : g = Head(fmt)
    BY Zenon
  <2>5. \/ g \in Glyph /\ fmt' = Tail(fmt)
        \/ g = "tab" /\ fmt' = <<" ", " ", " ", " ">> \o Tail(fmt)
        \/ g = "nl" /\ fmt' = Tail(fmt)
        \/ g = "bs" /\ fmt' = Tail(fmt)
        \/ g = "esc" /\ Escape(fmt) /\ fmt' = From(fmt, ResumesAt(fmt, FALSE)) /\ str' = str
        \/ g = "%s" /\ fmt' = Tail(fmt)
        \/ g = "%c" /\ \E arg \in Arguments : fmt' = <<arg>> \o Tail(fmt)
        \/ g = "%?" /\ fmt' = Tail(fmt)
    BY <2>4, Zenon DEF Kprintf
  <2>6. g \in Glyph => g # "esc"
    BY <2>2, <2>4, Zenon
  <2>7. CASE g = "esc"
    <3>1. Escape(fmt) /\ fmt' = From(fmt, ResumesAt(fmt, FALSE)) /\ str' = str
      BY <2>3, <2>5, <2>6, <2>7, Zenon
    <3> QED
      BY <2>4, <2>7, <3>1, Zenon
  <2>8. CASE g # "esc"
    <3>1. \/ fmt' = Tail(fmt)
          \/ fmt' = <<" ", " ", " ", " ">> \o Tail(fmt)
          \/ \E arg \in Arguments : fmt' = <<arg>> \o Tail(fmt)
      BY <2>5, <2>8, Zenon
    <3>2. Head(fmt) # "esc"
      BY <2>4, <2>8, Zenon
    <3> QED
      BY <3>1, <3>2, Zenon
  <2> QED
    BY <2>7, <2>8
<1>8. fmt' \in Seq(Character)
  <2>1. blanks \o Tail(fmt) \in Seq(Character)
    BY <1>2, <1>3, ConcatProperties, Zenon
  <2>2. ASSUME NEW arg \in Arguments PROVE <<arg>> \o Tail(fmt) \in Seq(Character)
    BY <1>2, <1>4, ConcatProperties, Zenon
  <2> HIDE DEF Character
  <2> QED
    BY <1>2, <1>3, <1>5, <1>6, <1>7, <2>1, <2>2, Zenon
<1>9. str' \in Seq(Glyph \cup Control)
  <2>1. str' = str \/ str' \in Texts
    BY Zenon DEF Kprintf
  <2> QED
    BY <1>1, <2>1, Printed, Zenon
<1>10. ASSUME last \in Resetting
       PROVE  EndsReset(fmt') \/ (fmt' = <<>> /\ str' = <<>> /\ current_color' = TtyColor(White, Black))
  <2>1. EndsReset(fmt)
    BY <1>1, <1>10 DEF ResetPending
  <2>2. /\ Head(fmt) # "esc" => EndsReset(Tail(fmt)) /\ \A t \in Seq(Character) : EndsReset(t \o Tail(fmt))
        /\ \A n \in 1..Len(fmt) - 3 : EndsReset(From(fmt, n))
    BY <1>1, <2>1, ResetStays
  <2>3. CASE Head(fmt) # "esc"
    <3> HIDE DEF Character
    <3> QED
      BY <1>3, <1>4, <1>7, <2>2, <2>3, Zenon
  <2>4. CASE Head(fmt) = "esc"
    <3>1. Escape(fmt) /\ fmt' = From(fmt, r) /\ str' = str
      BY <1>5, <1>7, <2>4, Zenon
    <3>2. CASE Len(fmt) = 4
      <4>1. Understood(fmt) /\ r = 5 /\ EscapeCode(fmt) = 0
        <5>1. Understood(fmt) /\ ResumesAt(fmt, FALSE) = 5 /\ EscapeCode(fmt) = 0
          BY <1>1, <2>1, <3>2, ResetIsRead, Zenon
        <5>2. r = 5
          BY <1>5, <5>1, Zenon
        <5> QED
          BY <5>1, <5>2, Zenon
      <4>2. fmt' = <<>>
        <5> HIDE DEF Character
        <5>1. From(fmt, r) = <<>>
          BY <1>1, <3>2, <4>1, NothingLeft, Zenon
        <5> QED
          BY <3>1, <5>1, Zenon
      <4>3. current_fg_color' = White /\ current_bg_color' = Black
            /\ current_color' = TtyColor(current_fg_color', current_bg_color')
        BY <3>1, <4>1, Zenon DEF Escape, Recolor
      <4> QED
        BY <1>1, <3>1, <4>2, <4>3, Zenon
    <3>3. CASE Len(fmt) # 4
      <4>1. PICK n \in Nat : n = Len(fmt)
        <5>1. Len(fmt) \in Nat
          BY <1>1, LenProperties, Zenon
        <5> QED
          BY <5>1, Zenon
      <4>2. n >= 4 /\ n # 4
        BY <2>1, <3>3, <4>1, Zenon DEF EndsReset
      <4>3. fmt[n - 4 + 1] = "esc"
        <5>1. 1 \in 1..4 /\ Reset[1] = "esc"
          BY DEF Reset
        <5>2. fmt[n - 4 + 1] = Reset[1]
          BY <2>1, <4>1, <5>1, Zenon DEF EndsReset
        <5> QED
          BY <5>1, <5>2, Zenon
      <4>4. n - 3 \in 1..n - 3 /\ n - 4 + 1 = n - 3 /\ n - 3 \in 2..n
        BY <4>2
      <4>5. ~(n - 3 \in 2..r - 1)
        BY <1>5, <4>3, <4>4, Zenon
      <4>6. r \in 1..n + 1
        BY <4>1, Zenon
      <4>7. r \in 1..n - 3
        BY <4>4, <4>5, <4>6
      <4>8. EndsReset(From(fmt, r))
        BY <2>2, <4>1, <4>7, Zenon
      <4> QED
        BY <3>1, <4>8, Zenon
    <3> QED
      BY <3>2, <3>3
  <2> QED
    BY <2>3, <2>4
<1>11. ResetPending'
  BY <1>1, <1>10 DEF ResetPending
<1> QED
  BY <1>8, <1>9, <1>11 DEF TextsOK
-----------------------------------------------------------------------------
(* The terminal *)

(* An empty screen shows an empty page, and no message is due. *)
LEMMA TerminalStarts ==
    ASSUME TerminalInit
    PROVE  TerminalInv /\ Shown!Init
<1>1. Width \in Nat \ {0} /\ Height \in Nat \ {0}
  BY Screens, Zenon
<1>2. /\ row = 0 /\ col = 0 /\ gone = <<>> /\ fmt = <<>> /\ str = <<>> /\ last = <<>>
      /\ screen = [y \in 0..Height - 1 |-> BlankLine] /\ current_color = TtyColor(White, Black)
  BY Zenon DEF TerminalInit
<1>3. BlankLine \in Line
  <2>1. PICK b \in Cell : b = " "
    <3>1. " " \in Cell
      BY Screens, Zenon DEF Cell
    <3> QED
      BY <3>1, Zenon
  <2>2. [x \in 0..Width - 1 |-> b] \in Line
    BY DEF Line
  <2> QED
    BY <2>1, <2>2, Zenon DEF BlankLine
<1>4. PICK line \in Line : line = BlankLine
  BY <1>3, Zenon
<1>5. screen = [y \in 0..Height - 1 |-> line]
  BY <1>2, <1>4, Zenon
<1>6. DisplayOK
  <2>1. row \in 0..Height - 1 /\ col \in 0..Width - 1
    BY <1>1, <1>2
  <2>2. gone \in Seq(Line)
    BY <1>2
  <2>3. screen \in [0..Height - 1 -> Line]
    BY <1>5
  <2> QED
    BY <2>1, <2>2, <2>3, Zenon DEF DisplayOK
<1>7. TextsOK
  BY <1>2 DEF TextsOK
<1>8. ResetPending
  BY <1>2, Zenon DEF ResetPending
<1>9. Lines(gone, screen) = [y \in 1..Height |-> line]
  <2>1. gone \in Seq(Line) /\ screen \in [0..Height - 1 -> Line] /\ Len(gone) = 0
    BY <1>2, <1>6 DEF DisplayOK
  <2>2. /\ Lines(gone, screen) \in Seq(Line) /\ Len(Lines(gone, screen)) = Height
        /\ \A y \in 1..Height : Lines(gone, screen)[y] = screen[y - 1]
    BY <1>1, <2>1, LinesAre
  <2> DEFINE blank == [y \in 1..Height |-> line]
  <2>3. blank \in Seq(Line) /\ Len(blank) = Height /\ \A y \in 1..Height : blank[y] = line
    BY <1>1
  <2>4. \A y \in 1..Height : screen[y - 1] = line
    BY <1>1, <1>5
  <2>5. \A y \in 1..Height : Lines(gone, screen)[y] = blank[y]
    BY <2>2, <2>3, <2>4, Zenon
  <2> HIDE DEF blank
  <2> QED
    BY <2>2, <2>3, <2>5, SeqEqual, Zenon DEF blank
<1>10. At = 1
  BY <1>2 DEF At
<1>11. Shown!Init
  BY <1>2, <1>4, <1>9, <1>10, Zenon DEF Shown!Init, Shown!BlankLine, BlankLine, Lines, At
<1> QED
  BY <1>6, <1>7, <1>8, <1>11 DEF TerminalInv

(* Every step keeps the invariant and is one of the page's, or shows nothing. *)
LEMMA TerminalSteps ==
    ASSUME TerminalInv, [TerminalNext]_terminalVars
    PROVE  TerminalInv' /\ [Shown!Next]_(Shown!pageVars)
<1> USE DEF TerminalInv
<1>1. ASSUME Shows
      PROVE  [Shown!Next]_(Shown!pageVars)
  <2>1. CASE UNCHANGED display
    BY <2>1, Zenon DEF display, Shown!pageVars
  <2> QED
    BY <1>1, <2>1, Zenon DEF Shows
<1>2. CASE Call
  <2>1. PICK f \in Formats : fmt' = f /\ last' = f
    BY <1>2, Zenon DEF Call
  <2>2. UNCHANGED display /\ str' = str
    BY <1>2, Zenon DEF Call
  <2>3. TextsOK'
    BY <2>1, <2>2, Printed, Zenon DEF TextsOK
  <2>4. ResetPending'
    BY <2>1, Printed, Zenon DEF ResetPending
  <2> QED
    BY <1>1, <2>2, <2>3, <2>4, NothingShown
<1>3. CASE Kprintf
  BY <1>1, <1>3, KprintfShows, KprintfText
<1>4. CASE Kprint
  BY <1>1, <1>4, KprintShows, KprintText
<1>5. CASE UNCHANGED terminalVars
  <2>1. /\ UNCHANGED display /\ fmt' = fmt /\ str' = str /\ last' = last
        /\ current_color' = current_color
    BY <1>5, Zenon DEF terminalVars, colors
  <2>2. TextsOK' /\ ResetPending'
    BY <2>1, Zenon DEF TextsOK, ResetPending
  <2> QED
    BY <1>1, <2>1, <2>2, NothingShown
<1> QED
  BY <1>2, <1>3, <1>4, <1>5 DEF TerminalNext, Enough

(* Every reachable state has a cursor on the screen, texts of known characters and,
   as long as a message that resets the colours is under way, its end still to read. *)
THEOREM TerminalInvariant == TerminalSpec => []TerminalInv
<1>1. TerminalInit => TerminalInv
  BY TerminalStarts
<1>2. TerminalInv /\ [TerminalNext]_terminalVars => TerminalInv'
  BY TerminalSteps
<1> QED
  BY <1>1, <1>2, PTL DEF TerminalSpec

(* For every set of messages and texts, however they are broken off: once a message
   that ends in "\033[0m" is out, the terminal is back to white on black. *)
THEOREM PlainPrompts == TerminalSpec => []PromptIsPlain
<1>1. TerminalInv => PromptIsPlain
  <2>1. fmt = <<>> => ~EndsReset(fmt)
    BY DEF EndsReset
  <2> QED
    BY <2>1, Zenon DEF TerminalInv, ResetPending, PromptIsPlain
<1> QED
  BY <1>1, TerminalInvariant, PTL

(* For every size of the screen and every text: wrapping, scrolling and rubbing out
   show the end of a page that only grows, and what scrolled away stays as it was. *)
THEOREM TerminalShowsPage == TerminalSpec => ImplementsPage
<1>1. TerminalInit => Shown!Init
  BY TerminalStarts
<1>2. TerminalInv /\ [TerminalNext]_terminalVars => [Shown!Next]_(Shown!pageVars)
  BY TerminalSteps
<1> QED
  BY <1>1, <1>2, TerminalInvariant, PTL DEF TerminalSpec, ImplementsPage, Shown!Spec
=============================================================================
