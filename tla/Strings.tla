------------------------------- MODULE Strings -------------------------------
(***************************************************************************)
(* The string library, kernel/src/lib/string.c, on a memory of Size cells. *)
(* A pointer is the address of a cell; a string ends at a cell that is 0.  *)
(* Loops that copy are functions of the number of their rounds, so that    *)
(* what an earlier round wrote is what a later round reads.                *)
(***************************************************************************)
EXTENDS Words, SequencesExt, FiniteSetsExt

CONSTANTS
    Size,        \* cells of memory
    Character,   \* characters other than the terminator
    Delims       \* the delimiters of strtok

ASSUME StringsAssumption ==
    /\ Size \in Nat \ {0} /\ Character \subseteq Nat \ {0} /\ Delims \subseteq Character

VARIABLES
    mem,
    olds,        \* where strtok goes on
    call,        \* the latest call: operation, destination, source, count
    before,      \* history: the memory before that call
    words        \* history: the tokens strtok handed out

stringVars == <<mem, olds, call, before, words>>

Addr == 0..Size - 1
NoCall == [op |-> "none", d |-> 0, s |-> 0, n |-> 0]

(* The end of the string at p, or Size if none. *)
EndOf(m, p) == Min({a \in p..Size - 1 : m[a] = 0} \cup {Size})
IsString(m, p) == p \in Addr /\ EndOf(m, p) < Size
Strlen(m, p) == EndOf(m, p) - p
Str(m, p) == [i \in 1..Strlen(m, p) |-> m[p + i - 1]]

-----------------------------------------------------------------------------
(* Searching and comparing *)

(* How many characters from p on are in, respectively not in, set. *)
Strspn(m, p, set) == Min({i \in 0..Strlen(m, p) : m[p + i] \notin set})
Strcspn(m, p, set) == Min({i \in 0..Strlen(m, p) : m[p + i] \in set \cup {0}})

(* strcspn's twin returns the place, or nothing at the end of the string. *)
Strpbrk(m, p, set) ==
    {p + i : i \in {Strcspn(m, p, set)} \ {Strlen(m, p)}}

Strcmp(m, p, q) ==
    LET k == Min({i \in 0..Min({Strlen(m, p), Strlen(m, q)}) :
                      m[p + i] # m[q + i] \/ m[p + i] = 0})
    IN  m[p + k] - m[q + k]

(* Fault: the count is looked at one character late. *)
StrncmpLate(m, p, q, n) ==
    LET k == Min({i \in 0..n : m[p + i] # m[q + i] \/ m[p + i] = 0 \/ i = n})
    IN  m[p + k] - m[q + k]

Strncmp(m, p, q, n) ==
    LET k == Min({i \in 0..n - 1 : m[p + i] # m[q + i] \/ m[p + i] = 0 \/ i = n - 1})
    IN  IF n = 0 THEN 0 ELSE m[p + k] - m[q + k]

Memcmp(m, p, q, n) ==
    LET differ == {i \in 0..n - 1 : m[p + i] # m[q + i]}
    IN  IF differ = {} THEN 0
        ELSE IF m[p + Min(differ)] < m[q + Min(differ)] THEN -1 ELSE 1

-----------------------------------------------------------------------------
(* Copying *)

CopyUp(m, d, s, n) ==
    LET copied[i \in 0..n] ==
            IF i = 0 THEN m ELSE [copied[i - 1] EXCEPT ![d + i - 1] = copied[i - 1][s + i - 1]]
    IN  copied[n]

CopyDown(m, d, s, n) ==
    LET copied[i \in 0..n] ==
            IF i = 0 THEN m ELSE [copied[i - 1] EXCEPT ![d + n - i] = copied[i - 1][s + n - i]]
    IN  copied[n]

(* Fault: always upwards. *)
MemmoveUp(m, d, s, n) == CopyUp(m, d, s, n)

Memmove(m, d, s, n) ==
    IF s > d THEN CopyUp(m, d, s, n) ELSE IF s < d THEN CopyDown(m, d, s, n) ELSE m

(* strcpy and strdup: the string and its terminator. *)
Strcpy(m, d, s) == CopyUp(m, d, s, Strlen(m, s) + 1)

(* At most n characters; no terminator if they are used up. *)
Strncpy(m, d, s, n) == CopyUp(m, d, s, Min({n, Strlen(m, s) + 1}))

(* At most n characters and a terminator. *)
Strndup(m, d, s, n) ==
    LET len == Min({n, Strlen(m, s)}) IN [CopyUp(m, d, s, len) EXCEPT ![d + len] = 0]

Strcat(m, d, s) == CopyUp(m, EndOf(m, d), s, Strlen(m, s) + 1)

-----------------------------------------------------------------------------
(* Calls.  The caller's side of the contract is the guard: the cells exist, what
   is read as a string is one, and only memmove may be given overlapping
   blocks. *)

Block(p, n) == p..p + n - 1

StringsInit ==
    /\ mem \in {m \in [Addr -> Character \cup {0}] : m[Size - 1] = 0}
    /\ olds = Size - 1 /\ call = NoCall /\ before = mem /\ words = <<>>

Called(op, d, s, n) ==
    /\ call = NoCall
    /\ call' = [op |-> op, d |-> d, s |-> s, n |-> n]
    /\ before' = mem
    /\ UNCHANGED <<olds, words>>

Move ==
    \E d, s \in Addr, n \in 0..Size :
        /\ Block(d, n) \cup Block(s, n) \subseteq Addr
        /\ \/ Called("move", d, s, n) /\ mem' = Memmove(mem, d, s, n)
           \/ /\ Block(d, n) \cap Block(s, n) = {}
              /\ Called("move", d, s, n) /\ mem' = CopyUp(mem, d, s, n)

(* From a string at s to a block of room cells at d that does not meet it. *)
CopyString ==
    \E d, s \in Addr, n \in 0..Size :
        /\ IsString(mem, s) /\ IsString(mem, d)
        /\ LET len == Strlen(mem, s)
               apart(room) == /\ Block(d, room) \subseteq Addr
                              /\ Block(d, room) \cap Block(s, len + 1) = {}
           IN  \/ n = len + 1 /\ apart(n) /\ Called("copy", d, s, n) /\ mem' = Strcpy(mem, d, s)
               \/ apart(n) /\ Called("ncopy", d, s, n) /\ mem' = Strncpy(mem, d, s, n)
               \/ /\ apart(Min({n, len}) + 1)
                  /\ Called("ndup", d, s, n) /\ mem' = Strndup(mem, d, s, n)
               \/ /\ n = len + 1 /\ apart(Strlen(mem, d) + n)
                  /\ Called("cat", d, s, n) /\ mem' = Strcat(mem, d, s)

(* Fault: the rest starts at the cell that was just cleared. *)
StrtokStuck(s) ==
    LET token == s + Strspn(mem, s, Delims)
        found == Strpbrk(mem, token, Delims)
    IN  IF mem[token] = 0 THEN olds' = token /\ UNCHANGED <<mem, words>>
        ELSE /\ olds' = IF found = {} THEN EndOf(mem, token) ELSE Max(found)
             /\ mem' = [a \in Addr |-> IF a \in found THEN 0 ELSE mem[a]]
             /\ words' = Append(words, Str(mem', token))

(* Skips delimiters, clears the one behind the token and remembers the cell
   behind that. *)
Strtok(s) ==
    LET token == s + Strspn(mem, s, Delims)
        found == Strpbrk(mem, token, Delims)
    IN  IF mem[token] = 0 THEN olds' = token /\ UNCHANGED <<mem, words>>
        ELSE /\ olds' = IF found = {} THEN EndOf(mem, token) ELSE Max(found) + 1
             /\ mem' = [a \in Addr |-> IF a \in found THEN 0 ELSE mem[a]]
             /\ words' = Append(words, Str(mem', token))

(* strtok(s, delims), then strtok(NULL, delims) until nothing is returned. *)
Split ==
    \/ /\ call = NoCall
       /\ \E s \in Addr : Strtok(s) /\ call' = [NoCall EXCEPT !.op = "split", !.s = s]
       /\ before' = mem
    \/ /\ call.op = "split" /\ Strtok(olds)
       /\ call' = [call EXCEPT !.op = IF words' = words THEN "done" ELSE "split"]
       /\ UNCHANGED before

(* Nothing left to call. *)
Done == call.op \notin {"none", "split"} /\ UNCHANGED stringVars

StringsNext == Move \/ CopyString \/ Split \/ Done

StringsSpec == StringsInit /\ [][StringsNext]_stringVars

-----------------------------------------------------------------------------
(* Properties *)

(* memcpy and memmove: every cell of the destination holds what the source held
   before the call, however the blocks overlap; no other cell changes.  strcpy,
   strncpy, strndup and strcat: the string found at the destination is the one
   asked for, and the source is as it was.  strncpy leaves no terminator when its
   count is used up (process.c:129). *)
CopyArrives ==
    LET source == Str(before, call.s)
        first == SubSeq(source, 1, Min({call.n, Len(source)}))
    IN  /\ call.op = "move" =>
              \A a \in Addr : mem[a] = IF a \in Block(call.d, call.n)
                                       THEN before[call.s + a - call.d] ELSE before[a]
        /\ call.op = "copy" => Str(mem, call.d) = source
        /\ call.op = "ndup" => Str(mem, call.d) = first
        /\ call.op = "ncopy" =>
              /\ IsPrefix(first, [i \in 1..Size - call.d |-> mem[call.d + i - 1]])
              /\ call.n > Len(source) => Str(mem, call.d) = source
        /\ call.op = "cat" => Str(mem, call.d) = Str(before, call.d) \o source
        /\ call.op \in {"copy", "ndup", "ncopy", "cat"} => Str(mem, call.s) = source

(* A comparison is 0 exactly when the texts, or their first n characters, are
   equal, and says the opposite when its arguments change places; on every memory
   there is, which are the ones before the first call. *)
CompareAgrees ==
    call = NoCall =>
    \A p, q \in {a \in Addr : IsString(mem, a)} :
        LET first(a, n) == SubSeq(Str(mem, a), 1, Min({n, Strlen(mem, a)})) IN
        /\ (Strcmp(mem, p, q) = 0) = (Str(mem, p) = Str(mem, q))
        /\ Strcmp(mem, p, q) = -Strcmp(mem, q, p)
        /\ \A n \in 0..Size - Max({p, q}) - 1 :
              /\ (Strncmp(mem, p, q, n) = 0) = (first(p, n) = first(q, n))
              /\ Memcmp(mem, p, q, n) = -Memcmp(mem, q, p, n)
              /\ Memcmp(mem, p, q, n) = 0 => Strncmp(mem, p, q, n) = 0

(* strtok hands out the words of the text in order, each once, and stops when
   there is none left (shell.c:39-51 and fat32.c:500-513 rely on it). *)
TokensAreWords ==
    /\ call.op = "split" => IsPrefix(words, WordsOf(Str(before, call.s), Delims))
    /\ call.op = "done" => words = WordsOf(Str(before, call.s), Delims)
=============================================================================
